SPECIFICATION Spec
CONSTANTS
  Users <- Users2
  InitTokens <- SomeTokens
  Lifetime = 1
  MaxTime = 1
  MaxTokens = 3
  Procs = {p1, p2}
  Ops = {"list", "create", "delete", "listTokens", "createToken", "deleteToken"}
  Apex = "a.p"
  InZone <- Names
  Values = {"v0", "v1", "v2", "w0", "w1"}
  Bodies <- SomeBodies
  InitRecords <- SomeRecords
  MaxRequests = 2
  MaxFaults = 1
SYMMETRY ProcSymmetry
INVARIANTS TypeOK CredentialsHold UpsertsReplace
PROPERTIES ChangesAreWarranted TokenChangesAreWarranted OthersUntouched
CHECK_DEADLOCK FALSE
