SPECIFICATION Spec
CONSTANTS
  Users <- Users2
  NoEmail <- Nobody
  Zones <- Zones2
  Below <- Below2
  Rules <- MixedRules
  Procs = {p1, p2}
  Ops = {"create", "join", "add", "remove", "rotate", "delete", "orphan"}
  Logins = {"session"}
  InitTables <- MixedTables
  MaxRequests = 2
  MaxFaults = 1
INVARIANTS OwnershipFollowsPolicy RequestsVetted KeysFollowPolicy KeysVetted
CHECK_DEADLOCK FALSE
SYMMETRY ProcSymmetry
