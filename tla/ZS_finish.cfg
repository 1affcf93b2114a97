SPECIFICATION FairSpec
CONSTANTS
  Users <- Users2
  NoEmail <- Nobody
  Zones <- Zones2
  Below <- Below2
  Rules <- MixedRules
  Procs = {p1, p2}
  Ops = {"create", "join", "add", "remove", "rotate", "delete"}
  Logins = {"session"}
  InitTables <- FullTable
  MaxRequests = 2
  MaxFaults = 1
PROPERTIES RequestsFinish
CHECK_DEADLOCK FALSE
