SPECIFICATION Spec
CONSTANTS
  Users <- Users3
  NoEmail <- Nobody
  Zones <- Zones3
  Below <- Below3
  Rules <- SharedTop
  Procs = {p1, p2}
  Ops = {"create", "join"}
  Logins = {"session"}
  InitTables <- MidTable
  MaxRequests = 2
  MaxFaults = 0
INVARIANTS SubtreeOwnership
CHECK_DEADLOCK FALSE
