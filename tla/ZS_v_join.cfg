SPECIFICATION Spec
CONSTANTS
  Users <- Users2
  NoEmail <- Nobody
  Zones <- Zones3
  Below <- Below3
  Rules <- SharedBase
  Procs = {p1}
  Ops = {"create", "join"}
  Logins = {"session"}
  InitTables <- EmptyTable
  MaxRequests = 0
  MaxFaults = 1
INVARIANTS JoinGivesKey
