SPECIFICATION Spec
CONSTANTS
  Users <- Users2
  NoEmail <- Nobody
  Zones <- Zones3
  Below <- Below3
  Rules <- SharedBase
  Procs = {p1, p2}
  Ops = {"remove"}
  Logins = {"session"}
  InitTables <- SharedTables
  MaxRequests = 2
  MaxFaults = 0
PROPERTIES LastOwnerStays
CHECK_DEADLOCK FALSE
