SPECIFICATION Spec
CONSTANTS
  Users <- Users2
  NoEmail <- Nobody
  Zones <- Zones3
  Below <- Below3
  Rules <- SharedBase
  Procs = {p1, p2}
  Ops = {"create", "join", "add"}
  Logins = {"session"}
  InitTables <- BaseTable
  MaxRequests = 0
  MaxFaults = 0
INVARIANTS SubtreeOwnership SubtreeInv
SYMMETRY ProcSymmetry
