SPECIFICATION Spec
CONSTANTS
  Users <- Users3
  NoEmail <- Nobody
  Zones <- Zones3
  Below <- Below3
  Rules <- OwnedTop
  Procs = {p1}
  Ops = {"create", "join", "add", "remove", "rotate", "delete", "orphan"}
  Logins = {"session", "token"}
  InitTables <- EmptyTable
  MaxRequests = 0
  MaxFaults = 0
INVARIANTS TypeOK OwnersHoldKeys AloneNeverFails RemovalRevokes CreationDelegates AgreeInv
PROPERTIES LastOwnerStays ImplementsOwnership
