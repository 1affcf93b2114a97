SPECIFICATION Spec
CONSTANTS
  Users <- Users2
  NoEmail <- Nobody
  Zones <- Zones3
  Below <- Below3
  Rules <- SharedBase
  Procs = {p1}
  Ops = {"create", "join", "add", "remove", "rotate", "delete", "orphan"}
  Logins = {"session"}
  InitTables <- EmptyTable
  MaxRequests = 0
  MaxFaults = 2
INVARIANTS AnswersAreTrue OffersAreHonoured AloneInv CourseInv
