SPECIFICATION Spec
CONSTANTS
  Procs = {p1, p2}
  Users <- Users3
  SuperAdmins <- Root
  LabelOf <- Labels3
  Lower <- LowerOf
  Names <- SomeNames
  Drafts <- SomeDrafts
  Grants <- SomeGrants
  InitRules <- TwoRules
  InitGrants <- LabToDan
  MaxRules = 3
  MaxDelegations = 2
  MaxRequests = 3
  MaxFaults = 1
SYMMETRY ProcSymmetry
INVARIANTS TypeOK RequestsChecked PatternsWithinSoa ListingMatchesRights ChainsReachTheSoa
PROPERTIES DelegatedReach DeletedRulesStayDeleted
CHECK_DEADLOCK FALSE
