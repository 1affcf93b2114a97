SPECIFICATION Spec
CONSTANTS
  Procs = {p1}
  Users <- Users3
  SuperAdmins <- Root
  LabelOf <- Labels3
  Lower <- LowerOf
  Names <- SomeNames
  Drafts <- SoaNamedA
  Grants <- SomeGrants
  InitRules <- NoRules
  InitGrants <- LabToDan
  MaxRules = 3
  MaxDelegations = 2
  MaxRequests = 1
  MaxFaults = 0
CHECK_DEADLOCK FALSE
INVARIANTS PatternsWithinSoa
