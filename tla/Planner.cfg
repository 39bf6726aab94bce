SPECIFICATION Spec
CONSTANTS
  Width <- MCWidth
  Parents <- MCParents
  Plans <- MCPlans
CHECK_DEADLOCK FALSE
INVARIANTS
  OutputIsAsked
  ChecksumIsAsAsked
  NothingAskedIsUndone
  PlanApplies
