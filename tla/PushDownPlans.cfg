SPECIFICATION Spec
CONSTANT Plans <- AllPlans
INVARIANTS
  NoTermLost
  AppliedOnlyWhereDefined
  ResultPreserved
CHECK_DEADLOCK FALSE
