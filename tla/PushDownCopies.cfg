SPECIFICATION Spec
CONSTANT Plans <- CopyPlans
INVARIANT AppliedOnlyWhereDefined
CHECK_DEADLOCK FALSE
