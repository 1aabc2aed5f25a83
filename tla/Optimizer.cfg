SPECIFICATION TypesSpec
CONSTANTS
  Plans <- MCOptimizerPlans
  Typings <- MCTypings
  Restrictions <- MCRestrictions
  RowsOf <- MeaningOf
  HostValue = 1
  Unlimited = Unlimited
  None = None
  LeftTag = LeftTag
  RightTag = RightTag
  Tags <- MCTags
INVARIANTS SameRowsCompiled NothingUnused IndexesAsTheyAllow OnlyWhatRuns TypesKept NeverSilent
