SPECIFICATION LivenessSpec
CONSTANTS
  Plans <- MCLivenessPlans
  RowsOf <- MeaningOf
  HostValue = 1
  Unlimited = Unlimited
  LeftTag = LeftTag
  RightTag = RightTag
  Tags <- MCTags
INVARIANTS SameRowsThroughout InOneProcess RunsToTheEnd CarriesWhatIsUsed NeverBroken KilledNeverUsed KilledOnEachWay
