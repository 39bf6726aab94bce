SPECIFICATION FairSpec
CONSTANTS
  Campaign = {c1, c2}
  Sample = {"a", "b"}
  Plan = {1, 3}
  Output <- MCOutput
  Verdict <- MCOneVerdict
  Specs <- MCNovelty1
  MaxCases = 1
  NoPlan = NoPlan
  NoSample = NoSample
INVARIANTS
  PlansComeWithBytes
  DiscoveriesSurvive
PROPERTIES
  ImplementsSharedIndex
  EveryCampaignEnds
