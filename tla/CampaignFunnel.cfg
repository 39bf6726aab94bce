SPECIFICATION Spec
CONSTANTS
  Campaign = {c1}
  Sample = {"a", "b"}
  Plan = {1, 2, 3}
  Output <- MCOutput
  Verdict <- MCVerdicts
  Specs <- MCAllSpecs
  MaxCases = 3
  NoPlan = NoPlan
  NoSample = NoSample
INVARIANTS
  OracleBudgetRespected
  ReportsMatchSamples
  StopReasonIsTrue
  JudgedAtMostOnce
  NoCaseIsSkipped
  CancelledLeavesNoVerdict
