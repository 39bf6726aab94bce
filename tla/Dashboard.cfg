SPECIFICATION FairDashboard
CONSTANTS
  PipeSize = 1
  Limit = 1
  MaxOutput = 2
  TotalCases = 2
  RecentLimit = 1
  MaxKeys = 2
  Pressable = {"interrupt", "close"}
  Verdicts = {"unsupported"}
  Expectation <- MCExpectation
  OtherResults <- MCOtherResults
INVARIANTS
  LogIsExact
  EveryKillHasItsCause
  TerminalIsHandedBack
  SummaryIsSeen
  BoardMatchesReport
PROPERTIES
  RunEnds
  SessionEnds
