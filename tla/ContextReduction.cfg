\* The history may reach its bound, so the system may stop.
CHECK_DEADLOCK FALSE
SPECIFICATION Spec
CONSTANTS
  Usable = 15
  SoftPercent = 80
  TailPercent = 20
  PruneThreshold = 2
  MarkerSize = 1
  Overhead = 2
  SummarySize = 2
  CompactOverhead = 6
  UserSizes = {1, 10}
  AnswerSizes = {1, 5}
  CallSizes = {1}
  ResultSizes = {1, 5}
  MaxCalls = 2
  MaxMessages = 7
  MaxCrashes = 1
  Strict = TRUE
INVARIANTS
  PairsWhole
  FreshShown
PROPERTY
  SummariesKept
