\* Up to four replies with at most two calls each, over runs that end in every
\* way the loop knows; histories long enough to be compacted repeatedly.
SPECIFICATION FairSpec
CONSTANTS
  Keep = 2
  MaxTurns = 2
  MaxCalls = 2
  MaxReplies = 4
  MaxLen = 6
INVARIANTS
  RequestPaired
  HistoryShape
PROPERTIES
  CompactionAlternates
  CancelEndsRun
