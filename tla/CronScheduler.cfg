\* Two overlapping calls at a time, three in all, over one job.
SPECIFICATION FairSpec
CONSTANTS
  Loops = {l1, l2, l3}
  Callers = {c1, c2}
  MaxCalls = 3
  None = None
INVARIANTS LoopsAccounted
PROPERTIES DisabledLoopsEnd
\* The calls run out.
CHECK_DEADLOCK FALSE
