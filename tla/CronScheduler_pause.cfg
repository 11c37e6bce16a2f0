\* One call at a time: the comment about pause.
SPECIFICATION FairSpec
CONSTANTS
  Loops = {l1, l2, l3}
  Callers = {c1}
  MaxCalls = 4
  None = None
INVARIANTS PauseSticks
\* The calls run out.
CHECK_DEADLOCK FALSE
