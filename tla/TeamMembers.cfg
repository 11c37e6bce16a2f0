\* Three calls over one team, two at a time, from any disk, and calls of status.
SPECIFICATION MembersFairSpec
CONSTANTS
  Agents = {a1, a2}
  Callers = {c1, c2}
  MaxCalls = 3
  None = None
  Kinds = {"in_process", "subprocess"}
INVARIANT FinishedIsDead
PROPERTIES OnlyRemovalsRemove ReplacesDead TeamCallsReturn
\* The calls run out.
CHECK_DEADLOCK FALSE
