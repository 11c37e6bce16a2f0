\* Two processes, of which the second may resume what the first left, and one
\* subagent; three events and two turns between them.
SPECIFICATION MCSpec
CONSTANTS
  Sessions = {s1, s2}
  Runs = {first, second, agent}
  Mains = {first, second}
  MaxEvents = 3
  MaxTurns = 2
  MaxStarts = 2
  None = None
SYMMETRY Names
INVARIANTS
  CountMatches
  FreshSessionsLoseNothing
  NumbersFollowEvents
  EndWritten
  FileTellsRun
\* Processes and events run out.
CHECK_DEADLOCK FALSE
