\* One agent in any isolation, its clean-up listener and another listener that
\* may be there before the agent is.
SPECIFICATION FairSpawnSpec
CONSTANTS
  Tasks = {a1}
  Listeners = {a1, l1}
  Modes = {"in_process", "subprocess", "worktree"}
PROPERTIES
  EveryEndIsAnnounced
  RegisteredWorktreeRemoved
\* Agent ids run out.
CHECK_DEADLOCK FALSE
