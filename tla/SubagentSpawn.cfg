\* Two agents, each in a worktree or in-process: their spawns, watchers and
\* completion listeners interleave, and either may be stopped or dropped.
SPECIFICATION SpawnSpec
CONSTANTS
  Tasks = {a1, a2}
  Listeners = {a1, a2}
  Modes = {"in_process", "worktree"}
SYMMETRY AgentSymmetry
INVARIANTS
  WorktreeOutlivesAgent
  NotificationMatchesStatus
\* Agent ids run out.
CHECK_DEADLOCK FALSE
