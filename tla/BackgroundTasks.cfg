\* Two tasks of either kind and one listener: creators, watchers, stop_task
\* and the listener's registration interleave in every order.
SPECIFICATION Spec
CONSTANTS
  Tasks = {t1, t2}
  Listeners = {l1}
SYMMETRY TaskSymmetry
INVARIANTS
  GaugeCountsOpenTasks
  OutputDrained
  KillArmSeesKilled
PROPERTIES
  ImplementsLedger
\* Task and listener ids run out.
CHECK_DEADLOCK FALSE
