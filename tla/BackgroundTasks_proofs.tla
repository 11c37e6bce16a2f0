----------------------- MODULE BackgroundTasks_proofs -----------------------
(***************************************************************************)
(* Proofs about BackgroundTasks for any finite set of tasks and any set of *)
(* listeners: type correctness, the inductive invariant Consistent, the    *)
(* safety properties it implies and the refinement of TaskLedger.  Then    *)
(* about SubagentSpawn, for any finite set of agents with a listener each: *)
(* it runs the task manager as BackgroundTasks describes it, so that what  *)
(* is proved there holds here, and its own two safety properties.          *)
(***************************************************************************)
EXTENDS SubagentSpawn, FiniteSetTheorems, TLAPS

(***************************************************************************)
(* Type correctness.                                                       *)
(***************************************************************************)

\* The initial state, an empty table, is well typed.
LEMMA TypeInit == Init => TypeOK
BY DEF Init, TypeOK, Kinds, Steps, Terminal

\* Every locked section and every step between two of them keeps the types.
LEMMA TypeStep == TypeOK /\ [Next]_vars => TypeOK'
<1> SUFFICES ASSUME TypeOK, [Next]_vars PROVE TypeOK'
  OBVIOUS
<1> USE DEF TypeOK, Kinds, Steps, Terminal
<1>1. ASSUME NEW t \in Tasks, NEW k \in {"command", "in_process"}, Count(t, k)
      PROVE  TypeOK'
  BY <1>1 DEF Count
<1>2. ASSUME NEW t \in Tasks, Abandon(t)
      PROVE  TypeOK'
  BY <1>2 DEF Abandon
<1>3. ASSUME NEW t \in Tasks, Insert(t)
      PROVE  TypeOK'
  BY <1>3 DEF Insert
<1>4. ASSUME NEW t \in Tasks, SpawnWatcher(t)
      PROVE  TypeOK'
  <2>1. CASE kind[t] = "command"
    <3>1. pc' = [pc EXCEPT ![t] = "launching"] /\ work' = work
      BY <1>4, <2>1 DEF SpawnWatcher
    <3>. QED
      BY <1>4, <3>1 DEF SpawnWatcher
  <2>2. CASE kind[t] = "in_process"
    <3>1. /\ pc' = [pc EXCEPT ![t] = "selecting"]
          /\ work' = [work EXCEPT ![t] = "alive"]
      BY <1>4, <2>2 DEF SpawnWatcher
    <3>2. pc' \in [Tasks -> Steps]
      BY <3>1
    <3>3. work' \in [Tasks -> {"none", "alive", "ok", "err", "gone"}]
      BY <3>1
    <3>. QED
      BY <1>4, <3>2, <3>3 DEF SpawnWatcher
  <2>. QED
    BY <1>4, <2>1, <2>2 DEF SpawnWatcher
<1>5. ASSUME NEW t \in Tasks, Launch(t)
      PROVE  TypeOK'
  BY <1>5 DEF Launch
<1>6. ASSUME NEW t \in Tasks, LaunchFails(t)
      PROVE  TypeOK'
  BY <1>6 DEF LaunchFails, Settle, Registered
<1>7. ASSUME NEW t \in Tasks, OpenLog(t)
      PROVE  TypeOK'
  BY <1>7 DEF OpenLog
<1>8. ASSUME NEW t \in Tasks, OpenLogFails(t)
      PROVE  TypeOK'
  BY <1>8 DEF OpenLogFails, Settle, Registered
<1>9. ASSUME NEW t \in Tasks, NoticeExit(t)
      PROVE  TypeOK'
  BY <1>9 DEF NoticeExit
<1>10. ASSUME NEW t \in Tasks, NoticeKill(t)
       PROVE  TypeOK'
  BY <1>10 DEF NoticeKill
<1>11. ASSUME NEW t \in Tasks, Finish(t)
       PROVE  TypeOK'
  BY <1>11 DEF Finish, Settle, Registered, FinalStatus, FinalCode, KeepsRecord
<1>12. ASSUME NEW t \in Tasks, NEW l \in Listeners, CallListener(t, l)
       PROVE  TypeOK'
  <2>1. news[t] \in {"none", "running"} \cup Terminal
    OBVIOUS
  <2>2. heard[l] \in [Tasks -> Seq({"none", "running"} \cup Terminal)]
    OBVIOUS
  <2>3. Append(heard[l][t], news[t]) \in Seq({"none", "running"} \cup Terminal)
    BY <2>1, <2>2
  <2>4. [heard[l] EXCEPT ![t] = Append(@, news[t])] \in [Tasks -> Seq({"none", "running"} \cup Terminal)]
    BY <2>2, <2>3
  <2>. QED
    BY <1>12, <2>4 DEF CallListener
<1>13. ASSUME NEW t \in Tasks, WatcherReturns(t)
       PROVE  TypeOK'
  BY <1>13 DEF WatcherReturns
<1>14. ASSUME NEW t \in Tasks, JobPanics(t)
       PROVE  TypeOK'
  BY <1>14 DEF JobPanics
<1>15. ASSUME NEW t \in Tasks, NEW r \in {"ok", "err"}, JobReturns(t, r)
       PROVE  TypeOK'
  BY <1>15 DEF JobReturns
<1>16. ASSUME NEW t \in Tasks, NEW r \in {"ok", "err"}, ChildExits(t, r)
       PROVE  TypeOK'
  BY <1>16 DEF ChildExits
<1>17. ASSUME NEW t \in Tasks, ChildForks(t)
       PROVE  TypeOK'
  BY <1>17 DEF ChildForks
<1>18. ASSUME NEW t \in Tasks, HeirExits(t)
       PROVE  TypeOK'
  BY <1>18 DEF HeirExits
<1>19. ASSUME NEW t \in Tasks, StopMark(t)
       PROVE  TypeOK'
  BY <1>19 DEF StopMark
<1>20. ASSUME NEW t \in Tasks, StopSend(t)
       PROVE  TypeOK'
  BY <1>20 DEF StopSend
<1>21. ASSUME NEW l \in Listeners, Register(l)
      PROVE  TypeOK'
  BY <1>21 DEF Register
<1>22. ASSUME NEW l \in Listeners, Unregister(l)
      PROVE  TypeOK'
  BY <1>22 DEF Unregister
<1>23. ASSUME NEW l \in Listeners, RemoveListener(l)
      PROVE  TypeOK'
  BY <1>23 DEF RemoveListener
<1>24. ASSUME NEW t \in Tasks, Log(t)
       PROVE  TypeOK'
  <2>1. CASE Emit(t)
    BY <2>1 DEF Emit
  <2>2. CASE CopyOutput(t)
    <3>1. CASE output' = [output EXCEPT ![t] = "writing"]
      BY <2>2, <3>1 DEF CopyOutput
    <3>2. CASE output' = [output EXCEPT ![t] = "none"]
      BY <2>2, <3>2 DEF CopyOutput
    <3>. QED
      BY <2>2, <3>1, <3>2 DEF CopyOutput
  <2>3. CASE WriteEnds(t)
    BY <2>3 DEF WriteEnds
  <2>. QED
    BY <1>24, <2>1, <2>2, <2>3 DEF Log
<1>25. CASE UNCHANGED vars
  BY <1>25 DEF vars
<1> HIDE DEF TypeOK, Kinds, Steps, Terminal
<1>. QED
  BY <1>1, <1>2, <1>3, <1>4, <1>5, <1>6, <1>7, <1>8, <1>9, <1>10, <1>11, <1>12,
     <1>13, <1>14, <1>15, <1>16, <1>17, <1>18, <1>19, <1>20, <1>21, <1>22, <1>23, <1>24, <1>25
     DEF Next, Create, Watch, Attend, Job, Process, Stop, Listen

\* The manager's state is well typed in every reachable state.
THEOREM TypeCorrect == Spec => []TypeOK
<1>1. Init => TypeOK
  BY TypeInit
<1>2. TypeOK /\ [Next]_vars => TypeOK'
  BY TypeStep
<1>. QED
  BY <1>1, <1>2, PTL DEF Spec

(***************************************************************************)
(* The gauge.  Only Count adds a task to Counted, only Settle removes one. *)
(***************************************************************************)

\* The gauge counts finitely many tasks.
LEMMA CountedIsFinite == IsFiniteSet(Counted)
<1>1. Counted \in SUBSET Tasks
  BY DEF Counted
<1>. QED
  BY <1>1, FS_Subset, TasksFinite

\* Settling a task that is counted keeps the gauge exact.
LEMMA SettleCounts ==
  ASSUME TypeOK, GaugeCountsOpenTasks,
         NEW t \in Tasks, NEW s, NEW c, t \in Counted, Settle(t, s, c)
  PROVE  GaugeCountsOpenTasks'
<1>1. Counted' = Counted \ {t}
  BY DEF Counted, Settle, TypeOK
<1>2. Cardinality(Counted \ {t}) = Cardinality(Counted) - 1
  BY CountedIsFinite, FS_RemoveElement
<1>. QED
  BY <1>1, <1>2 DEF Settle, GaugeCountsOpenTasks

\* The gauge stays exact in every step (ENG-5).
LEMMA GaugeStep ==
  TypeOK /\ GaugeCountsOpenTasks /\ [Next]_vars => GaugeCountsOpenTasks'
<1> SUFFICES ASSUME TypeOK, GaugeCountsOpenTasks, [Next]_vars
             PROVE  GaugeCountsOpenTasks'
  OBVIOUS
<1>0. ASSUME gauge' = gauge, Counted' = Counted PROVE GaugeCountsOpenTasks'
  BY <1>0 DEF GaugeCountsOpenTasks
<1>1. ASSUME NEW t \in Tasks, NEW k \in {"command", "in_process"}, Count(t, k)
      PROVE  GaugeCountsOpenTasks'
  <2>1. Counted' = Counted \cup {t} /\ t \notin Counted
    BY <1>1 DEF Count, Counted, TypeOK
  <2>2. Cardinality(Counted \cup {t}) = Cardinality(Counted) + 1
    BY <2>1, CountedIsFinite, FS_AddElement
  <2>. QED
    BY <1>1, <2>1, <2>2 DEF Count, GaugeCountsOpenTasks
<1>2. ASSUME NEW t \in Tasks, Abandon(t)
      PROVE  GaugeCountsOpenTasks'
  <2>1. Counted' = Counted
    BY <1>2 DEF Abandon, Counted, TypeOK
  <2>. QED
    BY <1>2, <2>1, <1>0 DEF Abandon
<1>3. ASSUME NEW t \in Tasks, Insert(t)
      PROVE  GaugeCountsOpenTasks'
  <2>1. Counted' = Counted
    BY <1>3 DEF Insert, Counted, TypeOK
  <2>. QED
    BY <1>3, <2>1, <1>0 DEF Insert
<1>4. ASSUME NEW t \in Tasks, SpawnWatcher(t)
      PROVE  GaugeCountsOpenTasks'
  <2>1. Counted' = Counted
    BY <1>4 DEF SpawnWatcher, Counted, TypeOK
  <2>. QED
    BY <1>4, <2>1, <1>0 DEF SpawnWatcher
<1>5. ASSUME NEW t \in Tasks, Launch(t)
      PROVE  GaugeCountsOpenTasks'
  <2>1. Counted' = Counted
    BY <1>5 DEF Launch, Counted, TypeOK
  <2>. QED
    BY <1>5, <2>1, <1>0 DEF Launch
<1>6. ASSUME NEW t \in Tasks, LaunchFails(t)
      PROVE  GaugeCountsOpenTasks'
  BY <1>6, SettleCounts DEF LaunchFails, Counted
<1>7. ASSUME NEW t \in Tasks, OpenLog(t)
      PROVE  GaugeCountsOpenTasks'
  <2>1. Counted' = Counted
    BY <1>7 DEF OpenLog, Counted, TypeOK
  <2>. QED
    BY <1>7, <2>1, <1>0 DEF OpenLog
<1>8. ASSUME NEW t \in Tasks, OpenLogFails(t)
      PROVE  GaugeCountsOpenTasks'
  BY <1>8, SettleCounts DEF OpenLogFails, Counted
<1>9. ASSUME NEW t \in Tasks, NoticeExit(t)
      PROVE  GaugeCountsOpenTasks'
  <2>1. Counted' = Counted
    BY <1>9 DEF NoticeExit, Counted, TypeOK
  <2>. QED
    BY <1>9, <2>1, <1>0 DEF NoticeExit
<1>10. ASSUME NEW t \in Tasks, NoticeKill(t)
       PROVE  GaugeCountsOpenTasks'
  <2>1. Counted' = Counted
    BY <1>10 DEF NoticeKill, Counted, TypeOK
  <2>. QED
    BY <1>10, <2>1, <1>0 DEF NoticeKill
<1>11. ASSUME NEW t \in Tasks, Finish(t)
       PROVE  GaugeCountsOpenTasks'
  BY <1>11, SettleCounts DEF Finish, Counted
<1>12. ASSUME NEW t \in Tasks, NEW l \in Listeners, CallListener(t, l)
       PROVE  GaugeCountsOpenTasks'
  BY <1>12, <1>0 DEF CallListener, Counted
<1>13. ASSUME NEW t \in Tasks, WatcherReturns(t)
       PROVE  GaugeCountsOpenTasks'
  <2>1. Counted' = Counted
    BY <1>13 DEF WatcherReturns, Counted, TypeOK
  <2>. QED
    BY <1>13, <2>1, <1>0 DEF WatcherReturns
<1>14. ASSUME NEW t \in Tasks, JobPanics(t)
       PROVE  GaugeCountsOpenTasks'
  <2>1. Counted' = Counted
    BY <1>14 DEF JobPanics, Counted, TypeOK
  <2>. QED
    BY <1>14, <2>1, <1>0 DEF JobPanics
<1>15. ASSUME NEW t \in Tasks, NEW r \in {"ok", "err"}, JobReturns(t, r)
       PROVE  GaugeCountsOpenTasks'
  <2>1. Counted' = Counted
    BY <1>15 DEF JobReturns, Counted, TypeOK
  <2>. QED
    BY <1>15, <2>1, <1>0 DEF JobReturns
<1>16. ASSUME NEW t \in Tasks, NEW r \in {"ok", "err"}, ChildExits(t, r)
       PROVE  GaugeCountsOpenTasks'
  BY <1>16, <1>0 DEF ChildExits, Counted
<1>17. ASSUME NEW t \in Tasks, ChildForks(t)
       PROVE  GaugeCountsOpenTasks'
  BY <1>17, <1>0 DEF ChildForks, Counted
<1>18. ASSUME NEW t \in Tasks, HeirExits(t)
       PROVE  GaugeCountsOpenTasks'
  BY <1>18, <1>0 DEF HeirExits, Counted
<1>19. ASSUME NEW t \in Tasks, StopMark(t)
       PROVE  GaugeCountsOpenTasks'
  BY <1>19, <1>0 DEF StopMark, Counted
<1>20. ASSUME NEW t \in Tasks, StopSend(t)
       PROVE  GaugeCountsOpenTasks'
  BY <1>20, <1>0 DEF StopSend, Counted
<1>21. ASSUME NEW l \in Listeners, Register(l)
      PROVE  GaugeCountsOpenTasks'
  BY <1>21, <1>0 DEF Register, Counted
<1>22. ASSUME NEW l \in Listeners, Unregister(l)
      PROVE  GaugeCountsOpenTasks'
  BY <1>22, <1>0 DEF Unregister, Counted
<1>23. ASSUME NEW l \in Listeners, RemoveListener(l)
      PROVE  GaugeCountsOpenTasks'
  BY <1>23, <1>0 DEF RemoveListener, Counted
<1>24. ASSUME NEW t \in Tasks, Log(t)
       PROVE  GaugeCountsOpenTasks'
  BY <1>24, <1>0 DEF Log, Emit, CopyOutput, WriteEnds, Counted
<1>25. CASE UNCHANGED vars
  BY <1>25, <1>0 DEF vars, Counted
<1>. QED
  BY <1>1, <1>2, <1>3, <1>4, <1>5, <1>6, <1>7, <1>8, <1>9, <1>10, <1>11, <1>12,
     <1>13, <1>14, <1>15, <1>16, <1>17, <1>18, <1>19, <1>20, <1>21, <1>22, <1>23, <1>24, <1>25
     DEF Next, Create, Watch, Attend, Job, Process, Stop, Listen

\* The record goes through its stages whoever writes it: the creator, stop_task
\* or the watcher.
LEMMA RecordStep ==
  Consistent /\ [Next]_vars => \A x \in Tasks : RecordFollowsWatcher(x)'
<1> SUFFICES ASSUME Consistent, [Next]_vars PROVE \A x \in Tasks : RecordFollowsWatcher(x)'
  OBVIOUS
<1> USE DEF Consistent, RecordFollowsWatcher, Settled, InTable, Terminal, TypeOK
<1>1. ASSUME NEW t \in Tasks, NEW k \in {"command", "in_process"}, Count(t, k)
      PROVE  \A x \in Tasks : RecordFollowsWatcher(x)'
  BY <1>1 DEF Count
<1>2. ASSUME NEW t \in Tasks, Abandon(t)
      PROVE  \A x \in Tasks : RecordFollowsWatcher(x)'
  BY <1>2 DEF Abandon
<1>3. ASSUME NEW t \in Tasks, Insert(t)
      PROVE  \A x \in Tasks : RecordFollowsWatcher(x)'
  BY <1>3 DEF Insert
<1>4. ASSUME NEW t \in Tasks, SpawnWatcher(t)
      PROVE  \A x \in Tasks : RecordFollowsWatcher(x)'
  BY <1>4 DEF SpawnWatcher
<1>5. ASSUME NEW t \in Tasks, Launch(t)
      PROVE  \A x \in Tasks : RecordFollowsWatcher(x)'
  BY <1>5 DEF Launch
<1>6. ASSUME NEW t \in Tasks, LaunchFails(t)
      PROVE  \A x \in Tasks : RecordFollowsWatcher(x)'
  BY <1>6 DEF LaunchFails, Settle
<1>7. ASSUME NEW t \in Tasks, OpenLog(t)
      PROVE  \A x \in Tasks : RecordFollowsWatcher(x)'
  BY <1>7 DEF OpenLog
<1>8. ASSUME NEW t \in Tasks, OpenLogFails(t)
      PROVE  \A x \in Tasks : RecordFollowsWatcher(x)'
  BY <1>8 DEF OpenLogFails, Settle
<1>9. ASSUME NEW t \in Tasks, NoticeExit(t)
      PROVE  \A x \in Tasks : RecordFollowsWatcher(x)'
  BY <1>9 DEF NoticeExit
<1>10. ASSUME NEW t \in Tasks, NoticeKill(t)
       PROVE  \A x \in Tasks : RecordFollowsWatcher(x)'
  BY <1>10 DEF NoticeKill
<1>11. ASSUME NEW t \in Tasks, Finish(t)
       PROVE  \A x \in Tasks : RecordFollowsWatcher(x)'
  BY <1>11 DEF Finish, Settle, FinalStatus, FinalCode, KeepsRecord
<1>12. ASSUME NEW t \in Tasks, NEW l \in Listeners, CallListener(t, l)
       PROVE  \A x \in Tasks : RecordFollowsWatcher(x)'
  BY <1>12 DEF CallListener
<1>13. ASSUME NEW t \in Tasks, WatcherReturns(t)
       PROVE  \A x \in Tasks : RecordFollowsWatcher(x)'
  BY <1>13 DEF WatcherReturns
<1>14. ASSUME NEW t \in Tasks, JobPanics(t)
       PROVE  \A x \in Tasks : RecordFollowsWatcher(x)'
  BY <1>14 DEF JobPanics
<1>15. ASSUME NEW t \in Tasks, NEW r \in {"ok", "err"}, JobReturns(t, r)
       PROVE  \A x \in Tasks : RecordFollowsWatcher(x)'
  BY <1>15 DEF JobReturns
<1>16. ASSUME NEW t \in Tasks, NEW r \in {"ok", "err"}, ChildExits(t, r)
       PROVE  \A x \in Tasks : RecordFollowsWatcher(x)'
  BY <1>16 DEF ChildExits
<1>17. ASSUME NEW t \in Tasks, ChildForks(t)
       PROVE  \A x \in Tasks : RecordFollowsWatcher(x)'
  BY <1>17 DEF ChildForks
<1>18. ASSUME NEW t \in Tasks, HeirExits(t)
       PROVE  \A x \in Tasks : RecordFollowsWatcher(x)'
  BY <1>18 DEF HeirExits
<1>19. ASSUME NEW t \in Tasks, StopMark(t)
       PROVE  \A x \in Tasks : RecordFollowsWatcher(x)'
  BY <1>19 DEF StopMark
<1>20. ASSUME NEW t \in Tasks, StopSend(t)
       PROVE  \A x \in Tasks : RecordFollowsWatcher(x)'
  BY <1>20 DEF StopSend
<1>21. ASSUME NEW l \in Listeners, Register(l)
      PROVE  \A x \in Tasks : RecordFollowsWatcher(x)'
  BY <1>21 DEF Register
<1>22. ASSUME NEW l \in Listeners, Unregister(l)
      PROVE  \A x \in Tasks : RecordFollowsWatcher(x)'
  BY <1>22 DEF Unregister
<1>23. ASSUME NEW l \in Listeners, RemoveListener(l)
      PROVE  \A x \in Tasks : RecordFollowsWatcher(x)'
  BY <1>23 DEF RemoveListener
<1>24. ASSUME NEW t \in Tasks, Log(t)
       PROVE  \A x \in Tasks : RecordFollowsWatcher(x)'
  BY <1>24 DEF Log, Emit, CopyOutput, WriteEnds
<1>25. CASE UNCHANGED vars
  BY <1>25 DEF vars
<1> HIDE DEF Consistent, RecordFollowsWatcher, Settled, InTable, Terminal, TypeOK
<1>. QED
  BY <1>1, <1>2, <1>3, <1>4, <1>5, <1>6, <1>7, <1>8, <1>9, <1>10, <1>11, <1>12,
     <1>13, <1>14, <1>15, <1>16, <1>17, <1>18, <1>19, <1>20, <1>21, <1>22, <1>23, <1>24, <1>25
     DEF Next, Create, Watch, Attend, Job, Process, Stop, Listen

\* A snapshot never differs from the record it was taken of, although the
\* listeners are called without the lock.
LEMMA SnapshotStep ==
  Consistent /\ [Next]_vars => \A x \in Tasks : SnapshotFollowsRecord(x)'
<1> SUFFICES ASSUME Consistent, [Next]_vars PROVE \A x \in Tasks : SnapshotFollowsRecord(x)'
  OBVIOUS
<1> USE DEF Consistent, SnapshotFollowsRecord, Settled, InTable, Terminal, TypeOK
<1>1. ASSUME NEW t \in Tasks, NEW k \in {"command", "in_process"}, Count(t, k)
      PROVE  \A x \in Tasks : SnapshotFollowsRecord(x)'
  BY <1>1 DEF Count
<1>2. ASSUME NEW t \in Tasks, Abandon(t)
      PROVE  \A x \in Tasks : SnapshotFollowsRecord(x)'
  BY <1>2 DEF Abandon
<1>3. ASSUME NEW t \in Tasks, Insert(t)
      PROVE  \A x \in Tasks : SnapshotFollowsRecord(x)'
  BY <1>3 DEF Insert
<1>4. ASSUME NEW t \in Tasks, SpawnWatcher(t)
      PROVE  \A x \in Tasks : SnapshotFollowsRecord(x)'
  BY <1>4 DEF SpawnWatcher
<1>5. ASSUME NEW t \in Tasks, Launch(t)
      PROVE  \A x \in Tasks : SnapshotFollowsRecord(x)'
  BY <1>5 DEF Launch
<1>6. ASSUME NEW t \in Tasks, LaunchFails(t)
      PROVE  \A x \in Tasks : SnapshotFollowsRecord(x)'
  BY <1>6 DEF LaunchFails, Settle, RecordFollowsWatcher
<1>7. ASSUME NEW t \in Tasks, OpenLog(t)
      PROVE  \A x \in Tasks : SnapshotFollowsRecord(x)'
  BY <1>7 DEF OpenLog
<1>8. ASSUME NEW t \in Tasks, OpenLogFails(t)
      PROVE  \A x \in Tasks : SnapshotFollowsRecord(x)'
  BY <1>8 DEF OpenLogFails, Settle, RecordFollowsWatcher
<1>9. ASSUME NEW t \in Tasks, NoticeExit(t)
      PROVE  \A x \in Tasks : SnapshotFollowsRecord(x)'
  BY <1>9 DEF NoticeExit
<1>10. ASSUME NEW t \in Tasks, NoticeKill(t)
       PROVE  \A x \in Tasks : SnapshotFollowsRecord(x)'
  BY <1>10 DEF NoticeKill
<1>11. ASSUME NEW t \in Tasks, Finish(t)
       PROVE  \A x \in Tasks : SnapshotFollowsRecord(x)'
  BY <1>11 DEF Finish, Settle, FinalStatus, FinalCode, KeepsRecord, RecordFollowsWatcher
<1>12. ASSUME NEW t \in Tasks, NEW l \in Listeners, CallListener(t, l)
       PROVE  \A x \in Tasks : SnapshotFollowsRecord(x)'
  <2>1. \A x \in Tasks \ {t}, k \in Listeners : heard'[k][x] = heard[k][x]
    BY <1>12 DEF CallListener
  <2>2. \A k \in Listeners \ {l} : heard'[k][t] = heard[k][t]
    BY <1>12 DEF CallListener
  <2>3. heard'[l][t] = <<news[t]>>
    <3>1. heard[l][t] = <<>>
      BY <1>12 DEF CallListener
    <3>. QED
      BY <1>12, <3>1 DEF CallListener
  <2>4. Settled(t) /\ todo'[t] = todo[t] \ {l} /\ l \in todo[t]
    BY <1>12 DEF CallListener
  <2>5. \A x \in Tasks \ {t} : SnapshotFollowsRecord(x)'
    BY <1>12, <2>1 DEF CallListener
  <2>6. SnapshotFollowsRecord(t)'
    BY <1>12, <2>2, <2>3, <2>4 DEF CallListener
  <2>. QED
    BY <2>5, <2>6
<1>13. ASSUME NEW t \in Tasks, WatcherReturns(t)
       PROVE  \A x \in Tasks : SnapshotFollowsRecord(x)'
  BY <1>13 DEF WatcherReturns
<1>14. ASSUME NEW t \in Tasks, JobPanics(t)
       PROVE  \A x \in Tasks : SnapshotFollowsRecord(x)'
  BY <1>14 DEF JobPanics
<1>15. ASSUME NEW t \in Tasks, NEW r \in {"ok", "err"}, JobReturns(t, r)
       PROVE  \A x \in Tasks : SnapshotFollowsRecord(x)'
  BY <1>15 DEF JobReturns
<1>16. ASSUME NEW t \in Tasks, NEW r \in {"ok", "err"}, ChildExits(t, r)
       PROVE  \A x \in Tasks : SnapshotFollowsRecord(x)'
  BY <1>16 DEF ChildExits
<1>17. ASSUME NEW t \in Tasks, ChildForks(t)
       PROVE  \A x \in Tasks : SnapshotFollowsRecord(x)'
  BY <1>17 DEF ChildForks
<1>18. ASSUME NEW t \in Tasks, HeirExits(t)
       PROVE  \A x \in Tasks : SnapshotFollowsRecord(x)'
  BY <1>18 DEF HeirExits
<1>19. ASSUME NEW t \in Tasks, StopMark(t)
       PROVE  \A x \in Tasks : SnapshotFollowsRecord(x)'
  BY <1>19 DEF StopMark, RecordFollowsWatcher
<1>20. ASSUME NEW t \in Tasks, StopSend(t)
       PROVE  \A x \in Tasks : SnapshotFollowsRecord(x)'
  BY <1>20 DEF StopSend
<1>21. ASSUME NEW l \in Listeners, Register(l)
      PROVE  \A x \in Tasks : SnapshotFollowsRecord(x)'
  BY <1>21 DEF Register
<1>22. ASSUME NEW l \in Listeners, Unregister(l)
      PROVE  \A x \in Tasks : SnapshotFollowsRecord(x)'
  BY <1>22 DEF Unregister
<1>23. ASSUME NEW l \in Listeners, RemoveListener(l)
      PROVE  \A x \in Tasks : SnapshotFollowsRecord(x)'
  BY <1>23 DEF RemoveListener
<1>24. ASSUME NEW t \in Tasks, Log(t)
       PROVE  \A x \in Tasks : SnapshotFollowsRecord(x)'
  BY <1>24 DEF Log, Emit, CopyOutput, WriteEnds
<1>25. CASE UNCHANGED vars
  BY <1>25 DEF vars
<1> HIDE DEF Consistent, SnapshotFollowsRecord, Settled, InTable, Terminal, TypeOK
<1>. QED
  BY <1>1, <1>2, <1>3, <1>4, <1>5, <1>6, <1>7, <1>8, <1>9, <1>10, <1>11, <1>12,
     <1>13, <1>14, <1>15, <1>16, <1>17, <1>18, <1>19, <1>20, <1>21, <1>22, <1>23, <1>24, <1>25
     DEF Next, Create, Watch, Attend, Job, Process, Stop, Listen

\* Pipes are closed for good once a completed task is settled.
LEMMA PipesStep ==
  Consistent /\ [Next]_vars => \A x \in Tasks : PipesFollowWork(x)'
<1> SUFFICES ASSUME Consistent, [Next]_vars PROVE \A x \in Tasks : PipesFollowWork(x)'
  OBVIOUS
<1> USE DEF Consistent, PipesFollowWork, Settled, InTable, Terminal, TypeOK
<1>1. ASSUME NEW t \in Tasks, NEW k \in {"command", "in_process"}, Count(t, k)
      PROVE  \A x \in Tasks : PipesFollowWork(x)'
  BY <1>1 DEF Count
<1>2. ASSUME NEW t \in Tasks, Abandon(t)
      PROVE  \A x \in Tasks : PipesFollowWork(x)'
  BY <1>2 DEF Abandon
<1>3. ASSUME NEW t \in Tasks, Insert(t)
      PROVE  \A x \in Tasks : PipesFollowWork(x)'
  BY <1>3 DEF Insert
<1>4. ASSUME NEW t \in Tasks, SpawnWatcher(t)
      PROVE  \A x \in Tasks : PipesFollowWork(x)'
  BY <1>4 DEF SpawnWatcher
<1>5. ASSUME NEW t \in Tasks, Launch(t)
      PROVE  \A x \in Tasks : PipesFollowWork(x)'
  BY <1>5 DEF Launch
<1>6. ASSUME NEW t \in Tasks, LaunchFails(t)
      PROVE  \A x \in Tasks : PipesFollowWork(x)'
  BY <1>6 DEF LaunchFails, Settle, RecordFollowsWatcher
<1>7. ASSUME NEW t \in Tasks, OpenLog(t)
      PROVE  \A x \in Tasks : PipesFollowWork(x)'
  BY <1>7 DEF OpenLog
<1>8. ASSUME NEW t \in Tasks, OpenLogFails(t)
      PROVE  \A x \in Tasks : PipesFollowWork(x)'
  BY <1>8 DEF OpenLogFails, Settle, RecordFollowsWatcher
<1>9. ASSUME NEW t \in Tasks, NoticeExit(t)
      PROVE  \A x \in Tasks : PipesFollowWork(x)'
  BY <1>9 DEF NoticeExit
<1>10. ASSUME NEW t \in Tasks, NoticeKill(t)
       PROVE  \A x \in Tasks : PipesFollowWork(x)'
  BY <1>10 DEF NoticeKill
<1>11. ASSUME NEW t \in Tasks, Finish(t)
       PROVE  \A x \in Tasks : PipesFollowWork(x)'
  BY <1>11 DEF Finish, Drained, Settle, FinalStatus, FinalCode, KeepsRecord,
              RecordFollowsWatcher, PipeOpen
<1>12. ASSUME NEW t \in Tasks, NEW l \in Listeners, CallListener(t, l)
       PROVE  \A x \in Tasks : PipesFollowWork(x)'
  BY <1>12 DEF CallListener
<1>13. ASSUME NEW t \in Tasks, WatcherReturns(t)
       PROVE  \A x \in Tasks : PipesFollowWork(x)'
  BY <1>13 DEF WatcherReturns
<1>14. ASSUME NEW t \in Tasks, JobPanics(t)
       PROVE  \A x \in Tasks : PipesFollowWork(x)'
  BY <1>14 DEF JobPanics
<1>15. ASSUME NEW t \in Tasks, NEW r \in {"ok", "err"}, JobReturns(t, r)
       PROVE  \A x \in Tasks : PipesFollowWork(x)'
  BY <1>15 DEF JobReturns
<1>16. ASSUME NEW t \in Tasks, NEW r \in {"ok", "err"}, ChildExits(t, r)
       PROVE  \A x \in Tasks : PipesFollowWork(x)'
  BY <1>16 DEF ChildExits
<1>17. ASSUME NEW t \in Tasks, ChildForks(t)
       PROVE  \A x \in Tasks : PipesFollowWork(x)'
  BY <1>17 DEF ChildForks, RecordFollowsWatcher
<1>18. ASSUME NEW t \in Tasks, HeirExits(t)
       PROVE  \A x \in Tasks : PipesFollowWork(x)'
  BY <1>18 DEF HeirExits
<1>19. ASSUME NEW t \in Tasks, StopMark(t)
       PROVE  \A x \in Tasks : PipesFollowWork(x)'
  BY <1>19 DEF StopMark, RecordFollowsWatcher
<1>20. ASSUME NEW t \in Tasks, StopSend(t)
       PROVE  \A x \in Tasks : PipesFollowWork(x)'
  BY <1>20 DEF StopSend
<1>21. ASSUME NEW l \in Listeners, Register(l)
      PROVE  \A x \in Tasks : PipesFollowWork(x)'
  BY <1>21 DEF Register
<1>22. ASSUME NEW l \in Listeners, Unregister(l)
      PROVE  \A x \in Tasks : PipesFollowWork(x)'
  BY <1>22 DEF Unregister
<1>23. ASSUME NEW l \in Listeners, RemoveListener(l)
      PROVE  \A x \in Tasks : PipesFollowWork(x)'
  BY <1>23 DEF RemoveListener
<1>24. ASSUME NEW t \in Tasks, Log(t)
       PROVE  \A x \in Tasks : PipesFollowWork(x)'
  BY <1>24 DEF Log, Emit, CopyOutput, WriteEnds, PipeOpen
<1>25. CASE UNCHANGED vars
  BY <1>25 DEF vars
<1> HIDE DEF Consistent, PipesFollowWork, Settled, InTable, Terminal, TypeOK
<1>. QED
  BY <1>1, <1>2, <1>3, <1>4, <1>5, <1>6, <1>7, <1>8, <1>9, <1>10, <1>11, <1>12,
     <1>13, <1>14, <1>15, <1>16, <1>17, <1>18, <1>19, <1>20, <1>21, <1>22, <1>23, <1>24, <1>25
     DEF Next, Create, Watch, Attend, Job, Process, Stop, Listen

(***************************************************************************)
(* The inductive invariant and what it implies.                            *)
(***************************************************************************)

\* The invariant of the four lemmas above holds in every reachable state.
THEOREM ConsistentAlways == Spec => []Consistent
<1>1. Init => Consistent
  <2> SUFFICES ASSUME Init PROVE Consistent
    OBVIOUS
  <2>1. TypeOK
    BY TypeInit
  <2>2. GaugeCountsOpenTasks
    <3>1. Counted = {}
      BY DEF Init, Counted
    <3>. QED
      BY <3>1, FS_EmptySet DEF Init, GaugeCountsOpenTasks
  <2>3. \A t \in Tasks : /\ RecordFollowsWatcher(t)
                         /\ SnapshotFollowsRecord(t)
                         /\ PipesFollowWork(t)
    BY DEF Init, RecordFollowsWatcher, SnapshotFollowsRecord, PipesFollowWork,
           Settled, InTable
  <2>. QED
    BY <2>1, <2>2, <2>3 DEF Consistent
<1>2. Consistent /\ [Next]_vars => Consistent'
  BY TypeStep, GaugeStep, RecordStep, SnapshotStep, PipesStep DEF Consistent
<1>. QED
  BY <1>1, <1>2, PTL DEF Spec

\* The gauge is the number of unsettled tasks, for any number of tasks.
THEOREM GaugeExact == Spec => []GaugeCountsOpenTasks
<1>1. Consistent => GaugeCountsOpenTasks
  BY DEF Consistent
<1>. QED
  BY <1>1, ConsistentAlways, PTL

\* Listeners hear of each task at most once, and what stays true.
THEOREM AnnouncedOnce == Spec => []AnnouncedOnceAndFinal
<1>1. Consistent => AnnouncedOnceAndFinal
  BY DEF Consistent, AnnouncedOnceAndFinal, SnapshotFollowsRecord,
         RecordFollowsWatcher, Settled
<1>. QED
  BY <1>1, ConsistentAlways, PTL

\* An ended task left no output unread and no result unflushed.
THEOREM OutputIsDrained == Spec => []OutputDrained
<1>1. Consistent => OutputDrained
  BY DEF Consistent, OutputDrained, PipesFollowWork, Settled
<1>. QED
  BY <1>1, ConsistentAlways, PTL

\* A watcher woken by the kill signal finds its task Killed.
THEOREM KillArmIsRight == Spec => []KillArmSeesKilled
<1>1. Consistent => KillArmSeesKilled
  BY DEF Consistent, KillArmSeesKilled, RecordFollowsWatcher
<1>. QED
  BY <1>1, ConsistentAlways, PTL

\* Exit code and status never contradict each other.
THEOREM CodeIsRight == Spec => []CodeMatchesStatus
<1>1. Consistent => CodeMatchesStatus
  BY DEF Consistent, CodeMatchesStatus, RecordFollowsWatcher, Settled, Terminal,
         InTable
<1>. QED
  BY <1>1, ConsistentAlways, PTL

(***************************************************************************)
(* Final statuses.                                                         *)
(***************************************************************************)

\* No step takes a final status back, and only a failed launch overwrites
\* Killed.
LEMMA FinalStepLemma == Consistent /\ [Next]_vars => FinalStep
<1> SUFFICES ASSUME Consistent, [Next]_vars PROVE FinalStep
  OBVIOUS
<1> USE DEF Consistent, FinalStep, RecordFollowsWatcher, Settled, InTable, TypeOK, Terminal
<1>1. ASSUME NEW t \in Tasks, NEW k \in {"command", "in_process"}, Count(t, k)
      PROVE  FinalStep
  BY <1>1 DEF Count
<1>2. ASSUME NEW t \in Tasks, Abandon(t)
      PROVE  FinalStep
  BY <1>2 DEF Abandon
<1>3. ASSUME NEW t \in Tasks, Insert(t)
      PROVE  FinalStep
  BY <1>3 DEF Insert
<1>4. ASSUME NEW t \in Tasks, SpawnWatcher(t)
      PROVE  FinalStep
  BY <1>4 DEF SpawnWatcher
<1>5. ASSUME NEW t \in Tasks, Launch(t)
      PROVE  FinalStep
  BY <1>5 DEF Launch
<1>6. ASSUME NEW t \in Tasks, LaunchFails(t)
      PROVE  FinalStep
  <2>1. \A x \in Tasks \ {t} : status'[x] = status[x]
    BY <1>6 DEF LaunchFails, Settle
  <2>2. status[t] \in {"running", "killed"}
    BY <1>6 DEF LaunchFails
  <2>3. status[t] = "killed" =>
          \/ status'[t] = "killed"
          \/ status'[t] = "failed" /\ pc[t] \in {"launching", "opening"}
    BY <1>6 DEF LaunchFails, Settle
  <2>. HIDE DEF Consistent, RecordFollowsWatcher, TypeOK
  <2>. QED
    BY <2>1, <2>2, <2>3
<1>7. ASSUME NEW t \in Tasks, OpenLog(t)
      PROVE  FinalStep
  BY <1>7 DEF OpenLog
<1>8. ASSUME NEW t \in Tasks, OpenLogFails(t)
      PROVE  FinalStep
  <2>1. \A x \in Tasks \ {t} : status'[x] = status[x]
    BY <1>8 DEF OpenLogFails, Settle
  <2>2. status[t] \in {"running", "killed"}
    BY <1>8 DEF OpenLogFails
  <2>3. status[t] = "killed" =>
          \/ status'[t] = "killed"
          \/ status'[t] = "failed" /\ pc[t] \in {"launching", "opening"}
    BY <1>8 DEF OpenLogFails, Settle
  <2>. HIDE DEF Consistent, RecordFollowsWatcher, TypeOK
  <2>. QED
    BY <2>1, <2>2, <2>3
<1>9. ASSUME NEW t \in Tasks, NoticeExit(t)
      PROVE  FinalStep
  BY <1>9 DEF NoticeExit
<1>10. ASSUME NEW t \in Tasks, NoticeKill(t)
       PROVE  FinalStep
  BY <1>10 DEF NoticeKill
<1>11. ASSUME NEW t \in Tasks, Finish(t)
       PROVE  FinalStep
  <2>1. \A x \in Tasks \ {t} : status'[x] = status[x]
    BY <1>11 DEF Finish, Settle
  <2>2. status[t] \in {"running", "killed"}
    BY <1>11 DEF Finish
  <2>3. status[t] = "killed" =>
          \/ status'[t] = "killed"
          \/ status'[t] = "failed" /\ pc[t] \in {"launching", "opening"}
    BY <1>11 DEF Finish, Settle, FinalStatus, FinalCode, KeepsRecord
  <2>. HIDE DEF Consistent, RecordFollowsWatcher, TypeOK
  <2>. QED
    BY <2>1, <2>2, <2>3
<1>12. ASSUME NEW t \in Tasks, NEW l \in Listeners, CallListener(t, l)
       PROVE  FinalStep
  BY <1>12 DEF CallListener
<1>13. ASSUME NEW t \in Tasks, WatcherReturns(t)
       PROVE  FinalStep
  BY <1>13 DEF WatcherReturns
<1>14. ASSUME NEW t \in Tasks, JobPanics(t)
       PROVE  FinalStep
  BY <1>14 DEF JobPanics
<1>15. ASSUME NEW t \in Tasks, NEW r \in {"ok", "err"}, JobReturns(t, r)
       PROVE  FinalStep
  BY <1>15 DEF JobReturns
<1>16. ASSUME NEW t \in Tasks, NEW r \in {"ok", "err"}, ChildExits(t, r)
       PROVE  FinalStep
  BY <1>16 DEF ChildExits
<1>17. ASSUME NEW t \in Tasks, ChildForks(t)
       PROVE  FinalStep
  BY <1>17 DEF ChildForks
<1>18. ASSUME NEW t \in Tasks, HeirExits(t)
       PROVE  FinalStep
  BY <1>18 DEF HeirExits
<1>19. ASSUME NEW t \in Tasks, StopMark(t)
       PROVE  FinalStep
  BY <1>19 DEF StopMark
<1>20. ASSUME NEW t \in Tasks, StopSend(t)
       PROVE  FinalStep
  BY <1>20 DEF StopSend
<1>21. ASSUME NEW l \in Listeners, Register(l)
      PROVE  FinalStep
  BY <1>21 DEF Register
<1>22. ASSUME NEW l \in Listeners, Unregister(l)
      PROVE  FinalStep
  BY <1>22 DEF Unregister
<1>23. ASSUME NEW l \in Listeners, RemoveListener(l)
      PROVE  FinalStep
  BY <1>23 DEF RemoveListener
<1>24. ASSUME NEW t \in Tasks, Log(t)
       PROVE  FinalStep
  BY <1>24 DEF Log, Emit, CopyOutput, WriteEnds
<1>25. CASE UNCHANGED vars
  BY <1>25 DEF vars
<1> HIDE DEF Consistent, FinalStep, RecordFollowsWatcher, Settled, InTable, TypeOK, Terminal
<1>. QED
  BY <1>1, <1>2, <1>3, <1>4, <1>5, <1>6, <1>7, <1>8, <1>9, <1>10, <1>11, <1>12,
     <1>13, <1>14, <1>15, <1>16, <1>17, <1>18, <1>19, <1>20, <1>21, <1>22, <1>23, <1>24, <1>25
     DEF Next, Create, Watch, Attend, Job, Process, Stop, Listen

\* Statuses are final in every behaviour.
THEOREM TerminalFinal == Spec => TerminalIsFinal
<1>1. Consistent /\ [Next]_vars => [FinalStep]_vars
  BY FinalStepLemma
<1>. QED
  BY <1>1, ConsistentAlways, PTL DEF Spec, TerminalIsFinal

(***************************************************************************)
(* The refinement.                                                         *)
(***************************************************************************)

\* Every step of the manager is a step of the ledger or leaves it alone.
LEMMA LedgerStep ==
  Consistent /\ [Next]_vars => [Ledger!LedgerNext]_(Ledger!ledger)
<1> SUFFICES ASSUME Consistent, [Next]_vars
             PROVE  [Ledger!LedgerNext]_(Ledger!ledger)
  OBVIOUS
<1> USE DEF Consistent, TypeOK, RecordFollowsWatcher, Book, Settled, InTable,
            Terminal
<1>0. ASSUME \A x \in Tasks : Book(x)' = Book(x), gauge' = gauge, heard' = heard
      PROVE  UNCHANGED Ledger!ledger
  BY <1>0 DEF Ledger!ledger
<1>1. ASSUME NEW t \in Tasks, NEW k \in {"command", "in_process"}, Count(t, k)
      PROVE  [Ledger!LedgerNext]_(Ledger!ledger)
  <2>1. Book(t) = "absent" /\ Book(t)' = "open"
    BY <1>1 DEF Count
  <2>2. \A x \in Tasks \ {t} : Book(x)' = Book(x)
    BY <1>1 DEF Count
  <2>3. gauge' = gauge + 1 /\ heard' = heard
    BY <1>1 DEF Count
  <2>. HIDE DEF Consistent, TypeOK, RecordFollowsWatcher, Book, Settled, InTable
  <2>4. Ledger!OpenTask(t)
    BY <2>1, <2>2, <2>3 DEF Ledger!OpenTask
  <2>. QED
    BY <2>4 DEF Ledger!LedgerNext
<1>2. ASSUME NEW t \in Tasks, Abandon(t)
      PROVE  [Ledger!LedgerNext]_(Ledger!ledger)
  BY <1>2, <1>0 DEF Abandon
<1>3. ASSUME NEW t \in Tasks, Insert(t)
      PROVE  [Ledger!LedgerNext]_(Ledger!ledger)
  BY <1>3, <1>0 DEF Insert
<1>4. ASSUME NEW t \in Tasks, SpawnWatcher(t)
      PROVE  [Ledger!LedgerNext]_(Ledger!ledger)
  BY <1>4, <1>0 DEF SpawnWatcher
<1>5. ASSUME NEW t \in Tasks, Launch(t)
      PROVE  [Ledger!LedgerNext]_(Ledger!ledger)
  BY <1>5, <1>0 DEF Launch
<1>6. ASSUME NEW t \in Tasks, LaunchFails(t)
      PROVE  [Ledger!LedgerNext]_(Ledger!ledger)
  <2>1. Book(t) = IF status[t] = "killed" THEN "stopping" ELSE "open"
    BY <1>6 DEF LaunchFails
  <2>2. Book(t)' = status'[t]
    BY <1>6 DEF LaunchFails, Settle
  <2>3. /\ status'[t] \in Ledger!Closed
        /\ status[t] = "killed" => status'[t] \in {"killed", "failed"}
        /\ status[t] # "killed" => status'[t] \in {"completed", "failed"}
    BY <1>6 DEF LaunchFails, Settle, Registered, Ledger!Closed
  <2>4. \A x \in Tasks \ {t} : Book(x)' = Book(x)
    BY <1>6 DEF LaunchFails, Settle
  <2>5. gauge' = gauge - 1 /\ heard' = heard
    BY <1>6 DEF LaunchFails, Settle
  <2>. HIDE DEF Consistent, TypeOK, RecordFollowsWatcher, Book, Settled, InTable
  <2>6. Ledger!CloseTask(t, status'[t])
    BY <2>1, <2>2, <2>3, <2>4, <2>5 DEF Ledger!CloseTask
  <2>. QED
    BY <2>3, <2>6 DEF Ledger!LedgerNext
<1>7. ASSUME NEW t \in Tasks, OpenLog(t)
      PROVE  [Ledger!LedgerNext]_(Ledger!ledger)
  BY <1>7, <1>0 DEF OpenLog
<1>8. ASSUME NEW t \in Tasks, OpenLogFails(t)
      PROVE  [Ledger!LedgerNext]_(Ledger!ledger)
  <2>1. Book(t) = IF status[t] = "killed" THEN "stopping" ELSE "open"
    BY <1>8 DEF OpenLogFails
  <2>2. Book(t)' = status'[t]
    BY <1>8 DEF OpenLogFails, Settle
  <2>3. /\ status'[t] \in Ledger!Closed
        /\ status[t] = "killed" => status'[t] \in {"killed", "failed"}
        /\ status[t] # "killed" => status'[t] \in {"completed", "failed"}
    BY <1>8 DEF OpenLogFails, Settle, Registered, Ledger!Closed
  <2>4. \A x \in Tasks \ {t} : Book(x)' = Book(x)
    BY <1>8 DEF OpenLogFails, Settle
  <2>5. gauge' = gauge - 1 /\ heard' = heard
    BY <1>8 DEF OpenLogFails, Settle
  <2>. HIDE DEF Consistent, TypeOK, RecordFollowsWatcher, Book, Settled, InTable
  <2>6. Ledger!CloseTask(t, status'[t])
    BY <2>1, <2>2, <2>3, <2>4, <2>5 DEF Ledger!CloseTask
  <2>. QED
    BY <2>3, <2>6 DEF Ledger!LedgerNext
<1>9. ASSUME NEW t \in Tasks, NoticeExit(t)
      PROVE  [Ledger!LedgerNext]_(Ledger!ledger)
  BY <1>9, <1>0 DEF NoticeExit
<1>10. ASSUME NEW t \in Tasks, NoticeKill(t)
       PROVE  [Ledger!LedgerNext]_(Ledger!ledger)
  BY <1>10, <1>0 DEF NoticeKill
<1>11. ASSUME NEW t \in Tasks, Finish(t)
       PROVE  [Ledger!LedgerNext]_(Ledger!ledger)
  <2>1. Book(t) = IF status[t] = "killed" THEN "stopping" ELSE "open"
    BY <1>11 DEF Finish
  <2>2. Book(t)' = status'[t]
    BY <1>11 DEF Finish, Settle
  <2>3. /\ status'[t] \in Ledger!Closed
        /\ status[t] = "killed" => status'[t] \in {"killed", "failed"}
        /\ status[t] # "killed" => status'[t] \in {"completed", "failed"}
    BY <1>11 DEF Finish, Settle, Registered, FinalStatus, FinalCode, KeepsRecord, Ledger!Closed
  <2>4. \A x \in Tasks \ {t} : Book(x)' = Book(x)
    BY <1>11 DEF Finish, Settle
  <2>5. gauge' = gauge - 1 /\ heard' = heard
    BY <1>11 DEF Finish, Settle
  <2>. HIDE DEF Consistent, TypeOK, RecordFollowsWatcher, Book, Settled, InTable
  <2>6. Ledger!CloseTask(t, status'[t])
    BY <2>1, <2>2, <2>3, <2>4, <2>5 DEF Ledger!CloseTask
  <2>. QED
    BY <2>3, <2>6 DEF Ledger!LedgerNext
<1>12. ASSUME NEW t \in Tasks, NEW l \in Listeners, CallListener(t, l)
       PROVE  [Ledger!LedgerNext]_(Ledger!ledger)
  <2>1. Book(t) = status[t] /\ status[t] \in Ledger!Closed
    BY <1>12 DEF CallListener, Ledger!Closed
  <2>2. \A x \in Tasks : Book(x)' = Book(x)
    BY <1>12 DEF CallListener
  <2>3. heard[l][t] = <<>> /\ news[t] = status[t]
    BY <1>12 DEF CallListener, SnapshotFollowsRecord
  <2>4. heard' = [heard EXCEPT ![l][t] = <<status[t]>>]
    BY <1>12, <2>3 DEF CallListener
  <2>5. Ledger!Tell(l, t)
    BY <1>12, <2>1, <2>2, <2>3, <2>4 DEF CallListener, Ledger!Tell
  <2>. QED
    BY <2>5 DEF Ledger!LedgerNext
<1>13. ASSUME NEW t \in Tasks, WatcherReturns(t)
       PROVE  [Ledger!LedgerNext]_(Ledger!ledger)
  BY <1>13, <1>0 DEF WatcherReturns
<1>14. ASSUME NEW t \in Tasks, JobPanics(t)
       PROVE  [Ledger!LedgerNext]_(Ledger!ledger)
  BY <1>14, <1>0 DEF JobPanics
<1>15. ASSUME NEW t \in Tasks, NEW r \in {"ok", "err"}, JobReturns(t, r)
       PROVE  [Ledger!LedgerNext]_(Ledger!ledger)
  BY <1>15, <1>0 DEF JobReturns
<1>16. ASSUME NEW t \in Tasks, NEW r \in {"ok", "err"}, ChildExits(t, r)
       PROVE  [Ledger!LedgerNext]_(Ledger!ledger)
  BY <1>16, <1>0 DEF ChildExits
<1>17. ASSUME NEW t \in Tasks, ChildForks(t)
       PROVE  [Ledger!LedgerNext]_(Ledger!ledger)
  BY <1>17, <1>0 DEF ChildForks
<1>18. ASSUME NEW t \in Tasks, HeirExits(t)
       PROVE  [Ledger!LedgerNext]_(Ledger!ledger)
  BY <1>18, <1>0 DEF HeirExits
<1>19. ASSUME NEW t \in Tasks, StopMark(t)
       PROVE  [Ledger!LedgerNext]_(Ledger!ledger)
  <2>1. Book(t) = "open" /\ Book(t)' = "stopping"
    BY <1>19 DEF StopMark
  <2>2. \A x \in Tasks \ {t} : Book(x)' = Book(x)
    BY <1>19 DEF StopMark
  <2>. HIDE DEF Consistent, TypeOK, RecordFollowsWatcher, Book, Settled, InTable
  <2>3. Ledger!AskToStop(t)
    BY <1>19, <2>1, <2>2 DEF StopMark, Ledger!AskToStop
  <2>. QED
    BY <2>3 DEF Ledger!LedgerNext
<1>20. ASSUME NEW t \in Tasks, StopSend(t)
       PROVE  [Ledger!LedgerNext]_(Ledger!ledger)
  BY <1>20, <1>0 DEF StopSend
<1>21. ASSUME NEW l \in Listeners, Register(l)
      PROVE  [Ledger!LedgerNext]_(Ledger!ledger)
  BY <1>21, <1>0 DEF Register
<1>22. ASSUME NEW l \in Listeners, Unregister(l)
      PROVE  [Ledger!LedgerNext]_(Ledger!ledger)
  BY <1>22, <1>0 DEF Unregister
<1>23. ASSUME NEW l \in Listeners, RemoveListener(l)
      PROVE  [Ledger!LedgerNext]_(Ledger!ledger)
  BY <1>23, <1>0 DEF RemoveListener
<1>24. ASSUME NEW t \in Tasks, Log(t)
       PROVE  [Ledger!LedgerNext]_(Ledger!ledger)
  BY <1>24, <1>0 DEF Log, Emit, CopyOutput, WriteEnds
<1>25. CASE UNCHANGED vars
  BY <1>25, <1>0 DEF vars
<1> HIDE DEF Consistent, TypeOK, RecordFollowsWatcher, Book, Settled, InTable, Terminal
<1>. QED
  BY <1>1, <1>2, <1>3, <1>4, <1>5, <1>6, <1>7, <1>8, <1>9, <1>10, <1>11, <1>12,
     <1>13, <1>14, <1>15, <1>16, <1>17, <1>18, <1>19, <1>20, <1>21, <1>22, <1>23, <1>24, <1>25
     DEF Next, Create, Watch, Attend, Job, Process, Stop, Listen

\* The manager implements the ledger, for any number of tasks and listeners.
THEOREM LedgerImplemented == Spec => ImplementsLedger
<1>1. Init => Ledger!LedgerInit
  BY DEF Init, Book, Settled, Ledger!LedgerInit
<1>2. Consistent /\ [Next]_vars => [Ledger!LedgerNext]_(Ledger!ledger)
  BY LedgerStep
<1>. QED
  BY <1>1, <1>2, ConsistentAlways, PTL
     DEF Spec, ImplementsLedger, Ledger!LedgerSpec

(***************************************************************************)
(* SubagentSpawn implements BackgroundTasks.                               *)
(***************************************************************************)

\* Every step of the spawner is a step of the task manager or leaves the task
\* manager alone.
LEMMA SpawnStepIsTaskStep ==
  ASSUME OneListenerEach, [SpawnNext]_svars
  PROVE  [Next]_vars
<1>1. ASSUME NEW a \in Tasks, SpawnProceeds(a)
      PROVE  [Next]_vars
  <2>1. ASSUME NEW m \in Modes, Resolve(a, m) PROVE [Next]_vars
    BY <2>1 DEF Resolve
  <2>2. CASE AddWorktree(a)
    BY <2>2 DEF AddWorktree
  <2>3. CASE AddWorktreeFails(a)
    BY <2>3 DEF AddWorktreeFails
  <2>4. CASE CreateAgentTask(a)
    BY <2>4 DEF CreateAgentTask, Next, Create
  <2>5. CASE StoreWatcher(a)
    BY <2>5 DEF StoreWatcher
  <2>6. CASE RegisterCleanup(a)
    BY <2>6 DEF OneListenerEach, RegisterCleanup, Next, Listen
  <2>. QED
    BY <1>1, <2>1, <2>2, <2>3, <2>4, <2>5, <2>6 DEF SpawnProceeds
<1>2. ASSUME NEW a \in Tasks, DropSpawn(a)
      PROVE  [Next]_vars
  BY <1>2 DEF DropSpawn, Next, Create
<1>3. ASSUME NEW a \in Tasks, AgentJob(a)
      PROVE  [Next]_vars
  <2>1. ASSUME NEW r \in {"ok", "err"}, RunnerReturns(a, r) PROVE [Next]_vars
    BY <2>1 DEF RunnerReturns
  <2>2. CASE PostIdle(a)
    BY <2>2 DEF PostIdle
  <2>3. CASE ReturnResult(a)
    BY <2>3 DEF ReturnResult, Next, Job
  <2>4. CASE JobPanics(a)
    BY <2>4 DEF Next, Job
  <2>. QED
    BY <1>3, <2>1, <2>2, <2>3, <2>4 DEF AgentJob
<1>4. ASSUME NEW a \in Tasks, Attend(a)
      PROVE  [Next]_vars
  BY <1>4 DEF Next, Watch
<1>5. ASSUME NEW a \in Tasks, NEW l \in Listeners, HearCompletion(a, l)
      PROVE  [Next]_vars
  BY <1>5 DEF HearCompletion, Next, Watch
<1>6. ASSUME NEW a \in Tasks, RemoveWorktree(a)
      PROVE  [Next]_vars
  BY <1>6 DEF RemoveWorktree
<1>7. ASSUME NEW a \in Tasks, Process(a) \/ Log(a) \/ Stop(a)
      PROVE  [Next]_vars
  BY <1>7 DEF Next
<1>8. ASSUME NEW l \in Listeners, Listen(l)
      PROVE  [Next]_vars
  BY <1>8 DEF Next
<1>9. CASE UNCHANGED svars
  BY <1>9 DEF svars
<1>. QED
  BY <1>1, <1>2, <1>3, <1>4, <1>5, <1>6, <1>7, <1>8, <1>9 DEF SpawnNext

\* What is proved of the task manager holds of the spawner's.
THEOREM SpawnUsesTasks ==
  ASSUME OneListenerEach
  PROVE  SpawnSpec => Spec
<1>1. SpawnInit => Init
  BY DEF SpawnInit
<1>2. [SpawnNext]_svars => [Next]_vars
  BY SpawnStepIsTaskStep
<1>. QED
  BY <1>1, <1>2, PTL DEF SpawnSpec, Spec

\* With agents on top, what is proved of the task manager still holds.
COROLLARY SpawnConsistent ==
  ASSUME OneListenerEach
  PROVE  SpawnSpec => []Consistent
BY SpawnUsesTasks, ConsistentAlways, PTL

(***************************************************************************)
(* Type correctness.                                                       *)
(***************************************************************************)

\* Every step of the spawner keeps the types.
LEMMA SpawnTypeStep ==
  Consistent /\ SpawnTypeOK /\ [SpawnNext]_svars => SpawnTypeOK'
<1> SUFFICES ASSUME Consistent, SpawnTypeOK, [SpawnNext]_svars
             PROVE  SpawnTypeOK'
  OBVIOUS
<1> USE ModesKnown DEF SpawnTypeOK
<1>1. ASSUME NEW a \in Tasks, NEW m \in Modes, Resolve(a, m)
      PROVE  SpawnTypeOK'
  BY <1>1 DEF Resolve
<1>2. ASSUME NEW a \in Tasks, AddWorktree(a)
      PROVE  SpawnTypeOK'
  BY <1>2 DEF AddWorktree
<1>3. ASSUME NEW a \in Tasks, AddWorktreeFails(a)
      PROVE  SpawnTypeOK'
  BY <1>3 DEF AddWorktreeFails
<1>4. ASSUME NEW a \in Tasks, CreateAgentTask(a)
      PROVE  SpawnTypeOK'
  BY <1>4 DEF CreateAgentTask, spawnVars
<1>5. ASSUME NEW a \in Tasks, StoreWatcher(a)
      PROVE  SpawnTypeOK'
  BY <1>5 DEF StoreWatcher
<1>6. ASSUME NEW a \in Tasks, RegisterCleanup(a)
      PROVE  SpawnTypeOK'
  BY <1>6 DEF RegisterCleanup
<1>7. ASSUME NEW a \in Tasks, DropSpawn(a)
      PROVE  SpawnTypeOK'
  BY <1>7 DEF DropSpawn, spawnVars
<1>8. ASSUME NEW a \in Tasks, NEW r \in {"ok", "err"}, RunnerReturns(a, r)
      PROVE  SpawnTypeOK'
  BY <1>8 DEF RunnerReturns
<1>9. ASSUME NEW a \in Tasks, PostIdle(a)
      PROVE  SpawnTypeOK'
  BY <1>9 DEF PostIdle
<1>10. ASSUME NEW a \in Tasks, ReturnResult(a)
       PROVE  SpawnTypeOK'
  BY <1>10 DEF ReturnResult, spawnVars
<1>11. ASSUME NEW a \in Tasks, JobPanics(a), UNCHANGED spawnVars
       PROVE  SpawnTypeOK'
  BY <1>11 DEF JobPanics, spawnVars
<1>12. ASSUME NEW a \in Tasks, Attend(a), UNCHANGED spawnVars
       PROVE  SpawnTypeOK'
  BY <1>12 DEF Attend, spawnVars
<1>13. ASSUME NEW a \in Tasks, NEW l \in Listeners, HearCompletion(a, l)
       PROVE  SpawnTypeOK'
  BY <1>13 DEF HearCompletion
<1>14. ASSUME NEW a \in Tasks, RemoveWorktree(a)
       PROVE  SpawnTypeOK'
  BY <1>14 DEF RemoveWorktree
<1>15. ASSUME NEW a \in Tasks, Process(a), UNCHANGED spawnVars
       PROVE  SpawnTypeOK'
  BY <1>15 DEF Process, spawnVars
<1>16. ASSUME NEW a \in Tasks, Stop(a), UNCHANGED spawnVars
       PROVE  SpawnTypeOK'
  BY <1>16 DEF Stop, spawnVars
<1>17. ASSUME NEW a \in Tasks, Log(a), UNCHANGED spawnVars
       PROVE  SpawnTypeOK'
  BY <1>17 DEF spawnVars
<1>18. ASSUME NEW l \in Listeners, Listen(l), UNCHANGED spawnVars
       PROVE  SpawnTypeOK'
  BY <1>18 DEF spawnVars
<1>19. CASE UNCHANGED svars
  BY <1>19 DEF svars, spawnVars, vars
<1>. QED
  BY <1>1, <1>2, <1>3, <1>4, <1>5, <1>6, <1>7, <1>8, <1>9,
     <1>10, <1>11, <1>12, <1>13, <1>14, <1>15, <1>16, <1>17, <1>18, <1>19
     DEF SpawnNext, SpawnProceeds, AgentJob

\* The spawner's state is well typed in every reachable state.
THEOREM SpawnTypeCorrect ==
  ASSUME OneListenerEach
  PROVE  SpawnSpec => []SpawnTypeOK
<1>1. SpawnInit => SpawnTypeOK
  BY DEF SpawnInit, SpawnTypeOK
<1>2. Consistent /\ SpawnTypeOK /\ [SpawnNext]_svars => SpawnTypeOK'
  BY SpawnTypeStep
<1>. QED
  BY <1>1, <1>2, SpawnConsistent, PTL DEF SpawnSpec

(***************************************************************************)
(* Worktrees.                                                              *)
(***************************************************************************)

\* A settled task stays settled.
LEMMA SettledStays ==
  ASSUME Consistent, [Next]_vars, NEW t \in Tasks, Settled(t)
  PROVE  Settled(t)'
<1> USE DEF Consistent, TypeOK, Settled
<1>1. ASSUME NEW u \in Tasks, NEW k \in {"command", "in_process"}, Count(u, k)
      PROVE  Settled(t)'
  BY <1>1 DEF Count
<1>2. ASSUME NEW u \in Tasks, Abandon(u)
      PROVE  Settled(t)'
  BY <1>2 DEF Abandon
<1>3. ASSUME NEW u \in Tasks, Insert(u)
      PROVE  Settled(t)'
  BY <1>3 DEF Insert
<1>4. ASSUME NEW u \in Tasks, SpawnWatcher(u)
      PROVE  Settled(t)'
  BY <1>4 DEF SpawnWatcher
<1>5. ASSUME NEW u \in Tasks, Launch(u)
      PROVE  Settled(t)'
  BY <1>5 DEF Launch
<1>6. ASSUME NEW u \in Tasks, LaunchFails(u)
      PROVE  Settled(t)'
  BY <1>6 DEF LaunchFails, Settle
<1>7. ASSUME NEW u \in Tasks, OpenLog(u)
      PROVE  Settled(t)'
  BY <1>7 DEF OpenLog
<1>8. ASSUME NEW u \in Tasks, OpenLogFails(u)
      PROVE  Settled(t)'
  BY <1>8 DEF OpenLogFails, Settle
<1>9. ASSUME NEW u \in Tasks, NoticeExit(u)
      PROVE  Settled(t)'
  BY <1>9 DEF NoticeExit
<1>10. ASSUME NEW u \in Tasks, NoticeKill(u)
       PROVE  Settled(t)'
  BY <1>10 DEF NoticeKill
<1>11. ASSUME NEW u \in Tasks, Finish(u)
       PROVE  Settled(t)'
  BY <1>11 DEF Finish, Settle
<1>12. ASSUME NEW u \in Tasks, NEW l \in Listeners, CallListener(u, l)
       PROVE  Settled(t)'
  BY <1>12 DEF CallListener
<1>13. ASSUME NEW u \in Tasks, WatcherReturns(u)
       PROVE  Settled(t)'
  BY <1>13 DEF WatcherReturns
<1>14. ASSUME NEW u \in Tasks, JobPanics(u)
       PROVE  Settled(t)'
  BY <1>14 DEF JobPanics
<1>15. ASSUME NEW u \in Tasks, NEW r \in {"ok", "err"}, JobReturns(u, r)
       PROVE  Settled(t)'
  BY <1>15 DEF JobReturns
<1>16. ASSUME NEW u \in Tasks, NEW r \in {"ok", "err"}, ChildExits(u, r)
       PROVE  Settled(t)'
  BY <1>16 DEF ChildExits
<1>17. ASSUME NEW u \in Tasks, ChildForks(u)
       PROVE  Settled(t)'
  BY <1>17 DEF ChildForks
<1>18. ASSUME NEW u \in Tasks, HeirExits(u)
       PROVE  Settled(t)'
  BY <1>18 DEF HeirExits
<1>19. ASSUME NEW u \in Tasks, StopMark(u)
       PROVE  Settled(t)'
  BY <1>19 DEF StopMark
<1>20. ASSUME NEW u \in Tasks, StopSend(u)
       PROVE  Settled(t)'
  BY <1>20 DEF StopSend
<1>21. ASSUME NEW l \in Listeners, Listen(l)
      PROVE  Settled(t)'
  BY <1>21 DEF Listen, Register, Unregister, RemoveListener
<1>22. ASSUME NEW u \in Tasks, Log(u)
       PROVE  Settled(t)'
  BY <1>22 DEF Log, Emit, CopyOutput, WriteEnds
<1>23. CASE UNCHANGED vars
  BY <1>23 DEF vars
<1>. QED
  BY <1>1, <1>2, <1>3, <1>4, <1>5, <1>6, <1>7, <1>8, <1>9, <1>10, <1>11,
     <1>12, <1>13, <1>14, <1>15, <1>16, <1>17, <1>18, <1>19, <1>20, <1>21, <1>22, <1>23
     DEF Next, Create, Watch, Attend, Job, Process, Stop

\* Only the completion of an agent marks its worktree for removal.
LEMMA CleanupStep ==
  ASSUME OneListenerEach, Consistent, SpawnTypeOK, CleanupFollowsEnd, [SpawnNext]_svars
  PROVE  CleanupFollowsEnd'
<1> SUFFICES ASSUME NEW b \in Tasks, wt'[b] \in {"removing", "gone", "left"}
             PROVE  Settled(b)'
  BY DEF CleanupFollowsEnd
<1>0. [Next]_vars
  BY SpawnStepIsTaskStep
<1>00. ASSUME wt[b] \in {"removing", "gone", "left"} PROVE Settled(b)'
  BY <1>0, <1>00, SettledStays DEF CleanupFollowsEnd
<1> USE DEF SpawnTypeOK
<1>1. ASSUME NEW a \in Tasks, NEW m \in Modes, Resolve(a, m)
      PROVE  Settled(b)'
  BY <1>1, <1>00 DEF Resolve
<1>2. ASSUME NEW a \in Tasks, AddWorktree(a)
      PROVE  Settled(b)'
  BY <1>2, <1>00 DEF AddWorktree
<1>3. ASSUME NEW a \in Tasks, AddWorktreeFails(a)
      PROVE  Settled(b)'
  BY <1>3, <1>00 DEF AddWorktreeFails
<1>4. ASSUME NEW a \in Tasks, CreateAgentTask(a)
      PROVE  Settled(b)'
  BY <1>4, <1>00 DEF CreateAgentTask, spawnVars
<1>5. ASSUME NEW a \in Tasks, StoreWatcher(a)
      PROVE  Settled(b)'
  BY <1>5, <1>00 DEF StoreWatcher
<1>6. ASSUME NEW a \in Tasks, RegisterCleanup(a)
      PROVE  Settled(b)'
  BY <1>6, <1>00 DEF RegisterCleanup
<1>7. ASSUME NEW a \in Tasks, DropSpawn(a)
      PROVE  Settled(b)'
  BY <1>7, <1>00 DEF DropSpawn, spawnVars
<1>8. ASSUME NEW a \in Tasks, NEW r \in {"ok", "err"}, RunnerReturns(a, r)
      PROVE  Settled(b)'
  BY <1>8, <1>00 DEF RunnerReturns
<1>9. ASSUME NEW a \in Tasks, PostIdle(a)
      PROVE  Settled(b)'
  BY <1>9, <1>00 DEF PostIdle
<1>10. ASSUME NEW a \in Tasks, ReturnResult(a)
       PROVE  Settled(b)'
  BY <1>10, <1>00 DEF ReturnResult, spawnVars
<1>11. ASSUME NEW a \in Tasks, JobPanics(a), UNCHANGED spawnVars
       PROVE  Settled(b)'
  BY <1>11, <1>00 DEF JobPanics, spawnVars
<1>12. ASSUME NEW a \in Tasks, Attend(a), UNCHANGED spawnVars
       PROVE  Settled(b)'
  BY <1>12, <1>00 DEF Attend, spawnVars
<1>13. ASSUME NEW a \in Tasks, NEW l \in Listeners, HearCompletion(a, l)
       PROVE  Settled(b)'
  BY <1>13, <1>00 DEF HearCompletion, CallListener, Settled
<1>14. ASSUME NEW a \in Tasks, RemoveWorktree(a)
       PROVE  Settled(b)'
  BY <1>14, <1>00 DEF RemoveWorktree
<1>15. ASSUME NEW a \in Tasks, Process(a), UNCHANGED spawnVars
       PROVE  Settled(b)'
  BY <1>15, <1>00 DEF Process, spawnVars
<1>16. ASSUME NEW a \in Tasks, Stop(a), UNCHANGED spawnVars
       PROVE  Settled(b)'
  BY <1>16, <1>00 DEF Stop, spawnVars
<1>17. ASSUME NEW a \in Tasks, Log(a), UNCHANGED spawnVars
       PROVE  Settled(b)'
  BY <1>17, <1>00 DEF spawnVars
<1>18. ASSUME NEW l \in Listeners, Listen(l), UNCHANGED spawnVars
       PROVE  Settled(b)'
  BY <1>18, <1>00 DEF spawnVars
<1>19. CASE UNCHANGED svars
  BY <1>19, <1>00 DEF svars, spawnVars, vars
<1>. QED
  BY <1>1, <1>2, <1>3, <1>4, <1>5, <1>6, <1>7, <1>8, <1>9,
     <1>10, <1>11, <1>12, <1>13, <1>14, <1>15, <1>16, <1>17, <1>18, <1>19
     DEF SpawnNext, SpawnProceeds, AgentJob

\* No worktree is removed under an agent that still runs.
THEOREM WorktreesOutliveAgents ==
  ASSUME OneListenerEach
  PROVE  SpawnSpec => []WorktreeOutlivesAgent
<1>1. SpawnInit => CleanupFollowsEnd
  BY DEF SpawnInit, CleanupFollowsEnd
<1>2. Consistent /\ SpawnTypeOK /\ CleanupFollowsEnd /\ [SpawnNext]_svars
        => CleanupFollowsEnd'
  BY CleanupStep
<1>3. Consistent /\ CleanupFollowsEnd => WorktreeOutlivesAgent
  BY DEF Consistent, CleanupFollowsEnd, WorktreeOutlivesAgent, PipesFollowWork,
         Settled
<1>. QED
  BY <1>1, <1>2, <1>3, SpawnConsistent, SpawnTypeCorrect, PTL DEF SpawnSpec

(***************************************************************************)
(* The mailbox.                                                            *)
(***************************************************************************)

\* A watcher gives an in-process agent no outcome but "killed" by itself.
LEMMA AttendOutcome ==
  ASSUME Consistent, NEW a \in Tasks, Attend(a), NEW b \in Tasks
  PROVE  /\ kind' = kind
         /\ \/ outcome'[b] = outcome[b]
            \/ outcome'[b] = "killed"
            \/ kind[b] = "command"
<1> USE DEF Consistent, TypeOK
<1>1. CASE Launch(a)
  BY <1>1 DEF Launch
<1>2. CASE LaunchFails(a)
  BY <1>2 DEF LaunchFails, Settle
<1>3. CASE OpenLog(a)
  BY <1>3 DEF OpenLog
<1>4. CASE OpenLogFails(a)
  BY <1>4 DEF OpenLogFails, Settle
<1>5. CASE NoticeExit(a)
  BY <1>5 DEF NoticeExit
<1>6. CASE NoticeKill(a)
  BY <1>6 DEF NoticeKill
<1>7. CASE Finish(a)
  BY <1>7 DEF Finish, Settle
<1>8. CASE WatcherReturns(a)
  BY <1>8 DEF WatcherReturns
<1>. QED
  BY <1>1, <1>2, <1>3, <1>4, <1>5, <1>6, <1>7, <1>8 DEF Attend

\* The outcome of an in-process job has been posted before it is returned.
LEMMA PostedStep ==
  Consistent /\ SpawnTypeOK /\ OutcomeWasPosted /\ [SpawnNext]_svars
    => OutcomeWasPosted'
<1> SUFFICES ASSUME Consistent, SpawnTypeOK, OutcomeWasPosted,
                    [SpawnNext]_svars
             PROVE  OutcomeWasPosted'
  OBVIOUS
<1>0. ASSUME UNCHANGED spawnVars,
             \A b \in Tasks :
               \/ kind'[b] = kind[b] /\ outcome'[b] = outcome[b]
               \/ outcome'[b] \notin {"ok", "err"}
               \/ kind'[b] # "in_process"
      PROVE  OutcomeWasPosted'
  BY <1>0 DEF OutcomeWasPosted, spawnVars
<1> USE DEF Consistent, TypeOK, SpawnTypeOK, OutcomeWasPosted
<1>1. ASSUME NEW a \in Tasks, NEW m \in Modes, Resolve(a, m)
      PROVE  OutcomeWasPosted'
  BY <1>1 DEF Resolve, vars
<1>2. ASSUME NEW a \in Tasks, AddWorktree(a)
      PROVE  OutcomeWasPosted'
  BY <1>2 DEF AddWorktree, vars
<1>3. ASSUME NEW a \in Tasks, AddWorktreeFails(a)
      PROVE  OutcomeWasPosted'
  BY <1>3 DEF AddWorktreeFails, vars
<1>4. ASSUME NEW a \in Tasks, CreateAgentTask(a)
      PROVE  OutcomeWasPosted'
  <2>1. CASE Count(a, IF mode[a] = "in_process" THEN "in_process" ELSE "command")
    <3>1. outcome' = outcome /\ \A b \in Tasks \ {a} : kind'[b] = kind[b]
      BY <2>1 DEF Count
    <3>2. outcome[a] = "none"
      BY <2>1 DEF Count, RecordFollowsWatcher, Settled
    <3>. QED
      BY <1>4, <3>1, <3>2, <1>0 DEF CreateAgentTask
  <2>2. CASE Insert(a) \/ SpawnWatcher(a)
    BY <1>4, <2>2, <1>0 DEF CreateAgentTask, Insert, SpawnWatcher
  <2>. QED
    BY <1>4, <2>1, <2>2 DEF CreateAgentTask
<1>5. ASSUME NEW a \in Tasks, StoreWatcher(a)
      PROVE  OutcomeWasPosted'
  BY <1>5 DEF StoreWatcher, vars
<1>6. ASSUME NEW a \in Tasks, RegisterCleanup(a)
      PROVE  OutcomeWasPosted'
  BY <1>6 DEF RegisterCleanup, Register
<1>7. ASSUME NEW a \in Tasks, DropSpawn(a)
      PROVE  OutcomeWasPosted'
  BY <1>7 DEF DropSpawn, Abandon, vars
<1>8. ASSUME NEW a \in Tasks, NEW r \in {"ok", "err"}, RunnerReturns(a, r)
      PROVE  OutcomeWasPosted'
  BY <1>8 DEF RunnerReturns, vars
<1>9. ASSUME NEW a \in Tasks, PostIdle(a)
      PROVE  OutcomeWasPosted'
  BY <1>9 DEF PostIdle, vars
<1>10. ASSUME NEW a \in Tasks, ReturnResult(a)
       PROVE  OutcomeWasPosted'
  <2>1. PICK r \in {"ok", "err"} : r = result[a] /\ JobReturns(a, r)
    BY <1>10 DEF ReturnResult
  <2>2. /\ inbox[a] # "none"
        /\ UNCHANGED <<spawnVars, kind>>
        /\ outcome' = [outcome EXCEPT ![a] = r]
    BY <1>10, <2>1 DEF ReturnResult, JobReturns
  <2>. QED
    BY <2>1, <2>2 DEF spawnVars
<1>11. ASSUME NEW a \in Tasks, JobPanics(a), UNCHANGED spawnVars
       PROVE  OutcomeWasPosted'
  BY <1>11, <1>0 DEF JobPanics
<1>12. ASSUME NEW a \in Tasks, Attend(a), UNCHANGED spawnVars
       PROVE  OutcomeWasPosted'
  BY <1>12, <1>0, AttendOutcome
<1>13. ASSUME NEW a \in Tasks, NEW l \in Listeners, HearCompletion(a, l)
       PROVE  OutcomeWasPosted'
  BY <1>13 DEF HearCompletion, CallListener
<1>14. ASSUME NEW a \in Tasks, RemoveWorktree(a)
       PROVE  OutcomeWasPosted'
  BY <1>14 DEF RemoveWorktree, vars
<1>15. ASSUME NEW a \in Tasks, Process(a), UNCHANGED spawnVars
       PROVE  OutcomeWasPosted'
  BY <1>15, <1>0 DEF Process, ChildExits, ChildForks, HeirExits
<1>16. ASSUME NEW a \in Tasks, Stop(a), UNCHANGED spawnVars
       PROVE  OutcomeWasPosted'
  BY <1>16, <1>0 DEF Stop, StopMark, StopSend
<1>17. ASSUME NEW a \in Tasks, Log(a), UNCHANGED spawnVars
       PROVE  OutcomeWasPosted'
  BY <1>17, <1>0 DEF Log, Emit, CopyOutput, WriteEnds
<1>18. ASSUME NEW l \in Listeners, Listen(l), UNCHANGED spawnVars
       PROVE  OutcomeWasPosted'
  BY <1>18, <1>0 DEF Listen, Register, Unregister, RemoveListener
<1>19. CASE UNCHANGED svars
  BY <1>19 DEF svars, spawnVars, vars
<1>. QED
  BY <1>1, <1>2, <1>3, <1>4, <1>5, <1>6, <1>7, <1>8, <1>9,
     <1>10, <1>11, <1>12, <1>13, <1>14, <1>15, <1>16, <1>17, <1>18, <1>19
     DEF SpawnNext, SpawnProceeds, AgentJob

\* What a parent reads in the mailbox and in the task table agree.
THEOREM NotificationsMatch ==
  ASSUME OneListenerEach
  PROVE  SpawnSpec => []NotificationMatchesStatus
<1>1. SpawnInit => OutcomeWasPosted
  BY DEF SpawnInit, Init, OutcomeWasPosted
<1>2. Consistent /\ SpawnTypeOK /\ OutcomeWasPosted /\ [SpawnNext]_svars
        => OutcomeWasPosted'
  BY PostedStep
<1>3. Consistent /\ SpawnTypeOK /\ OutcomeWasPosted
        => NotificationMatchesStatus
  BY DEF Consistent, RecordFollowsWatcher, SpawnTypeOK, OutcomeWasPosted,
         NotificationMatchesStatus
<1>. QED
  BY <1>1, <1>2, <1>3, SpawnConsistent, SpawnTypeCorrect, PTL DEF SpawnSpec
=============================================================================
