--------------------------- MODULE BackgroundTasks ---------------------------
(***************************************************************************)
(* The background task manager of oh-services (tasks/manager.rs): shell    *)
(* and remote-agent tasks are child processes watched by a tokio task      *)
(* (spawn_and_watch), in-process teammates are futures driven by one       *)
(* (spawn_in_process).  The creator, the watcher of every task, the        *)
(* callers of stop_task and the registrations of completion listeners      *)
(* interleave; what they share is `Inner`, behind one tokio mutex, so the  *)
(* unit of atomicity is one locked section.                                *)
(*                                                                         *)
(* Task ids and listener ids are fresh uuids in the code, so each member   *)
(* of Tasks and Listeners is used at most once.                            *)
(***************************************************************************)
EXTENDS Integers, FiniteSets, Sequences

CONSTANTS
  Tasks,      \* the task ids that may be created (bounds the model)
  Listeners   \* the completion listeners that may be registered

ASSUME TasksFinite == IsFiniteSet(Tasks)

VARIABLES
  kind,       \* kind[t]: which watcher runs t
  pc,         \* pc[t]: how far the creation of t, then its watcher, has come
  work,       \* work[t]: the child process, or the job future
  heir,       \* heir[t]: a process the child started, holding its pipes
  output,     \* output[t]: where the newest output of t is on its way to the log
  status,     \* status[t]: record.status
  code,       \* code[t]: record.return_code
  kill,       \* kill[t]: the oneshot channel of t's kill signal
  outcome,    \* outcome[t]: the arm the watcher's select! took
  gauge,      \* oh_telemetry::ACTIVE_BACKGROUND_TASKS
  reg,        \* reg[l]: registration of listener l
  todo,       \* todo[t]: listeners of t's snapshot not yet called
  news,       \* news[t]: the status in t's snapshot
  heard       \* heard[l][t]: the statuses l was called with, for t

vars == <<kind, pc, work, heir, output, status, code, kill, outcome, gauge,
          reg, todo, news, heard>>

Kinds    == {"unknown", "command", "in_process"}
Terminal == {"completed", "failed", "killed"}
Steps    == {"absent", "counted", "abandoned", "inserted", "launching",
             "opening", "selecting", "closing", "firing", "done", "dead"}

(***************************************************************************)
(* Helper state formulas.                                                  *)
(***************************************************************************)

\* The task is in Inner.tasks (entries are never removed).
InTable(t) == pc[t] \notin {"absent", "counted", "abandoned"}

\* Tasks the gauge counts: +1 before the insert, -1 in the watcher's last
\* locked section.
Counted == {t \in Tasks : pc[t] \notin {"absent", "firing", "done"}}

\* The watcher has run its last locked section.
Settled(t) == pc[t] \in {"firing", "done"}

\* Someone can still write to the pipes the watcher drains into the log.
PipeOpen(t) == (work[t] = "alive" /\ kind[t] = "command") \/ heir[t] = "alive"

\* The listeners snapshot_listeners clones under the lock.
Registered == {l \in Listeners : reg[l] \in {"on", "leaving"}}

TypeOK ==
  /\ kind \in [Tasks -> Kinds]
  /\ pc \in [Tasks -> Steps]
  /\ work \in [Tasks -> {"none", "alive", "ok", "err", "gone"}]
  /\ heir \in [Tasks -> {"none", "alive", "gone"}]
  /\ output \in [Tasks -> {"none", "unread", "writing"}]
  /\ status \in [Tasks -> {"none", "running"} \cup Terminal]
  /\ code \in [Tasks -> {"none", "zero", "nonzero"}]
  /\ kill \in [Tasks -> {"armed", "taken", "sent"}]
  /\ outcome \in [Tasks -> {"none", "ok", "err", "killed"}]
  /\ gauge \in Int
  /\ reg \in [Listeners -> {"new", "on", "leaving", "off"}]
  /\ todo \in [Tasks -> SUBSET Listeners]
  /\ news \in [Tasks -> {"none", "running"} \cup Terminal]
  /\ heard \in [Listeners -> [Tasks -> Seq({"none", "running"} \cup Terminal)]]

Init ==
  /\ kind = [t \in Tasks |-> "unknown"]
  /\ pc = [t \in Tasks |-> "absent"]
  /\ work = [t \in Tasks |-> "none"]
  /\ heir = [t \in Tasks |-> "none"]
  /\ output = [t \in Tasks |-> "none"]
  /\ status = [t \in Tasks |-> "none"]
  /\ code = [t \in Tasks |-> "none"]
  /\ kill = [t \in Tasks |-> "armed"]
  /\ outcome = [t \in Tasks |-> "none"]
  /\ gauge = 0
  /\ reg = [l \in Listeners |-> "new"]
  /\ todo = [t \in Tasks |-> {}]
  /\ news = [t \in Tasks |-> "none"]
  /\ heard = [l \in Listeners |-> [t \in Tasks |-> <<>>]]

(***************************************************************************)
(* Creation.                                                               *)
(***************************************************************************)

\* create_command_task / create_in_process_task up to the first lock: the
\* gauge counts the task before anything else knows of it.
Count(t, k) ==
  /\ pc[t] = "absent"
  /\ kind' = [kind EXCEPT ![t] = k]
  /\ pc' = [pc EXCEPT ![t] = "counted"]
  /\ gauge' = gauge + 1
  /\ UNCHANGED <<work, heir, output, status, code, kill, outcome, reg, todo, news, heard>>

\* The creator's future is dropped while it waits for the lock (a cancelled
\* turn drops the tool call that awaits it): the task is never inserted.
Abandon(t) ==
  /\ pc[t] = "counted"
  /\ pc' = [pc EXCEPT ![t] = "abandoned"]
  /\ UNCHANGED <<kind, work, heir, output, status, code, kill, outcome, gauge,
                 reg, todo, news, heard>>

\* Locked section: the Running record enters the table.
Insert(t) ==
  /\ pc[t] = "counted"
  /\ pc' = [pc EXCEPT ![t] = "inserted"]
  /\ status' = [status EXCEPT ![t] = "running"]
  /\ UNCHANGED <<kind, work, heir, output, code, kill, outcome, gauge,
                 reg, todo, news, heard>>

\* tokio::spawn of the watcher.  An in-process watcher polls its job at once.
SpawnWatcher(t) ==
  /\ pc[t] = "inserted"
  /\ \/ /\ kind[t] = "command"
        /\ pc' = [pc EXCEPT ![t] = "launching"]
        /\ UNCHANGED work
     \/ /\ kind[t] = "in_process"
        /\ pc' = [pc EXCEPT ![t] = "selecting"]
        /\ work' = [work EXCEPT ![t] = "alive"]
  /\ UNCHANGED <<kind, heir, output, status, code, kill, outcome, gauge,
                 reg, todo, news, heard>>

(***************************************************************************)
(* The watcher's last locked section: the record is settled, the gauge     *)
(* goes down and record and listeners are cloned; they are called later,   *)
(* without the lock.                                                       *)
(***************************************************************************)
Settle(t, s, c) ==
  /\ status' = [status EXCEPT ![t] = s]
  /\ code' = [code EXCEPT ![t] = c]
  /\ gauge' = gauge - 1
  /\ todo' = [todo EXCEPT ![t] = Registered]
  /\ news' = [news EXCEPT ![t] = s]
  /\ pc' = [pc EXCEPT ![t] = "firing"]

(***************************************************************************)
(* The watcher of a command task.                                          *)
(***************************************************************************)

Launch(t) ==
  /\ pc[t] = "launching"
  /\ work' = [work EXCEPT ![t] = "alive"]
  /\ pc' = [pc EXCEPT ![t] = "opening"]
  /\ UNCHANGED <<kind, heir, output, status, code, kill, outcome, gauge,
                 reg, todo, news, heard>>

\* Mutant: the launch error returns before the listeners are called.
LaunchFailsQuietly(t) ==
  /\ pc[t] = "launching"
  /\ status' = [status EXCEPT ![t] = "failed"]
  /\ code' = [code EXCEPT ![t] = "nonzero"]
  /\ gauge' = gauge - 1
  /\ pc' = [pc EXCEPT ![t] = "done"]
  /\ UNCHANGED <<kind, work, heir, output, kill, outcome, reg, todo, news, heard>>

\* Command::spawn fails: the record becomes Failed whatever it was.
LaunchFails(t) ==
  /\ pc[t] = "launching"
  /\ Settle(t, "failed", "nonzero")
  /\ UNCHANGED <<kind, work, heir, output, kill, outcome, reg, heard>>

OpenLog(t) ==
  /\ pc[t] = "opening"
  /\ pc' = [pc EXCEPT ![t] = "selecting"]
  /\ UNCHANGED <<kind, work, heir, output, status, code, kill, outcome, gauge,
                 reg, todo, news, heard>>

\* The log cannot be opened: the child is killed, the record becomes Failed
\* whatever it was.
OpenLogFails(t) ==
  /\ pc[t] = "opening"
  /\ work' = [work EXCEPT ![t] = "gone"]
  /\ Settle(t, "failed", "nonzero")
  /\ UNCHANGED <<kind, heir, output, kill, outcome, reg, heard>>

\* The arm `status = child.wait()`.
NoticeExit(t) ==
  /\ pc[t] = "selecting" /\ kind[t] = "command"
  /\ work[t] \in {"ok", "err"}
  /\ outcome' = [outcome EXCEPT ![t] = work[t]]
  /\ pc' = [pc EXCEPT ![t] = "closing"]
  /\ UNCHANGED <<kind, work, heir, output, status, code, kill, gauge,
                 reg, todo, news, heard>>

\* The arm `_ = kill_rx`.  A command's child is killed and reaped; it leads
\* no process group, so kill(-pid) reaches nobody and an heir lives on.  An
\* in-process job is dropped.
NoticeKill(t) ==
  /\ pc[t] = "selecting"
  /\ kill[t] = "sent"
  /\ outcome' = [outcome EXCEPT ![t] = "killed"]
  /\ work' = [work EXCEPT ![t] = "gone"]
  /\ pc' = [pc EXCEPT ![t] = "closing"]
  /\ UNCHANGED <<kind, heir, output, status, code, kill, gauge, reg, todo, news, heard>>

(***************************************************************************)
(* The in-process job.                                                     *)
(***************************************************************************)

\* The arm `res = job`: the result is text for the log.
JobReturns(t, r) ==
  /\ pc[t] = "selecting" /\ kind[t] = "in_process"
  /\ work' = [work EXCEPT ![t] = r]
  /\ outcome' = [outcome EXCEPT ![t] = r]
  /\ output' = [output EXCEPT ![t] = "unread"]
  /\ pc' = [pc EXCEPT ![t] = "closing"]
  /\ UNCHANGED <<kind, heir, status, code, kill, gauge, reg, todo, news, heard>>

\* The job panics inside the watcher's tokio task, which ends there; nobody
\* awaits its JoinHandle.
JobPanics(t) ==
  /\ pc[t] = "selecting" /\ kind[t] = "in_process"
  /\ work' = [work EXCEPT ![t] = "gone"]
  /\ pc' = [pc EXCEPT ![t] = "dead"]
  /\ UNCHANGED <<kind, heir, output, status, code, kill, outcome, gauge,
                 reg, todo, news, heard>>

(***************************************************************************)
(* The log.  What comes through the pipes is read by two copy tasks, what  *)
(* the job returned is written by the watcher.  A tokio File hands a write *)
(* to a blocking thread and returns; the error of a write that failed is   *)
(* given to the next call on the File and ignored there with its bytes.    *)
(***************************************************************************)

\* The child, or a process it left behind, writes to the pipes.
Emit(t) ==
  /\ PipeOpen(t) /\ ~Settled(t)
  /\ output' = [output EXCEPT ![t] = "unread"]
  /\ UNCHANGED <<kind, pc, work, heir, status, code, kill, outcome, gauge,
                 reg, todo, news, heard>>

\* Read, and handed to the File.  The bytes are lost if an earlier write had
\* failed or, for a job's result, if the log cannot be opened.
CopyOutput(t) ==
  /\ pc[t] \in {"selecting", "closing"} /\ output[t] = "unread"
  /\ output' \in {[output EXCEPT ![t] = "writing"], [output EXCEPT ![t] = "none"]}
  /\ UNCHANGED <<kind, pc, work, heir, status, code, kill, outcome, gauge,
                 reg, todo, news, heard>>

\* The blocking thread is through with the write, whether it succeeded or not.
WriteEnds(t) ==
  /\ output[t] = "writing"
  /\ output' = [output EXCEPT ![t] = "none"]
  /\ UNCHANGED <<kind, pc, work, heir, status, code, kill, outcome, gauge,
                 reg, todo, news, heard>>

(***************************************************************************)
(* Closing: the watcher awaits the end of both copy tasks, which comes     *)
(* with the end of the pipes, or writes and flushes the job's result; then *)
(* the last locked section.  Nobody flushes the File of a command.         *)
(***************************************************************************)

\* A Killed set by stop_task is preserved, and the kill arm of a command does
\* not touch the record.
KeepsRecord(t) ==
  status[t] = "killed" \/ (outcome[t] = "killed" /\ kind[t] = "command")

FinalStatus(t) ==
  IF KeepsRecord(t) THEN status[t]
  ELSE IF outcome[t] = "ok" THEN "completed"
  ELSE IF outcome[t] = "err" THEN "failed" ELSE "killed"

FinalCode(t) ==
  IF KeepsRecord(t) THEN code[t]
  ELSE IF outcome[t] = "ok" THEN "zero" ELSE "nonzero"

\* Mutant: the record is settled when the child is reaped, without waiting for
\* the copy tasks.
FinishUndrained(t) ==
  /\ pc[t] = "closing"
  /\ Settle(t, FinalStatus(t), FinalCode(t))
  /\ UNCHANGED <<kind, work, heir, output, kill, outcome, reg, heard>>

\* Every byte was read, and a job's result flushed.
Drained(t) ==
  /\ ~PipeOpen(t)
  /\ output[t] # "unread"
  /\ kind[t] = "in_process" => output[t] # "writing"

Finish(t) ==
  /\ pc[t] = "closing"
  /\ Drained(t)
  /\ Settle(t, FinalStatus(t), FinalCode(t))
  /\ UNCHANGED <<kind, work, heir, output, kill, outcome, reg, heard>>

\* Mutant: a listener that was called stays in the snapshot.
CallListenerAgain(t, l) ==
  /\ pc[t] = "firing" /\ l \in todo[t]
  /\ Len(heard[l][t]) < 2
  /\ heard' = [heard EXCEPT ![l][t] = Append(@, news[t])]
  /\ UNCHANGED <<kind, pc, work, heir, output, status, code, kill, outcome, gauge, reg,
                 todo, news>>

\* fire_listeners: one call of the snapshot, in the order of a HashMap.
CallListener(t, l) ==
  /\ pc[t] = "firing" /\ l \in todo[t]
  /\ todo' = [todo EXCEPT ![t] = @ \ {l}]
  /\ heard' = [heard EXCEPT ![l][t] = Append(@, news[t])]
  /\ UNCHANGED <<kind, pc, work, heir, output, status, code, kill, outcome, gauge, reg, news>>

WatcherReturns(t) ==
  /\ pc[t] = "firing" /\ todo[t] = {}
  /\ pc' = [pc EXCEPT ![t] = "done"]
  /\ UNCHANGED <<kind, work, heir, output, status, code, kill, outcome, gauge,
                 reg, todo, news, heard>>

(***************************************************************************)
(* stop_task.  The first locked section marks the record and takes the     *)
(* sender; the send follows without the lock.                              *)
(***************************************************************************)

\* Mutant: stop_task decrements the gauge too, as it did before ENG-5.
StopMarkUncounts(t) ==
  /\ InTable(t)
  /\ status[t] \notin Terminal
  /\ status' = [status EXCEPT ![t] = "killed"]
  /\ kill' = [kill EXCEPT ![t] = "taken"]
  /\ gauge' = gauge - 1
  /\ UNCHANGED <<kind, pc, work, heir, output, code, outcome, reg, todo, news, heard>>

\* Mutant: the record is left for the watcher to mark.
StopMarkLater(t) ==
  /\ InTable(t)
  /\ status[t] \notin Terminal
  /\ kill[t] = "armed"
  /\ kill' = [kill EXCEPT ![t] = "taken"]
  /\ UNCHANGED <<kind, pc, work, heir, output, status, code, outcome, gauge, reg,
                 todo, news, heard>>

StopMark(t) ==
  /\ InTable(t)
  /\ status[t] \notin Terminal
  /\ status' = [status EXCEPT ![t] = "killed"]
  /\ kill' = [kill EXCEPT ![t] = "taken"]
  /\ UNCHANGED <<kind, pc, work, heir, output, code, outcome, gauge, reg, todo, news, heard>>

\* send, or the drop of the sender with the caller's future: either wakes the
\* watcher.
StopSend(t) ==
  /\ kill[t] = "taken"
  /\ kill' = [kill EXCEPT ![t] = "sent"]
  /\ UNCHANGED <<kind, pc, work, heir, output, status, code, outcome, gauge,
                 reg, todo, news, heard>>

(***************************************************************************)
(* Completion listeners.                                                   *)
(***************************************************************************)

Register(l) ==
  /\ reg[l] = "new"
  /\ reg' = [reg EXCEPT ![l] = "on"]
  /\ UNCHANGED <<kind, pc, work, heir, output, status, code, kill, outcome, gauge,
                 todo, news, heard>>

\* The closure register_completion_listener returned is called: it only
\* spawns the removal.
Unregister(l) ==
  /\ reg[l] = "on"
  /\ reg' = [reg EXCEPT ![l] = "leaving"]
  /\ UNCHANGED <<kind, pc, work, heir, output, status, code, kill, outcome, gauge,
                 todo, news, heard>>

RemoveListener(l) ==
  /\ reg[l] = "leaving"
  /\ reg' = [reg EXCEPT ![l] = "off"]
  /\ UNCHANGED <<kind, pc, work, heir, output, status, code, kill, outcome, gauge,
                 todo, news, heard>>

(***************************************************************************)
(* The child process and its descendants (the environment).                *)
(***************************************************************************)

ChildExits(t, r) ==
  /\ kind[t] = "command" /\ work[t] = "alive"
  /\ work' = [work EXCEPT ![t] = r]
  /\ UNCHANGED <<kind, pc, heir, output, status, code, kill, outcome, gauge,
                 reg, todo, news, heard>>

ChildForks(t) ==
  /\ kind[t] = "command" /\ work[t] = "alive" /\ heir[t] = "none"
  /\ heir' = [heir EXCEPT ![t] = "alive"]
  /\ UNCHANGED <<kind, pc, work, output, status, code, kill, outcome, gauge,
                 reg, todo, news, heard>>

HeirExits(t) ==
  /\ heir[t] = "alive"
  /\ heir' = [heir EXCEPT ![t] = "gone"]
  /\ UNCHANGED <<kind, pc, work, output, status, code, kill, outcome, gauge,
                 reg, todo, news, heard>>

(***************************************************************************)
(* The specification.                                                      *)
(***************************************************************************)

Create(t) ==
  \/ \E k \in {"command", "in_process"} : Count(t, k)
  \/ Abandon(t)
  \/ Insert(t)
  \/ SpawnWatcher(t)

Attend(t) ==
  \/ Launch(t)
  \/ LaunchFails(t)
  \/ OpenLog(t)
  \/ OpenLogFails(t)
  \/ NoticeExit(t)
  \/ NoticeKill(t)
  \/ Finish(t)
  \/ WatcherReturns(t)

Watch(t) == Attend(t) \/ \E l \in Listeners : CallListener(t, l)

Job(t) == JobPanics(t) \/ \E r \in {"ok", "err"} : JobReturns(t, r)

Process(t) ==
  \/ \E r \in {"ok", "err"} : ChildExits(t, r)
  \/ ChildForks(t)
  \/ HeirExits(t)

Log(t) == Emit(t) \/ CopyOutput(t) \/ WriteEnds(t)

Stop(t) == StopMark(t) \/ StopSend(t)

Listen(l) == Register(l) \/ Unregister(l) \/ RemoveListener(l)

Next ==
  \/ \E t \in Tasks :
       \/ Create(t) \/ Watch(t) \/ Job(t) \/ Process(t) \/ Log(t) \/ Stop(t)
  \/ \E l \in Listeners : Listen(l)

Spec == Init /\ [][Next]_vars

(***************************************************************************)
(* Safety.                                                                 *)
(***************************************************************************)

\* ENG-5: whatever stop_task, a natural exit and a failed launch race to do,
\* the gauge is the number of tasks whose watcher has not settled them yet.
GaugeCountsOpenTasks == gauge = Cardinality(Counted)

\* A listener hears of a task at most once, after the task settled, and what
\* it hears is what the table says from then on: a stop_task that arrives
\* between the unlock and the calls changes neither.
AnnouncedOnceAndFinal ==
  \A l \in Listeners, t \in Tasks :
    heard[l][t] # <<>> =>
      /\ heard[l][t] = <<status[t]>>
      /\ status[t] \in Terminal
      /\ pc[t] \in {"firing", "done"}

\* A task that ended, by itself or killed, has no output left behind that only
\* its watcher could bring into the log: nobody still writes to its pipes,
\* although the child was reaped earlier, everything was read, and a job's
\* result was flushed.  What the log may still lack is a write that failed or,
\* for a command, the last one, which nobody flushes.
OutputDrained ==
  \A t \in Tasks :
    Settled(t) /\ outcome[t] # "none" =>
      /\ work[t] # "alive" /\ heir[t] # "alive"
      /\ output[t] # "unread"
      /\ kind[t] = "in_process" => output[t] # "writing"

\* The comment in the kill arm, "Status was already set to Killed in
\* stop_task()": a watcher woken by the kill signal finds its task Killed, so
\* the command arm may leave the record alone.
KillArmSeesKilled ==
  \A t \in Tasks : outcome[t] = "killed" => status[t] = "killed"

\* The exit code never contradicts the status, whichever of stop_task and the
\* watcher wrote last: zero exactly for Completed, none while Running.
CodeMatchesStatus ==
  \A t \in Tasks :
    /\ code[t] = "zero" <=> status[t] = "completed"
    /\ status[t] = "running" => code[t] = "none"

\* Completed and Failed are final.  Killed changes only when the watcher
\* finds that it cannot launch the child or open its log.
FinalStep ==
  \A t \in Tasks :
    /\ status[t] \in {"completed", "failed"} => status'[t] = status[t]
    /\ status[t] = "killed" /\ status'[t] # "killed" =>
         status'[t] = "failed" /\ pc[t] \in {"launching", "opening"}

TerminalIsFinal == [][FinalStep]_vars

(***************************************************************************)
(* Why these hold: what is true of a task at each stage of its watcher.    *)
(***************************************************************************)

\* The record is written by its creator once, then only marked by stop_task
\* until the watcher settles it; the watcher is told of a stop after the mark.
RecordFollowsWatcher(t) ==
  /\ ~InTable(t) => status[t] = "none" /\ kill[t] = "armed"
  /\ InTable(t) /\ ~Settled(t) => status[t] \in {"running", "killed"}
  /\ Settled(t) => status[t] \in Terminal
  /\ ~Settled(t) => code[t] = "none"
  /\ status[t] = "running" => kill[t] = "armed"
  /\ outcome[t] = "killed" => status[t] = "killed"
  /\ pc[t] = "closing" => outcome[t] # "none"
  /\ pc[t] # "closing" /\ ~Settled(t) => outcome[t] = "none"
  /\ code[t] = "zero" <=> status[t] = "completed"
  /\ status[t] = "completed" => outcome[t] = "ok"
  /\ status[t] = "failed" /\ kind[t] = "in_process" => outcome[t] = "err"
  /\ pc[t] \in {"launching", "opening"} => kind[t] = "command"

\* Listeners wait for a snapshot that no longer differs from the table.
SnapshotFollowsRecord(t) ==
  /\ ~Settled(t) => todo[t] = {}
  /\ Settled(t) => news[t] = status[t]
  /\ \A l \in Listeners :
       /\ heard[l][t] \in {<<>>, <<news[t]>>}
       /\ ~Settled(t) \/ l \in todo[t] => heard[l][t] = <<>>

\* Only a living child starts an heir; a task settles without its child and,
\* unless it failed before the select!, without heirs and unread output.
PipesFollowWork(t) ==
  /\ pc[t] \in {"closing", "firing", "done"} => work[t] # "alive"
  /\ heir[t] # "none" => kind[t] = "command"
  /\ Settled(t) /\ outcome[t] # "none" =>
       /\ heir[t] # "alive"
       /\ output[t] # "unread"
       /\ kind[t] = "in_process" => output[t] # "writing"
  /\ pc[t] \in {"absent", "counted", "inserted", "launching"} =>
       work[t] = "none" /\ heir[t] = "none"

\* The inductive invariant of the proofs.
Consistent ==
  /\ TypeOK
  /\ GaugeCountsOpenTasks
  /\ \A t \in Tasks : /\ RecordFollowsWatcher(t)
                      /\ SnapshotFollowsRecord(t)
                      /\ PipesFollowWork(t)

(***************************************************************************)
(* The manager implements the ledger of TaskLedger.                        *)
(***************************************************************************)

Book(t) ==
  IF pc[t] = "absent" THEN "absent"
  ELSE IF Settled(t) THEN status[t]
  ELSE IF status[t] = "killed" THEN "stopping" ELSE "open"

Ledger == INSTANCE TaskLedger WITH
  book <- [t \in Tasks |-> Book(t)], open <- gauge, told <- heard

\* Every step of creator, watcher, stop_task and listeners is a step of the
\* ledger or changes nothing in it.
ImplementsLedger == Ledger!LedgerSpec

(***************************************************************************)
(* Liveness.                                                               *)
(***************************************************************************)

\* The end of t is near: its work ended by itself, or stop_task took the
\* kill sender.
Ending(t) ==
  /\ pc[t] \in {"inserted", "launching", "opening", "selecting", "closing"}
  /\ work[t] \in {"ok", "err"} \/ kill[t] # "armed"

\* A listener that stays registered, from whenever it came, hears of every task
\* that ends or is stopped, of either kind and also if its launch fails, unless
\* its job panics or a process the child left behind keeps the pipes open for
\* ever.  Checked in SubagentSpawn, under the fairness stated there, for the
\* agent's own listener and one that is there before it.
EveryEndIsAnnounced ==
  \A t \in Tasks, l \in Listeners :
    (Ending(t) /\ reg[l] = "on") ~>
      \/ heard[l][t] # <<>> \/ reg[l] # "on"
      \/ pc[t] = "dead"
      \/ [](heir[t] = "alive")
=============================================================================
