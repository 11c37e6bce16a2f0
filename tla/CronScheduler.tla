----------------------------- MODULE CronScheduler -----------------------------
(***************************************************************************)
(* The cron scheduler of oh-services (cron/mod.rs), for one job: its       *)
(* record on disk, the tokio task that runs its loop, the table of task    *)
(* handles, and the calls of start, stop, add, pause, resume and remove    *)
(* that interleave with the loop and with each other.  Jobs with different *)
(* ids share nothing but the mutex around the table.                       *)
(*                                                                         *)
(* Abort ends a loop at its await.  The rename at the end of put runs on a *)
(* blocking thread, which abort does not reach: it lands all the same.     *)
(* Time and schedules are left out: a sleep may end at any moment.         *)
(***************************************************************************)
EXTENDS Naturals, FiniteSets

CONSTANTS
  Loops,     \* the loops that may live at a time (bounds the model)
  Callers,   \* the calls under way at a time
  MaxCalls,  \* calls made in all (bounds the model)
  None       \* no loop, no call

ASSUME CronAssumption == None \notin Loops /\ MaxCalls \in Nat

VARIABLES
  disk,     \* <id>.json: absent, or its enabled flag
  loop,     \* loop[l]: where the loop is
  landing,  \* loops whose rename is on its way, aborted or not
  handle,   \* the entry of the job in CronScheduler.handles
  op,       \* op[c]: the call c makes
  pc,       \* pc[c]: the step it is at
  mine,     \* mine[c]: the loop it spawned
  made,     \* calls made so far
  paused    \* the last call was a pause, and it took effect (history variable)

vars == <<disk, loop, landing, handle, op, pc, mine, made, paused>>

Ops == {"start", "stop", "add", "add_disabled", "pause", "resume", "remove"}

Alive(l) == loop[l] # "none"

TypeOK ==
  /\ disk \in {"absent", "on", "off"}
  /\ loop \in [Loops -> {"none", "sleeping", "firing", "fired", "persisting"}]
  /\ landing \subseteq Loops
  /\ handle \in Loops \cup {None}
  /\ op \in [Callers -> Ops \cup {None}]
  /\ pc \in [Callers -> {"idle", "listing", "cancelling", "reading", "putting",
                         "spawning", "inserting", "deleting"}]
  /\ mine \in [Callers -> Loops \cup {None}]
  /\ \A c \in Callers : mine[c] # None <=> pc[c] = "inserting"
  /\ made \in 0..MaxCalls
  /\ paused \in BOOLEAN

Init ==
  /\ disk \in {"absent", "on", "off"}
  /\ loop = [l \in Loops |-> "none"]
  /\ landing = {}
  /\ handle = None
  /\ op = [c \in Callers |-> None]
  /\ pc = [c \in Callers |-> "idle"]
  /\ mine = [c \in Callers |-> None]
  /\ made = 0
  /\ paused = FALSE

(***************************************************************************)
(* Calls.                                                                  *)
(***************************************************************************)

FirstStep(o) ==
  IF o = "start" THEN "listing"
  ELSE IF o \in {"stop", "pause", "remove"} THEN "cancelling"
  ELSE IF o = "resume" THEN "reading"
  ELSE "putting"

Call(c, o) ==
  /\ pc[c] = "idle" /\ made < MaxCalls
  /\ made' = made + 1
  /\ op' = [op EXCEPT ![c] = o]
  /\ pc' = [pc EXCEPT ![c] = FirstStep(o)]
  /\ paused' = FALSE
  /\ UNCHANGED <<disk, loop, landing, handle, mine>>

\* The call goes on, or returns: with ok, it took effect.
GoOn(c, step) == pc' = [pc EXCEPT ![c] = step] /\ UNCHANGED <<op, mine, made, paused>>

ReturnFrom(c, ok) ==
  /\ pc' = [pc EXCEPT ![c] = "idle"]
  /\ op' = [op EXCEPT ![c] = None]
  /\ mine' = [mine EXCEPT ![c] = None]
  /\ paused' = (ok /\ op[c] = "pause")
  /\ UNCHANGED made

\* start lists the store and spawns what is enabled; it returns without if the
\* record is not, or the listing fails.
ListJobs(c) ==
  /\ pc[c] = "listing"
  /\ \/ disk = "on" /\ GoOn(c, "spawning")
     \/ ReturnFrom(c, disk # "on")
  /\ UNCHANGED <<disk, loop, landing, handle>>

\* abort: the loop takes no further step of its own.
Aborted(l) == [loop EXCEPT ![l] = "none"]

\* cancel_task, or the drain of stop, under the table's mutex.
CancelTask(c) ==
  /\ pc[c] = "cancelling"
  /\ handle' = None
  /\ loop' = IF handle = None THEN loop ELSE Aborted(handle)
  /\ \/ op[c] = "stop"   /\ ReturnFrom(c, TRUE)
     \/ op[c] = "pause"  /\ GoOn(c, "reading")
     \/ op[c] = "remove" /\ GoOn(c, "deleting")
  /\ UNCHANGED <<disk, landing>>

\* get: NotFound, a record that cannot be read or a schedule without a next run
\* ends the call, after a pause has cancelled the task.
ReadJob(c) ==
  /\ pc[c] = "reading"
  /\ \/ disk # "absent" /\ GoOn(c, "putting")
     \/ ReturnFrom(c, FALSE)
  /\ UNCHANGED <<disk, loop, landing, handle>>

\* The flag a call puts.
Flag(c) == IF op[c] \in {"add", "resume"} THEN "on" ELSE "off"

\* put, whatever happened to the record since the call's get.
PutJob(c) ==
  /\ pc[c] = "putting"
  /\ disk' = Flag(c)
  /\ IF op[c] \in {"add", "resume"} THEN GoOn(c, "spawning") ELSE ReturnFrom(c, TRUE)
  /\ UNCHANGED <<loop, landing, handle>>

\* put fails, before its rename or, when the directory is synced, after it.
PutFails(c) ==
  /\ pc[c] = "putting"
  /\ disk' \in {disk, Flag(c)}
  /\ ReturnFrom(c, FALSE)
  /\ UNCHANGED <<loop, landing, handle>>

\* spawn_job: the loop runs before its handle is in the table.
SpawnLoop(c) ==
  /\ pc[c] = "spawning"
  /\ \E l \in Loops :
       /\ ~Alive(l) /\ l \notin landing /\ \A d \in Callers : mine[d] # l
       /\ loop' = [loop EXCEPT ![l] = "sleeping"]
       /\ mine' = [mine EXCEPT ![c] = l]
  /\ pc' = [pc EXCEPT ![c] = "inserting"]
  /\ UNCHANGED <<disk, landing, handle, op, made, paused>>

\* Mutant: the stale task of the same id is not aborted.
InsertOver(c) ==
  /\ pc[c] = "inserting"
  /\ handle' = IF Alive(mine[c]) THEN mine[c] ELSE None
  /\ ReturnFrom(c, TRUE)
  /\ UNCHANGED <<disk, loop, landing>>

\* A handle whose loop ended by itself is as good as none.
InsertHandle(c) ==
  /\ pc[c] = "inserting"
  /\ handle' = IF Alive(mine[c]) THEN mine[c] ELSE None
  /\ loop' = IF handle = None THEN loop ELSE Aborted(handle)
  /\ ReturnFrom(c, TRUE)
  /\ UNCHANGED <<disk, landing>>

\* The file is removed, or the call fails after the task was cancelled.
DeleteJob(c) ==
  /\ pc[c] = "deleting"
  /\ disk' \in {disk, "absent"}
  /\ ReturnFrom(c, disk' = "absent")
  /\ UNCHANGED <<loop, landing, handle>>

(***************************************************************************)
(* job_loop.                                                               *)
(***************************************************************************)

Step(l, from, to) == loop[l] = from /\ loop' = [loop EXCEPT ![l] = to]

Wake(l) ==
  /\ Step(l, "sleeping", "firing")
  /\ UNCHANGED <<disk, landing, handle, op, pc, mine, made, paused>>

\* No next run can be computed: the loop ends.
NoNextRun(l) ==
  /\ Step(l, "sleeping", "none")
  /\ handle' = IF handle = l THEN None ELSE handle
  /\ UNCHANGED <<disk, landing, op, pc, mine, made, paused>>

\* runner.fire returns; its error is ignored.
Fired(l) ==
  /\ Step(l, "firing", "fired")
  /\ UNCHANGED <<disk, landing, handle, op, pc, mine, made, paused>>

\* The loop goes on to put its copy of the record, which is enabled.
Persist(l) ==
  /\ Step(l, "fired", "persisting")
  /\ landing' = landing \cup {l}
  /\ UNCHANGED <<disk, handle, op, pc, mine, made, paused>>

\* The reloaded record is enabled, or is missing.
Reload(l) == disk # "off" /\ Persist(l)

\* get fails: the loop goes on as if nobody had paused the job.
ReloadFails(l) == disk = "off" /\ Persist(l)

\* Mutant: the reloaded flag is not looked at.
ReloadBlindly(l) == disk = "off" /\ Persist(l)

\* The reloaded record is disabled: the loop ends.
ReloadPaused(l) ==
  /\ disk = "off"
  /\ Step(l, "fired", "none")
  /\ handle' = IF handle = l THEN None ELSE handle
  /\ UNCHANGED <<disk, landing, op, pc, mine, made, paused>>

\* The rename lands, whoever aborted the loop or wrote the record meanwhile.
Land(l) ==
  /\ l \in landing
  /\ disk' = "on"
  /\ landing' = landing \ {l}
  /\ loop' = IF loop[l] = "persisting" THEN [loop EXCEPT ![l] = "sleeping"] ELSE loop
  /\ UNCHANGED <<handle, op, pc, mine, made, paused>>

\* put fails: the loop goes on.
PersistFails(l) ==
  /\ l \in landing
  /\ landing' = landing \ {l}
  /\ loop' = IF loop[l] = "persisting" THEN [loop EXCEPT ![l] = "sleeping"] ELSE loop
  /\ UNCHANGED <<disk, handle, op, pc, mine, made, paused>>

(***************************************************************************)
(* The process dies, and with it every loop and call.                      *)
(***************************************************************************)

Crash ==
  /\ loop' = [l \in Loops |-> "none"]
  /\ landing' = {}
  /\ handle' = None
  /\ op' = [c \in Callers |-> None]
  /\ pc' = [c \in Callers |-> "idle"]
  /\ mine' = [c \in Callers |-> None]
  /\ paused' = FALSE
  /\ UNCHANGED <<disk, made>>

(***************************************************************************)
(* The specification.                                                      *)
(***************************************************************************)

CallGoesOn(c) ==
  \/ ListJobs(c) \/ CancelTask(c) \/ ReadJob(c) \/ PutJob(c) \/ PutFails(c)
  \/ SpawnLoop(c) \/ InsertHandle(c) \/ DeleteJob(c)

LoopGoesOn(l) ==
  \/ Wake(l) \/ NoNextRun(l) \/ Fired(l) \/ Reload(l) \/ ReloadFails(l) \/ ReloadPaused(l)
  \/ Land(l) \/ PersistFails(l)

Next ==
  \/ \E c \in Callers : CallGoesOn(c) \/ \E o \in Ops : Call(c, o)
  \/ \E l \in Loops : LoopGoesOn(l)
  \/ Crash

Spec == Init /\ [][Next]_vars

\* tokio runs calls and loops that are ready, a sleep ends, the runner returns,
\* and get does not fail for ever.
FairSpec ==
  /\ Spec
  /\ \A c \in Callers : WF_vars(CallGoesOn(c))
  /\ \A l \in Loops : WF_vars(LoopGoesOn(l)) /\ SF_vars(ReloadPaused(l))

(***************************************************************************)
(* Properties.                                                             *)
(***************************************************************************)

\* Whatever calls overlap, a loop that runs is the one pause, remove and stop
\* would abort, or will be as soon as the call that spawned it goes on: none
\* runs on unknown to the table.
LoopsAccounted ==
  \A l \in Loops : Alive(l) => handle = l \/ \E c \in Callers : mine[c] = l

\* Why: the table names a live loop, and each loop one owner.
OneOwner ==
  /\ handle # None => Alive(handle)
  /\ \A c \in Callers : mine[c] # None => handle # mine[c]
  /\ \A c, d \in Callers : mine[c] = mine[d] /\ mine[c] # None => c = d

\* A loop that the table no longer reaches (it was spawned by a resume that a
\* pause overtook) ends by itself once the record stays disabled, although it
\* fires again first and its puts may fail.
DisabledLoopsEnd ==
  <>[](disk = "off") => \A l \in Loops : []<>~Alive(l)

(***************************************************************************)
(* What the documentation of the module says and the code does not do.     *)
(***************************************************************************)

\* "`pause` aborts the task handle and sets `enabled = false`": after a pause
\* that no other call followed, the record is disabled.
PauseSticks == paused => disk = "off"
=============================================================================
