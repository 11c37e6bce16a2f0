---------------------------- MODULE SubagentSpawn ----------------------------
(***************************************************************************)
(* SubagentManager of oh-services (subagent/manager.rs) on top of the      *)
(* background task manager: spawn resolves the isolation of an agent,      *)
(* creates its git worktree, records it as a background task and registers *)
(* the completion listener that removes the worktree; an in-process agent  *)
(* posts an IdleNotification to its mailbox before its job returns.        *)
(*                                                                         *)
(* Every agent is one task and has one clean-up listener, named after it;  *)
(* the handle that unregisters it is dropped uncalled, so it is never      *)
(* removed.  Other listeners of the same task manager come and go.         *)
(***************************************************************************)
EXTENDS BackgroundTasks

CONSTANT Modes   \* the isolation modes that requests ask for

ASSUME ModesKnown == Modes \subseteq {"in_process", "subprocess", "worktree"}

\* What spawn makes of the constants of the task manager.
OneListenerEach == Tasks \subseteq Listeners

VARIABLES
  call,    \* call[a]: where SubagentSpawner::spawn is
  mode,    \* mode[a]: the resolved isolation
  wt,      \* wt[a]: the agent's worktree directory
  result,  \* result[a]: what the in-process runner returned
  inbox    \* inbox[a]: the IdleNotification in the agent's mailbox

spawnVars == <<call, mode, wt, result, inbox>>

SpawnTypeOK ==
  /\ call \in [Tasks -> {"new", "adding", "creating", "registering",
                         "returned", "failed", "dropped"}]
  /\ mode \in [Tasks -> {"none", "in_process", "subprocess", "worktree"}]
  /\ wt \in [Tasks -> {"none", "dir", "removing", "gone", "left"}]
  /\ result \in [Tasks -> {"none", "ok", "err"}]
  /\ inbox \in [Tasks -> {"none", "ok", "err", "lost"}]

SpawnInit ==
  /\ Init
  /\ call = [a \in Tasks |-> "new"]
  /\ mode = [a \in Tasks |-> "none"]
  /\ wt = [a \in Tasks |-> "none"]
  /\ result = [a \in Tasks |-> "none"]
  /\ inbox = [a \in Tasks |-> "none"]

(***************************************************************************)
(* spawn and spawn_remote.                                                 *)
(***************************************************************************)

Resolve(a, m) ==
  /\ call[a] = "new"
  /\ mode' = [mode EXCEPT ![a] = m]
  /\ call' = [call EXCEPT ![a] = IF m = "worktree" THEN "adding" ELSE "creating"]
  /\ UNCHANGED <<vars, wt, result, inbox>>

\* add_worktree awaits `git worktree add`.
AddWorktree(a) ==
  /\ call[a] = "adding"
  /\ wt' = [wt EXCEPT ![a] = "dir"]
  /\ call' = [call EXCEPT ![a] = "creating"]
  /\ UNCHANGED <<vars, mode, result, inbox>>

AddWorktreeFails(a) ==
  /\ call[a] = "adding"
  /\ call' = [call EXCEPT ![a] = "failed"]
  /\ UNCHANGED <<vars, mode, wt, result, inbox>>

\* create_remote_agent_task / create_in_process_task.
CreateAgentTask(a) ==
  /\ call[a] = "creating"
  /\ \/ Count(a, IF mode[a] = "in_process" THEN "in_process" ELSE "command")
     \/ Insert(a)
     \/ SpawnWatcher(a)
  /\ UNCHANGED spawnVars

\* The last locked section of the creation stores the watcher's handle; the
\* watcher already runs.
StoreWatcher(a) ==
  /\ call[a] = "creating"
  /\ pc[a] \notin {"absent", "counted", "inserted"}
  /\ call' = [call EXCEPT ![a] =
                IF mode[a] = "worktree" THEN "registering" ELSE "returned"]
  /\ UNCHANGED <<vars, mode, wt, result, inbox>>

\* Mutant: the clean-up is not registered.
RegisterNothing(a) ==
  /\ call[a] = "registering"
  /\ call' = [call EXCEPT ![a] = "returned"]
  /\ UNCHANGED <<vars, mode, wt, result, inbox>>

\* The listener that removes the worktree; the task may have ended before.
RegisterCleanup(a) ==
  /\ call[a] = "registering"
  /\ Register(a)
  /\ call' = [call EXCEPT ![a] = "returned"]
  /\ UNCHANGED <<mode, wt, result, inbox>>

\* The future of spawn is dropped at an await, as when stop_task drops the
\* in-process parent whose tool call awaits it.  `git` is not killed on drop.
DropSpawn(a) ==
  /\ call' = [call EXCEPT ![a] = "dropped"]
  /\ \/ /\ call[a] = "adding"
        /\ wt' \in {wt, [wt EXCEPT ![a] = "dir"]}
        /\ UNCHANGED vars
     \/ /\ call[a] = "creating" /\ pc[a] = "counted"
        /\ Abandon(a)
        /\ UNCHANGED wt
     \/ /\ call[a] \in {"creating", "registering"}
        /\ pc[a] \notin {"counted", "inserted"}
        /\ UNCHANGED <<vars, wt>>
  /\ UNCHANGED <<mode, result, inbox>>

(***************************************************************************)
(* The in-process job: run the agent, post the outcome, return it.         *)
(***************************************************************************)

JobRuns(a) == pc[a] = "selecting" /\ kind[a] = "in_process" /\ work[a] = "alive"

RunnerReturns(a, r) ==
  /\ JobRuns(a)
  /\ result[a] = "none"
  /\ result' = [result EXCEPT ![a] = r]
  /\ UNCHANGED <<vars, call, mode, wt, inbox>>

\* mailbox.send: a failure is logged only.  The write runs on a blocking
\* thread and may land although the job was dropped meanwhile.
PostIdle(a) ==
  /\ result[a] # "none" /\ inbox[a] = "none"
  /\ inbox' \in {[inbox EXCEPT ![a] = result[a]], [inbox EXCEPT ![a] = "lost"]}
  /\ UNCHANGED <<vars, call, mode, wt, result>>

\* Mutant: the result is returned without waiting for the post.
ReturnUnposted(a) ==
  /\ JobRuns(a)
  /\ \E r \in {"ok", "err"} : r = result[a] /\ JobReturns(a, r)
  /\ UNCHANGED spawnVars

ReturnResult(a) ==
  /\ JobRuns(a) /\ inbox[a] # "none"
  /\ \E r \in {"ok", "err"} : r = result[a] /\ JobReturns(a, r)
  /\ UNCHANGED spawnVars

(***************************************************************************)
(* The clean-up listener: called for every task, it acts on its own only.  *)
(* The removal itself is spawned.                                          *)
(***************************************************************************)

\* Mutant: the listener does not compare the record's id with its target.
HearAnyCompletion(t, l) ==
  /\ CallListener(t, l)
  /\ wt' = [wt EXCEPT ![l] = "removing"]
  /\ UNCHANGED <<call, mode, result, inbox>>

HearCompletion(t, l) ==
  /\ CallListener(t, l)
  /\ wt' = IF l = t THEN [wt EXCEPT ![t] = "removing"] ELSE wt
  /\ UNCHANGED <<call, mode, result, inbox>>

\* git worktree remove or else remove_dir_all.  If both fail, the directory is
\* left and nobody tries again.
RemoveWorktree(a) ==
  /\ wt[a] = "removing"
  /\ wt' \in {[wt EXCEPT ![a] = "gone"], [wt EXCEPT ![a] = "left"]}
  /\ UNCHANGED <<vars, call, mode, result, inbox>>

(***************************************************************************)
(* The specification.                                                      *)
(***************************************************************************)

SpawnProceeds(a) ==
  \/ \E m \in Modes : Resolve(a, m)
  \/ AddWorktree(a)
  \/ AddWorktreeFails(a)
  \/ CreateAgentTask(a)
  \/ StoreWatcher(a)
  \/ RegisterCleanup(a)

AgentJob(a) ==
  \/ \E r \in {"ok", "err"} : RunnerReturns(a, r)
  \/ PostIdle(a)
  \/ ReturnResult(a)
  \/ JobPanics(a) /\ UNCHANGED spawnVars

SpawnNext ==
  \/ \E a \in Tasks :
       \/ SpawnProceeds(a)
       \/ DropSpawn(a)
       \/ AgentJob(a)
       \/ Attend(a) /\ UNCHANGED spawnVars
       \/ \E l \in Listeners : HearCompletion(a, l)
       \/ RemoveWorktree(a)
       \/ Process(a) /\ UNCHANGED spawnVars
       \/ Log(a) /\ UNCHANGED spawnVars
       \/ Stop(a) /\ UNCHANGED spawnVars
  \/ \E l \in Listeners \ Tasks : Listen(l) /\ UNCHANGED spawnVars

svars == <<vars, spawnVars>>

SpawnSpec == SpawnInit /\ [][SpawnNext]_svars

\* tokio runs every task that is ready: the watchers, the copy tasks and the
\* blocking threads that write the log, the listeners they call, the removal
\* these spawn, and a stop_task that has marked its task.  The caller
\* keeps awaiting spawn unless it is dropped; the job awaits its post while it
\* lives.  Nothing makes a process exit or a runner return.
SpawnFairness ==
  \A a \in Tasks :
    /\ WF_svars(SpawnProceeds(a))
    /\ WF_svars(Attend(a) /\ UNCHANGED spawnVars)
    /\ WF_svars((CopyOutput(a) \/ WriteEnds(a)) /\ UNCHANGED spawnVars)
    /\ \A l \in Listeners : WF_svars(HearCompletion(a, l))
    /\ WF_svars(RemoveWorktree(a))
    /\ WF_svars(StopSend(a) /\ UNCHANGED spawnVars)
    /\ WF_svars(JobRuns(a) /\ (PostIdle(a) \/ ReturnResult(a)))

FairSpawnSpec == SpawnSpec /\ SpawnFairness

(***************************************************************************)
(* Properties.                                                             *)
(***************************************************************************)

\* A worktree is removed only under an agent that is over: its child is gone
\* and, unless the log could not be opened, so is every process that holds
\* the child's pipes; a completion of another agent removes nothing.
WorktreeOutlivesAgent ==
  \A a \in Tasks :
    wt[a] \in {"removing", "gone", "left"} =>
      /\ Settled(a)
      /\ work[a] # "alive"
      /\ outcome[a] # "none" => heir[a] # "alive"

\* The mailbox and the task table tell the same story: an agent that is
\* Completed or Failed has posted exactly that (or the send failed and was
\* logged), whatever stop_task did at the same time.
NotificationMatchesStatus ==
  \A a \in Tasks :
    kind[a] = "in_process" =>
      /\ status[a] = "completed" => inbox[a] \in {"ok", "lost"}
      /\ status[a] = "failed" => inbox[a] \in {"err", "lost"}
      /\ inbox[a] # "none" => result[a] # "none"

\* Why these two hold: a worktree is marked for removal by the completion of
\* its own agent, and the job's outcome passes through the mailbox.
CleanupFollowsEnd ==
  \A a \in Tasks : wt[a] \in {"removing", "gone", "left"} => Settled(a)

OutcomeWasPosted ==
  \A a \in Tasks :
    /\ inbox[a] \in {"none", result[a], "lost"}
    /\ result[a] = "none" => inbox[a] = "none"
    /\ kind[a] = "in_process" /\ outcome[a] \in {"ok", "err"} =>
         outcome[a] = result[a] /\ inbox[a] # "none"

\* Once its listener is registered, the worktree of an agent that ends or is
\* stopped is removed, unless both ways to remove it fail or a left-behind
\* process keeps the pipes open.
RegisteredWorktreeRemoved ==
  \A a \in Tasks :
    (call[a] = "returned" /\ mode[a] = "worktree" /\ Ending(a)) ~>
      (wt[a] \in {"gone", "left"} \/ [](heir[a] = "alive"))
=============================================================================
