-------------------------------- MODULE Teams --------------------------------
(****************************************************************************)
(* One team in its two stores: the registry in memory (oh-services,         *)
(* coordinator/mod.rs) and <team>/members.json on disk (oh-swarm, team.rs), *)
(* with the calls that change them: TeamBridge's create_team, add_agent and *)
(* delete_team, and TeamManager's add_member and remove_member.  The calls  *)
(* share one TeamManager, so one member lock, and interleave at their       *)
(* awaits.                                                                  *)
(*                                                                          *)
(* The backend that add_member and remove_member await answers or fails     *)
(* here; TeamMembers says what it does.  The mailboxes, which lie in the    *)
(* same directory, are left out.                                            *)
(****************************************************************************)
EXTENDS Naturals, FiniteSets

CONSTANTS
  Agents,    \* the agents that may join
  Callers,   \* the calls under way at a time
  MaxCalls,  \* calls made in all (bounds the model)
  None       \* no agent, no holder

ASSUME TeamsAssumption ==
  None \notin Agents /\ None \notin Callers /\ MaxCalls \in Nat

\* No team, no file: different from every set of agents.
Absent == {None}

VARIABLES
  mem,    \* the agents of the team in the registry
  dir,    \* the team's directory exists
  file,   \* the members in members.json
  lock,   \* the call that holds the member lock
  op,     \* op[c]: the call c makes
  agent,  \* agent[c]: the agent it is about
  pc,     \* pc[c]: the step it is at
  copy,   \* copy[c]: the members it loaded
  made,   \* calls made so far
  passed  \* the file changed without the lock since it was last taken (history)

vars == <<mem, dir, file, lock, op, agent, pc, copy, made, passed>>

Ops == {"create", "add", "join", "remove", "delete"}

Steps == {"idle", "making", "loading", "saving", "undoing", "checking", "spawning",
          "killing", "locking", "loading_locked", "saving_locked", "deleting", "removing"}

TypeOK ==
  /\ mem \in (SUBSET Agents) \cup {Absent}
  /\ dir \in BOOLEAN
  /\ file \in (SUBSET Agents) \cup {Absent}
  /\ lock \in Callers \cup {None}
  /\ op \in [Callers -> Ops \cup {None}]
  /\ agent \in [Callers -> Agents \cup {None}]
  /\ pc \in [Callers -> Steps]
  /\ copy \in [Callers -> SUBSET Agents]
  /\ made \in 0..MaxCalls
  /\ passed \in BOOLEAN
  /\ file # Absent => dir
  /\ \A c \in Callers : lock = c <=> pc[c] \in {"loading_locked", "saving_locked"}

\* The process starts with an empty registry and whatever is on disk.
Init ==
  /\ mem = Absent
  /\ dir \in BOOLEAN
  /\ file \in IF dir THEN {Absent, {}} \cup {{a} : a \in Agents} ELSE {Absent}
  /\ lock = None
  /\ op = [c \in Callers |-> None]
  /\ agent = [c \in Callers |-> None]
  /\ pc = [c \in Callers |-> "idle"]
  /\ copy = [c \in Callers |-> {}]
  /\ made = 0
  /\ passed = FALSE

(***************************************************************************)
(* The first section of a call: the registry, under its mutex.             *)
(***************************************************************************)

Begin(c, o, a, step) ==
  /\ pc[c] = "idle" /\ made < MaxCalls
  /\ made' = made + 1
  /\ op' = [op EXCEPT ![c] = o]
  /\ agent' = [agent EXCEPT ![c] = a]
  /\ pc' = [pc EXCEPT ![c] = step]
  /\ UNCHANGED <<dir, file, lock, copy, passed>>

\* A team of that name in the registry is an error, and the call is over.
CreateTeam(c) ==
  /\ mem = Absent
  /\ mem' = {}
  /\ Begin(c, "create", None, "making")

AddAgent(c, a) ==
  /\ mem # Absent
  /\ mem' = mem \cup {a}
  /\ Begin(c, "add", a, "checking")

DeleteTeam(c) ==
  /\ mem # Absent
  /\ mem' = Absent
  /\ Begin(c, "delete", None, "deleting")

\* add_member and remove_member know the directory only.
AddMember(c, a) ==
  /\ Begin(c, "join", a, "checking")
  /\ UNCHANGED mem

RemoveMember(c, a) ==
  /\ Begin(c, "remove", a, "checking")
  /\ UNCHANGED mem

(***************************************************************************)
(* The persisted half.                                                     *)
(***************************************************************************)

GoTo(c, step) == pc' = [pc EXCEPT ![c] = step] /\ UNCHANGED <<op, agent, made>>

Return(c) ==
  /\ pc' = [pc EXCEPT ![c] = "idle"]
  /\ op' = [op EXCEPT ![c] = None]
  /\ agent' = [agent EXCEPT ![c] = None]
  /\ copy' = [copy EXCEPT ![c] = {}]
  /\ UNCHANGED made

\* create_dir_all.
MakeDir(c) ==
  /\ pc[c] = "making"
  /\ dir' = TRUE
  /\ GoTo(c, "loading")
  /\ UNCHANGED <<mem, file, lock, copy, passed>>

Members == IF file = Absent THEN {} ELSE file

\* create_team's load, without the member lock.
Load(c) ==
  /\ pc[c] = "loading"
  /\ copy' = [copy EXCEPT ![c] = Members]
  /\ GoTo(c, "saving")
  /\ UNCHANGED <<mem, dir, file, lock, passed>>

\* And its save; it fails if the directory is gone, or for reasons of its own.
Save(c) ==
  /\ pc[c] = "saving" /\ dir
  /\ file' = copy[c]
  /\ Return(c)
  /\ passed' = TRUE
  /\ UNCHANGED <<mem, dir, lock>>

CreateFails(c) ==
  /\ pc[c] \in {"making", "loading", "saving"}
  /\ GoTo(c, "undoing")
  /\ UNCHANGED <<mem, dir, file, lock, copy, passed>>

\* The roll-back removes the team from the registry, whoever put it there.
Undo(c) ==
  /\ pc[c] = "undoing"
  /\ mem' = Absent
  /\ Return(c)
  /\ UNCHANGED <<dir, file, lock, passed>>

\* The first await of a call about one agent, if the directory is there.
NextStep(o) ==
  CASE o = "join" -> "spawning" [] o = "remove" -> "killing" [] OTHER -> "locking"

\* TeamNotFound without the directory.
CheckDir(c) ==
  /\ pc[c] = "checking"
  /\ IF dir THEN GoTo(c, NextStep(op[c])) /\ UNCHANGED copy ELSE Return(c)
  /\ UNCHANGED <<mem, dir, file, lock, passed>>

\* The backend has spawned or killed the teammate; one that is not found counts as
\* killed.
BackendReturns(c) ==
  /\ pc[c] \in {"spawning", "killing"}
  /\ GoTo(c, "locking")
  /\ UNCHANGED <<mem, dir, file, lock, copy, passed>>

\* The teammate runs already, or cannot be started.
SpawnFails(c) ==
  /\ pc[c] = "spawning"
  /\ Return(c)
  /\ UNCHANGED <<mem, dir, file, lock, passed>>

\* Mutant: the member lock is not waited for.
EnterAnyway(c) ==
  /\ pc[c] = "locking"
  /\ lock' = c
  /\ GoTo(c, "loading_locked")
  /\ passed' = FALSE
  /\ UNCHANGED <<mem, dir, file, copy>>

Lock(c) ==
  /\ pc[c] = "locking" /\ lock = None
  /\ lock' = c
  /\ GoTo(c, "loading_locked")
  /\ passed' = FALSE
  /\ UNCHANGED <<mem, dir, file, copy>>

\* Mutant: the early return leaves the lock taken.
LoadKeepingLock(c) ==
  /\ pc[c] = "loading_locked"
  /\ IF op[c] # "remove" /\ agent[c] \in Members
     THEN Return(c)
     ELSE copy' = [copy EXCEPT ![c] = Members] /\ GoTo(c, "saving_locked")
  /\ UNCHANGED <<mem, dir, file, lock, passed>>

\* A member that is registered already needs no save.
LoadLocked(c) ==
  /\ pc[c] = "loading_locked"
  /\ IF op[c] # "remove" /\ agent[c] \in Members
     THEN Return(c) /\ lock' = None
     ELSE /\ copy' = [copy EXCEPT ![c] = Members]
          /\ GoTo(c, "saving_locked")
          /\ UNCHANGED lock
  /\ UNCHANGED <<mem, dir, file, passed>>

SaveLocked(c) ==
  /\ pc[c] = "saving_locked" /\ dir
  /\ file' = IF op[c] = "remove" THEN copy[c] \ {agent[c]} ELSE copy[c] \cup {agent[c]}
  /\ lock' = None
  /\ Return(c)
  /\ UNCHANGED <<mem, dir, passed>>

\* load or save fails; the guard is dropped with the call.
LockedFails(c) ==
  /\ pc[c] \in {"loading_locked", "saving_locked"}
  /\ lock' = None
  /\ Return(c)
  /\ UNCHANGED <<mem, dir, file, passed>>

\* remove_dir_all empties the directory, then removes it, which fails if
\* something was saved there meanwhile.
DeleteFiles(c) ==
  /\ pc[c] = "deleting"
  /\ file' = Absent
  /\ IF dir THEN GoTo(c, "removing") /\ UNCHANGED copy ELSE Return(c)
  /\ passed' = TRUE
  /\ UNCHANGED <<mem, dir, lock>>

RemoveDir(c) ==
  /\ pc[c] = "removing"
  /\ dir' = (file # Absent /\ dir)
  /\ Return(c)
  /\ UNCHANGED <<mem, file, lock, passed>>

(***************************************************************************)
(* The specification.                                                      *)
(***************************************************************************)

StoreGoesOn(c) ==
  \/ MakeDir(c) \/ Load(c) \/ Save(c) \/ CreateFails(c) \/ Undo(c)
  \/ CheckDir(c) \/ Lock(c) \/ LoadLocked(c) \/ SaveLocked(c) \/ LockedFails(c)
  \/ DeleteFiles(c) \/ RemoveDir(c)

GoesOn(c) == StoreGoesOn(c) \/ BackendReturns(c) \/ SpawnFails(c)

Calls(c) ==
  \/ CreateTeam(c)
  \/ DeleteTeam(c)
  \/ \E a \in Agents : AddAgent(c, a) \/ AddMember(c, a) \/ RemoveMember(c, a)

Next == \E c \in Callers : Calls(c) \/ GoesOn(c)

Spec == Init /\ [][Next]_vars

(***************************************************************************)
(* Properties.                                                             *)
(***************************************************************************)

\* SWARM-2: a member leaves members.json only by its own removal or with its
\* team; no concurrent registration or removal of another one drops it, unless
\* create_team or delete_team, which take no lock, wrote in between.
OnlyRemovalsRemove ==
  [][\A a \in Agents : a \in Members /\ a \notin Members' =>
       \E c \in Callers :
         \/ pc[c] = "saving_locked" /\ (passed \/ (op[c] = "remove" /\ agent[c] = a))
         \/ pc[c] \in {"saving", "deleting"}]_vars
=============================================================================
