----------------------------- MODULE TeamMembers -----------------------------
(****************************************************************************)
(* Teams with the backend that add_member and remove_member await           *)
(* (oh-swarm: in_process.rs, subprocess.rs), and calls of its status.       *)
(*                                                                          *)
(* A teammate is a tokio task or a child process; the backend's table holds *)
(* the last one of each id.  The table's own operations are atomic.  What   *)
(* lies between two of them, on another thread or across an await, is not.  *)
(* kill(graceful = false) is called by tests only and left out.             *)
(****************************************************************************)
EXTENDS Teams

CONSTANT Kinds  \* of "in_process", "subprocess"

ASSUME MembersAssumption == Kinds \subseteq {"in_process", "subprocess"}

VARIABLES
  kind,      \* the backend in use
  entry,     \* entry[a]: the teammate in the table under the id of a, or 0
  mate,      \* mate[n]: what has become of the nth teammate
  told,      \* teammates that were cancelled, or killed
  finished,  \* teammates marked finished (subprocess)
  childLock, \* childLock[n]: the call that holds the lock of the nth child
  at,        \* at[c]: the step of the backend's call that c awaits
  hand       \* hand[c]: the teammate it found in the table

table == <<entry, mate, finished>>
backend == <<kind, table, told, childLock, at, hand>>
allVars == <<vars, backend>>

\* add_member starts one teammate at most.
Mates == 1..MaxCalls

BackendSteps == {"none", "locking_child", "starting", "ending", "polling"}

MembersTypeOK ==
  /\ TypeOK
  /\ kind \in Kinds
  /\ entry \in [Agents -> Mates \cup {0}]
  /\ mate \in [Mates -> {"none", "running", "exited"}]
  /\ told \subseteq Mates /\ finished \subseteq Mates
  /\ childLock \in [Mates -> Callers \cup {None}]
  /\ at \in [Callers -> BackendSteps]
  /\ hand \in [Callers -> Mates \cup {0}]

MembersInit ==
  /\ Init
  /\ kind \in Kinds
  /\ entry = [a \in Agents |-> 0]
  /\ mate = [n \in Mates |-> "none"]
  /\ told = {} /\ finished = {}
  /\ childLock = [n \in Mates |-> None]
  /\ at = [c \in Callers |-> "none"]
  /\ hand = [c \in Callers |-> 0]

Found(c) == entry[agent[c]]
Runs(n) == n # 0 /\ mate[n] = "running"

Awaits(c, step) == at' = [at EXCEPT ![c] = step]
Takes(c, n) == hand' = [hand EXCEPT ![c] = n]

\* A teammate of that id runs, or none could be started.
NotSpawned(c) ==
  /\ SpawnFails(c)
  /\ Awaits(c, "none") /\ Takes(c, 0)

(***************************************************************************)
(* spawn.                                                                  *)
(***************************************************************************)

\* Mutant: a task that was told to stop is taken for one that has.
LooksTold(c) ==
  IF kind = "in_process" THEN ~Runs(Found(c)) \/ Found(c) \in told
                         ELSE Found(c) \in finished \cup {0}

\* What the table says.  Whether a child that is not marked runs can only be seen
\* under its lock.
LooksDead(c) ==
  IF kind = "in_process" THEN ~Runs(Found(c)) ELSE Found(c) \in finished \cup {0}

SpawnLooks(c) ==
  /\ pc[c] = "spawning" /\ at[c] = "none"
  /\ \/ LooksDead(c) /\ Awaits(c, "starting") /\ Takes(c, Found(c)) /\ UNCHANGED vars
     \/ ~LooksDead(c) /\ kind = "in_process" /\ NotSpawned(c)
     \/ /\ ~LooksDead(c) /\ kind = "subprocess"
        /\ Awaits(c, "locking_child") /\ Takes(c, Found(c)) /\ UNCHANGED vars
  /\ UNCHANGED <<kind, table, told, childLock>>

\* try_wait; the guard goes with the block.
SpawnLocks(c) ==
  /\ pc[c] = "spawning" /\ at[c] = "locking_child" /\ childLock[hand[c]] = None
  /\ IF Runs(hand[c])
       THEN NotSpawned(c)
       ELSE Awaits(c, "starting") /\ UNCHANGED <<vars, hand>>
  /\ UNCHANGED <<kind, table, told, childLock>>

\* The new teammate replaces whatever the table holds by now.
SpawnInserts(c) ==
  /\ pc[c] = "spawning" /\ at[c] = "starting"
  /\ \E n \in Mates :
       /\ mate[n] = "none" /\ \A k \in 1..(n - 1) : mate[k] # "none"
       /\ mate' = [mate EXCEPT ![n] = "running"]
       /\ entry' = [entry EXCEPT ![agent[c]] = n]
  /\ BackendReturns(c)
  /\ Awaits(c, "none") /\ Takes(c, 0)
  /\ UNCHANGED <<kind, told, finished, childLock>>

\* The program cannot be started.
LaunchFails(c) ==
  /\ kind = "subprocess" /\ pc[c] = "spawning" /\ at[c] = "starting"
  /\ NotSpawned(c)
  /\ UNCHANGED <<kind, table, told, childLock>>

(***************************************************************************)
(* kill, gracefully, and status.                                           *)
(***************************************************************************)

\* TeammateNotFound is no error to remove_member.  A task is told and not waited for.
KillLooks(c) ==
  /\ pc[c] = "killing" /\ at[c] = "none"
  /\ IF kind = "subprocess" /\ Found(c) # 0
       THEN Awaits(c, "locking_child") /\ Takes(c, Found(c)) /\ UNCHANGED <<vars, told>>
       ELSE BackendReturns(c) /\ told' = told \cup ({Found(c)} \ {0}) /\ UNCHANGED <<at, hand>>
  /\ UNCHANGED <<kind, table, childLock>>

\* start_kill; the lock is kept until the child is reaped.
KillLocks(c) ==
  /\ pc[c] = "killing" /\ at[c] = "locking_child" /\ childLock[hand[c]] = None
  /\ told' = told \cup {hand[c]}
  /\ childLock' = [childLock EXCEPT ![hand[c]] = c]
  /\ Awaits(c, "ending")
  /\ UNCHANGED <<vars, kind, table, hand>>

\* Mutant: the entry is looked up again to be marked.
KillReapsEntry(c) ==
  /\ at[c] = "ending" /\ ~Runs(hand[c])
  /\ finished' = finished \cup {Found(c)}
  /\ childLock' = [childLock EXCEPT ![hand[c]] = None]
  /\ BackendReturns(c)
  /\ Awaits(c, "none") /\ Takes(c, 0)
  /\ UNCHANGED <<kind, entry, mate, told>>

\* wait returns.
KillReaps(c) ==
  /\ at[c] = "ending" /\ ~Runs(hand[c])
  /\ finished' = finished \cup {hand[c]}
  /\ childLock' = [childLock EXCEPT ![hand[c]] = None]
  /\ BackendReturns(c)
  /\ Awaits(c, "none") /\ Takes(c, 0)
  /\ UNCHANGED <<kind, entry, mate, told>>

\* Only of a child that is not marked yet does status wait for the lock.
StatusLooks(c, a) ==
  /\ kind = "subprocess" /\ pc[c] = "idle" /\ at[c] = "none"
  /\ entry[a] \notin finished \cup {0}
  /\ Awaits(c, "polling") /\ Takes(c, entry[a])
  /\ UNCHANGED <<vars, kind, table, told, childLock>>

StatusPolls(c) ==
  /\ at[c] = "polling" /\ childLock[hand[c]] = None
  /\ finished' = IF Runs(hand[c]) THEN finished ELSE finished \cup {hand[c]}
  /\ Awaits(c, "none") /\ Takes(c, 0)
  /\ UNCHANGED <<vars, kind, entry, mate, told, childLock>>

(***************************************************************************)
(* The teammates, and the specification.                                   *)
(***************************************************************************)

\* It returns, panics or exits: when told to, or by itself.
MateEnds(n) ==
  /\ mate[n] = "running"
  /\ mate' = [mate EXCEPT ![n] = "exited"]
  /\ UNCHANGED <<vars, kind, entry, told, finished, childLock, at, hand>>

KilledMateEnds == kind = "subprocess" /\ \E n \in told : MateEnds(n)

TeamCall(c) == Calls(c) /\ at[c] = "none" /\ UNCHANGED backend

TeamGoesOn(c) == StoreGoesOn(c) /\ UNCHANGED backend

LocksChild(c) == SpawnLocks(c) \/ KillLocks(c) \/ StatusPolls(c)

Locks(c) == LocksChild(c) \/ (Lock(c) /\ UNCHANGED backend)

BackendGoesOn(c) ==
  SpawnLooks(c) \/ SpawnInserts(c) \/ LaunchFails(c) \/ KillLooks(c) \/ KillReaps(c)

MembersNext ==
  \/ \E c \in Callers :
       \/ TeamCall(c) \/ TeamGoesOn(c) \/ BackendGoesOn(c) \/ LocksChild(c)
       \/ \E a \in Agents : StatusLooks(c, a)
  \/ \E n \in Mates : MateEnds(n)

MembersSpec == MembersInit /\ [][MembersNext]_allVars

\* tokio runs the calls, and its mutexes are fair; a process that is killed ends.
MembersFairSpec ==
  /\ MembersSpec
  /\ \A c \in Callers :
       WF_allVars(TeamGoesOn(c) \/ BackendGoesOn(c)) /\ SF_allVars(Locks(c))
  /\ WF_allVars(KilledMateEnds)

-----------------------------------------------------------------------------
(***************************************************************************)
(* Properties.                                                             *)
(***************************************************************************)

\* Of one id one teammate runs: a spawn replaces a running one, whose only handle is
\* in the table, if at all, only when it was started after the spawn had looked.
ReplacesDead ==
  [][\A a \in Agents :
       Runs(entry[a]) /\ entry'[a] # entry[a] =>
         \E c \in Callers : at[c] = "starting" /\ agent[c] = a /\ hand[c] # entry[a]]_allVars

\* A process is marked finished only when it has ended, though the id may be given
\* to another one while a kill or a status waits: none is called stopped, or replaced
\* without a look, while it runs.
FinishedIsDead == \A n \in finished : mate[n] = "exited"

\* Every call returns: a removal waits for the child it has killed, and holds its lock
\* meanwhile, and a spawn of the same id or a status waits for the removal, but none
\* for ever; nor does one for the member lock.
TeamCallsReturn ==
  \A c \in Callers :
    pc[c] # "idle" \/ at[c] # "none" ~> pc[c] = "idle" /\ at[c] = "none"
=============================================================================
