----------------------------- MODULE Teams_proofs -----------------------------
(***************************************************************************)
(* Proofs about Teams: type correctness, and that the member lock loses no *)
(* registration.  And about TeamMembers: it is Teams with a backend, of    *)
(* whose teammates none is called finished, or replaced, while it runs.    *)
(***************************************************************************)
EXTENDS TeamMembers, TLAPS

Locked == {"loading_locked", "saving_locked"}

\* Where a call about one agent is before it has the lock.
Ahead == {"checking", "spawning", "killing", "locking"}

\* A call about one agent knows which, and what it does with it.
AgentKnown ==
  \A c \in Callers :
    pc[c] \in Ahead \cup Locked =>
      op[c] \in {"add", "join", "remove"} /\ agent[c] \in Agents

\* What the holder of the lock loaded is what is in the file, unless somebody
\* wrote the file without the lock.
LoadedIsCurrent ==
  \A c \in Callers : pc[c] = "saving_locked" /\ ~passed => copy[c] = Members

Inv == TypeOK /\ AgentKnown /\ LoadedIsCurrent

\* No team is different from every team.
LEMMA AbsentIsNoTeam == \A s \in SUBSET Agents : s # Absent
  BY TeamsAssumption DEF Absent

\* At the start no call is under way.
LEMMA TeamsInit == Init => Inv
<1> SUFFICES ASSUME Init PROVE Inv
  OBVIOUS
<1>1. passed \in BOOLEAN /\ dir \in BOOLEAN
  BY DEF Init
<1>2. file \in (SUBSET Agents) \cup {Absent} /\ (file # Absent => dir)
  BY DEF Init
<1>3. TypeOK
  BY <1>1, <1>2, TeamsAssumption DEF Init, TypeOK, Steps
<1>4. AgentKnown /\ LoadedIsCurrent
  BY DEF Init, AgentKnown, LoadedIsCurrent, Ahead, Locked
<1>. QED  BY <1>3, <1>4 DEF Inv

\* A new call keeps the invariant.
LEMMA BeginKeeps ==
  ASSUME Inv, NEW c \in Callers, NEW o \in Ops, NEW a \in Agents \cup {None},
         NEW step \in {"making", "checking", "deleting"}, Begin(c, o, a, step),
         step = "checking" => o \in {"add", "join", "remove"} /\ a \in Agents,
         mem' \in (SUBSET Agents) \cup {Absent}
  PROVE  Inv'
<1>1. /\ made' \in 0..MaxCalls
      /\ op' = [op EXCEPT ![c] = o]
      /\ agent' = [agent EXCEPT ![c] = a]
      /\ pc' = [pc EXCEPT ![c] = step]
      /\ pc[c] = "idle"
      /\ UNCHANGED <<dir, file, lock, copy>>
  BY TeamsAssumption DEF Begin, Inv, TypeOK
<1>2. passed' = passed
  BY DEF Begin
<1>3. passed' \in BOOLEAN /\ dir' \in BOOLEAN /\ (file' # Absent => dir')
  BY <1>1, <1>2 DEF Inv, TypeOK
<1>4. /\ op' \in [Callers -> Ops \cup {None}]
      /\ agent' \in [Callers -> Agents \cup {None}]
      /\ pc' \in [Callers -> Steps]
      /\ copy' \in [Callers -> SUBSET Agents]
      /\ \A d \in Callers : lock' = d <=> pc'[d] \in Locked
  BY <1>1 DEF Inv, TypeOK, Steps, Locked
<1>5. TypeOK'
  BY <1>1, <1>3, <1>4 DEF Inv, TypeOK, Locked
<1>6. AgentKnown'
  BY <1>1 DEF Inv, TypeOK, AgentKnown, Ahead, Locked
<1>7. LoadedIsCurrent'
  BY <1>1, <1>2 DEF Inv, TypeOK, LoadedIsCurrent, Members
<1>. QED  BY <1>5, <1>6, <1>7 DEF Inv

\* The registry's half of every call.
LEMMA CallsKeep ==
  ASSUME Inv, NEW c \in Callers, Calls(c)
  PROVE  Inv'
<1>1. CASE CreateTeam(c)
  BY <1>1, BeginKeeps DEF CreateTeam, Ops
<1>2. CASE DeleteTeam(c)
  BY <1>2, BeginKeeps DEF DeleteTeam, Ops
<1>3. ASSUME NEW a \in Agents, AddAgent(c, a) PROVE Inv'
  <2>1. mem \cup {a} \in SUBSET Agents
    BY <1>3 DEF AddAgent, Inv, TypeOK
  <2>. QED  BY <1>3, <2>1, BeginKeeps DEF AddAgent, Ops
<1>4. ASSUME NEW a \in Agents, RemoveMember(c, a) PROVE Inv'
  <2>1. mem' \in (SUBSET Agents) \cup {Absent}
    BY <1>4 DEF RemoveMember, Inv, TypeOK
  <2>. QED  BY <1>4, <2>1, BeginKeeps DEF RemoveMember, Ops
<1>5. ASSUME NEW a \in Agents, AddMember(c, a) PROVE Inv'
  <2>1. mem' \in (SUBSET Agents) \cup {Absent}
    BY <1>5 DEF AddMember, Inv, TypeOK
  <2>. QED  BY <1>5, <2>1, BeginKeeps DEF AddMember, Ops
<1>. QED  BY <1>1, <1>2, <1>3, <1>4, <1>5 DEF Calls

\* A call that goes on with the same agent, outside the lock.
LEMMA GoToKeeps ==
  ASSUME Inv, NEW c \in Callers, NEW step \in Steps \ Locked, GoTo(c, step),
         pc[c] \notin Locked,
         step \in Ahead => pc[c] \in Ahead,
         mem' = mem, file' = file, lock' = lock, passed' = passed,
         dir' \in BOOLEAN, dir => dir', copy' \in [Callers -> SUBSET Agents],
         \A d \in Callers \ {c} : copy'[d] = copy[d]
  PROVE  Inv'
<1>1. /\ pc' = [pc EXCEPT ![c] = step]
      /\ op' = op /\ agent' = agent /\ made' = made
  BY DEF GoTo
<1>2. passed' \in BOOLEAN /\ (file' # Absent => dir')
  BY DEF Inv, TypeOK
<1>3. /\ pc' \in [Callers -> Steps]
      /\ \A d \in Callers : lock' = d <=> pc'[d] \in Locked
  BY <1>1 DEF Inv, TypeOK, Locked
<1>4. TypeOK'
  BY <1>1, <1>2, <1>3 DEF Inv, TypeOK, Locked
<1>5. AgentKnown'
  BY <1>1 DEF Inv, TypeOK, AgentKnown, Ahead, Locked
<1>6. LoadedIsCurrent'
  BY <1>1 DEF Inv, TypeOK, LoadedIsCurrent, Members, Locked
<1>. QED  BY <1>4, <1>5, <1>6 DEF Inv

\* A call that returns, and with it the lock if it had it.  The others see the
\* file as they loaded it, unless passed says so.
LEMMA ReturnKeeps ==
  ASSUME Inv, NEW c \in Callers, Return(c),
         pc[c] \in Locked => lock' = None,
         pc[c] \notin Locked => lock' = lock,
         mem' \in (SUBSET Agents) \cup {Absent},
         file' \in (SUBSET Agents) \cup {Absent},
         dir' \in BOOLEAN, passed' \in BOOLEAN, file' # Absent => dir',
         file' = file \/ passed' \/ lock = c,
         passed => passed'
  PROVE  Inv'
<1>1. /\ pc' = [pc EXCEPT ![c] = "idle"]
      /\ op' = [op EXCEPT ![c] = None]
      /\ agent' = [agent EXCEPT ![c] = None]
      /\ copy' = [copy EXCEPT ![c] = {}]
      /\ made' = made
  BY DEF Return
<1>2. /\ op' \in [Callers -> Ops \cup {None}]
      /\ agent' \in [Callers -> Agents \cup {None}]
      /\ copy' \in [Callers -> SUBSET Agents]
  BY <1>1 DEF Inv, TypeOK
<1>3. /\ pc' \in [Callers -> Steps]
      /\ \A d \in Callers : lock' = d <=> pc'[d] \in Locked
      /\ lock' \in Callers \cup {None}
  BY <1>1, TeamsAssumption DEF Inv, TypeOK, Locked, Steps
<1>4. made' \in 0..MaxCalls
  BY <1>1 DEF Inv, TypeOK
<1>5. TypeOK'
  BY <1>2, <1>3, <1>4 DEF TypeOK, Locked
<1>6. AgentKnown'
  BY <1>1 DEF Inv, TypeOK, AgentKnown, Ahead, Locked
<1>7. LoadedIsCurrent'
  BY <1>1 DEF Inv, TypeOK, LoadedIsCurrent, Members, Locked
<1>. QED  BY <1>5, <1>6, <1>7 DEF Inv

\* What members.json holds is a set of agents.
LEMMA MembersAreAgents == Inv => Members \in SUBSET Agents
  BY DEF Inv, TypeOK, Members

\* Taking the lock.
LEMMA LockKeeps ==
  ASSUME Inv, NEW c \in Callers, Lock(c)
  PROVE  Inv'
<1>1. /\ pc[c] = "locking" /\ lock = None
      /\ lock' = c /\ passed' = FALSE
      /\ pc' = [pc EXCEPT ![c] = "loading_locked"]
      /\ UNCHANGED <<mem, dir, file, copy, op, agent, made>>
  BY DEF Lock, GoTo
<1>2. passed' \in BOOLEAN /\ dir' \in BOOLEAN /\ (file' # Absent => dir')
  BY <1>1 DEF Inv, TypeOK
<1>3. /\ pc' \in [Callers -> Steps]
      /\ lock' \in Callers \cup {None}
      /\ \A d \in Callers : lock' = d <=> pc'[d] \in Locked
  BY <1>1, TeamsAssumption DEF Inv, TypeOK, Locked, Steps
<1>4. TypeOK'
  BY <1>1, <1>2, <1>3 DEF Inv, TypeOK, Locked
<1>5. AgentKnown'
  BY <1>1 DEF Inv, TypeOK, AgentKnown, Ahead, Locked
<1>6. LoadedIsCurrent'
  BY <1>1, TeamsAssumption DEF Inv, TypeOK, LoadedIsCurrent, Locked
<1>. QED  BY <1>4, <1>5, <1>6 DEF Inv

\* Loading under the lock, with a save to come.
LEMMA LoadLockedKeeps ==
  ASSUME Inv, NEW c \in Callers, pc[c] = "loading_locked",
         copy' = [copy EXCEPT ![c] = Members], GoTo(c, "saving_locked"),
         UNCHANGED <<mem, dir, file, lock, passed>>
  PROVE  Inv'
<1>1. /\ pc' = [pc EXCEPT ![c] = "saving_locked"]
      /\ UNCHANGED <<op, agent, made>>
  BY DEF GoTo
<1>2. passed' \in BOOLEAN /\ dir' \in BOOLEAN /\ (file' # Absent => dir')
  BY DEF Inv, TypeOK
<1>3. /\ pc' \in [Callers -> Steps]
      /\ copy' \in [Callers -> SUBSET Agents]
      /\ \A d \in Callers : lock' = d <=> pc'[d] \in Locked
  BY <1>1, MembersAreAgents DEF Inv, TypeOK, Locked, Steps
<1>4. TypeOK'
  BY <1>1, <1>2, <1>3 DEF Inv, TypeOK, Locked
<1>5. AgentKnown'
  BY <1>1 DEF Inv, TypeOK, AgentKnown, Ahead, Locked
<1>6. LoadedIsCurrent'
  BY <1>1 DEF Inv, TypeOK, LoadedIsCurrent, Members
<1>. QED  BY <1>4, <1>5, <1>6 DEF Inv

\* The persisted half of every call: one step for each of its actions.
LEMMA GoesOnKeeps ==
  ASSUME Inv, NEW c \in Callers, GoesOn(c)
  PROVE  Inv'
<1>0. /\ mem \in (SUBSET Agents) \cup {Absent}
      /\ file \in (SUBSET Agents) \cup {Absent}
      /\ copy \in [Callers -> SUBSET Agents]
      /\ lock = c <=> pc[c] \in Locked
  BY DEF Inv, TypeOK, Locked
<1>b. dir \in BOOLEAN /\ passed \in BOOLEAN /\ (file # Absent => dir)
  BY DEF Inv, TypeOK
<1>1. CASE MakeDir(c)
  BY <1>0, <1>b, <1>1, GoToKeeps DEF MakeDir, Steps, Ahead, Locked
<1>2. CASE Load(c)
  <2>1. copy' \in [Callers -> SUBSET Agents]
    BY <1>0, <1>2, MembersAreAgents DEF Load
  <2>2. \A d \in Callers \ {c} : copy'[d] = copy[d]
    BY <1>0, <1>2 DEF Load
  <2>. QED  BY <2>1, <2>2, <1>b, <1>2, GoToKeeps DEF Load, Steps, Ahead, Locked
<1>3. CASE Save(c)
  <2>1. file' \in (SUBSET Agents) \cup {Absent}
    BY <1>0, <1>3 DEF Save
  <2>2. passed' \in BOOLEAN /\ dir' \in BOOLEAN /\ dir' /\ passed'
    BY <1>b, <1>3 DEF Save
  <2>3. /\ pc[c] \notin Locked
        /\ lock' = lock /\ mem' = mem /\ Return(c)
    BY <1>3 DEF Save, Locked
  <2>. QED  BY <1>0, <2>1, <2>2, <2>3, ReturnKeeps
<1>4. CASE CreateFails(c)
  BY <1>0, <1>b, <1>4, GoToKeeps DEF CreateFails, Steps, Ahead, Locked
<1>5. CASE Undo(c)
  BY <1>0, <1>b, <1>5, ReturnKeeps DEF Undo, Locked
<1>6. CASE CheckDir(c)
  <2>1. CASE dir
    <3>1. NextStep(op[c]) \in {"spawning", "killing", "locking"}
      BY DEF NextStep
    <3>2. GoTo(c, NextStep(op[c])) /\ pc[c] = "checking"
      BY <1>6, <2>1 DEF CheckDir
    <3>3. UNCHANGED <<mem, dir, file, lock, copy, passed>>
      BY <1>6, <2>1 DEF CheckDir
    <3>. QED  BY <1>0, <1>b, <3>1, <3>2, <3>3, GoToKeeps DEF Steps, Ahead, Locked
  <2>2. CASE ~dir
    BY <1>0, <1>b, <1>6, <2>2, ReturnKeeps DEF CheckDir, Locked
  <2>. QED  BY <2>1, <2>2
<1>7. CASE Lock(c)
  BY <1>7, LockKeeps
<1>8. CASE LoadLocked(c)
  <2>1. CASE op[c] # "remove" /\ agent[c] \in Members
    BY <1>0, <1>b, <1>8, <2>1, ReturnKeeps DEF LoadLocked, Locked
  <2>2. CASE ~(op[c] # "remove" /\ agent[c] \in Members)
    BY <1>8, <2>2, LoadLockedKeeps DEF LoadLocked
  <2>. QED  BY <2>1, <2>2
<1>9. CASE SaveLocked(c)
  <2>1. agent[c] \in Agents
    BY <1>9 DEF SaveLocked, Inv, AgentKnown, Ahead, Locked
  <2>2. file' \in (SUBSET Agents) \cup {Absent}
    BY <1>0, <1>9, <2>1 DEF SaveLocked
  <2>3. dir' \in BOOLEAN /\ passed' \in BOOLEAN /\ dir' /\ (passed => passed')
    BY <1>b, <1>9 DEF SaveLocked
  <2>4. /\ pc[c] \in Locked /\ lock = c
        /\ lock' = None /\ mem' = mem /\ Return(c)
    BY <1>0, <1>9 DEF SaveLocked, Locked
  <2>. QED  BY <1>0, <2>2, <2>3, <2>4, ReturnKeeps
<1>10. CASE LockedFails(c)
  BY <1>0, <1>b, <1>10, ReturnKeeps DEF LockedFails, Locked
<1>11. CASE DeleteFiles(c)
  <2>1. file' \in (SUBSET Agents) \cup {Absent} /\ file' = Absent
    BY <1>11 DEF DeleteFiles
  <2>2. CASE dir
    <3>1. /\ pc' = [pc EXCEPT ![c] = "removing"]
          /\ pc[c] = "deleting" /\ passed' = TRUE
          /\ UNCHANGED <<op, agent, made, mem, dir, lock, copy>>
      BY <1>11, <2>2 DEF DeleteFiles, GoTo
    <3>2. /\ pc' \in [Callers -> Steps]
          /\ \A d \in Callers : lock' = d <=> pc'[d] \in Locked
      BY <3>1 DEF Inv, TypeOK, Locked, Steps
    <3>3. passed' \in BOOLEAN /\ dir' \in BOOLEAN
      BY <1>b, <3>1
    <3>4. TypeOK'
      BY <2>1, <3>1, <3>2, <3>3 DEF Inv, TypeOK, Locked
    <3>5. AgentKnown' /\ LoadedIsCurrent'
      BY <3>1 DEF Inv, TypeOK, AgentKnown, LoadedIsCurrent, Ahead, Locked
    <3>. QED  BY <3>4, <3>5 DEF Inv
  <2>3. CASE ~dir
    <3>1. passed' \in BOOLEAN /\ dir' \in BOOLEAN /\ passed'
      BY <1>b, <1>11 DEF DeleteFiles
    <3>2. /\ pc[c] \notin Locked
          /\ lock' = lock /\ mem' = mem /\ Return(c)
      BY <1>11, <2>3 DEF DeleteFiles, Locked
    <3>. QED  BY <1>0, <2>1, <3>1, <3>2, ReturnKeeps
  <2>. QED  BY <2>2, <2>3
<1>12. CASE RemoveDir(c)
  <2>1. dir' \in BOOLEAN /\ passed' \in BOOLEAN /\ (file' # Absent => dir')
    BY <1>b, <1>12 DEF RemoveDir
  <2>2. /\ pc[c] \notin Locked /\ passed' = passed
        /\ lock' = lock /\ mem' = mem /\ file' = file /\ Return(c)
    BY <1>12 DEF RemoveDir, Locked
  <2>. QED  BY <1>0, <2>1, <2>2, ReturnKeeps
<1>13. CASE BackendReturns(c)
  BY <1>0, <1>b, <1>13, GoToKeeps DEF BackendReturns, Steps, Ahead, Locked
<1>14. CASE SpawnFails(c)
  BY <1>0, <1>b, <1>14, ReturnKeeps DEF SpawnFails, Locked
<1>. HIDE DEF Inv
<1>. QED
  BY <1>1, <1>2, <1>3, <1>4, <1>5, <1>6, <1>7, <1>8, <1>9, <1>10, <1>11, <1>12,
    <1>13, <1>14
  DEF GoesOn, StoreGoesOn

\* Nothing that Inv speaks of changes in a stuttering step.
LEMMA StutterKeeps ==
  ASSUME Inv, UNCHANGED vars
  PROVE  Inv'
<1>1. TypeOK'
  <2>1. dir' \in BOOLEAN /\ passed' \in BOOLEAN /\ (file' # Absent => dir')
    BY DEF vars, Inv, TypeOK
  <2>. QED  BY <2>1 DEF vars, Inv, TypeOK
<1>2. AgentKnown' /\ LoadedIsCurrent'
  BY DEF vars, Inv, AgentKnown, LoadedIsCurrent, Members
<1>. QED  BY <1>1, <1>2 DEF Inv

LEMMA TeamsInvariant == Spec => []Inv
<1>1. Inv /\ [Next]_vars => Inv'
  BY CallsKeep, GoesOnKeeps, StutterKeeps DEF Next
<1>. QED  BY <1>1, TeamsInit, PTL DEF Spec

\* The registry, the directory, the file and the calls keep their types, no
\* file lies outside its directory, and the member lock is held by at most one
\* call, the one between register_member's or remove_member's load and save.
THEOREM TeamsTypeCorrect == Spec => []TypeOK
<1>1. Inv => TypeOK
  BY DEF Inv
<1>. QED  BY <1>1, TeamsInvariant, PTL

\* Who may drop a member, in one step.
LEMMA DropStep ==
  ASSUME Inv, NEW c \in Callers, Calls(c) \/ GoesOn(c),
         NEW a \in Agents, a \in Members, a \notin Members'
  PROVE  \/ pc[c] = "saving_locked" /\ (passed \/ (op[c] = "remove" /\ agent[c] = a))
         \/ pc[c] \in {"saving", "deleting"}
<1>1. file' # file
  BY DEF Members
<1>2. Save(c) \/ SaveLocked(c) \/ DeleteFiles(c)
  BY <1>1 DEF Calls, GoesOn, StoreGoesOn, CreateTeam, DeleteTeam, AddAgent, AddMember,
    RemoveMember, Begin, BackendReturns, SpawnFails, MakeDir, Load, CreateFails, Undo, CheckDir, Lock, LoadLocked, LockedFails, RemoveDir
<1>3. CASE Save(c) \/ DeleteFiles(c)
  BY <1>3 DEF Save, DeleteFiles
<1>4. CASE SaveLocked(c) /\ ~passed
  <2>1. copy[c] = Members /\ op[c] \in {"add", "join", "remove"}
    BY <1>4 DEF SaveLocked, Inv, AgentKnown, LoadedIsCurrent, Ahead, Locked
  <2>2. Members' = IF op[c] = "remove" THEN copy[c] \ {agent[c]} ELSE copy[c] \cup {agent[c]}
    <3>1. agent[c] \in Agents /\ copy[c] \in SUBSET Agents
      BY <1>4 DEF SaveLocked, Inv, TypeOK, AgentKnown, Ahead, Locked
    <3>2. file' \in SUBSET Agents
      BY <1>4, <3>1 DEF SaveLocked
    <3>. QED  BY <1>4, <3>2, AbsentIsNoTeam DEF SaveLocked, Members
  <2>. QED  BY <1>4, <2>1, <2>2 DEF SaveLocked
<1>5. CASE SaveLocked(c) /\ passed
  BY <1>5 DEF SaveLocked
<1>. QED  BY <1>2, <1>3, <1>4, <1>5

\* For any number of agents and of concurrent calls, a member leaves
\* members.json only by its own removal, or by a call that takes no lock
\* (create_team's save, delete_team) or that one of these overtook.
THEOREM RegistrationsKept == Spec => OnlyRemovalsRemove
<1> DEFINE Step ==
      \A a \in Agents : a \in Members /\ a \notin Members' =>
        \E c \in Callers :
          \/ pc[c] = "saving_locked" /\ (passed \/ (op[c] = "remove" /\ agent[c] = a))
          \/ pc[c] \in {"saving", "deleting"}
<1>1. Inv /\ Next => Step
  BY DropStep DEF Next
<1>2. Inv /\ [Next]_vars => [Step]_vars
  BY <1>1
<1>. QED  BY <1>2, TeamsInvariant, PTL DEF Spec, OnlyRemovalsRemove

-----------------------------------------------------------------------------
(***************************************************************************)
(* The backend.                                                            *)
(***************************************************************************)

\* Every step of the composition is a step of the team's, or leaves its state alone.
LEMMA MembersStep == [MembersNext]_allVars => [Next]_vars
<1> SUFFICES ASSUME [MembersNext]_allVars PROVE [Next]_vars
  OBVIOUS
<1>1. CASE UNCHANGED allVars
  BY <1>1 DEF allVars
<1>2. ASSUME NEW c \in Callers, TeamCall(c) PROVE Next
  BY <1>2 DEF TeamCall, Next
<1>3. ASSUME NEW c \in Callers, TeamGoesOn(c) PROVE Next
  BY <1>3 DEF TeamGoesOn, GoesOn, Next
<1>4. ASSUME NEW c \in Callers, BackendGoesOn(c) PROVE Next \/ UNCHANGED vars
  <2>1. BackendReturns(c) \/ SpawnFails(c) \/ UNCHANGED vars
    BY <1>4 DEF BackendGoesOn, SpawnLooks, SpawnInserts, LaunchFails, KillLooks,
      KillReaps, NotSpawned
  <2>. QED  BY <2>1 DEF GoesOn, Next
<1>5. ASSUME NEW c \in Callers, LocksChild(c) PROVE Next \/ UNCHANGED vars
  <2>1. SpawnFails(c) \/ UNCHANGED vars
    BY <1>5 DEF LocksChild, SpawnLocks, KillLocks, StatusPolls, NotSpawned
  <2>. QED  BY <2>1 DEF GoesOn, Next
<1>6. ASSUME NEW c \in Callers, NEW a \in Agents, StatusLooks(c, a) PROVE UNCHANGED vars
  BY <1>6 DEF StatusLooks
<1>7. ASSUME NEW n \in Mates, MateEnds(n) PROVE UNCHANGED vars
  BY <1>7 DEF MateEnds
<1>. QED  BY <1>1, <1>2, <1>3, <1>4, <1>5, <1>6, <1>7 DEF MembersNext

\* Every behaviour of the team with its backend is one of the team's, so what is proved
\* of members.json holds however long the backend takes and whatever it answers.
THEOREM MembersUseTeams == MembersSpec => Spec
<1>1. MembersInit => Init
  BY DEF MembersInit
<1>. QED  BY <1>1, MembersStep, PTL DEF MembersSpec, Spec

\* A teammate a call has found or the table holds was started; one that a spawn saw, and
\* goes on to replace, has ended.
BackendTypes ==
  /\ entry \in [Agents -> Mates \cup {0}]
  /\ mate \in [Mates -> {"none", "running", "exited"}]
  /\ finished \subseteq Mates
  /\ at \in [Callers -> BackendSteps]
  /\ hand \in [Callers -> Mates \cup {0}]

Started(n) == n \in Mates /\ mate[n] # "none"
Over(n) == n = 0 \/ mate[n] = "exited"

EntriesStarted == \A a \in Agents : entry[a] # 0 => Started(entry[a])

HandsStarted ==
  \A c \in Callers :
    /\ at[c] \in {"locking_child", "ending", "polling"} => Started(hand[c])
    /\ at[c] = "starting" => Over(hand[c])

\* A call that awaits spawn or kill is about an agent.
AgentAtHand == \A c \in Callers : pc[c] \in {"spawning", "killing"} => agent[c] \in Agents

MInv == BackendTypes /\ EntriesStarted /\ HandsStarted /\ FinishedIsDead

LEMMA MembersInitMInv == MembersInit => MInv
  BY DEF MembersInit, MInv, BackendTypes, EntriesStarted, HandsStarted, FinishedIsDead,
    BackendSteps

\* A step that starts and ends no teammate: only what c has found and the marks change.
LEMMA CallMoves ==
  ASSUME MInv, NEW c \in Callers, NEW step \in BackendSteps, NEW n \in Mates \cup {0},
         Awaits(c, step), Takes(c, n), UNCHANGED <<entry, mate>>,
         step \in {"locking_child", "ending", "polling"} => Started(n),
         step = "starting" => Over(n),
         finished' \in SUBSET Mates, \A k \in finished' : mate[k] = "exited"
  PROVE  MInv'
<1>1. /\ at' = [at EXCEPT ![c] = step] /\ hand' = [hand EXCEPT ![c] = n]
  BY DEF Awaits, Takes
<1>2. BackendTypes'
  BY <1>1 DEF MInv, BackendTypes
<1>3. EntriesStarted' /\ FinishedIsDead'
  BY DEF MInv, EntriesStarted, FinishedIsDead, Started
<1>4. HandsStarted'
  BY <1>1 DEF MInv, BackendTypes, HandsStarted, Started, Over
<1>. QED  BY <1>2, <1>3, <1>4 DEF MInv

\* What was started and does not run has ended.
LEMMA HandEnded ==
  ASSUME MInv, NEW n, Started(n), ~Runs(n)
  PROVE  n \in Mates /\ mate[n] = "exited"
<1>1. n \in Mates /\ mate[n] # "none" /\ mate[n] \in {"none", "running", "exited"}
  BY DEF MInv, BackendTypes, Started
<1>2. n # 0
  BY <1>1 DEF Mates
<1>. QED  BY <1>1, <1>2 DEF Runs

\* spawn.
LEMMA SpawnKeeps ==
  ASSUME MInv, AgentAtHand, NEW c \in Callers,
         SpawnLooks(c) \/ SpawnLocks(c) \/ LaunchFails(c)
  PROVE  MInv'
<1>0. /\ UNCHANGED <<entry, mate>> /\ finished' \in SUBSET Mates
      /\ \A k \in finished' : mate[k] = "exited"
  BY DEF SpawnLooks, SpawnLocks, LaunchFails, table, MInv, BackendTypes, FinishedIsDead
<1>1. CASE NotSpawned(c)
  <2>1. Awaits(c, "none") /\ Takes(c, 0)
    BY <1>1 DEF NotSpawned
  <2>. QED  BY <1>0, <2>1, CallMoves DEF BackendSteps
<1>2. CASE SpawnLooks(c) /\ LooksDead(c) /\ ~NotSpawned(c)
  <2>1. agent[c] \in Agents /\ Awaits(c, "starting") /\ Takes(c, Found(c))
    BY <1>2 DEF SpawnLooks, AgentAtHand
  <2>2. Found(c) \in Mates \cup {0} /\ (Found(c) # 0 => Started(Found(c)))
    BY <2>1 DEF MInv, BackendTypes, EntriesStarted, Found
  <2>3. Over(Found(c))
    BY <1>2, <2>2 DEF LooksDead, Runs, Over, Started, MInv, BackendTypes, FinishedIsDead
  <2>. QED  BY <1>0, <2>1, <2>2, <2>3, CallMoves DEF BackendSteps
<1>3. CASE SpawnLooks(c) /\ ~LooksDead(c) /\ ~NotSpawned(c)
  <2>1. /\ agent[c] \in Agents /\ kind = "subprocess"
        /\ Awaits(c, "locking_child") /\ Takes(c, Found(c))
    BY <1>3 DEF SpawnLooks, AgentAtHand
  <2>2. Found(c) \in Mates /\ Started(Found(c))
    BY <1>3, <2>1 DEF LooksDead, MInv, BackendTypes, EntriesStarted, Found
  <2>. QED  BY <1>0, <2>1, <2>2, CallMoves DEF BackendSteps
<1>4. CASE SpawnLocks(c) /\ ~NotSpawned(c)
  <2>1. /\ at[c] = "locking_child" /\ ~Runs(hand[c])
        /\ Awaits(c, "starting") /\ hand' = hand
    BY <1>4 DEF SpawnLocks
  <2>2. hand[c] \in Mates /\ Over(hand[c]) /\ Takes(c, hand[c])
    BY <2>1, HandEnded DEF MInv, BackendTypes, HandsStarted, Over, Takes
  <2>. QED  BY <1>0, <2>1, <2>2, CallMoves DEF BackendSteps
<1>5. CASE LaunchFails(c)
  BY <1>1, <1>5 DEF LaunchFails
<1>. QED  BY <1>1, <1>2, <1>3, <1>4, <1>5

LEMMA InsertKeeps ==
  ASSUME MInv, AgentAtHand, NEW c \in Callers, SpawnInserts(c)
  PROVE  MInv'
<1>1. PICK n \in Mates :
        /\ mate[n] = "none" /\ mate' = [mate EXCEPT ![n] = "running"]
        /\ entry' = [entry EXCEPT ![agent[c]] = n]
  BY DEF SpawnInserts
<1>2. /\ at' = [at EXCEPT ![c] = "none"] /\ hand' = [hand EXCEPT ![c] = 0]
      /\ finished' = finished
  BY DEF SpawnInserts, Awaits, Takes
<1>3. BackendTypes'
  BY <1>1, <1>2 DEF MInv, BackendTypes, BackendSteps
<1>4. EntriesStarted'
  BY <1>1 DEF MInv, BackendTypes, EntriesStarted, Started
<1>5. HandsStarted'
  BY <1>1, <1>2 DEF MInv, BackendTypes, HandsStarted, Started, Over
<1>6. FinishedIsDead'
  BY <1>1, <1>2 DEF MInv, BackendTypes, FinishedIsDead
<1>. QED  BY <1>3, <1>4, <1>5, <1>6 DEF MInv

\* kill and status.
LEMMA KillKeeps ==
  ASSUME MInv, AgentAtHand, NEW c \in Callers,
         KillLooks(c) \/ KillLocks(c) \/ KillReaps(c)
  PROVE  MInv'
<1>0. UNCHANGED <<entry, mate>> /\ hand[c] \in Mates \cup {0}
  BY DEF KillLooks, KillLocks, KillReaps, table, MInv, BackendTypes
<1>b. finished \in SUBSET Mates /\ \A k \in finished : mate[k] = "exited"
  BY DEF MInv, BackendTypes, FinishedIsDead
<1>1. CASE KillLooks(c) /\ Awaits(c, "locking_child") /\ Takes(c, Found(c)) /\ Found(c) # 0
  <2>1. Found(c) \in Mates /\ Started(Found(c))
    BY <1>1 DEF KillLooks, AgentAtHand, MInv, BackendTypes, EntriesStarted, Found
  <2>2. finished' = finished
    BY <1>1 DEF KillLooks, table
  <2>. QED  BY <1>0, <1>b, <1>1, <2>1, <2>2, CallMoves DEF BackendSteps
<1>2. CASE KillLooks(c) /\ UNCHANGED <<at, hand>>
  BY <1>0, <1>2 DEF KillLooks, table, MInv, BackendTypes, EntriesStarted, HandsStarted,
    FinishedIsDead, Started, Over
<1>3. CASE KillLocks(c)
  <2>1. /\ at[c] = "locking_child" /\ Awaits(c, "ending") /\ Takes(c, hand[c])
        /\ finished' = finished
    BY <1>3 DEF KillLocks, table, Takes, MInv, BackendTypes
  <2>2. Started(hand[c])
    BY <2>1 DEF MInv, HandsStarted
  <2>. QED  BY <1>0, <1>b, <2>1, <2>2, CallMoves DEF BackendSteps
<1>4. CASE KillReaps(c)
  <2>1. at[c] = "ending" /\ ~Runs(hand[c]) /\ finished' = finished \cup {hand[c]}
    BY <1>4 DEF KillReaps
  <2>2. hand[c] \in Mates /\ mate[hand[c]] = "exited"
    BY <2>1, HandEnded DEF MInv, HandsStarted
  <2>3. Awaits(c, "none") /\ Takes(c, 0)
    BY <1>4 DEF KillReaps
  <2>4. finished' \in SUBSET Mates /\ \A k \in finished' : mate[k] = "exited"
    BY <1>b, <2>1, <2>2
  <2>. QED  BY <1>0, <2>3, <2>4, CallMoves DEF BackendSteps
<1>. QED  BY <1>1, <1>2, <1>3, <1>4 DEF KillLooks

LEMMA StatusKeeps ==
  ASSUME MInv, NEW c \in Callers,
         StatusPolls(c) \/ \E a \in Agents : StatusLooks(c, a)
  PROVE  MInv'
<1>b. finished \in SUBSET Mates /\ \A k \in finished : mate[k] = "exited"
  BY DEF MInv, BackendTypes, FinishedIsDead
<1>1. ASSUME NEW a \in Agents, StatusLooks(c, a) PROVE MInv'
  <2>1. entry[a] \in Mates /\ Started(entry[a])
    BY <1>1 DEF StatusLooks, MInv, BackendTypes, EntriesStarted
  <2>2. /\ Awaits(c, "polling") /\ Takes(c, entry[a]) /\ UNCHANGED <<entry, mate>>
        /\ finished' = finished
    BY <1>1 DEF StatusLooks, table
  <2>. QED  BY <1>b, <2>1, <2>2, CallMoves DEF BackendSteps
<1>2. CASE StatusPolls(c)
  <2>1. /\ at[c] = "polling" /\ Awaits(c, "none") /\ Takes(c, 0)
        /\ UNCHANGED <<entry, mate>>
    BY <1>2 DEF StatusPolls
  <2>2. Started(hand[c])
    BY <2>1 DEF MInv, HandsStarted
  <2>3. finished' \in SUBSET Mates /\ \A k \in finished' : mate[k] = "exited"
    <3>1. CASE Runs(hand[c])
      BY <1>b, <1>2, <3>1 DEF StatusPolls
    <3>2. CASE ~Runs(hand[c])
      <4>1. hand[c] \in Mates /\ mate[hand[c]] = "exited"
        BY <2>2, <3>2, HandEnded
      <4>2. finished' = finished \cup {hand[c]}
        BY <1>2, <3>2 DEF StatusPolls
      <4>. QED  BY <1>b, <4>1, <4>2
    <3>. QED  BY <3>1, <3>2
  <2>. QED  BY <2>1, <2>3, CallMoves DEF BackendSteps
<1>. QED  BY <1>1, <1>2

LEMMA EndKeeps ==
  ASSUME MInv, NEW n \in Mates, MateEnds(n)
  PROVE  MInv'
<1>1. /\ mate' = [mate EXCEPT ![n] = "exited"]
      /\ UNCHANGED <<entry, finished, at, hand>>
  BY DEF MateEnds
<1>2. BackendTypes'
  BY <1>1 DEF MInv, BackendTypes
<1>3. EntriesStarted' /\ FinishedIsDead'
  BY <1>1 DEF MInv, BackendTypes, EntriesStarted, FinishedIsDead, Started
<1>4. HandsStarted'
  BY <1>1 DEF MInv, BackendTypes, HandsStarted, Started, Over
<1>. QED  BY <1>2, <1>3, <1>4 DEF MInv

LEMMA MembersInvariant == MembersSpec => [](MInv /\ AgentAtHand)
<1>1. Inv => AgentAtHand
  BY DEF Inv, AgentKnown, AgentAtHand, Ahead
<1>2. ASSUME MInv, UNCHANGED backend PROVE MInv'
  BY <1>2 DEF backend, table, MInv, BackendTypes, EntriesStarted, HandsStarted,
    FinishedIsDead, Started, Over
<1>3. MInv /\ AgentAtHand /\ [MembersNext]_allVars => MInv'
  <2> SUFFICES ASSUME MInv, AgentAtHand, [MembersNext]_allVars PROVE MInv'
    OBVIOUS
  <2>1. CASE UNCHANGED allVars
    BY <2>1, <1>2 DEF allVars
  <2>2. ASSUME NEW c \in Callers, TeamCall(c) \/ TeamGoesOn(c) PROVE MInv'
    BY <2>2, <1>2 DEF TeamCall, TeamGoesOn
  <2>3. ASSUME NEW c \in Callers, BackendGoesOn(c) \/ LocksChild(c) PROVE MInv'
    BY <2>3, SpawnKeeps, InsertKeeps, KillKeeps, StatusKeeps DEF BackendGoesOn, LocksChild
  <2>4. ASSUME NEW c \in Callers, NEW a \in Agents, StatusLooks(c, a) PROVE MInv'
    BY <2>4, StatusKeeps
  <2>. QED  BY <2>1, <2>2, <2>3, <2>4, EndKeeps DEF MembersNext
<1>. QED  BY <1>1, <1>3, MembersInitMInv, MembersUseTeams, TeamsInvariant, PTL DEF MembersSpec

\* However calls of spawn, kill and status overlap, a teammate is marked finished only
\* when it has ended.
THEOREM FinishedAreDead == MembersSpec => []FinishedIsDead
<1>1. MInv => FinishedIsDead
  BY DEF MInv
<1>. QED  BY <1>1, MembersInvariant, PTL

\* A spawn replaces a running teammate only if that one was started after it had looked:
\* what it saw itself has ended.
THEOREM OnlyDeadReplaced == MembersSpec => ReplacesDead
<1> DEFINE Step ==
      \A a \in Agents :
        Runs(entry[a]) /\ entry'[a] # entry[a] =>
          \E c \in Callers : at[c] = "starting" /\ agent[c] = a /\ hand[c] # entry[a]
<1>1. MInv /\ AgentAtHand /\ MembersNext => Step
  <2> SUFFICES ASSUME MInv, AgentAtHand, MembersNext, NEW a \in Agents,
                      Runs(entry[a]), entry'[a] # entry[a]
               PROVE  \E c \in Callers :
                        at[c] = "starting" /\ agent[c] = a /\ hand[c] # entry[a]
    OBVIOUS
  <2>1. PICK c \in Callers : SpawnInserts(c)
    BY DEF MembersNext, TeamCall, TeamGoesOn, BackendGoesOn, LocksChild, SpawnLooks,
      SpawnLocks, LaunchFails, KillLooks, KillLocks, KillReaps, StatusLooks, StatusPolls,
      MateEnds, backend, table
  <2>2. at[c] = "starting" /\ agent[c] = a
    BY <2>1 DEF SpawnInserts, MInv, BackendTypes
  <2>3. hand[c] # entry[a]
    BY <2>2 DEF MInv, HandsStarted, Over, Runs
  <2>. QED  BY <2>2, <2>3
<1>2. MInv /\ AgentAtHand /\ [MembersNext]_allVars => [Step]_allVars
  BY <1>1
<1>. QED  BY <1>2, MembersInvariant, PTL DEF MembersSpec, ReplacesDead

\* What the proofs above do not need: the kind of backend, who was told to stop, and the
\* children's locks.
ChildTypes ==
  /\ kind \in Kinds
  /\ told \subseteq Mates
  /\ childLock \in [Mates -> Callers \cup {None}]

\* Only kill tells a teammate to stop, the one it found or has at hand, and only kill
\* takes the lock of a child for longer than a step.
LEMMA ChildTypesKept ==
  ASSUME ChildTypes, MInv, AgentAtHand, [MembersNext]_allVars
  PROVE  ChildTypes'
<1>1. CASE UNCHANGED <<kind, told, childLock>>
  BY <1>1 DEF ChildTypes
<1>2. ASSUME NEW c \in Callers, KillLooks(c) PROVE ChildTypes'
  <2>1. Found(c) \in Mates \cup {0}
    BY <1>2 DEF KillLooks, AgentAtHand, MInv, BackendTypes, Found
  <2>. QED  BY <1>2, <2>1 DEF KillLooks, ChildTypes
<1>3. ASSUME NEW c \in Callers, KillLocks(c) PROVE ChildTypes'
  <2>1. hand[c] \in Mates
    BY <1>3 DEF KillLocks, MInv, HandsStarted, Started
  <2>. QED  BY <1>3, <2>1 DEF KillLocks, ChildTypes
<1>4. ASSUME NEW c \in Callers, KillReaps(c) PROVE ChildTypes'
  BY <1>4 DEF KillReaps, ChildTypes
<1>. QED
  BY <1>1, <1>2, <1>3, <1>4 DEF MembersNext, TeamCall, TeamGoesOn, BackendGoesOn,
    LocksChild, SpawnLooks, SpawnLocks, SpawnInserts, LaunchFails, StatusLooks,
    StatusPolls, MateEnds, backend, allVars

\* The state of a team and its backend keeps its types: whoever is told to stop is a
\* teammate, and only a call holds the lock of a child.
THEOREM MembersTypeCorrect == MembersSpec => []MembersTypeOK
<1>1. MembersInit => ChildTypes
  BY DEF MembersInit, ChildTypes
<1>2. TypeOK /\ MInv /\ ChildTypes => MembersTypeOK
  BY DEF MInv, BackendTypes, ChildTypes, MembersTypeOK
<1>. QED
  BY <1>1, <1>2, ChildTypesKept, MembersInvariant, MembersUseTeams, TeamsTypeCorrect, PTL
    DEF MembersSpec
=============================================================================
