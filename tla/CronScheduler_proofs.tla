------------------------ MODULE CronScheduler_proofs ------------------------
(****************************************************************************)
(* Proofs about CronScheduler: with type correctness, "each loop has one    *)
(* owner" is inductive, and with it that no loop runs unknown to the table. *)
(****************************************************************************)
EXTENDS CronScheduler, TLAPS

Inv == TypeOK /\ LoopsAccounted /\ OneOwner

\* At the start there are no loops and no calls.
LEMMA CronInit == Init => Inv
<1> SUFFICES ASSUME Init PROVE Inv
  OBVIOUS
<1>1. paused \in BOOLEAN
  BY DEF Init
<1>2. TypeOK
  BY <1>1, CronAssumption DEF Init, TypeOK
<1>3. LoopsAccounted /\ OneOwner
  BY DEF Init, LoopsAccounted, OneOwner, Alive
<1>. QED  BY <1>2, <1>3 DEF Inv

\* What the calls' own variables hold, whatever the rest.
CallsTyped ==
  /\ op \in [Callers -> Ops \cup {None}]
  /\ pc \in [Callers -> {"idle", "listing", "cancelling", "reading", "putting",
                         "spawning", "inserting", "deleting"}]
  /\ mine \in [Callers -> Loops \cup {None}]
  /\ \A c \in Callers : mine[c] # None <=> pc[c] = "inserting"
  /\ made \in 0..MaxCalls
  /\ paused \in BOOLEAN

\* A call that holds no loop goes on, or returns, without touching loops.
LEMMA CallGoesOnOrReturns ==
  ASSUME TypeOK, NEW c \in Callers, pc[c] # "inserting",
         \/ \E step \in {"reading", "putting", "spawning", "deleting"} : GoOn(c, step)
         \/ \E ok \in BOOLEAN : ReturnFrom(c, ok)
  PROVE  CallsTyped' /\ mine' = mine
<1>1. CASE \E step \in {"reading", "putting", "spawning", "deleting"} : GoOn(c, step)
  BY <1>1 DEF GoOn, TypeOK, CallsTyped
<1>2. CASE \E ok \in BOOLEAN : ReturnFrom(c, ok)
  <2>1. paused' \in BOOLEAN
    BY <1>2 DEF ReturnFrom
  <2>2. mine[c] = None /\ mine' = [mine EXCEPT ![c] = None]
    BY <1>2 DEF ReturnFrom, TypeOK
  <2>3. mine' = mine
    BY <2>2 DEF TypeOK
  <2>4. /\ op' = [op EXCEPT ![c] = None]
        /\ pc' = [pc EXCEPT ![c] = "idle"]
        /\ made' = made
    BY <1>2 DEF ReturnFrom
  <2>. QED  BY <2>1, <2>2, <2>3, <2>4, CronAssumption DEF TypeOK, CallsTyped
<1>. QED  BY <1>1, <1>2

\* A call keeps the invariant.
LEMMA CallStep ==
  ASSUME Inv, NEW c \in Callers,
         CallGoesOn(c) \/ \E o \in Ops : Call(c, o)
  PROVE  Inv'
<1> USE CronAssumption DEF Inv, TypeOK, LoopsAccounted, OneOwner, Alive
<1>1. ASSUME NEW o \in Ops, Call(c, o) PROVE Inv'
  <2>1. FirstStep(o) \in {"listing", "cancelling", "reading", "putting"}
    BY DEF FirstStep
  <2>2. /\ pc[c] = "idle" /\ made' \in 0..MaxCalls
        /\ op' = [op EXCEPT ![c] = o]
        /\ pc' = [pc EXCEPT ![c] = FirstStep(o)]
        /\ UNCHANGED <<disk, loop, landing, handle, mine>>
    BY <1>1 DEF Call
  <2>3. paused' \in BOOLEAN
    BY <1>1 DEF Call
  <2>4. TypeOK'
    BY <2>1, <2>2, <2>3
  <2>. QED  BY <2>2, <2>4
<1>2. CASE ListJobs(c)
  <2>1. CallsTyped' /\ mine' = mine
    BY <1>2, CallGoesOnOrReturns DEF ListJobs
  <2>. QED  BY <1>2, <2>1 DEF ListJobs, CallsTyped
<1>3. CASE CancelTask(c)
  <2>1. CallsTyped' /\ mine' = mine
    BY <1>3, CallGoesOnOrReturns DEF CancelTask
  <2>. QED  BY <1>3, <2>1 DEF CancelTask, Aborted, CallsTyped
<1>4. CASE ReadJob(c)
  <2>1. CallsTyped' /\ mine' = mine
    BY <1>4, CallGoesOnOrReturns DEF ReadJob
  <2>. QED  BY <1>4, <2>1 DEF ReadJob, CallsTyped
<1>5. CASE PutJob(c)
  <2>1. CallsTyped' /\ mine' = mine
    BY <1>5, CallGoesOnOrReturns DEF PutJob
  <2>. QED  BY <1>5, <2>1 DEF PutJob, Flag, CallsTyped
<1>6. CASE PutFails(c)
  <2>1. CallsTyped' /\ mine' = mine
    BY <1>6, CallGoesOnOrReturns DEF PutFails
  <2>2. disk' \in {"absent", "on", "off"}
    BY <1>6 DEF PutFails, Flag
  <2>. QED  BY <1>6, <2>1, <2>2 DEF PutFails, CallsTyped
<1>7. CASE SpawnLoop(c)
  BY <1>7 DEF SpawnLoop
<1>8. CASE InsertHandle(c)
  BY <1>8 DEF InsertHandle, Aborted, ReturnFrom
<1>9. CASE DeleteJob(c)
  <2>1. CallsTyped' /\ mine' = mine
    BY <1>9, CallGoesOnOrReturns DEF DeleteJob
  <2>. QED  BY <1>9, <2>1 DEF DeleteJob, CallsTyped
<1>. QED
  BY <1>1, <1>2, <1>3, <1>4, <1>5, <1>6, <1>7, <1>8, <1>9 DEF CallGoesOn

\* A loop keeps the invariant.
LEMMA LoopStep ==
  ASSUME Inv, NEW l \in Loops, LoopGoesOn(l)
  PROVE  Inv'
<1> USE CronAssumption DEF Inv, TypeOK, LoopsAccounted, OneOwner, Alive
<1>1. CASE Wake(l)
  BY <1>1 DEF Wake, Step
<1>2. CASE Fired(l)
  BY <1>2 DEF Fired, Step
<1>3. CASE Reload(l) \/ ReloadFails(l)
  BY <1>3 DEF Reload, ReloadFails, Persist, Step
<1>4. CASE ReloadPaused(l)
  BY <1>4 DEF ReloadPaused, Step
<1>5. CASE Land(l)
  BY <1>5 DEF Land
<1>6. CASE PersistFails(l)
  BY <1>6 DEF PersistFails
<1>7. CASE NoNextRun(l)
  BY <1>7 DEF NoNextRun, Step
<1>. QED  BY <1>1, <1>2, <1>3, <1>4, <1>5, <1>6, <1>7 DEF LoopGoesOn

\* Every reachable state satisfies the invariant.
LEMMA CronInvariant == Spec => []Inv
<1>1. Inv /\ [Next]_vars => Inv'
  <2> SUFFICES ASSUME Inv, [Next]_vars PROVE Inv'
    OBVIOUS
  <2>1. CASE UNCHANGED vars
    BY <2>1 DEF vars, Inv, TypeOK, LoopsAccounted, OneOwner, Alive
  <2>2. CASE Crash
    BY <2>2, CronAssumption
    DEF Crash, Inv, TypeOK, LoopsAccounted, OneOwner, Alive
  <2>. QED  BY <2>1, <2>2, CallStep, LoopStep DEF Next
<1>. QED  BY <1>1, CronInit, PTL DEF Spec

\* Type correctness of the scheduler.
THEOREM CronTypeCorrect == Spec => []TypeOK
<1>1. Inv => TypeOK
  BY DEF Inv
<1>. QED  BY <1>1, CronInvariant, PTL

\* Whatever number of calls overlap, no loop runs that the table does not know
\* or is about to know.
THEOREM NoLoopUnknown == Spec => []LoopsAccounted
<1>1. Inv => LoopsAccounted
  BY DEF Inv
<1>. QED  BY <1>1, CronInvariant, PTL

\* The table names a live loop, and each loop has one owner.
THEOREM LoopsOwnedOnce == Spec => []OneOwner
<1>1. Inv => OneOwner
  BY DEF Inv
<1>. QED  BY <1>1, CronInvariant, PTL
=============================================================================
