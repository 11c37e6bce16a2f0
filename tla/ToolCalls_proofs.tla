--------------------------- MODULE ToolCalls_proofs ---------------------------
(***************************************************************************)
(* Proofs about ToolCalls and Permissions: the shape of the state, that    *)
(* hooks run only while they are registered, that no tool runs past a hook *)
(* that blocks it, and that what runs is what the settings promise.        *)
(***************************************************************************)
EXTENDS ToolCalls, TLAPS

(***************************************************************************)
(* The permission decision.                                                *)
(***************************************************************************)

\* A decision is one of three.
LEMMA DecisionType == \A s, q : Evaluate(s, q) \in Decisions
  BY DEF Evaluate, ByMode, Decisions

\* The order of the checks keeps every promise of the settings: what is allowed
\* at once may run unasked, and what is left to the user may run once confirmed.
THEOREM DecisionIsPromised ==
  \A s, q : /\ Evaluate(s, q) = "allow" => MayRun(s, q, FALSE)
            /\ Evaluate(s, q) = "confirm" => MayRun(s, q, TRUE)
<1> SUFFICES ASSUME NEW s, NEW q
             PROVE  /\ Evaluate(s, q) = "allow" => MayRun(s, q, FALSE)
                    /\ Evaluate(s, q) = "confirm" => MayRun(s, q, TRUE)
  OBVIOUS
<1>1. ASSUME Evaluate(s, q) \in {"allow", "confirm"} PROVE ~AlwaysRefused(s, q)
  BY <1>1 DEF Evaluate, AlwaysRefused
<1>2. ASSUME Evaluate(s, q) \in {"allow", "confirm"}, ~NamedAllowed(s, q)
      PROVE  /\ Evaluate(s, q) = ByMode(s.mode, q.read_only)
             /\ ~(q.path # NoArg /\ DeniedByRule(s, q.path))
             /\ ~(q.command # NoArg /\ CommandDenied(s, q.command))
  BY <1>2 DEF Evaluate, NamedAllowed
<1>. QED  BY <1>1, <1>2 DEF ByMode, MayRun, Bound

\* A request that may run unasked may run when it has been confirmed.
LEMMA ConfirmingOpens == \A s, q : MayRun(s, q, FALSE) => MayRun(s, q, TRUE)
  BY DEF MayRun

(***************************************************************************)
(* The inductive invariant.                                                *)
(***************************************************************************)

\* Of two calls in the queue one is before the other.
Ordered ==
  \A c, d \in Queued : c # d => c \in before[d] \/ d \in before[c]

\* A hook runs under its call's read lock and is one of those to run.
RunsUnderLock ==
  \A c \in Calls : running[c] # None => Holds(c) /\ running[c] \in HooksOf(c)

\* A PreToolUse hook that has run either let the call through or blocked it.
Judged ==
  \A c \in Calls : at[c] = "pre_tool_use" =>
    \A h \in ran[c] : h \in passed[c] \/ blocked[c]

Cleared(c) ==
  \A h \in steady[c] :
    EventOf[h] = "pre_tool_use" /\ request[c].tool \in Matched[h] => h \in passed[c]

Guarded ==
  \A c \in Calls :
    /\ steady[c] \subseteq registry
    /\ at[c] \notin {"off", "pre_tool_use", "over"} => Cleared(c) /\ request[c].tool \in Known
    /\ executed[c] => Cleared(c) /\ request[c].tool \in Known

Permitted ==
  \A c \in Calls :
    /\ at[c] = "off" => ~executed[c]
    /\ at[c] = "prompting" => Decision(c) = "confirm"
    /\ at[c] = "executing" \/ executed[c] => MayRun(settings, Query(c), confirmed[c])

LockInv == TypeOK /\ Ordered /\ RunsUnderLock
CallInv == Judged /\ Guarded /\ Permitted
Inv == LockInv /\ CallInv

\* At the start no call is under way.
LEMMA CallsInit == Init => Inv
<1> SUFFICES ASSUME Init PROVE Inv
  OBVIOUS
<1>1. settings \in Profiles /\ registry \subseteq Hooks
  BY ToolCallsAssumption DEF Init
<1>2. TypeOK
  BY <1>1 DEF Init, TypeOK, Steps, HookSteps, Outcomes, Queued
<1>3. Ordered /\ RunsUnderLock
  BY DEF Init, Ordered, Queued, RunsUnderLock
<1>4. CallInv
  BY DEF Init, CallInv, Judged, Guarded, Permitted
<1>. QED  BY <1>2, <1>3, <1>4 DEF Inv, LockInv

(***************************************************************************)
(* The lock.                                                               *)
(***************************************************************************)

\* Nobody reads while somebody writes.
LEMMA WriterAlone ==
  ASSUME TypeOK, Ordered, NEW c \in Calls, NEW d \in Calls, c # d,
         Holds(c), wants[c] = "write"
  PROVE  ~Holds(d)
<1>1. before[c] = {} /\ c \in Queued
  BY DEF Holds, Queued
<1>2. ASSUME Holds(d) PROVE FALSE
  <2>1. d \in Queued
    BY <1>2 DEF Holds, Queued
  <2>2. c \in before[d]
    BY <1>1, <2>1 DEF Ordered
  <2>. QED  BY <1>2, <2>2 DEF Holds
<1>. QED  BY <1>2

\* Where a call goes on it asks for the lock that step needs and no other.
LEMMA GoToAsks ==
  ASSUME TypeOK, NEW c \in Calls, NEW step \in Steps \ {"off"}, GoTo(c, step)
  PROVE  /\ at' = [at EXCEPT ![c] = step]
         /\ at' \in [Calls -> Steps] /\ at'[c] = step
         /\ \A d \in Calls \ {c} : at'[d] = at[d]
         /\ wants' \in [Calls -> {"none", "read", "write"}]
         /\ before' \in [Calls -> SUBSET Calls]
         /\ wants'[c] = "read" <=> step \in HookSteps
         /\ wants'[c] = "write" <=> step = "mutating"
         /\ \A d \in Calls \ {c} : wants'[d] = wants[d] /\ before'[d] = before[d] \ {c}
         /\ before'[c] = IF wants'[c] = "none" THEN {} ELSE Queued \ {c}
         /\ ran' \in [Calls -> SUBSET Hooks] /\ ran'[c] = {}
         /\ \A d \in Calls \ {c} : ran'[d] = ran[d] /\ blocked'[d] = blocked[d]
         /\ blocked' \in [Calls -> BOOLEAN]
<1> DEFINE mode == IF step \in HookSteps THEN "read"
                   ELSE IF step = "mutating" THEN "write" ELSE "none"
<1>1. Ask(c, step, mode)
  BY DEF GoTo
<1>2. /\ mode \in {"none", "read", "write"}
      /\ mode = "read" <=> step \in HookSteps
      /\ mode = "write" <=> step = "mutating"
  BY DEF HookSteps
<1> HIDE DEF mode
<1>3. /\ wants' = [wants EXCEPT ![c] = mode]
      /\ before' = [Left(c) EXCEPT ![c] = IF mode = "none" THEN {} ELSE Queued \ {c}]
      /\ ran' = [ran EXCEPT ![c] = {}]
      /\ blocked' = [blocked EXCEPT ![c] = FALSE]
      /\ at' = [at EXCEPT ![c] = step]
  BY <1>1 DEF Ask
<1>4. wants' \in [Calls -> {"none", "read", "write"}] /\ wants'[c] = mode
  BY <1>2, <1>3 DEF TypeOK
<1>5. \A d \in Calls \ {c} : wants'[d] = wants[d] /\ before'[d] = before[d] \ {c}
  BY <1>3 DEF TypeOK, Left
<1>6. before' \in [Calls -> SUBSET Calls]
      /\ before'[c] = IF mode = "none" THEN {} ELSE Queued \ {c}
  BY <1>3 DEF TypeOK, Left, Queued
<1>7. /\ ran' \in [Calls -> SUBSET Hooks] /\ ran'[c] = {}
      /\ blocked' \in [Calls -> BOOLEAN]
      /\ \A d \in Calls \ {c} : ran'[d] = ran[d] /\ blocked'[d] = blocked[d]
  BY <1>3 DEF TypeOK
<1>8. at' \in [Calls -> Steps] /\ at'[c] = step /\ \A d \in Calls \ {c} : at'[d] = at[d]
  BY <1>3 DEF TypeOK
<1>. QED  BY <1>2, <1>3, <1>4, <1>5, <1>6, <1>7, <1>8

\* Going on takes the lock from nobody who has it, and keeps the queue in order.
LEMMA GoToKeepsLock ==
  ASSUME LockInv, NEW c \in Calls, NEW step \in Steps \ {"off"}, GoTo(c, step),
         running[c] = None, UNCHANGED <<running, reading>>,
         registry' \subseteq Hooks, settings' \in Profiles, cancelled' \in BOOLEAN,
         request' \in [Calls -> RequestType \cup {None}],
         \A d \in Calls \ {c} : request'[d] = request[d], request'[c] # None,
         result' \in [Calls -> Outcomes], executed' \in [Calls -> BOOLEAN],
         confirmed' \in [Calls -> BOOLEAN], steady' \in [Calls -> SUBSET Hooks],
         passed' \in [Calls -> SUBSET Hooks],
         \A d \in Calls \ {c} : running[d] # None => running[d] \in registry'
  PROVE  LockInv'
<1>0. TypeOK /\ Ordered /\ RunsUnderLock
  BY DEF LockInv
<1>1. /\ at' = [at EXCEPT ![c] = step]
      /\ wants' \in [Calls -> {"none", "read", "write"}]
      /\ before' \in [Calls -> SUBSET Calls]
      /\ wants'[c] = "read" <=> step \in HookSteps
      /\ wants'[c] = "write" <=> step = "mutating"
      /\ \A d \in Calls \ {c} : wants'[d] = wants[d] /\ before'[d] = before[d] \ {c}
      /\ before'[c] = IF wants'[c] = "none" THEN {} ELSE Queued \ {c}
  BY <1>0, GoToAsks
<1>2. ran' \in [Calls -> SUBSET Hooks] /\ blocked' \in [Calls -> BOOLEAN]
  BY <1>0, GoToAsks
<1>3. at' \in [Calls -> Steps] /\ at'[c] = step
      /\ \A d \in Calls \ {c} : at'[d] = at[d]
  BY <1>0, <1>1 DEF TypeOK
<1>4. \A d \in Calls : before'[d] \subseteq Queued' \ {d}
  <2> SUFFICES ASSUME NEW d \in Calls, NEW e \in before'[d] PROVE e \in Queued' \ {d}
    OBVIOUS
  <2>1. CASE d = c
    <3>1. e \in Queued \ {c} /\ e \in Calls
      BY <1>1, <2>1 DEF Queued
    <3>. QED  BY <1>1, <2>1, <3>1 DEF Queued
  <2>2. CASE d # c
    <3>1. e \in before[d] /\ e # c
      BY <1>1, <2>2
    <3>2. e \in Queued \ {d} /\ e \in Calls
      BY <1>0, <3>1 DEF TypeOK, Queued
    <3>. QED  BY <1>1, <3>1, <3>2 DEF Queued
  <2>. QED  BY <2>1, <2>2
<1>5. \A d \in Calls : /\ wants'[d] = "read" <=> at'[d] \in HookSteps
                       /\ wants'[d] = "write" <=> at'[d] = "mutating"
                       /\ at'[d] = "off" <=> request'[d] = None
                       /\ running'[d] # None => at'[d] \in HookSteps
                       /\ reading'[d] => running'[d] \in Bodied
  <2> SUFFICES ASSUME NEW d \in Calls
               PROVE  /\ wants'[d] = "read" <=> at'[d] \in HookSteps
                      /\ wants'[d] = "write" <=> at'[d] = "mutating"
                      /\ at'[d] = "off" <=> request'[d] = None
                      /\ running'[d] # None => at'[d] \in HookSteps
                      /\ reading'[d] => running'[d] \in Bodied
    OBVIOUS
  <2>1. CASE d = c
    BY <1>0, <1>1, <1>3, <2>1 DEF TypeOK
  <2>2. CASE d # c
    BY <1>0, <1>1, <1>3, <2>2 DEF TypeOK
  <2>. QED  BY <2>1, <2>2
<1>6. TypeOK'
  BY <1>0, <1>1, <1>2, <1>3, <1>4, <1>5 DEF TypeOK
<1>7. Ordered'
  <2> SUFFICES ASSUME NEW d \in Queued', NEW e \in Queued', d # e
               PROVE  d \in before'[e] \/ e \in before'[d]
    BY DEF Ordered
  <2>1. d \in Calls /\ e \in Calls
    BY DEF Queued
  <2>2. CASE d # c /\ e # c
    <3>1. d \in Queued /\ e \in Queued
      BY <1>1, <2>1, <2>2 DEF Queued
    <3>. QED  BY <1>0, <1>1, <2>1, <2>2, <3>1 DEF Ordered
  <2>3. CASE d = c
    <3>1. e \in Queued \ {c}
      BY <1>1, <2>1, <2>3 DEF Queued
    <3>2. wants'[c] # "none"
      BY <2>3 DEF Queued
    <3>. QED  BY <1>1, <2>3, <3>1, <3>2
  <2>4. CASE e = c
    <3>1. d \in Queued \ {c}
      BY <1>1, <2>1, <2>4 DEF Queued
    <3>2. wants'[c] # "none"
      BY <2>4 DEF Queued
    <3>. QED  BY <1>1, <2>4, <3>1, <3>2
  <2>. QED  BY <2>2, <2>3, <2>4
<1>8. RunsUnderLock'
  <2> SUFFICES ASSUME NEW d \in Calls, running'[d] # None
               PROVE  Holds(d)' /\ running'[d] \in HooksOf(d)'
    BY DEF RunsUnderLock
  <2>1. d # c /\ running[d] # None
    OBVIOUS
  <2>2. Holds(d) /\ running[d] \in HooksOf(d)
    BY <1>0, <2>1 DEF RunsUnderLock
  <2>3. Holds(d)'
    <3>1. \A e \in before[d] : e \in Calls
      BY <1>0 DEF TypeOK
    <3>. QED  BY <1>1, <2>1, <2>2, <3>1 DEF Holds
  <2>4. running'[d] \in HooksOf(d)'
    BY <1>3, <2>1, <2>2 DEF HooksOf, Matches
  <2>. QED  BY <2>3, <2>4
<1>. QED  BY <1>6, <1>7, <1>8 DEF LockInv

(***************************************************************************)
(* The calls.                                                              *)
(***************************************************************************)

\* A confirmation takes nothing back.
LEMMA MayRunStays ==
  ASSUME NEW s, NEW q, NEW b \in BOOLEAN, NEW b2 \in BOOLEAN, b => b2, MayRun(s, q, b)
  PROVE  MayRun(s, q, b2)
  BY DEF MayRun

\* A call that goes on keeps the invariant, if it may go on where it goes.
LEMMA GoingOnKeeps ==
  ASSUME Inv, NEW c \in Calls, NEW step \in Steps \ {"off", "pre_tool_use"},
         GoTo(c, step), at[c] # "off", running[c] = None,
         UNCHANGED <<registry, settings, request, running, reading, cancelled, steady, passed>>,
         result' \in [Calls -> Outcomes],
         executed' \in [Calls -> BOOLEAN], confirmed' \in [Calls -> BOOLEAN],
         \A d \in Calls \ {c} : executed'[d] = executed[d] /\ confirmed'[d] = confirmed[d],
         confirmed[c] => confirmed'[c],
         step # "over" => Cleared(c) /\ request[c].tool \in Known,
         executed'[c] => executed[c] \/ at[c] = "executing",
         step = "prompting" => Decision(c) = "confirm",
         step = "executing" => MayRun(settings, Query(c), confirmed'[c])
  PROVE  Inv'
<1>0. TypeOK /\ Ordered /\ RunsUnderLock /\ Judged /\ Guarded /\ Permitted
  BY DEF Inv, LockInv, CallInv
<1>1. LockInv'
  <2>1. request[c] # None
    BY <1>0 DEF TypeOK
  <2>2. \A d \in Calls \ {c} : running[d] # None => running[d] \in registry
    BY <1>0 DEF RunsUnderLock, HooksOf
  <2>3. /\ LockInv /\ step \in Steps \ {"off"}
        /\ registry' \subseteq Hooks /\ settings' \in Profiles /\ cancelled' \in BOOLEAN
        /\ request' \in [Calls -> RequestType \cup {None}]
        /\ steady' \in [Calls -> SUBSET Hooks] /\ passed' \in [Calls -> SUBSET Hooks]
    BY <1>0 DEF TypeOK, LockInv
  <2>4. request'[c] # None /\ \A d \in Calls \ {c} : request'[d] = request[d]
    BY <2>1
  <2>5. \A d \in Calls \ {c} : running[d] # None => running[d] \in registry'
    BY <2>2
  <2>6. UNCHANGED <<running, reading>>
    OBVIOUS
  <2>. QED  BY <2>3, <2>4, <2>5, <2>6, GoToKeepsLock
<1>2. /\ at' \in [Calls -> Steps] /\ at'[c] = step
      /\ \A d \in Calls \ {c} : at'[d] = at[d] /\ ran'[d] = ran[d] /\ blocked'[d] = blocked[d]
  <2>. step \in Steps \ {"off"}
    OBVIOUS
  <2>. QED  BY <1>0, GoToAsks
<1>3. Judged'
  BY <1>0, <1>2 DEF Judged
<1>4. \A d \in Calls : Cleared(d)' <=> Cleared(d)
  BY DEF Cleared
<1>5. Guarded'
  <2> SUFFICES ASSUME NEW d \in Calls
               PROVE  /\ steady'[d] \subseteq registry'
                      /\ at'[d] \notin {"off", "pre_tool_use", "over"}
                           => Cleared(d)' /\ request'[d].tool \in Known
                      /\ executed'[d] => Cleared(d)' /\ request'[d].tool \in Known
    BY DEF Guarded
  <2>1. CASE d = c
    BY <1>0, <1>2, <1>4, <2>1 DEF Guarded
  <2>2. CASE d # c
    BY <1>0, <1>2, <1>4, <2>2 DEF Guarded
  <2>. QED  BY <2>1, <2>2
<1>6. \A d \in Calls : Decision(d)' = Decision(d) /\ Query(d)' = Query(d)
  BY DEF Decision, Query
<1>7. Permitted'
  <2> SUFFICES ASSUME NEW d \in Calls
               PROVE  /\ at'[d] = "off" => ~executed'[d]
                      /\ at'[d] = "prompting" => Decision(d)' = "confirm"
                      /\ at'[d] = "executing" \/ executed'[d]
                           => MayRun(settings, Query(d), confirmed'[d])
    BY <1>6 DEF Permitted
  <2>1. CASE d = c
    <3>1. confirmed[c] \in BOOLEAN /\ confirmed'[c] \in BOOLEAN
      BY <1>0 DEF TypeOK
    <3>2. executed'[c] => MayRun(settings, Query(c), confirmed[c])
      BY <1>0 DEF Permitted
    <3>3. executed'[c] => MayRun(settings, Query(c), confirmed'[c])
      BY <3>1, <3>2, MayRunStays
    <3>. QED  BY <1>2, <1>6, <2>1, <3>3
  <2>2. CASE d # c
    BY <1>0, <1>2, <1>6, <2>2 DEF Permitted
  <2>. QED  BY <2>1, <2>2
<1>. QED  BY <1>1, <1>3, <1>5, <1>7 DEF Inv, CallInv

\* When all hooks of PreToolUse have run and none blocks, the call is cleared.
LEMMA HooksClear ==
  ASSUME Inv, NEW c \in Calls, HooksDone(c, "pre_tool_use"), ~blocked[c]
  PROVE  Cleared(c)
<1>1. steady[c] \subseteq registry /\ \A h \in ran[c] : h \in passed[c]
  BY DEF Inv, CallInv, Guarded, Judged, HooksDone
<1>2. steady[c] \subseteq Hooks
  BY DEF Inv, LockInv, TypeOK
<1>. QED  BY <1>1, <1>2 DEF Cleared, HooksDone, HooksOf, Matches

\* A model's call is none of the calls under way.
LEMMA CallKeeps ==
  ASSUME Inv, NEW c \in Calls, NEW r \in Requests[c], Call(c, r)
  PROVE  Inv'
<1>0. TypeOK /\ Ordered /\ RunsUnderLock /\ Judged /\ Guarded /\ Permitted
  BY DEF Inv, LockInv, CallInv
<1>1. /\ at[c] = "off" /\ request' = [request EXCEPT ![c] = r]
      /\ steady' = [steady EXCEPT ![c] = registry]
      /\ GoTo(c, "pre_tool_use")
      /\ UNCHANGED <<registry, settings, running, reading, result, executed, confirmed,
                     cancelled, passed>>
  BY DEF Call
<1>2. r \in RequestType /\ r # None
  BY RequestsAssumption
<1>3. request' \in [Calls -> RequestType \cup {None}] /\ request'[c] = r
      /\ \A d \in Calls \ {c} : request'[d] = request[d]
  BY <1>0, <1>1, <1>2 DEF TypeOK
<1>4. steady' \in [Calls -> SUBSET Hooks] /\ steady'[c] = registry
      /\ \A d \in Calls \ {c} : steady'[d] = steady[d]
  BY <1>0, <1>1 DEF TypeOK
<1>5. running[c] = None
  BY <1>0, <1>1 DEF TypeOK, HookSteps
<1>6. "pre_tool_use" \in Steps \ {"off"}
  BY DEF Steps, HookSteps
<1>7. \A d \in Calls \ {c} : running[d] # None => running[d] \in registry
  BY <1>0 DEF RunsUnderLock, HooksOf
<1>8. LockInv'
  BY <1>0, <1>1, <1>2, <1>3, <1>4, <1>5, <1>6, <1>7, GoToKeepsLock DEF TypeOK, Inv
<1>9. /\ at' = [at EXCEPT ![c] = "pre_tool_use"] /\ ran'[c] = {}
      /\ \A d \in Calls \ {c} : ran'[d] = ran[d] /\ blocked'[d] = blocked[d]
  BY <1>0, <1>1, <1>6, GoToAsks
<1>10. at'[c] = "pre_tool_use" /\ \A d \in Calls \ {c} : at'[d] = at[d]
  BY <1>0, <1>9 DEF TypeOK
<1>11. Judged'
  BY <1>0, <1>1, <1>9, <1>10 DEF Judged
<1>12. ~executed[c]
  BY <1>0, <1>1 DEF Permitted
<1>13. \A d \in Calls \ {c} : Cleared(d)' <=> Cleared(d)
  BY <1>1, <1>3, <1>4 DEF Cleared
<1>14. Guarded'
  BY <1>0, <1>1, <1>3, <1>4, <1>10, <1>12, <1>13 DEF Guarded
<1>15. \A d \in Calls \ {c} : Decision(d)' = Decision(d) /\ Query(d)' = Query(d)
  BY <1>1, <1>3 DEF Decision, Query
<1>16. Permitted'
  BY <1>0, <1>1, <1>10, <1>12, <1>15 DEF Permitted
<1>. QED  BY <1>8, <1>11, <1>14, <1>16 DEF Inv, CallInv

\* The registry changes only while no hook runs.
LEMMA MutateKeeps ==
  ASSUME Inv, NEW c \in Calls, Mutate(c)
  PROVE  Inv'
<1>0. TypeOK /\ Ordered /\ RunsUnderLock /\ Judged /\ Guarded /\ Permitted
  BY DEF Inv, LockInv, CallInv
<1> DEFINE step == IF request[c].action.kind = "add" THEN "plugin_loaded" ELSE AfterAction(result[c])
<1>1. /\ at[c] = "mutating" /\ Holds(c) /\ registry' = Mutated(request[c].action)
      /\ steady' = [d \in Calls |-> steady[d] \cap registry']
      /\ GoTo(c, step)
      /\ UNCHANGED <<settings, request, running, reading, result, executed, confirmed,
                     cancelled, passed>>
  BY DEF Mutate
<1>2. /\ step \in {"plugin_loaded", "tool_error", "post_tool_use"}
      /\ step \in Steps \ {"off"}
  BY DEF AfterAction, Steps, HookSteps
<1> HIDE DEF step
<1>3. request[c] \in RequestType
  BY <1>0, <1>1 DEF TypeOK
<1>4. registry' \subseteq Hooks
  <2>1. request[c].action \in Actions
    BY <1>3 DEF RequestType
  <2>2. CASE request[c].action.kind = "add"
    BY <1>0, <1>1, <2>1, <2>2 DEF Mutated, Actions, TypeOK
  <2>3. CASE request[c].action.kind = "clear_event"
    BY <1>0, <1>1, <2>3 DEF Mutated, TypeOK
  <2>4. CASE request[c].action.kind \notin {"add", "clear_event"}
    BY <1>1, <2>4 DEF Mutated
  <2>. QED  BY <2>2, <2>3, <2>4
<1>5. \A d \in Calls : running[d] = None
  <2> SUFFICES ASSUME NEW d \in Calls, running[d] # None PROVE FALSE
    OBVIOUS
  <2>1. at[d] \in HookSteps /\ d # c
    BY <1>0, <1>1 DEF TypeOK, HookSteps
  <2>2. wants[c] = "write" /\ Holds(d)
    BY <1>0, <1>1 DEF TypeOK, RunsUnderLock
  <2>. QED  BY <1>0, <1>1, <2>1, <2>2, WriterAlone
<1>6. steady' \in [Calls -> SUBSET Hooks]
      /\ \A d \in Calls : steady'[d] \subseteq registry' /\ steady'[d] \subseteq steady[d]
  BY <1>0, <1>1 DEF TypeOK
<1>7. LockInv'
  <2>1. /\ LockInv /\ settings' \in Profiles /\ cancelled' \in BOOLEAN
        /\ request' \in [Calls -> RequestType \cup {None}]
        /\ result' \in [Calls -> Outcomes] /\ executed' \in [Calls -> BOOLEAN]
        /\ confirmed' \in [Calls -> BOOLEAN] /\ passed' \in [Calls -> SUBSET Hooks]
    BY <1>0, <1>1 DEF TypeOK, LockInv
  <2>2. request'[c] # None /\ \A d \in Calls \ {c} : request'[d] = request[d]
    BY <1>1, <1>3, RequestsAssumption
  <2>3. running[c] = None /\ \A d \in Calls \ {c} : running[d] # None => running[d] \in registry'
    BY <1>5
  <2>4. UNCHANGED <<running, reading>> /\ GoTo(c, step)
    BY <1>1
  <2>. QED  BY <1>2, <1>4, <1>6, <2>1, <2>2, <2>3, <2>4, GoToKeepsLock
<1>8. /\ at'[c] = step /\ \A d \in Calls \ {c} : at'[d] = at[d]
      /\ \A d \in Calls \ {c} : ran'[d] = ran[d] /\ blocked'[d] = blocked[d]
  BY <1>0, <1>1, <1>2, GoToAsks
<1>9. Judged'
  BY <1>0, <1>1, <1>2, <1>8 DEF Judged
<1>10. \A d \in Calls : Cleared(d) => Cleared(d)'
  BY <1>1, <1>6 DEF Cleared
<1>11. Guarded'
  BY <1>0, <1>1, <1>2, <1>6, <1>8, <1>10 DEF Guarded
<1>12. \A d \in Calls : Decision(d)' = Decision(d) /\ Query(d)' = Query(d)
  BY <1>1 DEF Decision, Query
<1>13. Permitted'
  BY <1>0, <1>1, <1>2, <1>8, <1>12 DEF Permitted
<1>. QED  BY <1>7, <1>9, <1>11, <1>13 DEF Inv, CallInv

(***************************************************************************)
(* The hooks of an event.                                                  *)
(***************************************************************************)

\* A hook starts under the lock, from the registry.
LEMMA StartHookKeeps ==
  ASSUME Inv, NEW c \in Calls, NEW h \in Hooks, StartHook(c, h)
  PROVE  Inv'
<1>0. TypeOK /\ Ordered /\ RunsUnderLock /\ Judged /\ Guarded /\ Permitted
  BY DEF Inv, LockInv, CallInv
<1>1. /\ at[c] \in HookSteps /\ Holds(c) /\ h \in HooksOf(c)
      /\ running' = [running EXCEPT ![c] = h]
      /\ UNCHANGED <<registry, settings, request, at, wants, before, ran, reading, blocked,
                     result, executed, confirmed, cancelled, steady, passed>>
      /\ running[c] = None
  BY DEF StartHook
<1>2. /\ running' \in [Calls -> Hooks \cup {None}] /\ running'[c] = h
      /\ \A d \in Calls \ {c} : running'[d] = running[d]
  BY <1>0, <1>1 DEF TypeOK
<1>3. Queued' = Queued
  BY <1>1 DEF Queued
<1>4. ~reading[c]
  BY <1>0, <1>1, ToolCallsAssumption DEF TypeOK
<1>5. TypeOK'
  BY <1>0, <1>1, <1>2, <1>3, <1>4 DEF TypeOK
<1>6. Ordered'
  BY <1>0, <1>1, <1>3 DEF Ordered
<1>7. \A d \in Calls : (Holds(d)' <=> Holds(d)) /\ HooksOf(d)' = HooksOf(d)
  BY <1>1 DEF Holds, HooksOf, Matches
<1>8. RunsUnderLock'
  BY <1>0, <1>1, <1>2, <1>7 DEF RunsUnderLock
<1>9. CallInv'
  BY <1>0, <1>1 DEF CallInv, Judged, Guarded, Permitted, Cleared, Decision, Query
<1>. QED  BY <1>5, <1>6, <1>8, <1>9 DEF Inv, LockInv

\* A hook that ends has let its call through, or blocks it.
LEMMA HookEndsKeeps ==
  ASSUME Inv, NEW c \in Calls, NEW success \in BOOLEAN, running[c] # None, HookEnds(c, success)
  PROVE  Inv'
<1>0. TypeOK /\ Ordered /\ RunsUnderLock /\ Judged /\ Guarded /\ Permitted
  BY DEF Inv, LockInv, CallInv
<1>1. PICK h \in Hooks : h = running[c]
  BY <1>0 DEF TypeOK
<1>2. /\ running' = [running EXCEPT ![c] = None]
      /\ reading' = [reading EXCEPT ![c] = FALSE]
      /\ ran' = [ran EXCEPT ![c] = @ \cup {h}]
      /\ blocked' = [blocked EXCEPT ![c] = @ \/ (~success /\ h \in Blocking)]
      /\ passed' = [passed EXCEPT ![c] = IF success \/ h \notin Blocking
                                           THEN @ \cup {h} ELSE @]
      /\ UNCHANGED <<registry, settings, request, at, wants, before, result, executed,
                     confirmed, cancelled, steady>>
  BY <1>1 DEF HookEnds
<1>3. /\ running' \in [Calls -> Hooks \cup {None}] /\ running'[c] = None
      /\ \A d \in Calls \ {c} : running'[d] = running[d]
  BY <1>0, <1>2 DEF TypeOK
<1>4. /\ reading' \in [Calls -> BOOLEAN] /\ ~reading'[c]
      /\ \A d \in Calls \ {c} : reading'[d] = reading[d]
  BY <1>0, <1>2 DEF TypeOK
<1>5. /\ ran' \in [Calls -> SUBSET Hooks] /\ ran'[c] = ran[c] \cup {h}
      /\ \A d \in Calls \ {c} : ran'[d] = ran[d]
  BY <1>0, <1>2 DEF TypeOK
<1>6. /\ blocked' \in [Calls -> BOOLEAN]
      /\ \A d \in Calls \ {c} : blocked'[d] = blocked[d]
      /\ blocked[c] \/ (~success /\ h \in Blocking) => blocked'[c]
  BY <1>0, <1>2 DEF TypeOK
<1>7. /\ passed' \in [Calls -> SUBSET Hooks]
      /\ \A d \in Calls : passed[d] \subseteq passed'[d]
      /\ success \/ h \notin Blocking => h \in passed'[c]
  BY <1>0, <1>2 DEF TypeOK
<1>8. Queued' = Queued
  BY <1>2 DEF Queued
<1>9. TypeOK'
  <2>1. \A d \in Calls : /\ running'[d] # None => at'[d] \in HookSteps
                         /\ reading'[d] => running'[d] \in Bodied
    BY <1>0, <1>2, <1>3, <1>4 DEF TypeOK
  <2>. QED  BY <1>0, <1>2, <1>3, <1>4, <1>5, <1>6, <1>7, <1>8, <2>1 DEF TypeOK
<1>10. Ordered'
  BY <1>0, <1>2, <1>8 DEF Ordered
<1>11. \A d \in Calls : (Holds(d)' <=> Holds(d)) /\ HooksOf(d)' = HooksOf(d)
  BY <1>2 DEF Holds, HooksOf, Matches
<1>12. RunsUnderLock'
  BY <1>0, <1>3, <1>11 DEF RunsUnderLock
<1>13. Judged'
  <2> SUFFICES ASSUME NEW d \in Calls, at'[d] = "pre_tool_use", NEW g \in ran'[d]
               PROVE  g \in passed'[d] \/ blocked'[d]
    BY DEF Judged
  <2>0. at[d] = "pre_tool_use"
    BY <1>2
  <2>1. CASE d = c /\ g = h
    BY <1>6, <1>7, <2>1
  <2>2. CASE g \in ran[d]
    <3>1. g \in passed[d] \/ blocked[d]
      BY <1>0, <2>0, <2>2 DEF Judged
    <3>2. blocked[d] => blocked'[d]
      BY <1>6
    <3>. QED  BY <1>7, <3>1, <3>2
  <2>. QED  BY <1>5, <2>1, <2>2
<1>14. \A d \in Calls : Cleared(d) => Cleared(d)'
  BY <1>2, <1>7 DEF Cleared
<1>15. Guarded'
  BY <1>0, <1>2, <1>14 DEF Guarded
<1>16. Permitted'
  BY <1>0, <1>2 DEF Permitted, Decision, Query
<1>. QED  BY <1>9, <1>10, <1>12, <1>13, <1>15, <1>16 DEF Inv, LockInv, CallInv

\* Reading a body changes nothing else.
LEMMA BodyBeginsKeeps ==
  ASSUME Inv, NEW c \in Calls, BodyBegins(c)
  PROVE  Inv'
<1>0. TypeOK /\ Ordered /\ RunsUnderLock /\ Judged /\ Guarded /\ Permitted
  BY DEF Inv, LockInv, CallInv
<1>1. /\ running[c] \in Bodied /\ reading' = [reading EXCEPT ![c] = TRUE]
      /\ UNCHANGED <<registry, settings, request, at, wants, before, ran, running, blocked,
                     result, executed, confirmed, cancelled, steady, passed>>
  BY DEF BodyBegins
<1>2. Queued' = Queued
  BY <1>1 DEF Queued
<1>3. TypeOK'
  BY <1>0, <1>1, <1>2 DEF TypeOK
<1>4. Ordered' /\ RunsUnderLock'
  BY <1>0, <1>1, <1>2 DEF Ordered, RunsUnderLock, Holds, HooksOf, Matches
<1>5. CallInv'
  BY <1>0, <1>1 DEF CallInv, Judged, Guarded, Permitted, Cleared, Decision, Query
<1>. QED  BY <1>3, <1>4, <1>5 DEF Inv, LockInv

(***************************************************************************)
(* Dropped calls.                                                          *)
(***************************************************************************)

\* Calls that are dropped leave the queue, and take the lock from nobody.
LEMMA DropKeeps ==
  ASSUME Inv, NEW S \in SUBSET Calls, Drop(S), cancelled' \in BOOLEAN,
         \A c \in S : at[c] # "off"
  PROVE  Inv'
<1>0. TypeOK /\ Ordered /\ RunsUnderLock /\ Judged /\ Guarded /\ Permitted
  BY DEF Inv, LockInv, CallInv
<1>1. /\ at' = [c \in Calls |-> IF c \in S THEN "over" ELSE at[c]]
      /\ wants' = [c \in Calls |-> IF c \in S THEN "none" ELSE wants[c]]
      /\ before' = [c \in Calls |-> IF c \in S THEN {} ELSE before[c] \ S]
      /\ running' = [c \in Calls |-> IF c \in S THEN None ELSE running[c]]
      /\ reading' = [c \in Calls |-> reading[c] /\ c \notin S]
      /\ UNCHANGED <<registry, settings, request, ran, blocked, result, executed, confirmed,
                     steady, passed>>
  BY DEF Drop
<1>2. Queued' = Queued \ S
  BY <1>1 DEF Queued
<1>3. \A c \in Calls \ S : /\ at'[c] = at[c] /\ wants'[c] = wants[c]
                             /\ before'[c] = before[c] \ S
                             /\ running'[c] = running[c] /\ (reading'[c] <=> reading[c])
  BY <1>1
<1>4. \A c \in S : /\ at'[c] = "over" /\ wants'[c] = "none" /\ before'[c] = {}
                    /\ running'[c] = None /\ ~reading'[c]
  BY <1>1
<1>5. TypeOK'
  <2>1. /\ at' \in [Calls -> Steps]
        /\ wants' \in [Calls -> {"none", "read", "write"}]
        /\ before' \in [Calls -> SUBSET Calls]
        /\ running' \in [Calls -> Hooks \cup {None}]
    BY <1>0, <1>1 DEF TypeOK, Steps
  <2>2. reading' \in [Calls -> BOOLEAN]
    BY <1>1
  <2>3. \A c \in Calls : before'[c] \subseteq Queued' \ {c}
    BY <1>0, <1>2, <1>3, <1>4 DEF TypeOK
  <2>4. \A c \in Calls : /\ wants'[c] = "read" <=> at'[c] \in HookSteps
                         /\ wants'[c] = "write" <=> at'[c] = "mutating"
                         /\ at'[c] = "off" <=> request'[c] = None
                         /\ running'[c] # None => at'[c] \in HookSteps
                         /\ reading'[c] => running'[c] \in Bodied
    <3> SUFFICES ASSUME NEW c \in Calls
                 PROVE  /\ wants'[c] = "read" <=> at'[c] \in HookSteps
                        /\ wants'[c] = "write" <=> at'[c] = "mutating"
                        /\ at'[c] = "off" <=> request'[c] = None
                        /\ running'[c] # None => at'[c] \in HookSteps
                        /\ reading'[c] => running'[c] \in Bodied
      OBVIOUS
    <3>1. CASE c \in S
      BY <1>0, <1>1, <1>4, <3>1 DEF TypeOK, HookSteps
    <3>2. CASE c \notin S
      BY <1>0, <1>1, <1>3, <3>2 DEF TypeOK
    <3>. QED  BY <3>1, <3>2
  <2>. QED  BY <1>0, <1>1, <2>1, <2>2, <2>3, <2>4 DEF TypeOK
<1>6. Ordered'
  BY <1>0, <1>2, <1>3 DEF Ordered, Queued
<1>7. RunsUnderLock'
  <2> SUFFICES ASSUME NEW c \in Calls, running'[c] # None
               PROVE  Holds(c)' /\ running'[c] \in HooksOf(c)'
    BY DEF RunsUnderLock
  <2>1. c \notin S
    BY <1>4
  <2>2. Holds(c) /\ running[c] \in HooksOf(c)
    BY <1>0, <1>3, <2>1 DEF RunsUnderLock
  <2>3. before[c] \subseteq Calls
    BY <1>0 DEF TypeOK
  <2>4. Holds(c)'
    BY <1>3, <2>1, <2>2, <2>3 DEF Holds
  <2>. QED  BY <1>1, <1>3, <2>1, <2>2, <2>4 DEF HooksOf, Matches
<1>8. Judged'
  BY <1>0, <1>1, <1>3, <1>4 DEF Judged
<1>9. Guarded'
  BY <1>0, <1>1, <1>3, <1>4 DEF Guarded, Cleared
<1>10. Permitted'
  BY <1>0, <1>1, <1>3, <1>4 DEF Permitted, Decision, Query
<1>. QED  BY <1>5, <1>6, <1>7, <1>8, <1>9, <1>10 DEF Inv, LockInv, CallInv

(***************************************************************************)
(* From one await to the next.                                             *)
(***************************************************************************)

\* A call that waits for no answer of a hook, and has no more hooks to run, goes on.
Going(c, step) ==
  /\ GoTo(c, step) /\ at[c] # "off" /\ running[c] = None /\ Proceeds
  /\ result' \in [Calls -> Outcomes]
  /\ step # "over" => Cleared(c) /\ request[c].tool \in Known

\* Between its checks a call carries nothing but what it has been cleared for.
LEMMA GoingKeeps ==
  ASSUME Inv, NEW c \in Calls, NEW step \in Steps \ {"off", "pre_tool_use"}, Going(c, step),
         step = "prompting" => Decision(c) = "confirm",
         step = "executing" => MayRun(settings, Query(c), confirmed[c])
  PROVE  Inv'
<1>1. /\ GoTo(c, step) /\ at[c] # "off" /\ running[c] = None
      /\ UNCHANGED <<registry, settings, request, running, reading, cancelled, steady, passed>>
      /\ result' \in [Calls -> Outcomes]
      /\ step # "over" => Cleared(c) /\ request[c].tool \in Known
      /\ executed' = executed /\ confirmed' = confirmed
  BY DEF Going, Proceeds
<1>2. executed \in [Calls -> BOOLEAN] /\ confirmed \in [Calls -> BOOLEAN]
  BY DEF Inv, LockInv, TypeOK
<1>. QED  BY <1>1, <1>2, GoingOnKeeps

\* A call past PreToolUse has been cleared.
LEMMA PastGuards ==
  ASSUME Inv, NEW c \in Calls, at[c] \notin {"off", "pre_tool_use", "over"}
  PROVE  Cleared(c) /\ request[c].tool \in Known
  BY DEF Inv, CallInv, Guarded

\* The steps that end a call.
LEMMA EndsKeep ==
  ASSUME Inv, NEW c \in Calls,
         PreToolUseBlocks(c) \/ UnknownTool(c) \/ Denied(c) \/ PostToolUse(c)
  PROVE  Inv'
<1>1. result \in [Calls -> Outcomes]
  BY DEF Inv, LockInv, TypeOK
<1>2. Going(c, "over")
  <2>1. CASE PreToolUseBlocks(c)
    BY <1>1, <2>1 DEF PreToolUseBlocks, Going, HooksDone, Return, Outcomes
  <2>2. CASE UnknownTool(c)
    BY <1>1, <2>2 DEF UnknownTool, Going, HooksDone, Return, Outcomes
  <2>3. CASE Denied(c)
    BY <1>1, <2>3 DEF Denied, Going, HooksDone, Return, Outcomes
  <2>4. CASE PostToolUse(c)
    BY <1>1, <2>4 DEF PostToolUse, Going, HooksDone, Return
  <2>. QED  BY <2>1, <2>2, <2>3, <2>4
<1>3. "over" \in Steps \ {"off", "pre_tool_use"}
  BY DEF Steps
<1>. QED  BY <1>2, <1>3, GoingKeeps

\* The steps from the hooks of one event to those of another.
LEMMA HookedStepsKeep ==
  ASSUME Inv, NEW c \in Calls,
         LookUp(c) \/ CheckPermission(c) \/ UserRejects(c) \/ ActionApplied(c) \/ ErrorTold(c)
  PROVE  Inv'
<1>0. TypeOK
  BY DEF Inv, LockInv
<1>1. result \in [Calls -> Outcomes]
  BY <1>0 DEF TypeOK
<1>2. CASE LookUp(c)
  <2>1. HooksDone(c, "pre_tool_use") /\ ~blocked[c] /\ request[c].tool \in Known
    BY <1>2 DEF LookUp
  <2>2. Cleared(c)
    BY <2>1, HooksClear
  <2>3. Going(c, "pre_permission_check")
    BY <1>1, <1>2, <2>1, <2>2 DEF LookUp, Going, HooksDone
  <2>4. "pre_permission_check" \in Steps \ {"off", "pre_tool_use"}
    BY DEF Steps, HookSteps
  <2>. QED  BY <2>3, <2>4, GoingKeeps
<1>3. CASE CheckPermission(c)
  <2>1. HooksDone(c, "pre_permission_check")
    BY <1>3 DEF CheckPermission
  <2>2. Cleared(c) /\ request[c].tool \in Known
    BY <2>1, PastGuards DEF HooksDone
  <2>3. Going(c, "post_permission_check")
    BY <1>1, <1>3, <2>1, <2>2 DEF CheckPermission, Going, HooksDone
  <2>4. "post_permission_check" \in Steps \ {"off", "pre_tool_use"}
    BY DEF Steps, HookSteps
  <2>. QED  BY <2>3, <2>4, GoingKeeps
<1>4. CASE UserRejects(c)
  <2>1. at[c] = "prompting"
    BY <1>4 DEF UserRejects
  <2>2. Cleared(c) /\ request[c].tool \in Known
    BY <2>1, PastGuards
  <2>3. running[c] = None
    BY <1>0, <2>1 DEF TypeOK, HookSteps
  <2>4. Going(c, "permission_denied")
    BY <1>1, <1>4, <2>1, <2>2, <2>3 DEF UserRejects, Going
  <2>5. "permission_denied" \in Steps \ {"off", "pre_tool_use"}
    BY DEF Steps, HookSteps
  <2>. QED  BY <2>4, <2>5, GoingKeeps
<1>5. CASE ActionApplied(c) \/ ErrorTold(c)
  <2>1. at[c] \in {"plugin_loaded", "subagent_message", "tool_error"} /\ running[c] = None
    BY <1>5 DEF ActionApplied, ErrorTold, HooksDone
  <2>2. Cleared(c) /\ request[c].tool \in Known
    BY <2>1, PastGuards
  <2>3. CASE ActionApplied(c)
    <3>1. AfterAction(result[c]) \in Steps \ {"off", "pre_tool_use"}
      BY DEF AfterAction, Steps, HookSteps
    <3>2. AfterAction(result[c]) \notin {"prompting", "executing"}
      BY DEF AfterAction
    <3>3. Going(c, AfterAction(result[c]))
      BY <1>1, <2>1, <2>2, <2>3 DEF ActionApplied, Going
    <3>. QED  BY <3>1, <3>2, <3>3, GoingKeeps
  <2>4. CASE ErrorTold(c)
    <3>1. "post_tool_use" \in Steps \ {"off", "pre_tool_use"}
      BY DEF Steps, HookSteps
    <3>2. Going(c, "post_tool_use")
      BY <1>1, <2>1, <2>2, <2>4 DEF ErrorTold, Going
    <3>. QED  BY <3>1, <3>2, GoingKeeps
  <2>. QED  BY <1>5, <2>3, <2>4
<1>. QED  BY <1>2, <1>3, <1>4, <1>5

\* The decision opens the tool only to what may run.
LEMMA DecideKeeps ==
  ASSUME Inv, NEW c \in Calls, Decide(c)
  PROVE  Inv'
<1>1. HooksDone(c, "post_permission_check") /\ result \in [Calls -> Outcomes]
  BY DEF Decide, Inv, LockInv, TypeOK
<1>2. Cleared(c) /\ request[c].tool \in Known
  BY <1>1, PastGuards DEF HooksDone
<1>3. PICK step : step = AfterDecision(c)
  OBVIOUS
<1>4. step \in {"executing", "prompting", "permission_denied"}
  BY <1>3 DEF AfterDecision
<1>5. step \in Steps \ {"off", "pre_tool_use"}
  BY <1>4 DEF Steps, HookSteps
<1>6. Going(c, step)
  BY <1>1, <1>2, <1>3 DEF Decide, Going, HooksDone
<1>7. step = "prompting" => Decision(c) = "confirm"
  BY <1>3 DEF AfterDecision
<1>8. step = "executing" => Decision(c) = "allow"
  BY <1>3 DEF AfterDecision
<1>9. step = "executing" => MayRun(settings, Query(c), confirmed[c])
  <2>1. confirmed[c] \in BOOLEAN
    BY DEF Inv, LockInv, TypeOK
  <2>2. ASSUME Decision(c) = "allow" PROVE MayRun(settings, Query(c), FALSE)
    BY <2>2, DecisionIsPromised DEF Decision
  <2>. QED  BY <1>8, <2>1, <2>2, ConfirmingOpens
<1>. QED  BY <1>5, <1>6, <1>7, <1>9, GoingKeeps

\* The user's confirmation opens the tool to what may run confirmed.
LEMMA UserConfirmsKeeps ==
  ASSUME Inv, NEW c \in Calls, UserConfirms(c)
  PROVE  Inv'
<1>0. TypeOK /\ Permitted
  BY DEF Inv, LockInv, CallInv
<1>1. /\ at[c] = "prompting" /\ GoTo(c, "executing")
      /\ confirmed' = [confirmed EXCEPT ![c] = TRUE]
      /\ UNCHANGED <<registry, settings, request, running, reading, result, executed,
                     cancelled, steady, passed>>
  BY DEF UserConfirms
<1>2. /\ confirmed' \in [Calls -> BOOLEAN] /\ confirmed'[c] = TRUE
      /\ \A d \in Calls \ {c} : confirmed'[d] = confirmed[d]
      /\ executed' \in [Calls -> BOOLEAN] /\ result' \in [Calls -> Outcomes]
  BY <1>0, <1>1 DEF TypeOK
<1>3. Cleared(c) /\ request[c].tool \in Known
  BY <1>1, PastGuards
<1>4. running[c] = None
  BY <1>0, <1>1 DEF TypeOK, HookSteps
<1>5. Decision(c) = "confirm"
  BY <1>0, <1>1 DEF Permitted
<1>6. MayRun(settings, Query(c), TRUE)
  BY <1>5, DecisionIsPromised DEF Decision
<1>7. "executing" \in Steps \ {"off", "pre_tool_use"}
  BY DEF Steps
<1>8. \A d \in Calls \ {c} : executed'[d] = executed[d] /\ confirmed'[d] = confirmed[d]
  BY <1>1, <1>2
<1>9. MayRun(settings, Query(c), confirmed'[c])
  BY <1>2, <1>6
<1>. QED  BY <1>1, <1>2, <1>3, <1>4, <1>7, <1>8, <1>9, GoingOnKeeps

\* A tool that returns has run where it might.
LEMMA ToolReturnsKeeps ==
  ASSUME Inv, NEW c \in Calls, NEW outcome \in {"ok", "error"}, ToolReturns(c, outcome)
  PROVE  Inv'
<1>0. TypeOK
  BY DEF Inv, LockInv
<1>1. PICK step : step = AfterTool(c, outcome)
  OBVIOUS
<1>2. /\ at[c] = "executing" /\ GoTo(c, step)
      /\ executed' = [executed EXCEPT ![c] = TRUE]
      /\ result' = [result EXCEPT ![c] = outcome]
      /\ UNCHANGED <<registry, settings, request, running, reading, confirmed, cancelled,
                     steady, passed>>
  BY <1>1 DEF ToolReturns
<1>3. step \in {"tool_error", "subagent_message", "mutating", "post_tool_use"}
  BY <1>1 DEF AfterTool, AfterAction
<1>4. /\ step \in Steps \ {"off", "pre_tool_use"}
      /\ step \notin {"prompting", "executing"}
  BY <1>3 DEF Steps, HookSteps
<1>5. /\ executed' \in [Calls -> BOOLEAN] /\ result' \in [Calls -> Outcomes]
      /\ confirmed' \in [Calls -> BOOLEAN]
      /\ \A d \in Calls \ {c} : executed'[d] = executed[d] /\ confirmed'[d] = confirmed[d]
  BY <1>0, <1>2 DEF TypeOK, Outcomes
<1>6. Cleared(c) /\ request[c].tool \in Known
  BY <1>2, PastGuards
<1>7. running[c] = None
  BY <1>0, <1>2 DEF TypeOK, HookSteps
<1>. QED  BY <1>2, <1>4, <1>5, <1>6, <1>7, GoingOnKeeps

(***************************************************************************)
(* The theorems.                                                           *)
(***************************************************************************)

\* Every step keeps the invariant.
LEMMA StepKeeps == Inv /\ [Next]_vars => Inv'
<1> SUFFICES ASSUME Inv, [Next]_vars PROVE Inv'
  OBVIOUS
<1>1. ASSUME NEW c \in Calls, NEW r \in Requests[c], Call(c, r) PROVE Inv'
  BY <1>1, CallKeeps
<1>2. ASSUME NEW c \in Calls, Goes(c) PROVE Inv'
  <2>1. CASE \E h \in Hooks : StartHook(c, h)
    BY <2>1, StartHookKeeps
  <2>2. CASE \E success \in BOOLEAN : HookAnswers(c, success)
    BY <2>2, HookEndsKeeps DEF HookAnswers
  <2>3. CASE BodyBegins(c)
    BY <2>3, BodyBeginsKeeps
  <2>4. CASE PreToolUseBlocks(c) \/ UnknownTool(c) \/ Denied(c) \/ PostToolUse(c)
    BY <2>4, EndsKeep
  <2>5. CASE LookUp(c) \/ CheckPermission(c) \/ ActionApplied(c) \/ ErrorTold(c)
    BY <2>5, HookedStepsKeep
  <2>6. CASE Decide(c)
    BY <2>6, DecideKeeps
  <2>7. CASE Mutate(c)
    BY <2>7, MutateKeeps
  <2>. QED  BY <1>2, <2>1, <2>2, <2>3, <2>4, <2>5, <2>6, <2>7 DEF Goes
<1>3. ASSUME NEW c \in Calls, NEW success \in BOOLEAN, BodyEnds(c, success) PROVE Inv'
  <2>1. running[c] \in Bodied /\ HookEnds(c, success)
    BY <1>3 DEF BodyEnds, Inv, LockInv, TypeOK
  <2>2. running[c] # None
    BY <2>1, ToolCallsAssumption
  <2>. QED  BY <2>1, <2>2, HookEndsKeeps
<1>4. ASSUME NEW c \in Calls, UserConfirms(c) PROVE Inv'
  BY <1>4, UserConfirmsKeeps
<1>5. ASSUME NEW c \in Calls, UserRejects(c) PROVE Inv'
  BY <1>5, HookedStepsKeep
<1>6. ASSUME NEW c \in Calls, NEW outcome \in {"ok", "error"}, ToolReturns(c, outcome)
      PROVE  Inv'
  BY <1>6, ToolReturnsKeeps
<1>7. ASSUME NEW c \in Calls, StopSubagent(c) PROVE Inv'
  <2>1. /\ Drop({c}) /\ {c} \in SUBSET Calls /\ cancelled' \in BOOLEAN
        /\ \A d \in {c} : at[d] # "off"
    BY <1>7 DEF StopSubagent, Inv, LockInv, TypeOK
  <2>. QED  BY <2>1, DropKeeps
<1>8. ASSUME Cancel PROVE Inv'
  <2>1. PICK S \in SUBSET Calls : S = {c \in Parents : at[c] # "off"}
    BY ToolCallsAssumption
  <2>2. Drop(S) /\ cancelled' \in BOOLEAN /\ \A c \in S : at[c] # "off"
    BY <1>8, <2>1 DEF Cancel
  <2>. QED  BY <2>2, DropKeeps
<1>9. ASSUME UNCHANGED vars PROVE Inv'
  BY <1>9 DEF vars, Inv, LockInv, CallInv, TypeOK, Ordered, RunsUnderLock, Judged, Guarded,
              Permitted, Queued, Holds, HooksOf, Matches, Cleared, Decision, Query
<1>. QED  BY <1>1, <1>2, <1>3, <1>4, <1>5, <1>6, <1>7, <1>8, <1>9 DEF Next

\* The invariant holds throughout.
THEOREM InvHolds == Spec => []Inv
  BY CallsInit, StepKeeps, PTL DEF Spec

\* The state keeps its shape: a call is in the lock's queue exactly while it is at
\* a step that needs the lock, and only calls in the queue are before another.
THEOREM ToolCallsTypeOK == Spec => []TypeOK
<1>1. Inv => TypeOK
  BY DEF Inv, LockInv
<1>. QED  BY <1>1, InvHolds, PTL

\* However many calls, hooks and changes of the registry there are, a hook runs
\* only while it is registered, for the event it was registered for.
THEOREM HooksRunRegistered == Spec => []RunningHookIsRegistered
<1>1. Inv => RunningHookIsRegistered
  BY DEF Inv, LockInv, RunsUnderLock, RunningHookIsRegistered, HooksOf
<1>. QED  BY <1>1, InvHolds, PTL

\* No tool runs past a PreToolUse hook that blocks it.
THEOREM GuardsHoldAlways == Spec => []GuardsHold
<1>1. Inv => GuardsHold
  BY DEF Inv, CallInv, Guarded, Cleared, GuardsHold
<1>. QED  BY <1>1, InvHolds, PTL

\* Whatever the settings, only what they promise to allow is run.
THEOREM RunsAsPromised == Spec => []RunsOnlyAsPromised
<1>1. Inv => RunsOnlyAsPromised
  BY DEF Inv, CallInv, Guarded, Permitted, RunsOnlyAsPromised
<1>. QED  BY <1>1, InvHolds, PTL
=============================================================================
