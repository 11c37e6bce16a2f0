------------------------------ MODULE ToolCalls ------------------------------
(***************************************************************************)
(* The calls of tools: execute_tool_call and apply_hook_action (oh-engine, *)
(* query.rs) over the hook executor (oh-hooks, executor.rs), which holds   *)
(* the registry's read lock while it runs the hooks of an event one after  *)
(* another.  The calls of one reply run concurrently and are dropped       *)
(* together when the run is cancelled; those of in-process subagents share *)
(* the parent's hook executor and permission checker, but have no handle   *)
(* to change its hooks.                                                    *)
(*                                                                         *)
(* The lock is tokio's RwLock, which is fair: its queue is kept here as,   *)
(* for every call, the calls that asked before it and have not left.       *)
(* Payloads, results' text, telemetry and the subagents' recorders are     *)
(* left out.  The harness always has a hook executor.                      *)
(***************************************************************************)
EXTENDS Permissions, FiniteSets

CONSTANTS
  Calls,     \* the calls of tools
  Parents,   \* those of the parent's reply; the others are subagents'
  Hooks,     \* hook definitions
  EventOf,   \* EventOf[h]: the event h is registered for
  Matched,   \* Matched[h]: the tools whose payload h's matcher matches
  Bodied,    \* hooks that read a body or a stream: http, prompt and agent hooks
  Blocking,  \* hooks with block_on_failure
  None,      \* no hook runs, no request is made
  Known,     \* the tools that are registered
  Requests,  \* Requests[c]: the calls the model may make
  Profiles,  \* the settings to consider
  Loaded,    \* the sets of hooks a session may start with
  Prompted   \* the context has a permission prompt

ASSUME ToolCallsAssumption ==
  /\ Parents \subseteq Calls /\ IsFiniteSet(Calls)
  /\ None \notin Hooks /\ Bodied \subseteq Hooks /\ Blocking \subseteq Hooks
  /\ Matched \in [Hooks -> SUBSET Tools] /\ Known \subseteq Tools
  /\ Loaded \subseteq SUBSET Hooks /\ Profiles \subseteq Settings
  /\ Prompted \in BOOLEAN

\* The events raised around a call, one hook execution each.
HookSteps ==
  {"pre_tool_use", "pre_permission_check", "post_permission_check", "permission_denied",
   "plugin_loaded", "subagent_message", "tool_error", "post_tool_use"}

Steps == HookSteps \cup {"off", "prompting", "executing", "mutating", "over"}

\* What a tool's result may ask of the engine (its hook_action).
Actions == [kind : {"none", "clear_all", "fire_event"}, hook : {None}]
             \cup [kind : {"add", "clear_event"}, hook : Hooks]

Outcomes == {"none", "blocked", "unknown", "denied", "ok", "error"}

VARIABLES
  registry,   \* the hooks in the HookRegistry
  settings,   \* what the permission checker was built with
  request,    \* request[c]: the tool call as the model made it
  at,         \* at[c]: the step it is at
  wants,      \* wants[c]: "read" or "write" while it waits for or holds the lock
  before,     \* before[c]: the calls before it in the lock's queue
  ran,        \* ran[c]: hooks of this event that have run
  running,    \* running[c]: the hook under way
  reading,    \* reading[c]: that hook's body or stream is being read, with no time limit
  blocked,    \* blocked[c]: a hook of this event failed that blocks on failure
  result,     \* result[c]: what the call returns
  executed,   \* executed[c]: the tool has been run
  confirmed,  \* confirmed[c]: the user confirmed the call
  cancelled,  \* the run of the parent was cancelled
  steady,     \* steady[c]: hooks registered ever since c was made (history)
  passed      \* passed[c]: the hooks that let c through (history)

vars == <<registry, settings, request, at, wants, before, ran, running, reading, blocked,
          result, executed, confirmed, cancelled, steady, passed>>

Query(c) ==
  [tool |-> request[c].tool, read_only |-> request[c].read_only,
   path |-> request[c].path, command |-> request[c].command]

RequestType ==
  [tool : Tools, read_only : BOOLEAN,
   path : Paths \cup {NoArg}, command : Commands \cup {NoArg}, action : Actions]

ASSUME RequestsAssumption ==
  /\ \A c \in Calls : Requests[c] \subseteq RequestType
  /\ None \notin RequestType

\* The queue holds a call from when it asks for the lock until it gives it back.
Queued == {c \in Calls : wants[c] # "none"}

\* A reader has the lock once no writer is before it, a writer once nobody is.
Holds(c) ==
  \/ wants[c] = "read" /\ \A d \in before[c] : wants[d] = "read"
  \/ wants[c] = "write" /\ before[c] = {}

TypeOK ==
  /\ registry \subseteq Hooks
  /\ settings \in Profiles
  /\ request \in [Calls -> RequestType \cup {None}]
  /\ at \in [Calls -> Steps]
  /\ wants \in [Calls -> {"none", "read", "write"}]
  /\ before \in [Calls -> SUBSET Calls]
  /\ ran \in [Calls -> SUBSET Hooks]
  /\ running \in [Calls -> Hooks \cup {None}]
  /\ reading \in [Calls -> BOOLEAN]
  /\ blocked \in [Calls -> BOOLEAN]
  /\ result \in [Calls -> Outcomes]
  /\ executed \in [Calls -> BOOLEAN]
  /\ confirmed \in [Calls -> BOOLEAN]
  /\ cancelled \in BOOLEAN
  /\ steady \in [Calls -> SUBSET Hooks]
  /\ passed \in [Calls -> SUBSET Hooks]
  /\ \A c \in Calls :
       /\ before[c] \subseteq Queued \ {c}
       /\ wants[c] = "read" <=> at[c] \in HookSteps
       /\ wants[c] = "write" <=> at[c] = "mutating"
       /\ at[c] = "off" <=> request[c] = None
       /\ running[c] # None => at[c] \in HookSteps
       /\ reading[c] => running[c] \in Bodied

Init ==
  /\ registry \in Loaded
  /\ settings \in Profiles
  /\ request = [c \in Calls |-> None]
  /\ at = [c \in Calls |-> "off"]
  /\ wants = [c \in Calls |-> "none"]
  /\ before = [c \in Calls |-> {}]
  /\ ran = [c \in Calls |-> {}]
  /\ running = [c \in Calls |-> None]
  /\ reading = [c \in Calls |-> FALSE]
  /\ blocked = [c \in Calls |-> FALSE]
  /\ result = [c \in Calls |-> "none"]
  /\ executed = [c \in Calls |-> FALSE]
  /\ confirmed = [c \in Calls |-> FALSE]
  /\ cancelled = FALSE
  /\ steady = [c \in Calls |-> {}]
  /\ passed = [c \in Calls |-> {}]

(***************************************************************************)
(* The lock.  A call that asks joins the queue; one that gives the lock    *)
(* back, or is dropped, leaves it.                                         *)
(***************************************************************************)

Left(c) == [d \in Calls |-> IF d = c THEN {} ELSE before[d] \ {c}]

\* Go on at step, giving back what lock c has and asking for the one it needs there.
Ask(c, step, mode) ==
  /\ at' = [at EXCEPT ![c] = step]
  /\ wants' = [wants EXCEPT ![c] = mode]
  /\ before' = [Left(c) EXCEPT ![c] = IF mode = "none" THEN {} ELSE Queued \ {c}]
  /\ ran' = [ran EXCEPT ![c] = {}]
  /\ blocked' = [blocked EXCEPT ![c] = FALSE]

GoTo(c, step) == Ask(c, step, IF step \in HookSteps THEN "read"
                              ELSE IF step = "mutating" THEN "write" ELSE "none")

Return(c, outcome) == GoTo(c, "over") /\ result' = [result EXCEPT ![c] = outcome]

(***************************************************************************)
(* HookExecutor::execute: every hook of the event that matches runs, also  *)
(* after one has failed, under the read lock.                              *)
(***************************************************************************)

\* Without the name of a tool a payload shows the matcher another text: here only
\* a hook that takes every name matches it.
Matches(c, h) ==
  IF at[c] \in {"plugin_loaded", "subagent_message"} THEN Matched[h] = Tools
  ELSE request[c].tool \in Matched[h]

HooksOf(c) == {h \in registry : EventOf[h] = at[c] /\ Matches(c, h)}

StartHook(c, h) ==
  /\ at[c] \in HookSteps /\ Holds(c) /\ running[c] = None
  /\ h \in HooksOf(c) \ ran[c]
  /\ running' = [running EXCEPT ![c] = h]
  /\ UNCHANGED <<registry, settings, request, at, wants, before, ran, reading, blocked,
                 result, executed, confirmed, cancelled, steady, passed>>

\* Mutant: the last hook alone says whether the event is blocked.
HookEndsLastWins(c, success) ==
  LET h == running[c] IN
  /\ running' = [running EXCEPT ![c] = None]
  /\ reading' = [reading EXCEPT ![c] = FALSE]
  /\ ran' = [ran EXCEPT ![c] = @ \cup {h}]
  /\ blocked' = [blocked EXCEPT ![c] = ~success /\ h \in Blocking]
  /\ passed' = [passed EXCEPT ![c] = IF success \/ h \notin Blocking THEN @ \cup {h} ELSE @]
  /\ UNCHANGED <<registry, settings, request, at, wants, before, result, executed,
                 confirmed, cancelled, steady>>

HookEnds(c, success) ==
  LET h == running[c] IN
  /\ running' = [running EXCEPT ![c] = None]
  /\ reading' = [reading EXCEPT ![c] = FALSE]
  /\ ran' = [ran EXCEPT ![c] = @ \cup {h}]
  /\ blocked' = [blocked EXCEPT ![c] = @ \/ (~success /\ h \in Blocking)]
  /\ passed' = [passed EXCEPT ![c] = IF success \/ h \notin Blocking THEN @ \cup {h} ELSE @]
  /\ UNCHANGED <<registry, settings, request, at, wants, before, result, executed,
                 confirmed, cancelled, steady>>

\* The limit in time: the whole of a command, and of the others the wait for an
\* answer to begin.  It fails a hook that runs out of it.
HookAnswers(c, success) ==
  /\ running[c] # None /\ ~reading[c]
  /\ success => running[c] \notin Bodied
  /\ HookEnds(c, success)

BodyBegins(c) ==
  /\ running[c] \in Bodied /\ ~reading[c]
  /\ reading' = [reading EXCEPT ![c] = TRUE]
  /\ UNCHANGED <<registry, settings, request, at, wants, before, ran, running, blocked,
                 result, executed, confirmed, cancelled, steady, passed>>

\* The peer ends the body or the stream.
BodyEnds(c, success) == reading[c] /\ HookEnds(c, success)

\* All hooks of the event have run: the read guard is dropped.
HooksDone(c, event) ==
  /\ at[c] = event /\ Holds(c) /\ running[c] = None
  /\ HooksOf(c) \subseteq ran[c]

(***************************************************************************)
(* execute_tool_call, from one await to the next.                          *)
(***************************************************************************)

\* The reply's calls start, or a subagent's; r is what the model asked for.
Call(c, r) ==
  /\ at[c] = "off"
  /\ c \in Parents => ~cancelled
  /\ request' = [request EXCEPT ![c] = r]
  /\ steady' = [steady EXCEPT ![c] = registry]
  /\ GoTo(c, "pre_tool_use")
  /\ UNCHANGED <<registry, settings, running, reading, result, executed, confirmed,
                 cancelled, passed>>

Proceeds == UNCHANGED <<registry, settings, request, running, reading, executed,
                        confirmed, cancelled, steady, passed>>

PreToolUseBlocks(c) ==
  /\ HooksDone(c, "pre_tool_use") /\ blocked[c]
  /\ Return(c, "blocked") /\ Proceeds

UnknownTool(c) ==
  /\ HooksDone(c, "pre_tool_use") /\ ~blocked[c]
  /\ request[c].tool \notin Known
  /\ Return(c, "unknown") /\ Proceeds

LookUp(c) ==
  /\ HooksDone(c, "pre_tool_use") /\ ~blocked[c]
  /\ request[c].tool \in Known
  /\ GoTo(c, "pre_permission_check") /\ UNCHANGED result /\ Proceeds

\* The decision is made here and told to the hooks, which cannot change it.
CheckPermission(c) ==
  /\ HooksDone(c, "pre_permission_check")
  /\ GoTo(c, "post_permission_check") /\ UNCHANGED result /\ Proceeds

Decision(c) == Evaluate(settings, Query(c))

AfterDecision(c) ==
  IF Decision(c) = "allow" THEN "executing"
  ELSE IF Decision(c) = "confirm" /\ Prompted THEN "prompting"
  ELSE "permission_denied"

Decide(c) ==
  /\ HooksDone(c, "post_permission_check")
  /\ GoTo(c, AfterDecision(c)) /\ UNCHANGED result /\ Proceeds

UserConfirms(c) ==
  /\ at[c] = "prompting"
  /\ confirmed' = [confirmed EXCEPT ![c] = TRUE]
  /\ GoTo(c, "executing")
  /\ UNCHANGED <<registry, settings, request, running, reading, result, executed,
                 cancelled, steady, passed>>

UserRejects(c) ==
  /\ at[c] = "prompting"
  /\ GoTo(c, "permission_denied") /\ UNCHANGED result /\ Proceeds

Denied(c) ==
  /\ HooksDone(c, "permission_denied")
  /\ Return(c, "denied") /\ Proceeds

AfterAction(outcome) == IF outcome = "error" THEN "tool_error" ELSE "post_tool_use"

\* The tool has run; what it asks of the hooks is done whether it succeeded or
\* not.  A subagent's context has no handle to the registry.
AfterTool(c, outcome) ==
  LET kind == request[c].action.kind IN
  IF kind = "fire_event" THEN "subagent_message"
  ELSE IF kind # "none" /\ c \in Parents THEN "mutating"
  ELSE AfterAction(outcome)

ToolReturns(c, outcome) ==
  /\ at[c] = "executing"
  /\ executed' = [executed EXCEPT ![c] = TRUE]
  /\ result' = [result EXCEPT ![c] = outcome]
  /\ GoTo(c, AfterTool(c, outcome))
  /\ UNCHANGED <<registry, settings, request, running, reading, confirmed, cancelled,
                 steady, passed>>

Mutated(action) ==
  CASE action.kind = "add" -> registry \cup {action.hook}
    [] action.kind = "clear_event" -> {h \in registry : EventOf[h] # EventOf[action.hook]}
    [] OTHER -> {}

\* Mutant: the registry is changed while others run its hooks.
MutateUnlocked(c) ==
  LET action == request[c].action IN
  /\ at[c] = "mutating"
  /\ registry' = Mutated(action)
  /\ steady' = [d \in Calls |-> steady[d] \cap Mutated(action)]
  /\ GoTo(c, IF action.kind = "add" THEN "plugin_loaded" ELSE AfterAction(result[c]))
  /\ UNCHANGED <<settings, request, running, reading, result, executed, confirmed,
                 cancelled, passed>>

\* Mutant: the write guard lives on while the new hook is announced, so the call
\* waits for itself.
MutateHoldingOn(c) ==
  LET action == request[c].action IN
  /\ at[c] = "mutating" /\ Holds(c)
  /\ registry' = Mutated(action)
  /\ steady' = [d \in Calls |-> steady[d] \cap Mutated(action)]
  /\ IF action.kind = "add"
       THEN /\ at' = [at EXCEPT ![c] = "plugin_loaded"]
            /\ before' = [before EXCEPT ![c] = {c}]
            /\ UNCHANGED <<wants, ran, blocked>>
       ELSE GoTo(c, AfterAction(result[c]))
  /\ UNCHANGED <<settings, request, running, reading, result, executed, confirmed,
                 cancelled, passed>>

\* apply_hook_action under the write lock; a hook added is announced.
Mutate(c) ==
  LET action == request[c].action IN
  /\ at[c] = "mutating" /\ Holds(c)
  /\ registry' = Mutated(action)
  /\ steady' = [d \in Calls |-> steady[d] \cap Mutated(action)]
  /\ GoTo(c, IF action.kind = "add" THEN "plugin_loaded" ELSE AfterAction(result[c]))
  /\ UNCHANGED <<settings, request, running, reading, result, executed, confirmed,
                 cancelled, passed>>

ActionApplied(c) ==
  /\ HooksDone(c, "plugin_loaded") \/ HooksDone(c, "subagent_message")
  /\ GoTo(c, AfterAction(result[c])) /\ UNCHANGED result /\ Proceeds

ErrorTold(c) ==
  /\ HooksDone(c, "tool_error")
  /\ GoTo(c, "post_tool_use") /\ UNCHANGED result /\ Proceeds

PostToolUse(c) ==
  /\ HooksDone(c, "post_tool_use")
  /\ Return(c, result[c]) /\ Proceeds

(***************************************************************************)
(* A run that is cancelled drops the calls of its dispatch: waiting ones   *)
(* leave the queue, a guard is dropped with its call.                      *)
(***************************************************************************)

Drop(S) ==
  /\ at' = [c \in Calls |-> IF c \in S THEN "over" ELSE at[c]]
  /\ wants' = [c \in Calls |-> IF c \in S THEN "none" ELSE wants[c]]
  /\ before' = [c \in Calls |-> IF c \in S THEN {} ELSE before[c] \ S]
  /\ running' = [c \in Calls |-> IF c \in S THEN None ELSE running[c]]
  /\ reading' = [c \in Calls |-> reading[c] /\ c \notin S]
  /\ UNCHANGED <<registry, settings, request, ran, blocked, result, executed, confirmed,
                 steady, passed>>

Cancel ==
  /\ ~cancelled /\ \E c \in Parents : at[c] \notin {"off", "over"}
  /\ cancelled' = TRUE
  /\ Drop({c \in Parents : at[c] # "off"})

\* stop_task drops the run of one subagent.
StopSubagent(c) ==
  /\ c \notin Parents /\ at[c] \notin {"off", "over"}
  /\ Drop({c}) /\ UNCHANGED cancelled

\* What the runtime and the hooks' time limits bring about by themselves.
Goes(c) ==
  \/ \E h \in Hooks : StartHook(c, h)
  \/ \E success \in BOOLEAN : HookAnswers(c, success)
  \/ BodyBegins(c)
  \/ PreToolUseBlocks(c) \/ UnknownTool(c) \/ LookUp(c)
  \/ CheckPermission(c) \/ Decide(c) \/ Denied(c)
  \/ Mutate(c) \/ ActionApplied(c) \/ ErrorTold(c) \/ PostToolUse(c)

Next ==
  \/ \E c \in Calls :
       \/ \E r \in Requests[c] : Call(c, r)
       \/ Goes(c)
       \/ \E success \in BOOLEAN : BodyEnds(c, success)
       \/ UserConfirms(c) \/ UserRejects(c)
       \/ \E outcome \in {"ok", "error"} : ToolReturns(c, outcome)
       \/ StopSubagent(c)
  \/ Cancel

Spec == Init /\ [][Next]_vars

\* The runtime polls what is ready, and time limits run out.  No fairness for
\* users, tools and peers.
FairSpec == Spec /\ \A c \in Calls : WF_vars(Goes(c))

-----------------------------------------------------------------------------
(***************************************************************************)
(* Properties.                                                             *)
(***************************************************************************)

\* A hook that runs is in the registry: no call changes the hooks of an event
\* that another is running them for, so a hook reported as cleared does not run
\* any more (query.rs, apply_hook_action: "it now genuinely removes hooks").
RunningHookIsRegistered ==
  \A c \in Calls : running[c] # None => running[c] \in registry /\ EventOf[running[c]] = at[c]

\* A tool runs only after every PreToolUse hook that was registered all along and
\* matches it has let it through: one hook's success does not make up for the
\* failure of another, and no hook is missed while others come and go.
GuardsHold ==
  \A c \in Calls : executed[c] =>
    \A h \in steady[c] :
      EventOf[h] = "pre_tool_use" /\ request[c].tool \in Matched[h] => h \in passed[c]

\* What runs is what the settings promise, however their rules overlap: the order
\* of evaluate_with_base's checks opens nothing that a stronger rule closes.
RunsOnlyAsPromised ==
  \A c \in Calls : executed[c] =>
    request[c].tool \in Known /\ MayRun(settings, Query(c), confirmed[c])

\* While every peer ends its bodies, no call waits for ever for the hooks of an
\* event or for the registry: the lock is handed on, also to writers, and a hook
\* that never answers runs out of time.
CallsGoOn ==
  (\A c \in Calls : []<>(~reading[c]))
    => \A c \in Calls : (wants[c] # "none") ~> (wants[c] = "none")
=============================================================================
