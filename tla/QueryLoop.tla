------------------------------ MODULE QueryLoop ------------------------------
(***************************************************************************)
(* The conversation loop of oh-engine: QueryEngine (query_engine.rs) owns  *)
(* the history, run_query (query.rs) calls the model until it stops asking *)
(* for tools, Compactor (oh-services, compact/mod.rs) replaces old history *)
(* by a summary.  The engine is one future; whoever holds the cancellation *)
(* token runs beside it, and the provider and the tools answer as they     *)
(* like.                                                                   *)
(*                                                                         *)
(* A message is reduced to its role, what its blocks are, and, for calls   *)
(* and results, which reply they belong to and how many there are.         *)
(***************************************************************************)
EXTENDS Integers, Sequences

CONSTANTS
  Keep,        \* COMPACT_KEEP_LAST_N
  MaxTurns,    \* max_turns of the engine
  MaxCalls,    \* tool calls in one reply (bounds the model)
  MaxReplies,  \* replies of the provider (bounds the model)
  MaxLen       \* messages in the history at submit (bounds the model)

ASSUME KeepAssumption == Keep \in Nat \ {0} /\ Keep % 2 = 0
ASSUME BoundsAssumption ==
  MaxTurns \in Nat /\ MaxCalls \in Nat /\ MaxReplies \in Nat /\ MaxLen \in Nat

VARIABLES
  messages,   \* QueryEngine.messages
  pc,         \* where run_query is
  turn,       \* its turn counter
  calls,      \* tool calls of the reply in hand
  replies,    \* replies received so far, the name of the last one
  request,    \* the messages of the last request sent
  cancelled   \* the cancellation token

vars == <<messages, pc, turn, calls, replies, request, cancelled>>

Bodies == {"text", "uses", "results", "summary"}

Message ==
  {m \in [role : {"user", "assistant"}, body : Bodies, of : Nat, n : Nat] :
     /\ m.body = "uses" => m.role = "assistant"
     /\ m.body = "results" => m.role = "user"}

\* from_user_text, the synthetic summary, the reply, the tool results.
Prompt        == [role |-> "user", body |-> "text", of |-> 0, n |-> 0]
Summary       == [role |-> "user", body |-> "summary", of |-> 0, n |-> 0]
Reply(r, k)   == [role |-> "assistant", body |-> IF k = 0 THEN "text" ELSE "uses",
                  of |-> r, n |-> k]
Results(r, k) == [role |-> "user", body |-> "results", of |-> r, n |-> k]

TypeOK ==
  /\ messages \in Seq(Message)
  /\ pc \in {"idle", "turn", "compacting", "calling", "streaming", "replied",
             "dispatching"}
  /\ turn \in 0..MaxTurns
  /\ pc \notin {"idle", "turn"} => turn < MaxTurns
  /\ calls \in 0..MaxCalls
  /\ replies \in Nat
  /\ request \in Seq(Message)
  /\ cancelled \in BOOLEAN

Init ==
  /\ messages = <<>>
  /\ pc = "idle"
  /\ turn = 0
  /\ calls = 0
  /\ replies = 0
  /\ request = <<>>
  /\ cancelled = FALSE

(***************************************************************************)
(* The engine's caller.                                                    *)
(***************************************************************************)

\* Mutant: every run starts with a fresh token.
SubmitResetsToken ==
  /\ pc = "idle"
  /\ Len(messages) < MaxLen
  /\ messages' = Append(messages, Prompt)
  /\ pc' = "turn"
  /\ turn' = 0
  /\ cancelled' = FALSE
  /\ UNCHANGED <<calls, replies, request>>

\* submit_message: the prompt is pushed whatever the hooks answer, then
\* run_query starts.  The token is the engine's, one for all its runs.
Submit ==
  /\ pc = "idle"
  /\ Len(messages) < MaxLen
  /\ messages' = Append(messages, Prompt)
  /\ pc' = "turn"
  /\ turn' = 0
  /\ UNCHANGED <<calls, replies, request, cancelled>>

\* clear / clear_async.
Clear ==
  /\ pc = "idle"
  /\ messages' = <<>>
  /\ UNCHANGED <<pc, turn, calls, replies, request, cancelled>>

Cancel ==
  /\ ~cancelled
  /\ cancelled' = TRUE
  /\ UNCHANGED <<messages, pc, turn, calls, replies, request>>

\* run_query returns; what it pushed stays in the history.
Return == pc' = "idle"

(***************************************************************************)
(* The head of a turn.                                                     *)
(***************************************************************************)

TurnsExhausted ==
  /\ pc = "turn" /\ turn = MaxTurns
  /\ Return
  /\ UNCHANGED <<messages, turn, calls, replies, request, cancelled>>

TurnCancelled ==
  /\ pc = "turn" /\ turn < MaxTurns /\ cancelled
  /\ Return
  /\ UNCHANGED <<messages, turn, calls, replies, request, cancelled>>

StartTurn ==
  /\ pc = "turn" /\ turn < MaxTurns /\ ~cancelled
  /\ pc' = "compacting"
  /\ UNCHANGED <<messages, turn, calls, replies, request, cancelled>>

(***************************************************************************)
(* maybe_compact.  Whether the estimate exceeds the threshold depends on   *)
(* texts that are left out, so compaction may happen or not; it may also   *)
(* fail, which is logged.                                                  *)
(***************************************************************************)

\* Mutant: the naive split is not moved.
IsNaiveSplit(m, s) == s = Len(m) - Keep

\* Mutant: one message more than COMPACT_KEEP_LAST_N is kept.
IsSplitForOneMore(m, s) ==
  /\ s \in 1..(Len(m) - Keep - 1)
  /\ m[s + 1].body # "results"
  /\ \A i \in (s + 1)..(Len(m) - Keep - 1) : m[i + 1].body = "results"

\* safe_split_point, with s messages to summarise: from the naive split
\* backward to the first message that is not tool results.
IsSafeSplit(m, s) ==
  /\ s \in 1..(Len(m) - Keep)
  /\ m[s + 1].body # "results"
  /\ \A i \in (s + 1)..(Len(m) - Keep) : m[i + 1].body = "results"

Compacted(m, s) == <<Summary>> \o SubSeq(m, s + 1, Len(m))

Compact ==
  /\ pc = "compacting"
  /\ \E s \in 1..Len(messages) :
       /\ IsSafeSplit(messages, s)
       /\ messages' = Compacted(messages, s)
  /\ pc' = "calling"
  /\ UNCHANGED <<turn, calls, replies, request, cancelled>>

SkipCompaction ==
  /\ pc = "compacting"
  /\ pc' = "calling"
  /\ UNCHANGED <<messages, turn, calls, replies, request, cancelled>>

(***************************************************************************)
(* The request and its answer.                                             *)
(***************************************************************************)

\* A PreApiRequest hook blocks.
CallBlocked ==
  /\ pc = "calling"
  /\ Return
  /\ UNCHANGED <<messages, turn, calls, replies, request, cancelled>>

\* stream_message is awaited outside any select!: it is sent although the
\* token fired since the head of the turn.
SendRequest ==
  /\ pc = "calling"
  /\ request' = messages
  /\ pc' \in {"streaming", "idle"}   \* opened, or ApiError
  /\ UNCHANGED <<messages, turn, calls, replies, cancelled>>

StreamCancelled ==
  /\ pc = "streaming" /\ cancelled
  /\ Return
  /\ UNCHANGED <<messages, turn, calls, replies, request, cancelled>>

\* An error event, or the end without a final message.
StreamFails ==
  /\ pc = "streaming" /\ ~cancelled
  /\ Return
  /\ UNCHANGED <<messages, turn, calls, replies, request, cancelled>>

StreamCompletes(k) ==
  /\ pc = "streaming" /\ ~cancelled
  /\ replies < MaxReplies
  /\ replies' = replies + 1
  /\ calls' = k
  /\ pc' = "replied"
  /\ UNCHANGED <<messages, turn, request, cancelled>>

(***************************************************************************)
(* The reply and its tool calls.                                           *)
(***************************************************************************)

\* A PrePushMessage hook blocks.
PushBlocked ==
  /\ pc = "replied"
  /\ Return
  /\ UNCHANGED <<messages, turn, calls, replies, request, cancelled>>

PushReply ==
  /\ pc = "replied"
  /\ messages' = Append(messages, Reply(replies, calls))
  /\ pc' = IF calls = 0 THEN "idle" ELSE "dispatching"
  /\ UNCHANGED <<turn, calls, replies, request, cancelled>>

\* Mutant: only the branch for a single call selects on the token.
SingleDispatchCancelled ==
  /\ pc = "dispatching" /\ cancelled /\ calls = 1
  /\ Return
  /\ UNCHANGED <<messages, turn, calls, replies, request, cancelled>>

\* The dispatch is dropped with the calls in flight; the reply stays.
DispatchCancelled ==
  /\ pc = "dispatching" /\ cancelled
  /\ Return
  /\ UNCHANGED <<messages, turn, calls, replies, request, cancelled>>

\* join_all: one result per call, in the order of the calls.  The hook before
\* this push cannot block it.
DispatchReturns ==
  /\ pc = "dispatching" /\ ~cancelled
  /\ messages' = Append(messages, Results(replies, calls))
  /\ pc' = "turn"
  /\ turn' = turn + 1
  /\ UNCHANGED <<calls, replies, request, cancelled>>

(***************************************************************************)
(* The specification.                                                      *)
(***************************************************************************)

\* What run_query does by itself once its hooks answer.
Engine ==
  \/ TurnsExhausted
  \/ TurnCancelled
  \/ StartTurn
  \/ CallBlocked
  \/ StreamCancelled
  \/ PushBlocked
  \/ PushReply
  \/ DispatchCancelled

\* What waits for the provider or a tool, which may never answer: neither the
\* summarizer, nor the opening of a stream, nor a stream has a time limit.
Answers ==
  \/ Compact
  \/ SkipCompaction
  \/ SendRequest
  \/ StreamFails
  \/ \E k \in 0..MaxCalls : StreamCompletes(k)
  \/ DispatchReturns

Next == Submit \/ Clear \/ Cancel \/ Engine \/ Answers

Spec == Init /\ [][Next]_vars

\* The engine's future is polled.
FairSpec == Spec /\ WF_vars(Engine)

(***************************************************************************)
(* Properties.                                                             *)
(***************************************************************************)

\* The results in m answer the calls of the message before them, all of them
\* and in their order.
Answered(use, res) ==
  res.body = "results" /\ use.body = "uses" /\ res.of = use.of /\ res.n = use.n

Paired(m) ==
  \A i \in 1..Len(m) :
    /\ m[i].body = "results" => i > 1 /\ Answered(m[i - 1], m[i])
    /\ m[i].body = "uses" /\ i < Len(m) => Answered(m[i], m[i + 1])

Dangling(m) == m # <<>> /\ m[Len(m)].body = "uses"

\* No request carries an orphaned ToolResult or an unanswered ToolUse,
\* although compaction cuts the history anywhere and a cancelled dispatch
\* leaves its reply behind.
RequestPaired == Paired(request) /\ ~Dangling(request)

\* Why: the history is paired at every step, and it may end in an unanswered
\* call, or hold one before the last prompt, only while the tools run or
\* after a cancellation, which ends every later run before its request.  While
\* a reply is awaited the last message is the user's.
HistoryShape ==
  /\ pc \in {"calling", "compacting"} \/ ~cancelled =>
       Paired(messages) /\ (Dangling(messages) => pc = "dispatching")
  /\ pc = "dispatching" =>
       /\ calls > 0 /\ messages # <<>>
       /\ messages[Len(messages)] = Reply(replies, calls)
  /\ pc \in {"turn", "compacting", "calling", "streaming", "replied"} =>
       messages # <<>> /\ messages[Len(messages)].role = "user"

\* The user speaks first and the roles take turns, as providers expect; only
\* a prompt after a run that did not end in an answer breaks this.
Alternates(m) ==
  \A i \in 1..Len(m) : m[i].role = IF i % 2 = 1 THEN "user" ELSE "assistant"

\* Compaction keeps an alternating history alternating: a history that is
\* compacted has odd length and COMPACT_KEEP_LAST_N is even, so the cut falls
\* on an assistant message.
CompactionAlternates ==
  [][pc = "compacting" /\ Alternates(messages) => Alternates(messages')]_vars

\* Compaction keeps the last Keep messages as they are and never makes the
\* history longer.
CompactionKeepsTail ==
  [][pc = "compacting" /\ Len(messages) >= Keep =>
       /\ Len(messages') <= Len(messages)
       /\ SubSeq(messages', Len(messages') - Keep + 1, Len(messages')) =
            SubSeq(messages, Len(messages) - Keep + 1, Len(messages))]_vars

\* A cancelled run returns although the stream or a tool never answers,
\* wherever the cancellation finds it but in a summary or an opening request.
CancelEndsRun ==
  (cancelled /\ pc \in {"turn", "streaming", "replied", "dispatching"}) ~>
    (pc = "idle")
=============================================================================
