---------------------------- MODULE QueryLoop_proofs ----------------------------
(****************************************************************************)
(* Proofs about QueryLoop.  TypeOK and HistoryShape are inductive together; *)
(* RequestPaired follows where the request is sent, the alternation of      *)
(* roles and the kept tail where the history is compacted.                  *)
(****************************************************************************)
EXTENDS QueryLoop, SequenceTheorems, TLAPS

\* Every message the loop makes is a message.
LEMMA MessagesMade ==
  /\ Prompt \in Message /\ Summary \in Message
  /\ \A r \in Nat, k \in Nat : Reply(r, k) \in Message /\ Results(r, k) \in Message
BY DEF Prompt, Summary, Reply, Results, Message, Bodies

\* A compacted history is a history, and what it holds where.
LEMMA CompactedShape ==
  ASSUME NEW m \in Seq(Message), NEW s \in 1..(Len(m) - Keep)
  PROVE  /\ Compacted(m, s) \in Seq(Message)
         /\ Len(Compacted(m, s)) = Len(m) - s + 1
         /\ Compacted(m, s)[1] = Summary
         /\ \A i \in 2..(Len(m) - s + 1) : Compacted(m, s)[i] = m[s + i - 1]
<1>1. s \in Nat /\ s < Len(m) /\ Len(m) \in Nat
  BY KeepAssumption
<1> DEFINE t == SubSeq(m, s + 1, Len(m))
<1>2. t \in Seq(Message) /\ Len(t) = Len(m) - s
  BY <1>1
<1>3. \A i \in 1..(Len(m) - s) : t[i] = m[s + i]
  BY <1>1
<1>4. Compacted(m, s) = <<Summary>> \o t
  BY DEF Compacted
<1>5. Summary \in Message /\ <<Summary>> \in Seq(Message) /\ Len(<<Summary>>) = 1
  BY MessagesMade
<1> HIDE DEF t
<1>6. Len(Compacted(m, s)) = Len(m) - s + 1 /\ Compacted(m, s) \in Seq(Message)
  <2>1. /\ <<Summary>> \o t \in Seq(Message)
        /\ Len(<<Summary>> \o t) = Len(<<Summary>>) + Len(t)
    BY <1>2, <1>5, ConcatProperties
  <2>. QED  BY <2>1, <1>1, <1>2, <1>4, <1>5
<1>7. Compacted(m, s)[1] = Summary
  BY <1>1, <1>2, <1>4, <1>5
<1>8. \A i \in 2..(Len(m) - s + 1) : Compacted(m, s)[i] = t[i - 1]
  BY <1>1, <1>2, <1>4, <1>5
<1>9. \A i \in 2..(Len(m) - s + 1) : Compacted(m, s)[i] = m[s + i - 1]
  BY <1>1, <1>3, <1>8
<1>. QED  BY <1>6, <1>7, <1>9

\* Compaction keeps the last message.
LEMMA CompactedLast ==
  ASSUME NEW m \in Seq(Message), NEW s \in 1..(Len(m) - Keep)
  PROVE  /\ Compacted(m, s) # <<>>
         /\ Compacted(m, s)[Len(Compacted(m, s))] = m[Len(m)]
<1>1. s \in Nat /\ s < Len(m) /\ Len(m) \in Nat
  BY KeepAssumption
<1>2. /\ Compacted(m, s) \in Seq(Message)
      /\ Len(Compacted(m, s)) = Len(m) - s + 1
      /\ \A i \in 2..(Len(m) - s + 1) : Compacted(m, s)[i] = m[s + i - 1]
  BY CompactedShape
<1>. QED  BY <1>1, <1>2

\* A message that is no answer may follow a history with nothing to answer.
LEMMA PairedAppend ==
  ASSUME NEW m \in Seq(Message), NEW x \in Message,
         Paired(m), ~Dangling(m), x.body # "results"
  PROVE  /\ Paired(Append(m, x))
         /\ Dangling(Append(m, x)) => x.body = "uses"
BY DEF Paired, Dangling

\* The answer to the last message completes the history.
LEMMA PairedAnswer ==
  ASSUME NEW m \in Seq(Message), NEW x \in Message,
         Paired(m), m # <<>>, Answered(m[Len(m)], x)
  PROVE  Paired(Append(m, x)) /\ ~Dangling(Append(m, x))
BY DEF Paired, Dangling, Answered

\* A cut at a safe split separates no call from its results.
LEMMA PairedCompact ==
  ASSUME NEW m \in Seq(Message), NEW s \in 1..Len(m), IsSafeSplit(m, s),
         Paired(m), ~Dangling(m)
  PROVE  Paired(Compacted(m, s)) /\ ~Dangling(Compacted(m, s))
<1> DEFINE c == Compacted(m, s)
<1>1. s \in 1..(Len(m) - Keep) /\ m[s + 1].body # "results"
  BY DEF IsSafeSplit
<1>2. s \in Nat /\ s < Len(m) /\ Len(m) \in Nat
  BY <1>1, KeepAssumption
<1>3. /\ c \in Seq(Message) /\ Len(c) = Len(m) - s + 1 /\ c[1] = Summary
      /\ \A i \in 2..(Len(m) - s + 1) : c[i] = m[s + i - 1]
  BY <1>1, CompactedShape
<1>4. c[1].body = "summary"
  BY <1>3 DEF Summary
<1> HIDE DEF c
<1>5. ASSUME NEW i \in 1..Len(c)
      PROVE  /\ c[i].body = "results" => i > 1 /\ Answered(c[i - 1], c[i])
             /\ c[i].body = "uses" /\ i < Len(c) => Answered(c[i], c[i + 1])
  <2>1. CASE i = 1
    BY <2>1, <1>4
  <2>2. CASE i = 2
    <3>1. c[2] = m[s + 1] /\ s + 1 \in 1..Len(m)
      BY <1>2, <1>3, <2>2
    <3>2. c[2].body # "results"
      BY <3>1, <1>1
    <3>3. c[2].body = "uses" /\ 2 < Len(c) => Answered(c[2], c[3])
      <4>1. SUFFICES ASSUME c[2].body = "uses", 2 < Len(c)
                     PROVE  Answered(c[2], c[3])
        OBVIOUS
      <4>2. c[3] = m[s + 2] /\ s + 1 < Len(m)
        BY <1>2, <1>3, <4>1
      <4>3. Answered(m[s + 1], m[s + 1 + 1])
        BY <3>1, <4>1, <4>2 DEF Paired
      <4>. QED  BY <3>1, <4>2, <4>3, <1>2
    <3>. QED  BY <2>2, <3>2, <3>3
  <2>3. CASE i > 2
    <3> DEFINE j == s + i - 1
    <3>1. /\ j \in 1..Len(m) /\ c[i] = m[j] /\ c[i - 1] = m[j - 1]
          /\ i < Len(c) => j < Len(m) /\ c[i + 1] = m[j + 1]
      <4>1. i \in 2..(Len(m) - s + 1) /\ i - 1 \in 2..(Len(m) - s + 1)
        BY <1>2, <1>3, <2>3
      <4>2. i < Len(c) => i + 1 \in 2..(Len(m) - s + 1)
        BY <1>2, <1>3, <2>3
      <4>3. s + (i - 1) - 1 = j - 1 /\ s + (i + 1) - 1 = j + 1 /\ j \in 1..Len(m)
        BY <1>2, <4>1
      <4>4. i < Len(c) => j < Len(m)
        BY <1>2, <4>2
      <4>. QED  BY <1>3, <4>1, <4>2, <4>3, <4>4
    <3>2. /\ m[j].body = "results" => j > 1 /\ Answered(m[j - 1], m[j])
          /\ m[j].body = "uses" /\ j < Len(m) => Answered(m[j], m[j + 1])
      BY <3>1 DEF Paired
    <3> HIDE DEF j
    <3>. QED  BY <2>3, <3>1, <3>2
  <2>. QED  BY <2>1, <2>2, <2>3
<1>6. Paired(c)
  BY <1>5 DEF Paired
<1>7. c # <<>> /\ c[Len(c)] = m[Len(m)] /\ m # <<>>
  BY <1>2, <1>3
<1>8. ~Dangling(c)
  BY <1>7 DEF Dangling
<1>. QED  BY <1>6, <1>8 DEF c

-----------------------------------------------------------------------------

\* The initial state is well typed and every step keeps it so.
LEMMA TypeInit == Init => TypeOK
<1>1. <<>> \in Seq(Message)
  BY EmptySeq
<1> SUFFICES ASSUME Init PROVE TypeOK
  OBVIOUS
<1>2. messages \in Seq(Message) /\ request \in Seq(Message)
  BY <1>1 DEF Init
<1>3. pc = "idle" /\ turn \in 0..MaxTurns /\ calls \in 0..MaxCalls
      /\ replies \in Nat
  BY BoundsAssumption DEF Init
<1>4. cancelled \in BOOLEAN
  BY DEF Init
<1>. QED  BY <1>2, <1>3, <1>4 DEF TypeOK

\* The turn counter never passes max_turns and the history stays a history.
LEMMA TypeStep == TypeOK /\ [Next]_vars => TypeOK'
<1> SUFFICES ASSUME TypeOK, [Next]_vars PROVE TypeOK'
  OBVIOUS
<1> USE BoundsAssumption
<1>1. CASE Submit
  <2>1. messages' \in Seq(Message)
    BY <1>1, MessagesMade DEF Submit, TypeOK
  <2>. QED  BY <1>1, <2>1 DEF Submit, TypeOK
<1>2. CASE Clear
  BY <1>2 DEF Clear, TypeOK
<1>3. CASE Cancel
  BY <1>3 DEF Cancel, TypeOK
<1>4. CASE TurnsExhausted
  BY <1>4 DEF TurnsExhausted, Return, TypeOK
<1>5. CASE TurnCancelled
  BY <1>5 DEF TurnCancelled, Return, TypeOK
<1>6. CASE StartTurn
  BY <1>6 DEF StartTurn, TypeOK
<1>7. CASE Compact
  <2>1. PICK s \in 1..Len(messages) :
          IsSafeSplit(messages, s) /\ messages' = Compacted(messages, s)
    BY <1>7 DEF Compact
  <2>2. s \in 1..(Len(messages) - Keep)
    BY <2>1 DEF IsSafeSplit
  <2>3. messages' \in Seq(Message)
    BY <2>1, <2>2, CompactedShape DEF TypeOK
  <2>. QED  BY <1>7, <2>3 DEF Compact, TypeOK
<1>8. CASE SkipCompaction
  BY <1>8 DEF SkipCompaction, TypeOK
<1>9. CASE CallBlocked
  BY <1>9 DEF CallBlocked, Return, TypeOK
<1>10. CASE SendRequest
  BY <1>10 DEF SendRequest, TypeOK
<1>11. CASE StreamCancelled
  BY <1>11 DEF StreamCancelled, Return, TypeOK
<1>12. CASE StreamFails
  BY <1>12 DEF StreamFails, Return, TypeOK
<1>13. CASE \E k \in 0..MaxCalls : StreamCompletes(k)
  BY <1>13 DEF StreamCompletes, TypeOK
<1>14. CASE PushBlocked
  BY <1>14 DEF PushBlocked, Return, TypeOK
<1>15. CASE PushReply
  <2>1. Reply(replies, calls) \in Message
    BY MessagesMade DEF TypeOK
  <2>2. messages' \in Seq(Message)
    BY <1>15, <2>1 DEF PushReply, TypeOK
  <2>. QED  BY <1>15, <2>2 DEF PushReply, TypeOK
<1>16. CASE DispatchCancelled
  BY <1>16 DEF DispatchCancelled, Return, TypeOK
<1>17. CASE DispatchReturns
  <2>1. Results(replies, calls) \in Message
    BY MessagesMade DEF TypeOK
  <2>2. messages' \in Seq(Message)
    BY <1>17, <2>1 DEF DispatchReturns, TypeOK
  <2>. QED  BY <1>17, <2>2 DEF DispatchReturns, TypeOK
<1>18. CASE UNCHANGED vars
  BY <1>18 DEF vars, TypeOK
<1>. QED
  BY <1>1, <1>2, <1>3, <1>4, <1>5, <1>6, <1>7, <1>8, <1>9, <1>10, <1>11, <1>12, <1>13, <1>14, <1>15, <1>16, <1>17, <1>18 DEF Next, Engine, Answers

\* What HistoryShape says of a history that may be sent.
LEMMA ShapeInit == Init => HistoryShape /\ RequestPaired
BY DEF Init, HistoryShape, RequestPaired, Paired, Dangling

\* The history is cut and extended only where that keeps calls and results
\* together, or after a cancellation.
LEMMA ShapeStep == TypeOK /\ HistoryShape /\ [Next]_vars => HistoryShape'
<1> SUFFICES ASSUME TypeOK, HistoryShape, [Next]_vars PROVE HistoryShape'
  OBVIOUS
<1>1. CASE Submit
  <2>1. /\ messages' = Append(messages, Prompt) /\ pc' = "turn"
        /\ cancelled' = cancelled /\ pc = "idle" /\ messages \in Seq(Message)
    BY <1>1 DEF Submit, TypeOK
  <2>2. /\ Prompt \in Message /\ Prompt.body = "text" /\ Prompt.role = "user"
    BY MessagesMade DEF Prompt
  <2>3. ~cancelled => Paired(messages) /\ ~Dangling(messages)
    BY <2>1 DEF HistoryShape
  <2>4. ~cancelled => Paired(messages') /\ ~Dangling(messages')
    BY <2>1, <2>2, <2>3, PairedAppend
  <2>5. messages' # <<>> /\ messages'[Len(messages')] = Prompt
    BY <2>1, <2>2
  <2>. QED  BY <2>1, <2>2, <2>4, <2>5 DEF HistoryShape
<1>2. CASE Clear
  BY <1>2 DEF Clear, HistoryShape, Paired, Dangling
<1>3. CASE Cancel
  BY <1>3 DEF Cancel, HistoryShape
<1>4. CASE TurnsExhausted
  BY <1>4 DEF TurnsExhausted, Return, HistoryShape
<1>5. CASE TurnCancelled
  BY <1>5 DEF TurnCancelled, Return, HistoryShape
<1>6. CASE StartTurn
  BY <1>6 DEF StartTurn, HistoryShape
<1>7. CASE Compact
  <2>1. PICK s \in 1..Len(messages) :
          IsSafeSplit(messages, s) /\ messages' = Compacted(messages, s)
    BY <1>7 DEF Compact
  <2>2. s \in 1..(Len(messages) - Keep)
    BY <2>1 DEF IsSafeSplit
  <2>3. /\ messages \in Seq(Message) /\ pc = "compacting" /\ pc' = "calling"
        /\ Paired(messages) /\ ~Dangling(messages)
    BY <1>7 DEF Compact, TypeOK, HistoryShape
  <2>4. Paired(messages') /\ ~Dangling(messages')
    BY <2>1, <2>3, PairedCompact
  <2>5. messages' # <<>> /\ messages'[Len(messages')].role = "user"
    <3>1. messages # <<>> /\ messages[Len(messages)].role = "user"
      BY <2>3 DEF HistoryShape
    <3>2. messages' # <<>> /\ messages'[Len(messages')] = messages[Len(messages)]
      BY <2>1, <2>2, <2>3, CompactedLast
    <3>. QED  BY <3>1, <3>2
  <2>. QED  BY <2>3, <2>4, <2>5 DEF HistoryShape
<1>8. CASE SkipCompaction
  BY <1>8 DEF SkipCompaction, HistoryShape
<1>9. CASE CallBlocked
  BY <1>9 DEF CallBlocked, Return, HistoryShape
<1>10. CASE SendRequest
  BY <1>10 DEF SendRequest, HistoryShape
<1>11. CASE StreamCancelled
  BY <1>11 DEF StreamCancelled, Return, HistoryShape
<1>12. CASE StreamFails
  BY <1>12 DEF StreamFails, Return, HistoryShape
<1>13. CASE \E k \in 0..MaxCalls : StreamCompletes(k)
  BY <1>13 DEF StreamCompletes, HistoryShape
<1>14. CASE PushBlocked
  BY <1>14 DEF PushBlocked, Return, HistoryShape
<1>15. CASE PushReply
  <2> DEFINE r == Reply(replies, calls)
  <2>1. /\ messages' = Append(messages, r) /\ pc' \in {"idle", "dispatching"}
        /\ calls' = calls /\ replies' = replies /\ cancelled' = cancelled
        /\ pc' = "dispatching" <=> calls # 0
        /\ pc = "replied" /\ messages \in Seq(Message) /\ calls \in Nat
    BY <1>15, BoundsAssumption DEF PushReply, TypeOK
  <2>2. /\ r \in Message /\ r.body # "results"
        /\ r.body = "uses" => calls # 0
    BY <2>1, MessagesMade DEF Reply, TypeOK
  <2> HIDE DEF r
  <2>3. ~cancelled => Paired(messages) /\ ~Dangling(messages)
    BY <2>1 DEF HistoryShape
  <2>4. ~cancelled => /\ Paired(messages')
                      /\ Dangling(messages') => pc' = "dispatching"
    BY <2>1, <2>2, <2>3, PairedAppend
  <2>5. messages' # <<>> /\ messages'[Len(messages')] = r
    BY <2>1, <2>2
  <2>. QED  BY <2>1, <2>4, <2>5 DEF HistoryShape, r
<1>16. CASE DispatchCancelled
  BY <1>16 DEF DispatchCancelled, Return, HistoryShape
<1>17. CASE DispatchReturns
  <2> DEFINE r == Results(replies, calls)
  <2>1. /\ messages' = Append(messages, r) /\ pc = "dispatching" /\ pc' = "turn"
        /\ cancelled' = cancelled /\ ~cancelled
        /\ messages \in Seq(Message) /\ calls \in Nat /\ replies \in Nat
    BY <1>17, BoundsAssumption DEF DispatchReturns, TypeOK
  <2>2. r \in Message /\ r.role = "user"
    BY <2>1, MessagesMade DEF Results
  <2>3. /\ Paired(messages) /\ messages # <<>> /\ calls > 0
        /\ messages[Len(messages)] = Reply(replies, calls)
    BY <2>1 DEF HistoryShape
  <2>4. Answered(messages[Len(messages)], r)
    BY <2>3, <2>1 DEF Answered, Reply, Results
  <2> HIDE DEF r
  <2>5. Paired(messages') /\ ~Dangling(messages')
    BY <2>1, <2>2, <2>3, <2>4, PairedAnswer
  <2>6. messages' # <<>> /\ messages'[Len(messages')] = r
    BY <2>1, <2>2
  <2>. QED  BY <2>1, <2>2, <2>5, <2>6 DEF HistoryShape
<1>18. CASE UNCHANGED vars
  BY <1>18 DEF vars, HistoryShape
<1>. QED
  BY <1>1, <1>2, <1>3, <1>4, <1>5, <1>6, <1>7, <1>8, <1>9, <1>10, <1>11, <1>12, <1>13, <1>14, <1>15, <1>16, <1>17, <1>18 DEF Next, Engine, Answers

\* Only SendRequest changes the request, and sends the history.
LEMMA RequestStep ==
  HistoryShape /\ RequestPaired /\ [Next]_vars => RequestPaired'
<1> SUFFICES ASSUME HistoryShape, RequestPaired, [Next]_vars
             PROVE  RequestPaired'
  OBVIOUS
<1>1. CASE SendRequest
  BY <1>1 DEF SendRequest, HistoryShape, RequestPaired
<1>2. CASE request' = request
  BY <1>2 DEF RequestPaired
<1>. QED
  BY <1>1, <1>2 DEF Next, Engine, Answers, vars, Submit, Clear, Cancel,
     TurnsExhausted, TurnCancelled, StartTurn, Compact, SkipCompaction,
     CallBlocked, StreamCancelled, StreamFails, StreamCompletes, PushBlocked,
     PushReply, DispatchCancelled, DispatchReturns

\* The three invariants, inductive together.
LEMMA LoopInvariant == Spec => [](TypeOK /\ HistoryShape /\ RequestPaired)
<1>1. Init => TypeOK /\ HistoryShape /\ RequestPaired
  BY TypeInit, ShapeInit
<1>2. TypeOK /\ HistoryShape /\ RequestPaired /\ [Next]_vars =>
        (TypeOK /\ HistoryShape /\ RequestPaired)'
  BY TypeStep, ShapeStep, RequestStep
<1>. QED  BY <1>1, <1>2, PTL DEF Spec

\* The loop's state is well typed for every number of turns and calls.
THEOREM LoopTypeCorrect == Spec => []TypeOK
BY LoopInvariant, PTL

\* No request ever carries an orphaned result or an unanswered call, however
\* many runs, compactions and cancellations came before it.
THEOREM RequestsArePaired == Spec => []RequestPaired
BY LoopInvariant, PTL

\* Why: what holds of the history between the runs and inside them.
THEOREM HistoryIsShaped == Spec => []HistoryShape
BY LoopInvariant, PTL

-----------------------------------------------------------------------------

\* Outside Compact, no step of "compacting" changes the history.
LEMMA CompactingSteps ==
  ASSUME [Next]_vars, pc = "compacting"
  PROVE  Compact \/ messages' = messages
BY DEF Next, Engine, Answers, vars, Submit, Clear, Cancel,
     TurnsExhausted, TurnCancelled, StartTurn, SkipCompaction,
     CallBlocked, SendRequest, StreamCancelled, StreamFails, StreamCompletes,
     PushBlocked, PushReply, DispatchCancelled, DispatchReturns

\* Positions keep their parity when an odd number of messages becomes one.
LEMMA OddShift ==
  ASSUME NEW a \in Nat, NEW b \in Nat, a % 2 = 1
  PROVE  (a + b - 1) % 2 = b % 2
<1>1. PICK q \in Nat : a = 2 * q + 1
  OBVIOUS
<1>. QED  BY <1>1

\* In an alternating history that the user both opens and closes, the split
\* is the naive one and falls on an assistant message.
LEMMA AlternatingSplit ==
  ASSUME NEW m \in Seq(Message), NEW s \in 1..Len(m), IsSafeSplit(m, s),
         Alternates(m), m[Len(m)].role = "user"
  PROVE  Alternates(Compacted(m, s))
<1>1. s \in 1..(Len(m) - Keep)
  BY DEF IsSafeSplit
<1>2. s \in Nat /\ s < Len(m) /\ Len(m) \in Nat /\ Keep \in Nat /\ Keep % 2 = 0
      /\ Keep > 0
  BY <1>1, KeepAssumption
<1> DEFINE c == Compacted(m, s)
<1>3. /\ c \in Seq(Message) /\ Len(c) = Len(m) - s + 1 /\ c[1] = Summary
      /\ \A i \in 2..(Len(m) - s + 1) : c[i] = m[s + i - 1]
  BY <1>1, CompactedShape
<1>4. Len(m) % 2 = 1
  BY <1>2 DEF Alternates
<1>5. (Len(m) - Keep) % 2 = 1
  BY <1>2, <1>4
<1>6. s = Len(m) - Keep
  <2>1. SUFFICES ASSUME s # Len(m) - Keep PROVE FALSE
    OBVIOUS
  <2>2. m[Len(m) - Keep + 1].body = "results"
    <3>1. Len(m) - Keep \in (s + 1)..(Len(m) - Keep)
      BY <1>1, <1>2, <2>1
    <3>. QED  BY <3>1 DEF IsSafeSplit
  <2>3. m[Len(m) - Keep + 1].role = "user"
    <3>1. m[Len(m) - Keep + 1] \in Message
      BY <1>1, <1>2
    <3>. QED  BY <3>1, <2>2 DEF Message
  <2>4. (Len(m) - Keep + 1) % 2 = 0
    BY <1>2, <1>5
  <2>5. m[Len(m) - Keep + 1].role = "assistant"
    BY <1>1, <1>2, <2>4 DEF Alternates
  <2>. QED  BY <2>3, <2>5
<1> HIDE DEF c
<1>7. ASSUME NEW i \in 1..Len(c)
      PROVE  c[i].role = IF i % 2 = 1 THEN "user" ELSE "assistant"
  <2>1. CASE i = 1
    BY <2>1, <1>3 DEF Summary
  <2>2. CASE i # 1
    <3>1. i \in 2..(Len(m) - s + 1) /\ s + i - 1 \in 1..Len(m)
      BY <2>2, <1>2, <1>3
    <3>2. c[i].role = m[s + i - 1].role
      BY <3>1, <1>3
    <3>3. (s + i - 1) % 2 = i % 2
      <4>. i \in Nat
        BY <3>1
      <4>. QED  BY <1>2, <1>5, <1>6, OddShift
    <3>. QED  BY <3>1, <3>2, <3>3 DEF Alternates
  <2>. QED  BY <2>1, <2>2
<1>. QED  BY <1>7 DEF Alternates, c

\* Compaction never makes two messages of one role neighbours, for every even
\* COMPACT_KEEP_LAST_N.
THEOREM CompactionKeepsAlternation == Spec => CompactionAlternates
<1>1. TypeOK /\ HistoryShape /\ [Next]_vars =>
        (pc = "compacting" /\ Alternates(messages) => Alternates(messages'))
  <2>1. SUFFICES ASSUME TypeOK, HistoryShape, [Next]_vars, pc = "compacting",
                        Alternates(messages)
                 PROVE  Alternates(messages')
    OBVIOUS
  <2>2. CASE messages' = messages
    BY <2>1, <2>2
  <2>3. CASE Compact
    <3>1. PICK s \in 1..Len(messages) :
            IsSafeSplit(messages, s) /\ messages' = Compacted(messages, s)
      BY <2>3 DEF Compact
    <3>2. messages \in Seq(Message) /\ messages[Len(messages)].role = "user"
      BY <2>1 DEF TypeOK, HistoryShape
    <3>. QED  BY <2>1, <3>1, <3>2, AlternatingSplit
  <2>. QED  BY <2>1, <2>2, <2>3, CompactingSteps
<1>. QED  BY <1>1, LoopInvariant, PTL DEF Spec, CompactionAlternates

\* The last Keep messages survive compaction word for word.
THEOREM CompactionKeepsTheTail == Spec => CompactionKeepsTail
<1> DEFINE Kept ==
      pc = "compacting" /\ Len(messages) >= Keep =>
        /\ Len(messages') <= Len(messages)
        /\ SubSeq(messages', Len(messages') - Keep + 1, Len(messages')) =
             SubSeq(messages, Len(messages) - Keep + 1, Len(messages))
<1>1. TypeOK /\ [Next]_vars => Kept
  <2>1. SUFFICES ASSUME TypeOK, [Next]_vars, pc = "compacting",
                        Len(messages) >= Keep
                 PROVE  Kept
    OBVIOUS
  <2>2. messages \in Seq(Message) /\ Len(messages) \in Nat
    BY <2>1 DEF TypeOK
  <2>3. CASE messages' = messages
    BY <2>2, <2>3
  <2>4. CASE Compact
    <3>1. PICK s \in 1..Len(messages) :
            IsSafeSplit(messages, s) /\ messages' = Compacted(messages, s)
      BY <2>4 DEF Compact
    <3>2. s \in 1..(Len(messages) - Keep)
      BY <3>1 DEF IsSafeSplit
    <3> DEFINE c == messages'
               n == Len(messages) - s + 1
    <3>3. /\ c \in Seq(Message) /\ Len(c) = n
          /\ \A i \in 2..n : c[i] = messages[s + i - 1]
      BY <3>1, <3>2, <2>2, CompactedShape
    <3>4. /\ s \in Nat /\ n \in Nat /\ Keep \in Nat /\ Keep > 0 /\ s >= 1
          /\ n - Keep + 1 >= 2 /\ n <= Len(messages) /\ Len(messages) - Keep + 1 >= 1
      BY <3>2, <2>2, KeepAssumption
    <3> HIDE DEF c
    <3>5. /\ SubSeq(c, n - Keep + 1, n) \in Seq(Message)
          /\ Len(SubSeq(c, n - Keep + 1, n)) = Keep
          /\ \A i \in 1..Keep : SubSeq(c, n - Keep + 1, n)[i] = c[n - Keep + i]
      BY <3>3, <3>4
    <3>6. /\ SubSeq(messages, Len(messages) - Keep + 1, Len(messages)) \in Seq(Message)
          /\ Len(SubSeq(messages, Len(messages) - Keep + 1, Len(messages))) = Keep
          /\ \A i \in 1..Keep :
               SubSeq(messages, Len(messages) - Keep + 1, Len(messages))[i] =
                 messages[Len(messages) - Keep + i]
      BY SMTT(30), <2>2, <3>4
    <3>7. \A i \in 1..Keep : c[n - Keep + i] = messages[Len(messages) - Keep + i]
      BY SMTT(30), <3>3, <3>4, <2>2
    <3>8. SubSeq(c, n - Keep + 1, n) =
            SubSeq(messages, Len(messages) - Keep + 1, Len(messages))
      BY <3>4, <3>5, <3>6, <3>7, SeqEqual
    <3>. QED  BY <3>3, <3>4, <3>8 DEF c
  <2>. QED  BY <2>1, <2>3, <2>4, CompactingSteps
<1>. QED  BY <1>1, LoopInvariant, PTL DEF Spec, CompactionKeepsTail

=============================================================================
