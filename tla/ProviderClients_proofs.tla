------------------------ MODULE ProviderClients_proofs ------------------------
(***************************************************************************)
(* Proofs about the provider clients, for any number of callers, tokens,   *)
(* attempts, items and pieces.                                             *)
(*                                                                         *)
(* CodexClient: the types, among them who holds refresh_lock at which      *)
(* await, and the safety properties.  What they rest on is that a token is *)
(* stored by the holder of the lock alone, so that what the holder knows   *)
(* of the stored tokens stays true until it stores others.                 *)
(*                                                                         *)
(* ProviderStream: that replies are assembled, shown and told back as they *)
(* were said.  What this rests on is that the decoder holds, under each    *)
(* key, the pieces of that item which the server has sent in the attempt   *)
(* under way.  Before it come the lemmas about sequences it needs.         *)
(***************************************************************************)
EXTENDS CodexClient, ProviderStream, Functions, SequenceTheorems, WellFoundedInduction, TLAPS

-----------------------------------------------------------------------------
(***************************************************************************)
(* CodexClient.                                                            *)
(***************************************************************************)

\* The call's exchange was answered with tokens.
Granted(c) == await[c] \in Exchanging /\ answer[c].kind = "ok"

\* No token is stored, spent or given up that was not issued yet.
NothingFromTheFuture ==
  /\ access <= issued /\ refresh <= issued
  /\ \A token \in spent \cup abandoned : token <= issued

\* Whoever exchanges a token or sends a second time knows the stored tokens: it asks
\* with the refresh token that is stored, for an access token that is still due or
\* refused; the second request carries the access token that is stored.
HolderIsCurrent ==
  \A c \in Callers :
    /\ await[c] \in Exchanging => asked[c] = refresh
    /\ await[c] = "exchanging_due" => due
    /\ await[c] \in {"waiting_401", "exchanging_401"} => used[c] \in refused
    /\ await[c] \in {"exchanging_401", "resending"} => used[c] = access

\* An answer on its way brings an access token newer than the one stored, and a refresh
\* token no older, which is spent only through an exchange that was given up.
AnswerIsNewer ==
  \A c \in Callers :
    Granted(c) =>
      /\ answer[c].access \in access + 1 .. issued
      /\ answer[c].refresh \in refresh .. issued
      /\ answer[c].refresh \in spent => answer[c].refresh \in abandoned

\* A stored refresh token that is spent was replaced by an exchange that was given up,
\* or by one whose answer the holder of the lock is about to store.
StoredIsAccounted ==
  refresh \in spent => refresh \in abandoned \/ \E c \in Callers : Granted(c)

\* A call that sleeps has an attempt left, and only an exchange has an answer.
BetweenCalls ==
  \A c \in Callers :
    /\ await[c] = "sleeping" => attempt[c] < MaxAttempts
    /\ await[c] \notin Exchanging => answer[c] = NoAnswer

CodexInv ==
  /\ CodexTypeOK /\ NothingFromTheFuture /\ BetweenCalls
  /\ HolderIsCurrent /\ AnswerIsNewer /\ StoredIsAccounted

\* Answers are records of three kinds.
LEMMA AnswerKinds ==
  /\ NoAnswer \in Answers /\ [kind |-> "bad"] \in Answers
  /\ NoAnswer.kind = "none" /\ [kind |-> "bad"].kind = "bad"
  /\ \A a \in Answers : a.kind \in {"none", "bad", "ok"}
  /\ \A a \in Answers : a.kind = "none" => a = NoAnswer
  /\ \A a \in Answers : a.kind = "ok" => a.access \in Tokens /\ a.refresh \in Tokens
<1> USE DEF Answers, NoAnswer
<1>1. NoAnswer \in Answers /\ [kind |-> "bad"] \in Answers
  OBVIOUS
<1>2. NoAnswer.kind = "none" /\ [kind |-> "bad"].kind = "bad"
  OBVIOUS
<1>3. ASSUME NEW a \in Answers
      PROVE  a.kind \in {"none", "bad", "ok"} /\ (a.kind = "none" => a = NoAnswer)
  <2>1. CASE a \in [kind : {"none", "bad"}]
    BY <2>1
  <2>2. CASE a \in [kind : {"ok"}, access : Tokens, refresh : Tokens]
    BY <2>2
  <2>. QED  BY <2>1, <2>2
<1>4. \A a \in Answers : a.kind = "ok" => a.access \in Tokens /\ a.refresh \in Tokens
  OBVIOUS
<1>. QED  BY <1>1, <1>2, <1>3, <1>4

\* Tokens are numbers; the next one, if there is one, is a token.
LEMMA TokenNumbers ==
  /\ \A t \in Tokens : t \in Nat
  /\ \A t \in Tokens : t < MaxTokens => t + 1 \in Tokens
  /\ 0 \in Tokens
BY CodexAssumption DEF Tokens

\* The tokens read from the environment, no call under way.
LEMMA CodexStarts == CodexInit => CodexInv
<1> SUFFICES ASSUME CodexInit PROVE CodexInv
  OBVIOUS
<1>1. CodexTypeOK
  <2>1. /\ access \in Tokens /\ refresh \in Tokens /\ issued \in Tokens
        /\ used \in [Callers -> Tokens] /\ asked \in [Callers -> Tokens]
        /\ answer \in [Callers -> Answers]
    BY TokenNumbers, AnswerKinds DEF CodexInit
  <2>2. await \in [Callers -> Steps] /\ attempt \in [Callers -> 0..MaxAttempts]
    BY CodexAssumption DEF CodexInit, Steps
  <2>. QED  BY <2>1, <2>2, CodexAssumption DEF CodexInit, CodexTypeOK
<1>2. NothingFromTheFuture /\ BetweenCalls /\ StoredIsAccounted
  BY DEF CodexInit, NothingFromTheFuture, BetweenCalls, StoredIsAccounted, Exchanging
<1>3. HolderIsCurrent /\ AnswerIsNewer
  BY DEF CodexInit, HolderIsCurrent, AnswerIsNewer, Granted, Exchanging
<1>. QED  BY <1>1, <1>2, <1>3 DEF CodexInv

\* Types are kept by every step; the lock passes from hand to hand.
LEMMA CodexTypeStep == CodexInv /\ [CodexNext]_codexVars => CodexTypeOK'
<1> SUFFICES ASSUME CodexInv, [CodexNext]_codexVars PROVE CodexTypeOK'
  OBVIOUS
<1> USE CodexAssumption, AnswerKinds, TokenNumbers
        DEF CodexInv, CodexTypeOK, Steps, Exchanging, Sending, Streaming, GoTo, Use, End,
            client, issuer
<1>1. ASSUME NEW c \in Callers, StartCall(c) PROVE CodexTypeOK'
  BY <1>1 DEF StartCall
<1>2. ASSUME NEW c \in Callers, ReadTokens(c) PROVE CodexTypeOK'
  BY <1>2 DEF ReadTokens
<1>3. ASSUME NEW c \in Callers, Store(c) PROVE CodexTypeOK'
  BY <1>3 DEF Store
<1>4. ASSUME NEW c \in Callers, ExchangeFails(c) PROVE CodexTypeOK'
  BY <1>4 DEF ExchangeFails, GoOnWithout
<1>5. ASSUME NEW c \in Callers, ExchangeTimesOut(c) PROVE CodexTypeOK'
  BY <1>5 DEF ExchangeTimesOut, GoOnWithout
<1>6. ASSUME NEW c \in Callers, RetryCall(c) PROVE CodexTypeOK'
  BY <1>6 DEF RetryCall, BetweenCalls
<1>7. ASSUME NEW c \in Callers, LockDue(c) PROVE CodexTypeOK'
  BY <1>7 DEF LockDue
<1>8. ASSUME NEW c \in Callers, LockRefused(c) PROVE CodexTypeOK'
  BY <1>8 DEF LockRefused
<1>9. ASSUME NEW c \in Callers, DropCall(c) PROVE CodexTypeOK'
  BY <1>9 DEF DropCall
<1>10. ASSUME NEW c \in Callers, ServerRejects(c) PROVE CodexTypeOK'
  BY <1>10 DEF ServerRejects
<1>11. ASSUME NEW c \in Callers, Accepted(c) PROVE CodexTypeOK'
  BY <1>11 DEF Accepted
<1>12. ASSUME NEW c \in Callers, Unauthorized(c) PROVE CodexTypeOK'
  BY <1>12 DEF Unauthorized
<1>13. ASSUME NEW c \in Callers, RefusedAgain(c) PROVE CodexTypeOK'
  BY <1>13 DEF RefusedAgain
<1>14. ASSUME NEW c \in Callers, ResponseEnds(c) PROVE CodexTypeOK'
  BY <1>14 DEF ResponseEnds
<1>15. ASSUME NEW c \in Callers, NEW rotates \in BOOLEAN, ServerExchanges(c, rotates)
      PROVE CodexTypeOK'
  <2>1. issued + 1 \in Tokens
    BY <1>15, CodexAssumption, TokenNumbers DEF ServerExchanges, Tokens
  <2>2. \A t \in Tokens : [kind |-> "ok", access |-> issued + 1, refresh |-> t] \in Answers
    BY <2>1 DEF Answers
  <2>. QED  BY <1>15, <2>1, <2>2 DEF ServerExchanges
<1>16. ASSUME NEW c \in Callers, NEW retryable \in BOOLEAN, CallFails(c, retryable)
      PROVE CodexTypeOK'
  BY <1>16 DEF CallFails
<1>17. ASSUME NEW token \in Tokens, ServerExchangesLate(token) PROVE CodexTypeOK'
  BY <1>17 DEF ServerExchangesLate
<1>18. ASSUME NEW token \in Tokens, IsRefused(token) PROVE CodexTypeOK'
  BY <1>18 DEF IsRefused
<1>19. CASE ComesDue
  BY <1>19 DEF ComesDue
<1>20. CASE UNCHANGED codexVars
  BY <1>20 DEF codexVars
<1>. QED
  BY <1>1, <1>2, <1>3, <1>4, <1>5, <1>6, <1>7, <1>8, <1>9, <1>10, <1>11, <1>12, <1>13, <1>14,
     <1>15, <1>16, <1>17, <1>18, <1>19, <1>20
     DEF CodexNext, Goes, Locks

\* Every step keeps the rest of the invariant.
LEMMA CodexStep == CodexInv /\ [CodexNext]_codexVars => CodexInv'
<1> SUFFICES ASSUME CodexInv, [CodexNext]_codexVars, CodexTypeOK' PROVE CodexInv'
  BY CodexTypeStep
<1> DEFINE Rest == /\ NothingFromTheFuture /\ BetweenCalls
                   /\ HolderIsCurrent /\ AnswerIsNewer /\ StoredIsAccounted
<1> USE CodexAssumption, AnswerKinds, TokenNumbers
        DEF CodexInv, CodexTypeOK, Exchanging, Sending, Streaming, GoTo, Use, End, client,
            issuer
<1>1. ASSUME NEW c \in Callers, StartCall(c) PROVE Rest'
  BY <1>1 DEF StartCall, Granted, NothingFromTheFuture, BetweenCalls, HolderIsCurrent,
                 AnswerIsNewer, StoredIsAccounted
<1>2. ASSUME NEW c \in Callers, ReadTokens(c) PROVE Rest'
  BY <1>2 DEF ReadTokens, Granted, NothingFromTheFuture, BetweenCalls, HolderIsCurrent,
                 AnswerIsNewer, StoredIsAccounted
<1>3. ASSUME NEW c \in Callers, Store(c) PROVE Rest'
  <2>1. NothingFromTheFuture'
    BY <1>3 DEF Store, NothingFromTheFuture, AnswerIsNewer, Granted
  <2>2. BetweenCalls'
    BY <1>3 DEF Store, BetweenCalls
  <2>3. HolderIsCurrent'
    BY <1>3 DEF Store, HolderIsCurrent
  <2>4. AnswerIsNewer'
    BY <1>3 DEF Store, AnswerIsNewer, Granted
  <2>5. StoredIsAccounted'
    BY <1>3 DEF Store, StoredIsAccounted, AnswerIsNewer, Granted
  <2>. QED  BY <2>1, <2>2, <2>3, <2>4, <2>5
<1>4. ASSUME NEW c \in Callers, ExchangeFails(c) PROVE Rest'
  <2>1. NothingFromTheFuture'
    BY <1>4 DEF ExchangeFails, GoOnWithout, NothingFromTheFuture, HolderIsCurrent
  <2>2. BetweenCalls'
    BY <1>4 DEF ExchangeFails, GoOnWithout, BetweenCalls
  <2>3. HolderIsCurrent'
    BY <1>4 DEF ExchangeFails, GoOnWithout, HolderIsCurrent
  <2>4. AnswerIsNewer'
    BY <1>4 DEF ExchangeFails, GoOnWithout, AnswerIsNewer, Granted
  <2>5. StoredIsAccounted'
    BY <1>4 DEF ExchangeFails, GoOnWithout, StoredIsAccounted, Granted, HolderIsCurrent
  <2>. QED  BY <2>1, <2>2, <2>3, <2>4, <2>5
<1>5. ASSUME NEW c \in Callers, ExchangeTimesOut(c) PROVE Rest'
  <2>1. NothingFromTheFuture'
    BY <1>5 DEF ExchangeTimesOut, GoOnWithout, NothingFromTheFuture, HolderIsCurrent
  <2>2. BetweenCalls'
    BY <1>5 DEF ExchangeTimesOut, GoOnWithout, BetweenCalls
  <2>3. HolderIsCurrent'
    BY <1>5 DEF ExchangeTimesOut, GoOnWithout, HolderIsCurrent
  <2>4. AnswerIsNewer'
    BY <1>5 DEF ExchangeTimesOut, GoOnWithout, AnswerIsNewer, Granted
  <2>5. StoredIsAccounted'
    BY <1>5 DEF ExchangeTimesOut, GoOnWithout, StoredIsAccounted, Granted, HolderIsCurrent
  <2>. QED  BY <2>1, <2>2, <2>3, <2>4, <2>5
<1>6. ASSUME NEW c \in Callers, RetryCall(c) PROVE Rest'
  BY <1>6 DEF RetryCall, Granted, NothingFromTheFuture, BetweenCalls, HolderIsCurrent,
                 AnswerIsNewer, StoredIsAccounted
<1>7. ASSUME NEW c \in Callers, LockDue(c) PROVE Rest'
  <2>1. NothingFromTheFuture'
    BY <1>7 DEF LockDue, NothingFromTheFuture
  <2>2. BetweenCalls'
    BY <1>7 DEF LockDue, BetweenCalls
  <2>3. HolderIsCurrent'
    BY <1>7 DEF LockDue, HolderIsCurrent
  <2>4. AnswerIsNewer'
    BY <1>7 DEF LockDue, AnswerIsNewer, Granted, BetweenCalls
  <2>5. StoredIsAccounted'
    BY <1>7 DEF LockDue, StoredIsAccounted, Granted
  <2>. QED  BY <2>1, <2>2, <2>3, <2>4, <2>5
<1>8. ASSUME NEW c \in Callers, LockRefused(c) PROVE Rest'
  <2>1. NothingFromTheFuture'
    BY <1>8 DEF LockRefused, NothingFromTheFuture
  <2>2. BetweenCalls'
    BY <1>8 DEF LockRefused, BetweenCalls
  <2>3. HolderIsCurrent'
    BY <1>8 DEF LockRefused, HolderIsCurrent
  <2>4. AnswerIsNewer'
    BY <1>8 DEF LockRefused, AnswerIsNewer, Granted, BetweenCalls
  <2>5. StoredIsAccounted'
    BY <1>8 DEF LockRefused, StoredIsAccounted, Granted
  <2>. QED  BY <2>1, <2>2, <2>3, <2>4, <2>5
<1>9. ASSUME NEW c \in Callers, DropCall(c) PROVE Rest'
  <2>1. NothingFromTheFuture'
    BY <1>9 DEF DropCall, NothingFromTheFuture, HolderIsCurrent
  <2>2. BetweenCalls'
    BY <1>9 DEF DropCall, BetweenCalls
  <2>3. HolderIsCurrent'
    BY <1>9 DEF DropCall, HolderIsCurrent
  <2>4. AnswerIsNewer'
    BY <1>9 DEF DropCall, AnswerIsNewer, Granted
  <2>5. StoredIsAccounted'
    BY <1>9 DEF DropCall, StoredIsAccounted, Granted, HolderIsCurrent
  <2>. QED  BY <2>1, <2>2, <2>3, <2>4, <2>5
<1>10. ASSUME NEW c \in Callers, ServerRejects(c) PROVE Rest'
  BY <1>10 DEF ServerRejects, Granted, NothingFromTheFuture, BetweenCalls, HolderIsCurrent,
                 AnswerIsNewer, StoredIsAccounted
<1>11. ASSUME NEW c \in Callers, Accepted(c) PROVE Rest'
  BY <1>11 DEF Accepted, Granted, NothingFromTheFuture, BetweenCalls, HolderIsCurrent,
                 AnswerIsNewer, StoredIsAccounted
<1>12. ASSUME NEW c \in Callers, Unauthorized(c) PROVE Rest'
  BY <1>12 DEF Unauthorized, Granted, NothingFromTheFuture, BetweenCalls, HolderIsCurrent,
                 AnswerIsNewer, StoredIsAccounted
<1>13. ASSUME NEW c \in Callers, RefusedAgain(c) PROVE Rest'
  BY <1>13 DEF RefusedAgain, Granted, NothingFromTheFuture, BetweenCalls, HolderIsCurrent,
                 AnswerIsNewer, StoredIsAccounted
<1>14. ASSUME NEW c \in Callers, ResponseEnds(c) PROVE Rest'
  BY <1>14 DEF ResponseEnds, Granted, NothingFromTheFuture, BetweenCalls, HolderIsCurrent,
                 AnswerIsNewer, StoredIsAccounted
<1>15. ASSUME NEW c \in Callers, NEW rotates \in BOOLEAN, ServerExchanges(c, rotates)
      PROVE  Rest'
  <2>1. NothingFromTheFuture'
    BY <1>15 DEF ServerExchanges, NothingFromTheFuture, HolderIsCurrent
  <2>2. BetweenCalls'
    BY <1>15 DEF ServerExchanges, BetweenCalls
  <2>3. HolderIsCurrent'
    BY <1>15 DEF ServerExchanges, HolderIsCurrent
  <2>4. AnswerIsNewer'
    BY <1>15 DEF ServerExchanges, AnswerIsNewer, Granted, NothingFromTheFuture, HolderIsCurrent
  <2>5. StoredIsAccounted'
    BY <1>15 DEF ServerExchanges, StoredIsAccounted, Granted
  <2>. QED  BY <2>1, <2>2, <2>3, <2>4, <2>5
<1>16. ASSUME NEW c \in Callers, NEW retryable \in BOOLEAN, CallFails(c, retryable)
      PROVE  Rest'
  BY <1>16 DEF CallFails, Granted, NothingFromTheFuture, BetweenCalls, HolderIsCurrent,
                 AnswerIsNewer, StoredIsAccounted
<1>17. ASSUME NEW token \in Tokens, ServerExchangesLate(token) PROVE Rest'
  <2>1. NothingFromTheFuture'
    BY <1>17 DEF ServerExchangesLate, NothingFromTheFuture
  <2>2. BetweenCalls'
    BY <1>17 DEF ServerExchangesLate, BetweenCalls
  <2>3. HolderIsCurrent'
    BY <1>17 DEF ServerExchangesLate, HolderIsCurrent
  <2>4. AnswerIsNewer'
    BY <1>17 DEF ServerExchangesLate, AnswerIsNewer, Granted
  <2>5. StoredIsAccounted'
    BY <1>17 DEF ServerExchangesLate, StoredIsAccounted, Granted
  <2>. QED  BY <2>1, <2>2, <2>3, <2>4, <2>5
<1>18. ASSUME NEW token \in Tokens, IsRefused(token) PROVE Rest'
  BY <1>18 DEF IsRefused, Granted, NothingFromTheFuture, BetweenCalls, HolderIsCurrent,
                 AnswerIsNewer, StoredIsAccounted
<1>19. CASE ComesDue
  BY <1>19 DEF ComesDue, Granted, NothingFromTheFuture, BetweenCalls, HolderIsCurrent,
                 AnswerIsNewer, StoredIsAccounted
<1>20. CASE UNCHANGED codexVars
  BY <1>20 DEF codexVars, Granted, NothingFromTheFuture, BetweenCalls, HolderIsCurrent,
                 AnswerIsNewer, StoredIsAccounted
<1>. QED
  BY <1>1, <1>2, <1>3, <1>4, <1>5, <1>6, <1>7, <1>8, <1>9, <1>10, <1>11, <1>12, <1>13, <1>14,
     <1>15, <1>16, <1>17, <1>18, <1>19, <1>20
     DEF CodexNext, Goes, Locks

\* The lock is held by whoever exchanges a token or sends for the second time, and what
\* it knows of the stored tokens stays true: the invariant all the rest follows from.
THEOREM CodexInvariant == CodexSpec => []CodexInv
BY CodexStarts, CodexStep, PTL DEF CodexSpec

\* Every variable stays in its type, and refresh_lock has one holder: the call that
\* exchanges a token, or goes on after a 401 until its second response has ended.
THEOREM CodexTypeCorrect == CodexSpec => []CodexTypeOK
<1>1. CodexInv => CodexTypeOK
  BY DEF CodexInv
<1>. QED  BY <1>1, CodexInvariant, PTL

\* No refresh token is sent twice that the server has replaced, but for one whose
\* replacement never arrived.
THEOREM SpentTokensNotSent == CodexSpec => []SpentNotSent
<1>1. CodexInv => SpentNotSent
  BY AnswerKinds
     DEF CodexInv, CodexTypeOK, HolderIsCurrent, StoredIsAccounted, Granted, SpentNotSent,
         Exchanging
<1>. QED  BY <1>1, CodexInvariant, PTL

\* Only a store changes the tokens: those of the answer its caller waited for.
LEMMA OnlyStoreReplaces ==
  ASSUME [CodexNext]_codexVars, UNCHANGED client => FALSE
  PROVE  \E c \in Callers : Store(c)
BY DEF CodexNext, Goes, Locks, StartCall, ReadTokens, ExchangeFails, ExchangeTimesOut,
   RetryCall, LockDue,
       LockRefused, DropCall, ServerExchanges, ServerRejects, Accepted, Unauthorized,
       RefusedAgain, ResponseEnds, CallFails, ServerExchangesLate, IsRefused, ComesDue,
       codexVars

\* The tokens are replaced only when the access token is due or was refused: a call
\* that waited for the lock while another refreshed makes no exchange of its own.
THEOREM OnlyBadReplaced == CodexSpec => ReplacesOnlyBad
<1>1. CodexInv /\ [CodexNext]_codexVars
        => [access' # access => due \/ access \in refused]_codexVars
  BY OnlyStoreReplaces DEF client, Store, CodexInv, HolderIsCurrent, Exchanging
<1>. QED  BY <1>1, CodexInvariant, PTL DEF CodexSpec, ReplacesOnlyBad

\* The stored tokens never go back to older ones, whatever is answered late.
THEOREM TokensOnlyAdvance == CodexSpec => TokensAdvance
<1>1. CodexInv /\ [CodexNext]_codexVars => [access' >= access /\ refresh' >= refresh]_codexVars
  <2> SUFFICES ASSUME CodexInv, [CodexNext]_codexVars
        PROVE access' >= access /\ refresh' >= refresh
    OBVIOUS
  <2>1. CASE UNCHANGED client
    BY <2>1, TokenNumbers DEF client, CodexInv, CodexTypeOK
  <2>2. ASSUME NEW c \in Callers, Store(c)
        PROVE  access' >= access /\ refresh' >= refresh
    BY <2>2, TokenNumbers DEF Store, CodexInv, CodexTypeOK, AnswerIsNewer, Granted
  <2>. QED  BY <2>1, <2>2, OnlyStoreReplaces
<1>. QED  BY <1>1, CodexInvariant, PTL DEF CodexSpec, TokensAdvance

\* Only an exchange in vain or a second refusal makes a call fail as unauthorized.
LEMMA FailsBy ==
  ASSUME CodexTypeOK, [CodexNext]_codexVars, NEW c \in Callers,
         outcome'[c] = "unauthorized", outcome[c] # "unauthorized"
  PROVE  \E d \in Callers : ExchangeFails(d) \/ ExchangeTimesOut(d) \/ RefusedAgain(d)
BY DEF CodexTypeOK, CodexNext, Goes, Locks, End, StartCall, ReadTokens, Store, RetryCall,
   LockDue, LockRefused,
       DropCall, ServerExchanges, ServerRejects, Accepted, Unauthorized, ResponseEnds,
       CallFails, ServerExchangesLate, IsRefused, ComesDue, codexVars

\* A call fails as unauthorized only while the token stored is refused itself.
THEOREM FailuresAreCurrent == CodexSpec => FailureIsCurrent
<1> DEFINE Current ==
      \A c \in Callers :
        outcome'[c] = "unauthorized" /\ outcome[c] # "unauthorized" => access \in refused
<1>1. CodexInv /\ [CodexNext]_codexVars => Current
  <2> SUFFICES ASSUME CodexInv, [CodexNext]_codexVars, NEW c \in Callers,
                      outcome'[c] = "unauthorized", outcome[c] # "unauthorized"
               PROVE  access \in refused
    OBVIOUS
  <2>1. \E d \in Callers : ExchangeFails(d) \/ ExchangeTimesOut(d) \/ RefusedAgain(d)
    BY FailsBy DEF CodexInv
  <2>. QED
    BY <2>1 DEF ExchangeFails, ExchangeTimesOut, RefusedAgain, GoOnWithout, End, CodexInv,
                CodexTypeOK, HolderIsCurrent, Exchanging
<1>. QED  BY <1>1, CodexInvariant, PTL DEF CodexSpec, FailureIsCurrent

-----------------------------------------------------------------------------
(***************************************************************************)
(* Sequences: what is put together, element by element.  FlattenSeq is a   *)
(* recursive function, so facts about it are proved by induction; the      *)
(* principle is that a set of numbers has a least element.                 *)
(***************************************************************************)

\* A set of numbers that is not empty has a least element.
LEMMA LeastNumber ==
  ASSUME NEW T \in SUBSET Nat, T # {}
  PROVE  \E n \in T : \A m \in T : n <= m
<1>1. \E x \in T : \A y \in T : <<y, x>> \notin OpToRel(<, Nat)
  BY WFMin, NatLessThanWellFounded
<1>2. \A x, y \in Nat : <<y, x>> \notin OpToRel(<, Nat) => x <= y
  BY DEF OpToRel
<1>. QED  BY <1>1, <1>2

\* Induction over the numbers, for a set instead of an operator.
LEMMA CountUp ==
  ASSUME NEW G \in SUBSET Nat, 0 \in G, \A n \in G : n + 1 \in G
  PROVE  \A n \in Nat : n \in G
<1> SUFFICES ASSUME Nat \ G # {} PROVE FALSE
  OBVIOUS
<1>1. PICK n \in Nat \ G : \A m \in Nat \ G : n <= m
  BY LeastNumber
<1>2. n # 0 /\ n - 1 \in Nat
  BY <1>1
<1>3. n - 1 \in G
  BY <1>1, <1>2
<1>4. (n - 1) + 1 \in G
  BY <1>3
<1>. QED  BY <1>1, <1>2, <1>4

\* Induction over the sequences, likewise: a set that holds the empty sequence and is
\* closed under Append holds all of them.
LEMMA BuildUp ==
  ASSUME NEW S, NEW G, <<>> \in G,
         \A s \in Seq(S), x \in S : s \in G => Append(s, x) \in G
  PROVE  \A s \in Seq(S) : s \in G
<1> DEFINE H == {n \in Nat : \A s \in Seq(S) : Len(s) = n => s \in G}
<1>1. 0 \in H
  BY EmptySeq
<1>2. ASSUME NEW n \in H PROVE n + 1 \in H
  <2> SUFFICES ASSUME NEW s \in Seq(S), Len(s) = n + 1 PROVE s \in G
    BY <1>2
  <2>1. PICK r \in Seq(S), x \in S : s = Append(r, x)
    BY SequenceEmptyOrAppend, EmptySeq, <1>2
  <2>2. Len(r) = n
    BY <2>1, <1>2
  <2>3. r \in G
    BY <1>2, <2>2
  <2>. QED  BY <2>1, <2>3
<1>3. \A n \in Nat : n \in H
  <2> HIDE DEF H
  <2>1. H \in SUBSET Nat
    BY DEF H
  <2>. QED  BY <1>1, <1>2, <2>1, CountUp
<1>. QED  BY <1>3, LenProperties

Runs(f, t) ==
  /\ f = [i \in 1..Len(t) |-> f[i]]
  /\ \A i \in 1..Len(t) : f[i] = IF i = 1 THEN t[i] ELSE f[i-1] \o t[i]

\* The run of a sequence is the only one.
LEMMA RunsOnce ==
  ASSUME NEW S, NEW t \in Seq(S), NEW f, NEW g, Runs(f, t), Runs(g, t)
  PROVE  \A i \in 1..Len(t) : f[i] = g[i]
<1> DEFINE G == {n \in Nat : n \in 1..Len(t) => f[n] = g[n]}
<1>1. 0 \in G /\ G \in SUBSET Nat
  BY LenProperties
<1>2. \A n \in G : n + 1 \in G
  <2> SUFFICES ASSUME NEW n \in G, n + 1 \in 1..Len(t) PROVE f[n + 1] = g[n + 1]
    OBVIOUS
  <2>1. CASE n = 0
    <3>1. 1 \in 1..Len(t) /\ n + 1 = 1
      BY <2>1
    <3>2. f[1] = t[1] /\ g[1] = t[1]
      BY <3>1 DEF Runs
    <3>. QED  BY <3>1, <3>2
  <2>2. CASE n # 0
    <3>1. n \in 1..Len(t) /\ n + 1 # 1 /\ (n + 1) - 1 = n
      BY <2>2, LenProperties
    <3>2. f[n] = g[n]
      BY <3>1
    <3>3. f[n + 1] = f[n] \o t[n + 1]
      BY <3>1 DEF Runs
    <3>4. g[n + 1] = g[n] \o t[n + 1]
      BY <3>1 DEF Runs
    <3>. QED  BY <3>2, <3>3, <3>4
  <2>. QED  BY <2>1, <2>2
<1>3. \A n \in Nat : n \in G
  <2> HIDE DEF G
  <2>. QED  BY <1>1, <1>2, CountUp
<1>. QED  BY <1>3, LenProperties

\* FlattenSeq is the last value of the run.
LEMMA FlattenRuns ==
  ASSUME NEW S, NEW t \in Seq(S), t # <<>>, NEW f, Runs(f, t)
  PROVE  FlattenSeq(t) = f[Len(t)]
<1> DEFINE step(h) == [i \in 1..Len(t) |-> IF i = 1 THEN t[i] ELSE h[i-1] \o t[i]]
           g == CHOOSE h : h = step(h)
<1>1. Len(t) \in Nat /\ Len(t) # 0
  BY LenProperties, EmptySeq
<1>2. FlattenSeq(t) = g[Len(t)]
  BY <1>1 DEF FlattenSeq
<1>3. \E h : h = step(h)
  <2>1. [i \in 1..Len(t) |-> f[i]] = step(f)
    BY DEF Runs
  <2>2. f = step(f)
    BY <2>1 DEF Runs
  <2>. QED  BY <2>2
<1>4. g = step(g)
  <2> HIDE DEF step
  <2>. QED  BY <1>3
<1>5. Runs(g, t)
  <2> HIDE DEF g
  <2>. QED  BY <1>4 DEF Runs
<1>6. g[Len(t)] = f[Len(t)]
  <2> HIDE DEF g
  <2>. QED  BY <1>1, <1>5, RunsOnce
<1>. QED  BY <1>2, <1>6

\* Nothing to put together.
LEMMA FlattenEmpty == FlattenSeq(<<>>) = <<>>
BY EmptySeq DEF FlattenSeq

\* A sequence with one element more.
LEMMA Longer ==
  ASSUME NEW S, NEW t \in Seq(S), NEW x \in S
  PROVE  /\ Append(t, x) \in Seq(S) /\ Append(t, x) # <<>>
         /\ Len(Append(t, x)) = Len(t) + 1 /\ Append(t, x)[Len(t) + 1] = x
         /\ \A i \in 1..Len(t) : Append(t, x)[i] = t[i]
         /\ Len(t) \in Nat
BY AppendProperties, LenProperties

\* The run of a sequence goes on to that of a longer one.
LEMMA RunLonger ==
  ASSUME NEW S, NEW t \in Seq(Seq(S)), NEW x \in Seq(S), NEW f, Runs(f, t),
         \A i \in 1..Len(t) : f[i] \in Seq(S)
  PROVE  \E g : /\ Runs(g, Append(t, x))
               /\ \A i \in 1..Len(Append(t, x)) : g[i] \in Seq(S)
               /\ g[Len(t) + 1] = IF t = <<>> THEN x ELSE f[Len(t)] \o x
<1> DEFINE n == Len(t)
           u == Append(t, x)
           new == IF n = 0 THEN x ELSE f[n] \o x
           g == [i \in 1..n+1 |-> IF i = n + 1 THEN new ELSE f[i]]
<1>1. /\ n \in Nat /\ Len(u) = n + 1 /\ u[n+1] = x
      /\ \A i \in 1..n : u[i] = t[i]
      /\ (n = 0 <=> t = <<>>)
  BY Longer, EmptySeq
<1>2. new \in Seq(S)
  <2>1. CASE n = 0
    BY <2>1
  <2>2. CASE n # 0
    <3>1. f[n] \in Seq(S)
      BY <1>1, <2>2
    <3>2. f[n] \o x \in Seq(S)
      BY <3>1, ConcatProperties
    <3>. QED  BY <2>2, <3>2
  <2>. QED  BY <2>1, <2>2
<1>. HIDE DEF new
<1>3. \A i \in 1..n : g[i] = f[i]
  BY <1>1
<1>4. g[n + 1] = new
  BY <1>1
<1>5. g = [i \in 1..n+1 |-> g[i]]
  OBVIOUS
<1>. HIDE DEF n, u, g
<1>6. \A i \in 1..n+1 : g[i] \in Seq(S)
  <2> SUFFICES ASSUME NEW i \in 1..n+1 PROVE g[i] \in Seq(S)
    OBVIOUS
  <2>1. CASE i = n + 1
    BY <2>1, <1>2, <1>4
  <2>2. CASE i # n + 1
    <3>1. i \in 1..n
      BY <1>1, <2>2
    <3>. QED  BY <3>1, <1>3 DEF n
  <2>. QED  BY <2>1, <2>2
<1>7. \A i \in 1..n+1 : g[i] = IF i = 1 THEN u[i] ELSE g[i-1] \o u[i]
  <2> SUFFICES ASSUME NEW i \in 1..n+1 PROVE g[i] = IF i = 1 THEN u[i] ELSE g[i-1] \o u[i]
    OBVIOUS
  <2>1. CASE i = n + 1 /\ n = 0
    BY <2>1, <1>1, <1>4 DEF new
  <2>2. CASE i = n + 1 /\ n # 0
    <3>1. n \in 1..n /\ i # 1 /\ i - 1 = n
      BY <1>1, <2>2
    <3>. QED  BY <3>1, <2>2, <1>1, <1>3, <1>4 DEF new
  <2>3. CASE i # n + 1
    <3>1. i \in 1..n /\ (i # 1 => i - 1 \in 1..n)
      BY <1>1, <2>3
    <3>2. f[i] = IF i = 1 THEN t[i] ELSE f[i-1] \o t[i]
      BY <3>1 DEF Runs, n
    <3>. QED  BY <3>1, <3>2, <1>1, <1>3
  <2>. QED  BY <2>1, <2>2, <2>3
<1>8. Runs(g, u)
  BY <1>1, <1>5, <1>7 DEF Runs
<1>9. new = IF t = <<>> THEN x ELSE f[n] \o x
  BY <1>1 DEF new
<1>. QED  BY <1>1, <1>4, <1>6, <1>8, <1>9 DEF n, u

\* Every sequence of sequences has a run.
LEMMA RunExists ==
  ASSUME NEW S, NEW t \in Seq(Seq(S))
  PROVE  \E f : Runs(f, t) /\ \A i \in 1..Len(t) : f[i] \in Seq(S)
<1> DEFINE G == {s \in Seq(Seq(S)) :
                   \E f : Runs(f, s) /\ \A i \in 1..Len(s) : f[i] \in Seq(S)}
<1>1. <<>> \in G
  <2> DEFINE f == [i \in 1..Len(<<>>) |-> <<>>]
  <2>1. \A i \in 1..Len(<<>>) : FALSE
    BY EmptySeq
  <2>2. Runs(f, <<>>)
    BY <2>1 DEF Runs
  <2>. QED  BY <2>1, <2>2, EmptySeq
<1>2. ASSUME NEW s \in Seq(Seq(S)), NEW x \in Seq(S), s \in G
      PROVE  Append(s, x) \in G
  <2>1. Append(s, x) \in Seq(Seq(S))
    BY AppendProperties
  <2>. QED  BY <1>2, <2>1, RunLonger
<1>3. \A s \in Seq(Seq(S)) : s \in G
  <2> HIDE DEF G
  <2>. QED  BY <1>1, <1>2, BuildUp
<1>. QED  BY <1>3

\* The sequences one after another; the last one is added at the end.
LEMMA FlattenAppend ==
  ASSUME NEW S, NEW t \in Seq(Seq(S)), NEW x \in Seq(S)
  PROVE  FlattenSeq(Append(t, x)) = FlattenSeq(t) \o x
<1>1. PICK f : Runs(f, t) /\ \A i \in 1..Len(t) : f[i] \in Seq(S)
  BY RunExists
<1>2. PICK g : /\ Runs(g, Append(t, x))
               /\ g[Len(t) + 1] = IF t = <<>> THEN x ELSE f[Len(t)] \o x
  BY <1>1, RunLonger
<1>3. FlattenSeq(Append(t, x)) = g[Len(t) + 1]
  <2>1. Append(t, x) \in Seq(Seq(S)) /\ Append(t, x) # <<>> /\ Len(Append(t, x)) = Len(t) + 1
    BY Longer
  <2>. QED  BY <1>2, <2>1, FlattenRuns
<1>4. CASE t = <<>>
  <2>1. <<>> \o x = x
    BY ConcatEmptySeq
  <2>. QED  BY <1>2, <1>3, <1>4, <2>1, FlattenEmpty
<1>5. CASE t # <<>>
  <2>1. FlattenSeq(t) = f[Len(t)]
    BY <1>1, <1>5, FlattenRuns
  <2>. QED  BY <1>2, <1>3, <1>5, <2>1
<1>. QED  BY <1>4, <1>5

\* What is put together has the elements of its parts.
LEMMA FlattenType ==
  ASSUME NEW S, NEW t \in Seq(Seq(S))
  PROVE  FlattenSeq(t) \in Seq(S)
<1>1. PICK f : Runs(f, t) /\ \A i \in 1..Len(t) : f[i] \in Seq(S)
  BY RunExists
<1>2. CASE t = <<>>
  BY <1>2, FlattenEmpty, EmptySeq
<1>3. CASE t # <<>>
  <2>1. FlattenSeq(t) = f[Len(t)]
    BY <1>1, <1>3, FlattenRuns
  <2>2. Len(t) \in 1..Len(t)
    BY <1>3, LenProperties, EmptySeq
  <2>. QED  BY <1>1, <2>1, <2>2
<1>. QED  BY <1>2, <1>3

\* Appending to the second of two sequences appends to both.
LEMMA ConcatAppend ==
  ASSUME NEW S, NEW s \in Seq(S), NEW t \in Seq(S), NEW x \in S
  PROVE  s \o Append(t, x) = Append(s \o t, x)
BY AppendIsConcat, ConcatAssociative, ConcatProperties, ElementOfSeq

\* FlattenSeq goes through concatenation.
LEMMA FlattenConcat ==
  ASSUME NEW S, NEW s \in Seq(Seq(S)), NEW t \in Seq(Seq(S))
  PROVE  FlattenSeq(s \o t) = FlattenSeq(s) \o FlattenSeq(t)
<1> DEFINE G == {r \in Seq(Seq(S)) : FlattenSeq(s \o r) = FlattenSeq(s) \o FlattenSeq(r)}
<1>1. <<>> \in G
  BY FlattenEmpty, FlattenType, ConcatEmptySeq, EmptySeq
<1>2. ASSUME NEW r \in Seq(Seq(S)), NEW x \in Seq(S), r \in G
      PROVE  Append(r, x) \in G
  <2>1. s \o Append(r, x) = Append(s \o r, x)
    BY AppendIsConcat, ConcatAssociative, ConcatProperties, ElementOfSeq
  <2>2. FlattenSeq(Append(s \o r, x)) = FlattenSeq(s \o r) \o x
    BY FlattenAppend, ConcatProperties
  <2>3. FlattenSeq(Append(r, x)) = FlattenSeq(r) \o x
    BY FlattenAppend
  <2>4. (FlattenSeq(s) \o FlattenSeq(r)) \o x = FlattenSeq(s) \o (FlattenSeq(r) \o x)
    <3>1. FlattenSeq(s) \in Seq(S) /\ FlattenSeq(r) \in Seq(S)
      BY FlattenType
    <3>. QED  BY <3>1, ConcatAssociative
  <2>. QED  BY <1>2, <2>1, <2>2, <2>3, <2>4, AppendProperties
<1>3. \A r \in Seq(Seq(S)) : r \in G
  <2> HIDE DEF G
  <2>. QED  BY <1>1, <1>2, BuildUp
<1>. QED  BY <1>3

\* A sequence through a function.
Each(s, f) == [n \in DOMAIN s |-> f[s[n]]]

\* One element for each, in the same place.
LEMMA EachLen ==
  ASSUME NEW S, NEW s \in Seq(S), NEW f
  PROVE  Len(Each(s, f)) = Len(s) /\ \A n \in 1..Len(s) : Each(s, f)[n] = f[s[n]]
<1> DEFINE R == {f[x] : x \in S}
<1>1. DOMAIN s = 1..Len(s) /\ Len(s) \in Nat /\ \A n \in 1..Len(s) : s[n] \in S
  BY LenProperties, ElementOfSeq
<1>2. \A n \in 1..Len(s) : f[s[n]] \in R
  BY <1>1
<1>. HIDE DEF R
<1>. QED  BY <1>1, <1>2, IsASeq DEF Each

\* The values of the function are the elements.
LEMMA EachType ==
  ASSUME NEW S, NEW R, NEW s \in Seq(S), NEW f, \A x \in S : f[x] \in R
  PROVE  Each(s, f) \in Seq(R)
<1>1. DOMAIN s = 1..Len(s) /\ Len(s) \in Nat /\ \A n \in 1..Len(s) : s[n] \in S
  BY LenProperties, ElementOfSeq
<1>2. \A n \in 1..Len(s) : f[s[n]] \in R
  BY <1>1
<1>. QED  BY <1>1, <1>2, IsASeq DEF Each

\* No element for none.
LEMMA EachEmpty ==
  ASSUME NEW f
  PROVE  Each(<<>>, f) = <<>>
BY EmptySeq DEF Each

\* An element more for one more.
LEMMA EachAppend ==
  ASSUME NEW S, NEW s \in Seq(S), NEW x \in S, NEW f
  PROVE  Each(Append(s, x), f) = Append(Each(s, f), f[x])
<1> DEFINE R == {f[y] : y \in S}
<1>r. \A y \in S : f[y] \in R
  OBVIOUS
<1> HIDE DEF R
<1> DEFINE a == Each(Append(s, x), f)
           b == Append(Each(s, f), f[x])
<1>0. f[x] \in R
  BY <1>r
<1>1. /\ Append(s, x) \in Seq(S) /\ Len(Append(s, x)) = Len(s) + 1 /\ Len(s) \in Nat
      /\ Append(s, x)[Len(s) + 1] = x /\ \A i \in 1..Len(s) : Append(s, x)[i] = s[i]
  BY Longer
<1>2. /\ Each(s, f) \in Seq(R) /\ Len(Each(s, f)) = Len(s)
      /\ \A n \in 1..Len(s) : Each(s, f)[n] = f[s[n]]
  BY <1>r, EachType, EachLen
<1>3. /\ a \in Seq(R) /\ Len(a) = Len(s) + 1
      /\ \A n \in 1..Len(s)+1 : a[n] = f[Append(s, x)[n]]
  <2> DEFINE u == Append(s, x)
  <2>1. u \in Seq(S) /\ Len(u) = Len(s) + 1
    BY <1>1
  <2>. HIDE DEF u
  <2>2. Each(u, f) \in Seq(R)
    BY <2>1, <1>r, EachType
  <2>3. Len(Each(u, f)) = Len(u) /\ \A n \in 1..Len(u) : Each(u, f)[n] = f[u[n]]
    BY <2>1, EachLen
  <2>. QED  BY <2>1, <2>2, <2>3 DEF u
<1>4. /\ b \in Seq(R) /\ Len(b) = Len(s) + 1 /\ b[Len(s) + 1] = f[x]
      /\ \A i \in 1..Len(s) : b[i] = Each(s, f)[i]
  BY <1>0, <1>2, AppendProperties
<1>. HIDE DEF a, b
<1>5. \A i \in 1..Len(a) : a[i] = b[i]
  BY <1>1, <1>2, <1>3, <1>4
<1>6. a = b
  BY <1>3, <1>4, <1>5, SeqEqual
<1>. QED  BY <1>6 DEF a, b

\* Functions that agree on the elements make the same sequence.
LEMMA EachSame ==
  ASSUME NEW S, NEW s \in Seq(S), NEW f, NEW g, \A x \in Range(s) : f[x] = g[x]
  PROVE  Each(s, f) = Each(s, g)
BY DEF Each, Range

\* The elements of s that are in T, in the order of s.
Chosen(s, T) == FlattenSeq([n \in DOMAIN s |-> IF s[n] \in T THEN <<s[n]>> ELSE <<>>])

Keep(S, T) == [x \in S |-> IF x \in T THEN <<x>> ELSE <<>>]

\* One element of T, or none.
LEMMA KeepType ==
  ASSUME NEW S, NEW T
  PROVE  \A x \in S : Keep(S, T)[x] \in Seq(S \cap T)
<1>1. \A x \in S \cap T : <<x>> \in Seq(S \cap T)
  OBVIOUS
<1>2. <<>> \in Seq(S \cap T)
  BY EmptySeq
<1>. QED  BY <1>1, <1>2 DEF Keep

\* Choosing is putting together what is kept of each element.
LEMMA ChosenEach ==
  ASSUME NEW S, NEW s \in Seq(S), NEW T
  PROVE  Chosen(s, T) = FlattenSeq(Each(s, Keep(S, T)))
<1>1. \A n \in DOMAIN s : s[n] \in S
  BY LenProperties, ElementOfSeq
<1>2. Each(s, Keep(S, T)) = [n \in DOMAIN s |-> IF s[n] \in T THEN <<s[n]>> ELSE <<>>]
  BY <1>1 DEF Each, Keep
<1>. QED  BY <1>2 DEF Chosen

\* What is chosen is of both sets.
LEMMA ChosenType ==
  ASSUME NEW S, NEW s \in Seq(S), NEW T
  PROVE  Chosen(s, T) \in Seq(S \cap T) /\ Chosen(s, T) \in Seq(S)
<1>1. Each(s, Keep(S, T)) \in Seq(Seq(S \cap T))
  BY KeepType, EachType
<1>2. Chosen(s, T) \in Seq(S \cap T)
  BY <1>1, ChosenEach, FlattenType
<1>. QED  BY <1>2, SeqMonotonic

\* Nothing is chosen from nothing.
LEMMA ChosenEmpty ==
  ASSUME NEW T
  PROVE  Chosen(<<>>, T) = <<>>
<1>1. Chosen(<<>>, T) = FlattenSeq(Each(<<>>, Keep({}, T)))
  BY ChosenEach, EmptySeq
<1>. QED  BY <1>1, EachEmpty, FlattenEmpty

\* A further element is chosen or it is not.
LEMMA ChosenAppend ==
  ASSUME NEW S, NEW s \in Seq(S), NEW x \in S, NEW T
  PROVE  Chosen(Append(s, x), T) = IF x \in T THEN Append(Chosen(s, T), x) ELSE Chosen(s, T)
<1> DEFINE k == Keep(S, T)
<1>1. \A y \in S : k[y] \in Seq(S)
  <2>1. Seq(S \cap T) \subseteq Seq(S)
    BY SeqMonotonic
  <2>. QED  BY <2>1, KeepType
<1>2. Chosen(Append(s, x), T) = FlattenSeq(Each(Append(s, x), k))
  BY ChosenEach, AppendProperties
<1>3. Each(Append(s, x), k) = Append(Each(s, k), k[x])
  <2> HIDE DEF k
  <2>. QED  BY <1>1, EachAppend
<1>4. Each(s, k) \in Seq(Seq(S)) /\ k[x] \in Seq(S)
  <2> HIDE DEF k
  <2>. QED  BY <1>1, EachType
<1>5. FlattenSeq(Append(Each(s, k), k[x])) = FlattenSeq(Each(s, k)) \o k[x]
  <2> HIDE DEF k
  <2>. QED  BY <1>4, FlattenAppend
<1>6. FlattenSeq(Each(s, k)) = Chosen(s, T)
  BY ChosenEach
<1>7. Chosen(s, T) \in Seq(S)
  BY ChosenType
<1>8. Chosen(Append(s, x), T) = Chosen(s, T) \o k[x]
  BY <1>2, <1>3, <1>5, <1>6
<1>9. k[x] = IF x \in T THEN <<x>> ELSE <<>>
  BY DEF Keep
<1>. HIDE DEF k
<1>10. CASE x \in T
  BY <1>7, <1>8, <1>9, <1>10, AppendIsConcat
<1>11. CASE x \notin T
  BY <1>7, <1>8, <1>9, <1>11, ConcatEmptySeq
<1>. QED  BY <1>10, <1>11

\* A single part is the whole.
LEMMA FlattenOne ==
  ASSUME NEW S, NEW x \in Seq(S)
  PROVE  FlattenSeq(<<x>>) = x
<1>1. <<>> \in Seq(Seq(S)) /\ Append(<<>>, x) = <<x>>
  BY EmptySeq
<1>2. FlattenSeq(Append(<<>>, x)) = FlattenSeq(<<>>) \o x
  BY <1>1, FlattenAppend
<1>3. <<>> \o x = x
  BY ConcatEmptySeq
<1>. QED  BY <1>1, <1>2, <1>3, FlattenEmpty

\* Each goes through concatenation.
LEMMA EachConcat ==
  ASSUME NEW S, NEW s \in Seq(S), NEW t \in Seq(S), NEW f
  PROVE  Each(s \o t, f) = Each(s, f) \o Each(t, f)
<1> DEFINE R == {f[y] : y \in S}
<1>r. \A y \in S : f[y] \in R
  OBVIOUS
<1> HIDE DEF R
<1> DEFINE G == {r \in Seq(S) : Each(s \o r, f) = Each(s, f) \o Each(r, f)}
<1>0. \A r \in Seq(S) : Each(r, f) \in Seq(R)
  BY <1>r, EachType
<1>1. <<>> \in G
  BY <1>0, EachEmpty, ConcatEmptySeq, EmptySeq
<1>2. ASSUME NEW r \in Seq(S), NEW x \in S, r \in G
      PROVE  Append(r, x) \in G
  <2>1. s \o Append(r, x) = Append(s \o r, x)
    BY ConcatAppend
  <2>2. Each(Append(s \o r, x), f) = Append(Each(s \o r, f), f[x])
    <3>1. s \o r \in Seq(S)
      BY ConcatProperties
    <3>. QED  BY <3>1, EachAppend
  <2>3. Each(Append(r, x), f) = Append(Each(r, f), f[x])
    BY EachAppend
  <2>4. Each(s, f) \o Append(Each(r, f), f[x]) = Append(Each(s, f) \o Each(r, f), f[x])
    <3>1. Each(s, f) \in Seq(R) /\ Each(r, f) \in Seq(R) /\ f[x] \in R
      BY <1>0, <1>r
    <3>. QED  BY <3>1, ConcatAppend
  <2>. QED  BY <1>2, <2>1, <2>2, <2>3, <2>4, AppendProperties
<1>3. \A r \in Seq(S) : r \in G
  <2> HIDE DEF G
  <2>. QED  BY <1>1, <1>2, BuildUp
<1>. QED  BY <1>3

\* So does Chosen.
LEMMA ChosenConcat ==
  ASSUME NEW S, NEW s \in Seq(S), NEW t \in Seq(S), NEW T
  PROVE  Chosen(s \o t, T) = Chosen(s, T) \o Chosen(t, T)
<1> DEFINE k == Keep(S, T)
<1>1. \A y \in S : k[y] \in Seq(S)
  <2>1. Seq(S \cap T) \subseteq Seq(S)
    BY SeqMonotonic
  <2>. QED  BY <2>1, KeepType
<1>2. Chosen(s \o t, T) = FlattenSeq(Each(s \o t, k))
  BY ChosenEach, ConcatProperties
<1>3. Chosen(s, T) = FlattenSeq(Each(s, k)) /\ Chosen(t, T) = FlattenSeq(Each(t, k))
  BY ChosenEach
<1>. HIDE DEF k
<1>4. Each(s, k) \in Seq(Seq(S)) /\ Each(t, k) \in Seq(Seq(S))
  BY <1>1, EachType
<1>5. Each(s \o t, k) = Each(s, k) \o Each(t, k)
  BY EachConcat
<1>6. FlattenSeq(Each(s, k) \o Each(t, k)) = FlattenSeq(Each(s, k)) \o FlattenSeq(Each(t, k))
  BY <1>4, FlattenConcat
<1>. QED  BY <1>2, <1>3, <1>5, <1>6

\* Sets that agree on the elements choose the same.
LEMMA ChosenSame ==
  ASSUME NEW S, NEW s \in Seq(S), NEW T, NEW U,
         \A n \in 1..Len(s) : s[n] \in T <=> s[n] \in U
  PROVE  Chosen(s, T) = Chosen(s, U)
<1>1. DOMAIN s = 1..Len(s)
  BY LenProperties
<1>2. [n \in DOMAIN s |-> IF s[n] \in T THEN <<s[n]>> ELSE <<>>]
      = [n \in DOMAIN s |-> IF s[n] \in U THEN <<s[n]>> ELSE <<>>]
  BY <1>1
<1>. QED  BY <1>2 DEF Chosen

\* A set that holds all elements chooses all of them.
LEMMA ChosenAll ==
  ASSUME NEW S, NEW s \in Seq(S), NEW T, S \subseteq T
  PROVE  Chosen(s, T) = s
<1> DEFINE G == {r \in Seq(S) : Chosen(r, T) = r}
<1>1. <<>> \in G
  BY ChosenEmpty, EmptySeq
<1>2. ASSUME NEW r \in Seq(S), NEW x \in S, r \in G
      PROVE  Append(r, x) \in G
  BY <1>2, ChosenAppend, AppendProperties
<1>3. \A r \in Seq(S) : r \in G
  <2> HIDE DEF G
  <2>. QED  BY <1>1, <1>2, BuildUp
<1>. QED  BY <1>3

\* A set that holds none chooses none.
LEMMA ChosenNone ==
  ASSUME NEW S, NEW s \in Seq(S), NEW T, S \cap T = {}
  PROVE  Chosen(s, T) = <<>>
<1>1. Chosen(s, T) \in Seq({})
  BY ChosenType
<1>. QED  BY <1>1, EmptySeq, ElementOfSeq, LenProperties

\* The elements of a longer sequence.
LEMMA RangeOfAppend ==
  ASSUME NEW S, NEW s \in Seq(S), NEW x \in S
  PROVE  Range(Append(s, x)) = Range(s) \cup {x}
<1>1. /\ DOMAIN s = 1..Len(s) /\ DOMAIN Append(s, x) = 1..(Len(s) + 1) /\ Len(s) \in Nat
      /\ Append(s, x)[Len(s) + 1] = x /\ \A i \in 1..Len(s) : Append(s, x)[i] = s[i]
  BY Longer, LenProperties
<1>. QED  BY <1>1 DEF Range

\* The elements chosen are those of the set.
LEMMA ChosenElements ==
  ASSUME NEW S, NEW s \in Seq(S), NEW T
  PROVE  Range(Chosen(s, T)) = Range(s) \cap T
<1> DEFINE G == {r \in Seq(S) : Range(Chosen(r, T)) = Range(r) \cap T}
<1>0. \A r \in Seq(S), x \in S : Range(Append(r, x)) = Range(r) \cup {x}
  <2> SUFFICES ASSUME NEW r \in Seq(S), NEW x \in S
               PROVE  Range(Append(r, x)) = Range(r) \cup {x}
    OBVIOUS
  <2>1. /\ DOMAIN r = 1..Len(r) /\ DOMAIN Append(r, x) = 1..(Len(r) + 1) /\ Len(r) \in Nat
        /\ Append(r, x)[Len(r) + 1] = x /\ \A i \in 1..Len(r) : Append(r, x)[i] = r[i]
    BY Longer, LenProperties
  <2>. QED  BY <2>1 DEF Range
<1>1. <<>> \in G
  <2>1. Range(<<>>) = {}
    BY EmptySeq DEF Range
  <2>. QED  BY <2>1, ChosenEmpty, EmptySeq
<1>2. ASSUME NEW r \in Seq(S), NEW x \in S, r \in G
      PROVE  Append(r, x) \in G
  <2>1. Range(Append(r, x)) = Range(r) \cup {x}
    BY <1>0
  <2>2. Chosen(r, T) \in Seq(S)
    BY ChosenType
  <2>3. Range(Append(Chosen(r, T), x)) = Range(Chosen(r, T)) \cup {x}
    BY <1>0, <2>2
  <2>4. Chosen(Append(r, x), T) = IF x \in T THEN Append(Chosen(r, T), x) ELSE Chosen(r, T)
    BY ChosenAppend
  <2>5. Append(r, x) \in Seq(S)
    BY AppendProperties
  <2>. QED  BY <1>2, <2>1, <2>3, <2>4, <2>5
<1>3. \A r \in Seq(S) : r \in G
  <2> HIDE DEF G
  <2>. QED  BY <1>1, <1>2, BuildUp
<1>. QED  BY <1>3

(***************************************************************************)
(* Blocks and what is taken from them.                                     *)
(***************************************************************************)

Block == [kind : {"text", "call", "prompt", "result"}, key : Keys \cup {0}, parts : Seq(Pieces)]
Kinded(kind) == {b \in Block : b.kind = kind}
NotText == {b \in Block : b.kind # "text"}

\* Functions to go through a sequence with.
PartsOf == [b \in Block |-> b.parts]
ResultFor == [k \in Keys |-> [kind |-> "result", key |-> k, parts |-> <<>>]]
CallOf == [k \in Keys |-> CallBlock(k)]
BlocksOf == [k \in Keys |-> IF k \in calls THEN <<CallBlock(k)>> ELSE TextBlocks(pending[k])]

Numbers(n) == [k \in 1..n |-> k]

(***************************************************************************)
(* The invariant.                                                          *)
(***************************************************************************)

ItemsOf(kind) == {k \in Keys : k \in DOMAIN items /\ items[k] = kind}
TextPieces == {p \in Pieces : p.item \in ItemsOf("text")}
PiecesOf(k) == {p \in Pieces : p.item = k}

\* What the decoder collects under a key.
Kept(k) == k \in ItemsOf("call") \/ (provider = "anthropic" /\ k \in ItemsOf("text"))

\* What the deltas under a key show.
Delta == [key : Keys \cup {0}, piece : Pieces]
DeltasOf(key) == {e \in Delta : e.key = key}
PieceOf == [e \in Delta |-> e.piece]
ShownUnder(key) ==
  LET of == Select(events, LAMBDA e : e.key = key) IN [n \in DOMAIN of |-> of[n].piece]

\* Every piece belongs to an item that was begun, and a call is whole when the last
\* piece of it says so.
PiecesKnown ==
  /\ DOMAIN items \subseteq Keys
  /\ \A n \in DOMAIN heard : heard[n].item \in DOMAIN items
  /\ \A k \in Keys : Whole(k) <=> HeardOf(k) # <<>> /\ Last(HeardOf(k)).last

Collected ==
  /\ calls = ItemsOf("call")
  /\ pending = [k \in Keys |-> IF Kept(k) THEN HeardOf(k) ELSE <<>>]

RunsTogether == provider # "anthropic" => text = TextHeard /\ order = CallsBegun

\* Anthropic's blocks are kept in the order in which they came.
Sorted(s) == \A m, n \in DOMAIN s : m < n => s[m] < s[n]
BlocksInOrder ==
  /\ ItemsOf("call") \subseteq Range(order) /\ Range(order) \subseteq DOMAIN items
  /\ \A k \in Keys : pending[k] # <<>> => k \in Range(order)
  /\ Sorted(order)

\* The reply as it would be if the stream ended now.
ReplySays ==
  /\ TextOf(Reply) = TextHeard
  /\ OfKind(Reply, "call") = Each(CallsBegun, CallOf)

Displayed ==
  /\ ShownUnder(0) = TextHeard
  /\ \A k \in Keys : ShownUnder(k) = IF k \in ItemsOf("call") THEN HeardOf(k) ELSE <<>>

Faithful ==
  /\ PiecesKnown /\ Collected /\ RunsTogether /\ Displayed
  /\ provider = "anthropic" => BlocksInOrder /\ ReplySays

Decoded == pc \in {"streaming", "returned", "asking"} => Faithful

\* Between attempts nothing has been heard; the attempts are counted.
Attempts ==
  /\ pc \in {"sent", "sleeping"} => items = <<>> /\ heard = <<>>
  /\ pc # "idle" => tries # 0
  /\ pc = "sleeping" => tries < MaxTries

\* What is pushed for a turn, and what comes before the next one.
Turn(reply) == <<Prompt, Message("assistant", reply)>>
Answer(reply) == IF OfKind(reply, "call") = <<>> THEN <<>> ELSE <<Results(reply)>>
Asked(prompted) == IF prompted THEN <<Prompt>> ELSE <<>>
Conversation ==
  /\ pc = "returned" => history = Turn(Reply)
  /\ pc = "asking" => \E prompted \in BOOLEAN :
                          history = Turn(Reply) \o Answer(Reply) \o Asked(prompted)

StreamInv == TypeOK /\ Attempts /\ Decoded /\ Conversation

\* No pieces are a sequence of pieces.
LEMMA NoneIsPieces == <<>> \in Seq(Pieces)
BY EmptySeq

\* OfKind chooses a set of blocks.
LEMMA OfKindIs ==
  ASSUME NEW c \in Seq(Block), NEW kind
  PROVE  OfKind(c, kind) = Chosen(c, Kinded(kind))
<1>1. \A n \in DOMAIN c : c[n] \in Block
  BY LenProperties, ElementOfSeq
<1>2. \A n \in DOMAIN c : c[n].kind = kind <=> c[n] \in Kinded(kind)
  BY <1>1 DEF Kinded
<1>3. [n \in DOMAIN c |-> IF c[n].kind = kind THEN <<c[n]>> ELSE <<>>]
      = [n \in DOMAIN c |-> IF c[n] \in Kinded(kind) THEN <<c[n]>> ELSE <<>>]
  BY <1>2
<1>. QED  BY <1>3 DEF OfKind, Select, Chosen

\* Blocks of a kind are of that kind.
LEMMA OfKindType ==
  ASSUME NEW c \in Seq(Block), NEW kind
  PROVE  OfKind(c, kind) \in Seq(Kinded(kind)) /\ OfKind(c, kind) \in Seq(Block)
<1>1. Chosen(c, Kinded(kind)) \in Seq(Block \cap Kinded(kind))
  BY ChosenType
<1>2. Block \cap Kinded(kind) = Kinded(kind) /\ Kinded(kind) \subseteq Block
  BY DEF Kinded
<1>3. Chosen(c, Kinded(kind)) \in Seq(Kinded(kind))
  BY <1>1, <1>2
<1>. QED  BY <1>2, <1>3, OfKindIs, SeqMonotonic

\* Blocks of a kind in two contents, one after the other.
LEMMA OfKindConcat ==
  ASSUME NEW c \in Seq(Block), NEW d \in Seq(Block), NEW kind
  PROVE  OfKind(c \o d, kind) = OfKind(c, kind) \o OfKind(d, kind)
<1>1. c \o d \in Seq(Block)
  BY ConcatProperties
<1>2. OfKind(c \o d, kind) = Chosen(c \o d, Kinded(kind))
  BY <1>1, OfKindIs
<1>3. OfKind(c, kind) = Chosen(c, Kinded(kind)) /\ OfKind(d, kind) = Chosen(d, Kinded(kind))
  BY OfKindIs
<1>4. Chosen(c \o d, Kinded(kind)) = Chosen(c, Kinded(kind)) \o Chosen(d, Kinded(kind))
  BY ChosenConcat
<1>. QED  BY <1>2, <1>3, <1>4

\* The same of the calls.
LEMMA CallsConcat ==
  ASSUME NEW c \in Seq(Block), NEW d \in Seq(Block)
  PROVE  OfKind(c \o d, "call") = OfKind(c, "call") \o OfKind(d, "call")
BY OfKindConcat

\* All blocks are of the kind.
LEMMA OfKindAll ==
  ASSUME NEW kind, NEW c \in Seq(Kinded(kind))
  PROVE  c \in Seq(Block) /\ OfKind(c, kind) = c
<1>1. Kinded(kind) \subseteq Block
  BY DEF Kinded
<1>2. c \in Seq(Block)
  BY <1>1, SeqMonotonic
<1>3. Chosen(c, Kinded(kind)) = c
  BY ChosenAll
<1>. QED  BY <1>2, <1>3, OfKindIs

\* None is, where all are of another.
LEMMA OfKindNone ==
  ASSUME NEW kind, NEW other, kind # other, NEW c \in Seq(Kinded(other))
  PROVE  OfKind(c, kind) = <<>>
<1>1. c \in Seq(Block)
  BY OfKindAll
<1>2. Kinded(other) \cap Kinded(kind) = {}
  BY DEF Kinded
<1>3. Chosen(c, Kinded(kind)) = <<>>
  BY <1>2, ChosenNone
<1>. QED  BY <1>1, <1>3, OfKindIs

\* The text of a content is that of its text blocks.
LEMMA TextOfIs ==
  ASSUME NEW c \in Seq(Block)
  PROVE  /\ TextOf(c) = FlattenSeq(Each(OfKind(c, "text"), PartsOf))
         /\ Each(OfKind(c, "text"), PartsOf) \in Seq(Seq(Pieces))
<1> DEFINE texts == OfKind(c, "text")
<1>1. texts \in Seq(Block)
  BY OfKindType
<1>2. TextOf(c) = FlattenSeq([n \in DOMAIN texts |-> texts[n].parts])
  BY DEF TextOf
<1>. HIDE DEF texts
<1>3. \A n \in DOMAIN texts : texts[n] \in Block
  BY <1>1, LenProperties, ElementOfSeq
<1>4. Each(texts, PartsOf) = [n \in DOMAIN texts |-> texts[n].parts]
  BY <1>3 DEF Each, PartsOf
<1>5. \A b \in Block : PartsOf[b] \in Seq(Pieces)
  BY DEF Block, PartsOf
<1>6. Each(texts, PartsOf) \in Seq(Seq(Pieces))
  BY <1>1, <1>5, EachType
<1>. QED  BY <1>2, <1>4, <1>6 DEF texts

\* Text is made of pieces.
LEMMA TextOfType ==
  ASSUME NEW c \in Seq(Block)
  PROVE  TextOf(c) \in Seq(Pieces)
BY TextOfIs, FlattenType

\* The text of two contents.
LEMMA TextOfConcat ==
  ASSUME NEW c \in Seq(Block), NEW d \in Seq(Block)
  PROVE  TextOf(c \o d) = TextOf(c) \o TextOf(d)
<1>1. c \o d \in Seq(Block)
  BY ConcatProperties
<1>2. TextOf(c \o d) = FlattenSeq(Each(OfKind(c, "text") \o OfKind(d, "text"), PartsOf))
  BY <1>1, TextOfIs, OfKindConcat
<1>3. Each(OfKind(c, "text") \o OfKind(d, "text"), PartsOf)
      = Each(OfKind(c, "text"), PartsOf) \o Each(OfKind(d, "text"), PartsOf)
  <2>1. OfKind(c, "text") \in Seq(Block) /\ OfKind(d, "text") \in Seq(Block)
    BY OfKindType
  <2>. QED  BY <2>1, EachConcat
<1>4. /\ TextOf(c) = FlattenSeq(Each(OfKind(c, "text"), PartsOf))
      /\ TextOf(d) = FlattenSeq(Each(OfKind(d, "text"), PartsOf))
      /\ Each(OfKind(c, "text"), PartsOf) \in Seq(Seq(Pieces))
      /\ Each(OfKind(d, "text"), PartsOf) \in Seq(Seq(Pieces))
  BY TextOfIs
<1>5. FlattenSeq(Each(OfKind(c, "text"), PartsOf) \o Each(OfKind(d, "text"), PartsOf))
           = FlattenSeq(Each(OfKind(c, "text"), PartsOf))
                \o FlattenSeq(Each(OfKind(d, "text"), PartsOf))
  BY <1>4, FlattenConcat
<1>. QED  BY <1>2, <1>3, <1>4, <1>5

\* Blocks of which none is text.
LEMMA TextOfNone ==
  ASSUME NEW c \in Seq(Block), OfKind(c, "text") = <<>>
  PROVE  TextOf(c) = <<>>
BY TextOfIs, EachEmpty, FlattenEmpty

\* Blocks of another kind have no text.
LEMMA TextOfOther ==
  ASSUME NEW kind, kind # "text", NEW c \in Seq(Kinded(kind))
  PROVE  TextOf(c) = <<>>
BY OfKindNone, OfKindAll, TextOfNone

\* A block of text, or none if there is no text, has this text.
LEMMA TextBlocksAre ==
  ASSUME NEW p \in Seq(Pieces)
  PROVE  /\ TextBlocks(p) \in Seq(Kinded("text")) /\ TextBlocks(p) \in Seq(Block)
         /\ TextOf(TextBlocks(p)) = p
<1> DEFINE b == [kind |-> "text", key |-> 0, parts |-> p]
<1>1. b \in Kinded("text")
  BY DEF Kinded, Block
<1>2. CASE p = <<>>
  <2>1. TextBlocks(p) = <<>>
    BY <1>2 DEF TextBlocks
  <2>2. <<>> \in Seq(Kinded("text"))
    BY EmptySeq
  <2>3. <<>> \in Seq(Block) /\ OfKind(<<>>, "text") = <<>>
    BY <2>2, OfKindAll
  <2>. QED  BY <1>2, <2>1, <2>2, <2>3, TextOfNone
<1>3. CASE p # <<>>
  <2>1. TextBlocks(p) = <<b>>
    BY <1>3 DEF TextBlocks
  <2>2. <<b>> \in Seq(Kinded("text"))
    BY <1>1
  <2>3. <<b>> \in Seq(Block) /\ OfKind(<<b>>, "text") = <<b>>
    BY <2>2, OfKindAll
  <2>4. Each(<<b>>, PartsOf) = <<p>>
    <3>1. b \in Block
      BY <1>1 DEF Kinded
    <3>2. PartsOf[b] = p
      BY <3>1 DEF PartsOf
    <3>. QED  BY <3>2 DEF Each
  <2>5. TextOf(<<b>>) = FlattenSeq(<<p>>)
    BY <2>3, <2>4, TextOfIs
  <2>. QED  BY <2>1, <2>2, <2>3, <2>5, FlattenOne
<1>. QED  BY <1>2, <1>3

\* Parsed arguments are pieces.
LEMMA ParsedType ==
  ASSUME NEW p \in Seq(Pieces)
  PROVE  Parsed(p) \in Seq(Pieces)
BY NoneIsPieces DEF Parsed

\* The numbers up to n.
LEMMA NumbersAre ==
  ASSUME NEW n \in Nat
  PROVE  /\ Numbers(n) \in Seq(1..n) /\ Len(Numbers(n)) = n
         /\ \A k \in 1..n : Numbers(n)[k] = k
         /\ Numbers(n) \in Seq(Nat)
<1>1. Numbers(n) \in Seq(1..n) /\ Len(Numbers(n)) = n
  BY IsASeq DEF Numbers
<1>. QED  BY <1>1, SeqMonotonic DEF Numbers

\* The numbers up to the next one.
LEMMA OneMore ==
  ASSUME NEW n \in Nat
  PROVE  Numbers(n + 1) = Append(Numbers(n), n + 1)
<1> DEFINE a == Numbers(n + 1)
           b == Append(Numbers(n), n + 1)
<1>1. a \in Seq(Nat) /\ Len(a) = n + 1 /\ \A k \in 1..n+1 : a[k] = k
  BY NumbersAre
<1>2. /\ b \in Seq(Nat) /\ Len(b) = n + 1
      /\ b[n + 1] = n + 1 /\ \A k \in 1..n : b[k] = k
  <2>1. Numbers(n) \in Seq(Nat) /\ n + 1 \in Nat /\ Len(Numbers(n)) = n
    BY NumbersAre
  <2>2. \A k \in 1..n : Numbers(n)[k] = k
    BY NumbersAre
  <2>. QED  BY <2>1, <2>2, Longer
<1>. HIDE DEF a, b
<1>3. \A k \in 1..n+1 : a[k] = b[k]
  BY <1>1, <1>2
<1>4. a = b
  BY <1>1, <1>2, <1>3, SeqEqual
<1>. QED  BY <1>4 DEF a, b

\* Numbers beyond the last one chosen make no difference.
LEMMA ChosenNumbers ==
  ASSUME NEW n \in Nat, NEW m \in Nat, n <= m, NEW T \in SUBSET (1..n)
  PROVE  Chosen(Numbers(m), T) = Chosen(Numbers(n), T)
<1> DEFINE G == {d \in Nat : Chosen(Numbers(n + d), T) = Chosen(Numbers(n), T)}
<1>1. 0 \in G
  OBVIOUS
<1>2. ASSUME NEW d \in G PROVE d + 1 \in G
  <2>1. n + d \in Nat /\ n + (d + 1) = (n + d) + 1 /\ (n + d) + 1 \notin T
    OBVIOUS
  <2>2. Numbers((n + d) + 1) = Append(Numbers(n + d), (n + d) + 1)
    BY <2>1, OneMore
  <2>3. Numbers(n + d) \in Seq(Nat) /\ (n + d) + 1 \in Nat
    BY <2>1, NumbersAre
  <2>4. Chosen(Append(Numbers(n + d), (n + d) + 1), T) = Chosen(Numbers(n + d), T)
    BY <2>1, <2>3, ChosenAppend
  <2>5. Chosen(Numbers(n + d), T) = Chosen(Numbers(n), T)
    BY <1>2
  <2>6. Chosen(Numbers(n + (d + 1)), T) = Chosen(Numbers(n), T)
    BY <2>1, <2>2, <2>4, <2>5
  <2>. QED  BY <2>6
<1>3. \A d \in Nat : d \in G
  <2>1. G \in SUBSET Nat
    OBVIOUS
  <2> HIDE DEF G
  <2>. QED  BY <1>1, <1>2, <2>1, CountUp
<1>4. m - n \in Nat /\ n + (m - n) = m
  OBVIOUS
<1>. QED  BY <1>3, <1>4

\* A set in which no element of the sequence lies chooses none.
LEMMA ChosenNever ==
  ASSUME NEW S, NEW s \in Seq(S), NEW T, \A n \in 1..Len(s) : s[n] \notin T
  PROVE  Chosen(s, T) = <<>>
<1>1. Chosen(s, T) = Chosen(s, {})
  BY ChosenSame
<1>2. Chosen(s, {}) = <<>>
  BY ChosenNone
<1>. QED  BY <1>1, <1>2

(***************************************************************************)
(* The operators of the properties, as what is chosen from the state.      *)
(***************************************************************************)

\* What was heard of an item is chosen from what was heard.
LEMMA HeardOfIs ==
  TypeOK => \A j \in Keys : HeardOf(j) = Chosen(heard, PiecesOf(j))
<1> SUFFICES ASSUME TypeOK, NEW k \in Keys PROVE HeardOf(k) = Chosen(heard, PiecesOf(k))
  OBVIOUS
<1>1. \A n \in DOMAIN heard : heard[n].item = k <=> heard[n] \in PiecesOf(k)
  <2>1. \A n \in DOMAIN heard : heard[n] \in Pieces
    BY LenProperties, ElementOfSeq DEF TypeOK
  <2>. QED  BY <2>1 DEF PiecesOf
<1>2. [n \in DOMAIN heard |-> IF heard[n].item = k THEN <<heard[n]>> ELSE <<>>]
      = [n \in DOMAIN heard |-> IF heard[n] \in PiecesOf(k) THEN <<heard[n]>> ELSE <<>>]
  BY <1>1
<1>. QED  BY <1>2 DEF HeardOf, Select, Chosen

\* So is the text, as long as every piece belongs to an item.
LEMMA TextHeardIs ==
  TypeOK /\ PiecesKnown => TextHeard = Chosen(heard, TextPieces)
<1> SUFFICES ASSUME TypeOK, PiecesKnown PROVE TextHeard = Chosen(heard, TextPieces)
  OBVIOUS
<1>1. \A n \in DOMAIN heard : items[heard[n].item] = "text" <=> heard[n] \in TextPieces
  <2>1. \A n \in DOMAIN heard : heard[n] \in Pieces
    BY LenProperties, ElementOfSeq DEF TypeOK
  <2>2. \A n \in DOMAIN heard : heard[n].item \in DOMAIN items /\ heard[n].item \in Keys
    BY DEF PiecesKnown
  <2>. QED  BY <2>1, <2>2 DEF TextPieces, ItemsOf
<1>2. [n \in DOMAIN heard |-> IF items[heard[n].item] = "text" THEN <<heard[n]>> ELSE <<>>]
      = [n \in DOMAIN heard |-> IF heard[n] \in TextPieces THEN <<heard[n]>> ELSE <<>>]
  BY <1>1
<1>. QED  BY <1>2 DEF TextHeard, Select, Chosen

\* The calls that were begun are chosen from the numbers of the items.
LEMMA CallsBegunIs ==
  TypeOK /\ PiecesKnown => CallsBegun = Chosen(Numbers(Len(items)), ItemsOf("call"))
<1> SUFFICES ASSUME TypeOK, PiecesKnown
             PROVE  CallsBegun = Chosen(Numbers(Len(items)), ItemsOf("call"))
  OBVIOUS
<1>1. DOMAIN items = 1..Len(items) /\ Len(items) \in Nat
  BY LenProperties DEF TypeOK
<1>2. [i \in DOMAIN items |-> i] = Numbers(Len(items))
  BY <1>1 DEF Numbers
<1> DEFINE s == Numbers(Len(items))
<1>3. \A n \in DOMAIN s : items[s[n]] = "call" <=> s[n] \in ItemsOf("call")
  BY <1>1 DEF ItemsOf, Numbers, PiecesKnown
<1>4. [n \in DOMAIN s |-> IF items[s[n]] = "call" THEN <<s[n]>> ELSE <<>>]
      = [n \in DOMAIN s |-> IF s[n] \in ItemsOf("call") THEN <<s[n]>> ELSE <<>>]
  BY <1>3
<1>. HIDE DEF s
<1>5. CallsBegun = Chosen(s, ItemsOf("call"))
  BY <1>2, <1>4 DEF CallsBegun, Select, Chosen, s
<1>. QED  BY <1>5 DEF s

\* The deltas under a key are chosen from the deltas.
LEMMA ShownUnderIs ==
  TypeOK => \A j \in Keys \cup {0} :
              ShownUnder(j) = Each(Chosen(events, DeltasOf(j)), PieceOf)
<1> SUFFICES ASSUME TypeOK, NEW key \in Keys \cup {0}
             PROVE  ShownUnder(key) = Each(Chosen(events, DeltasOf(key)), PieceOf)
  OBVIOUS
<1>0. events \in Seq(Delta)
  BY DEF TypeOK, Delta
<1>1. \A n \in DOMAIN events : events[n].key = key <=> events[n] \in DeltasOf(key)
  <2>1. \A n \in DOMAIN events : events[n] \in Delta
    BY <1>0, LenProperties, ElementOfSeq
  <2>. QED  BY <2>1 DEF DeltasOf
<1>2. [n \in DOMAIN events |-> IF events[n].key = key THEN <<events[n]>> ELSE <<>>]
      = [n \in DOMAIN events |-> IF events[n] \in DeltasOf(key) THEN <<events[n]>> ELSE <<>>]
  BY <1>1
<1> DEFINE of == Chosen(events, DeltasOf(key))
<1>3. ShownUnder(key) = [n \in DOMAIN of |-> of[n].piece]
  BY <1>2 DEF ShownUnder, Select, Chosen
<1>4. of \in Seq(Delta)
  BY <1>0, ChosenType
<1>. HIDE DEF of
<1>5. \A n \in DOMAIN of : PieceOf[of[n]] = of[n].piece
  <2>1. \A n \in DOMAIN of : of[n] \in Delta
    BY <1>4, LenProperties, ElementOfSeq
  <2>. QED  BY <2>1 DEF PieceOf
<1>6. ShownUnder(key) = Each(of, PieceOf)
  BY <1>3, <1>5 DEF Each
<1>. QED  BY <1>6 DEF of

\* The same of the state that a step leads to.
LEMMA ChosenNext ==
  TypeOK' =>
    /\ \A j \in Keys : HeardOf(j)' = Chosen(heard', PiecesOf(j))
    /\ PiecesKnown' => TextHeard' = Chosen(heard', TextPieces')
    /\ PiecesKnown' => CallsBegun' = Chosen(Numbers(Len(items')), ItemsOf("call")')
    /\ \A j \in Keys \cup {0} :
         ShownUnder(j)' = Each(Chosen(events', DeltasOf(j)), PieceOf)
<1>1. (TypeOK => \A j \in Keys : HeardOf(j) = Chosen(heard, PiecesOf(j)))'
  BY HeardOfIs, PTL
<1>2. (TypeOK /\ PiecesKnown => TextHeard = Chosen(heard, TextPieces))'
  BY TextHeardIs, PTL
<1>3. (TypeOK /\ PiecesKnown => CallsBegun = Chosen(Numbers(Len(items)), ItemsOf("call")))'
  BY CallsBegunIs, PTL
<1>4. (TypeOK => \A j \in Keys \cup {0} :
         ShownUnder(j) = Each(Chosen(events, DeltasOf(j)), PieceOf))'
  BY ShownUnderIs, PTL
<1>. QED  BY <1>1, <1>2, <1>3, <1>4

(***************************************************************************)
(* The reply as sequences of blocks.                                       *)
(***************************************************************************)

\* The blocks that a reply is made of.
LEMMA BlocksAre ==
  TypeOK => \A k \in Keys : /\ CallBlock(k) \in Kinded("call") /\ CallOf[k] = CallBlock(k)
                            /\ BlocksOf[k] \in Seq(Block)
                            /\ pending[k] \in Seq(Pieces)
<1> SUFFICES ASSUME TypeOK, NEW k \in Keys
             PROVE  /\ CallBlock(k) \in Kinded("call") /\ CallOf[k] = CallBlock(k)
                    /\ BlocksOf[k] \in Seq(Block)
                    /\ pending[k] \in Seq(Pieces)
  OBVIOUS
<1>1. pending[k] \in Seq(Pieces)
  BY DEF TypeOK
<1>2. CallBlock(k) \in Kinded("call")
  BY <1>1, ParsedType DEF CallBlock, Kinded, Block
<1>3. <<CallBlock(k)>> \in Seq(Block)
  <2>1. CallBlock(k) \in Block
    BY <1>2 DEF Kinded
  <2>. QED  BY <2>1
<1>4. BlocksOf[k] \in Seq(Block)
  BY <1>1, <1>3, TextBlocksAre DEF BlocksOf
<1>. QED  BY <1>1, <1>2, <1>4 DEF CallOf

\* The replies of the three clients, each as a sequence through a function.
LEMMA RepliesAre ==
  TypeOK => /\ AnthropicReply = FlattenSeq(Each(order, BlocksOf))
            /\ CodexReply = TextBlocks(text) \o Each(order, CallOf)
            /\ OpenAiReply = TextBlocks(text)
                               \o Each(Chosen(Numbers(MaxItems), Range(order)), CallOf)
<1> SUFFICES ASSUME TypeOK
             PROVE  /\ AnthropicReply = FlattenSeq(Each(order, BlocksOf))
                    /\ CodexReply = TextBlocks(text) \o Each(order, CallOf)
                    /\ OpenAiReply = TextBlocks(text)
                                       \o Each(Chosen(Numbers(MaxItems), Range(order)), CallOf)
  OBVIOUS
<1>1. \A n \in DOMAIN order : order[n] \in Keys
  BY LenProperties, ElementOfSeq DEF TypeOK
<1>2. AnthropicReply = FlattenSeq(Each(order, BlocksOf))
  BY <1>1 DEF AnthropicReply, Each, BlocksOf
<1>3. CodexReply = TextBlocks(text) \o Each(order, CallOf)
  BY <1>1 DEF CodexReply, Each, CallOf
<1>4. OpenAiReply = TextBlocks(text) \o Each(Chosen(Numbers(MaxItems), Range(order)), CallOf)
  <2> DEFINE s == Numbers(MaxItems)
             keys == Chosen(s, Range(order))
  <2>1. [k \in Keys |-> k] = s
    BY DEF Keys, Numbers
  <2>2. \A n \in DOMAIN s : Contains(order, s[n]) <=> s[n] \in Range(order)
    BY LenProperties DEF Contains, Range, TypeOK
  <2>3. [n \in DOMAIN s |-> IF Contains(order, s[n]) THEN <<s[n]>> ELSE <<>>]
        = [n \in DOMAIN s |-> IF s[n] \in Range(order) THEN <<s[n]>> ELSE <<>>]
    BY <2>2
  <2>4. OpenAiReply = TextBlocks(text) \o [n \in DOMAIN keys |-> CallBlock(keys[n])]
    <3>1. Select(s, LAMBDA k : Contains(order, k)) = keys
      BY <2>3 DEF Select, Chosen
    <3>2. OpenAiReply =
            TextBlocks(text) \o
              LET of == Select(s, LAMBDA k : Contains(order, k))
              IN [n \in DOMAIN of |-> CallBlock(of[n])]
      BY <2>1 DEF OpenAiReply
    <3>. QED  BY <3>1, <3>2
  <2>5. \A n \in DOMAIN keys : keys[n] \in Keys
    <3>1. s \in Seq(Keys)
      BY NumbersAre, StreamAssumption DEF Keys
    <3>2. keys \in Seq(Keys)
      BY <3>1, ChosenType
    <3>. QED  BY <3>2, LenProperties, ElementOfSeq
  <2>. HIDE DEF keys
  <2>6. [n \in DOMAIN keys |-> CallBlock(keys[n])] = Each(keys, CallOf)
    BY <2>5 DEF Each, CallOf
  <2>. QED  BY <2>4, <2>6 DEF keys
<1>. QED  BY <1>2, <1>3, <1>4

\* Keys in the order of the numbers are the calls in the order in which they were begun.
LEMMA BegunAre ==
  TypeOK /\ PiecesKnown =>
    /\ CallsBegun \in Seq(Keys)
    /\ Range(CallsBegun) = ItemsOf("call")
    /\ Chosen(Numbers(MaxItems), ItemsOf("call")) = CallsBegun
<1> SUFFICES ASSUME TypeOK, PiecesKnown
             PROVE  /\ CallsBegun \in Seq(Keys)
                    /\ Range(CallsBegun) = ItemsOf("call")
                    /\ Chosen(Numbers(MaxItems), ItemsOf("call")) = CallsBegun
  OBVIOUS
<1> DEFINE n == Len(items)
<1>1. n \in Nat /\ DOMAIN items = 1..n /\ MaxItems \in Nat /\ n <= MaxItems
  <2>1. n \in Nat /\ DOMAIN items = 1..n
    BY LenProperties DEF TypeOK
  <2>2. n # 0 => n \in 1..MaxItems
    BY <2>1 DEF PiecesKnown, Keys
  <2>. QED  BY <2>1, <2>2, StreamAssumption
<1>2. CallsBegun = Chosen(Numbers(n), ItemsOf("call"))
  BY CallsBegunIs
<1>3. ItemsOf("call") \subseteq 1..n
  BY <1>1 DEF ItemsOf
<1>. HIDE DEF n
<1>4. Numbers(n) \in Seq(1..n) /\ Range(Numbers(n)) = 1..n
  <2>1. Numbers(n) \in Seq(1..n)
    BY <1>1, NumbersAre
  <2>2. Range(Numbers(n)) = 1..n
    BY <1>1 DEF Range, Numbers
  <2>. QED  BY <2>1, <2>2
<1>5. Chosen(Numbers(n), ItemsOf("call")) \in Seq((1..n) \cap ItemsOf("call"))
  BY <1>4, ChosenType
<1>6. (1..n) \cap ItemsOf("call") \subseteq Keys
  BY DEF ItemsOf
<1>7. CallsBegun \in Seq(Keys)
  <2>1. Seq((1..n) \cap ItemsOf("call")) \subseteq Seq(Keys)
    BY <1>6, SeqMonotonic
  <2>. QED  BY <2>1, <1>2, <1>5
<1>8. Range(CallsBegun) = ItemsOf("call")
  <2>1. Range(Chosen(Numbers(n), ItemsOf("call"))) = Range(Numbers(n)) \cap ItemsOf("call")
    BY <1>4, ChosenElements
  <2>. QED  BY <1>2, <1>3, <1>4, <2>1
<1>9. Chosen(Numbers(MaxItems), ItemsOf("call")) = CallsBegun
  BY <1>1, <1>2, <1>3, ChosenNumbers
<1>. QED  BY <1>7, <1>8, <1>9

\* What the clients that keep one run of text put together.
LEMMA OthersSay ==
  TypeOK /\ PiecesKnown /\ Collected /\ RunsTogether /\ provider # "anthropic" =>
    /\ Reply = TextBlocks(text) \o Each(CallsBegun, CallOf)
    /\ ReplySays
<1> SUFFICES ASSUME TypeOK, PiecesKnown, Collected, RunsTogether, provider # "anthropic"
             PROVE  /\ Reply = TextBlocks(text) \o Each(CallsBegun, CallOf)
                    /\ ReplySays
  OBVIOUS
<1>1. text = TextHeard /\ order = CallsBegun /\ text \in Seq(Pieces)
  BY DEF RunsTogether, TypeOK
<1>2. Reply = TextBlocks(text) \o Each(CallsBegun, CallOf)
  <2>1. OpenAiReply = TextBlocks(text) \o Each(CallsBegun, CallOf)
    BY <1>1, RepliesAre, BegunAre
  <2>2. CodexReply = TextBlocks(text) \o Each(CallsBegun, CallOf)
    BY <1>1, RepliesAre
  <2>3. provider \in {"openai", "codex"}
    BY StreamAssumption DEF TypeOK
  <2>. QED  BY <2>1, <2>2, <2>3 DEF Reply
<1>3. Each(CallsBegun, CallOf) \in Seq(Kinded("call"))
  <2>1. CallsBegun \in Seq(Keys)
    BY BegunAre
  <2>2. \A k \in Keys : CallOf[k] \in Kinded("call")
    BY BlocksAre
  <2>. QED  BY <2>1, <2>2, EachType
<1> DEFINE t == TextBlocks(text)
           c == Each(CallsBegun, CallOf)
<1>4. t \in Seq(Kinded("text")) /\ t \in Seq(Block) /\ TextOf(t) = text
  BY <1>1, TextBlocksAre
<1>5. c \in Seq(Kinded("call")) /\ c \in Seq(Block) /\ OfKind(c, "call") = c
  BY <1>3, OfKindAll
<1>. HIDE DEF t, c
<1>6. TextOf(t \o c) = text
  <2>1. TextOf(t \o c) = TextOf(t) \o TextOf(c)
    BY <1>4, <1>5, TextOfConcat
  <2>2. TextOf(c) = <<>>
    BY <1>5, TextOfOther
  <2>. QED  BY <1>1, <1>4, <2>1, <2>2, ConcatEmptySeq
<1>7. OfKind(t \o c, "call") = c
  <2>1. OfKind(t \o c, "call") = OfKind(t, "call") \o OfKind(c, "call")
    BY <1>4, <1>5, OfKindConcat
  <2>2. OfKind(t, "call") = <<>>
    BY <1>4, OfKindNone
  <2>. QED  BY <1>5, <2>1, <2>2, ConcatEmptySeq
<1>8. Reply = t \o c
  BY <1>2 DEF t, c
<1>9. TextOf(Reply) = TextHeard
  BY <1>1, <1>6, <1>8
<1>10. OfKind(Reply, "call") = Each(CallsBegun, CallOf)
  BY <1>7, <1>8 DEF c
<1>. QED  BY <1>2, <1>9, <1>10 DEF ReplySays

\* The reply of the Anthropic client in the next state.
LEMMA RepliesNext ==
  TypeOK' => AnthropicReply' = FlattenSeq(Each(order', BlocksOf'))
<1>1. (TypeOK => /\ AnthropicReply = FlattenSeq(Each(order, BlocksOf))
                 /\ CodexReply = TextBlocks(text) \o Each(order, CallOf)
                 /\ OpenAiReply = TextBlocks(text)
                                    \o Each(Chosen(Numbers(MaxItems), Range(order)), CallOf))'
  BY RepliesAre, PTL
<1>. QED  BY <1>1

\* The blocks in the next state.
LEMMA BlocksNext ==
  TypeOK' => \A k \in Keys : /\ CallOf'[k] \in Kinded("call") /\ BlocksOf'[k] \in Seq(Block)
                             /\ pending'[k] \in Seq(Pieces)
<1>1. (TypeOK => \A k \in Keys : /\ CallBlock(k) \in Kinded("call") /\ CallOf[k] = CallBlock(k)
                                 /\ BlocksOf[k] \in Seq(Block)
                                 /\ pending[k] \in Seq(Pieces))'
  BY BlocksAre, PTL
<1>. QED  BY <1>1

(***************************************************************************)
(* Steps that leave what was heard and decoded alone, or begin afresh.     *)
(***************************************************************************)

\* The reply depends on the decoder alone.
LEMMA ReplyKept ==
  ASSUME UNCHANGED <<provider, decoder>>
  PROVE  Reply' = Reply /\ CallOf' = CallOf /\ BlocksOf' = BlocksOf
BY DEF decoder, Reply, AnthropicReply, OpenAiReply, CodexReply, CallOf, BlocksOf, CallBlock

\* A step that changes neither the server nor the decoder keeps them together.
LEMMA FaithfulKept ==
  ASSUME UNCHANGED <<provider, server, decoder>>, Faithful
  PROVE  Faithful'
<1>1. /\ Reply' = Reply /\ CallOf' = CallOf
  BY ReplyKept
<1>2. /\ TextHeard' = TextHeard /\ CallsBegun' = CallsBegun
      /\ \A k \in Keys : HeardOf(k)' = HeardOf(k) /\ (Whole(k)' <=> Whole(k))
  BY DEF server, TextHeard, CallsBegun, HeardOf, Whole, Select
<1>3. \A k \in Keys \cup {0} : ShownUnder(k)' = ShownUnder(k)
  BY DEF decoder, ShownUnder, Select
<1>4. /\ \A kind : ItemsOf(kind)' = ItemsOf(kind)
      /\ \A k \in Keys : Kept(k)' <=> Kept(k)
  BY DEF server, ItemsOf, Kept
<1>5. /\ provider' = provider /\ items' = items /\ heard' = heard /\ order' = order
      /\ calls' = calls /\ pending' = pending /\ text' = text
  BY DEF server, decoder
<1>6. PiecesKnown'
  BY <1>2, <1>5 DEF Faithful, PiecesKnown
<1>7. Collected'
  BY <1>2, <1>4, <1>5 DEF Faithful, Collected
<1>8. RunsTogether'
  BY <1>2, <1>5 DEF Faithful, RunsTogether
<1>9. Displayed'
  BY <1>2, <1>3, <1>4 DEF Faithful, Displayed
<1>10. (provider = "anthropic" => BlocksInOrder /\ ReplySays)'
  BY <1>1, <1>2, <1>4, <1>5 DEF Faithful, BlocksInOrder, ReplySays
<1>. QED  BY <1>6, <1>7, <1>8, <1>9, <1>10 DEF Faithful

\* A decoder that has just been made is faithful to a response of which nothing came.
LEMMA FreshIsFaithful ==
  ASSUME TypeOK', items' = <<>>, heard' = <<>>, FreshAccum
  PROVE  Faithful'
<1>0. /\ order' = <<>> /\ calls' = {} /\ text' = <<>> /\ events' = <<>>
      /\ pending' = [k \in Keys |-> <<>>]
  BY DEF FreshAccum
<1>1. DOMAIN <<>> = {} /\ Len(<<>>) = 0
  BY EmptySeq
<1>2. \A kind : ItemsOf(kind)' = {}
  BY <1>1 DEF ItemsOf
<1>3. \A k \in Keys : HeardOf(k)' = <<>>
  <2>. QED  BY ChosenNext, ChosenEmpty
<1>4. PiecesKnown'
  BY <1>1, <1>3 DEF PiecesKnown, Whole
<1>5. TextHeard' = <<>>
  <2>. QED  BY <1>4, ChosenNext, ChosenEmpty
<1>6. CallsBegun' = <<>>
  <2>2. Numbers(0) = <<>>
    BY NumbersAre, EmptySeq
  <2>. QED  BY <1>1, <1>4, ChosenNext, <2>2, ChosenEmpty
<1>7. \A k \in Keys \cup {0} : ShownUnder(k)' = <<>>
  <2>. QED  BY <1>0, ChosenNext, ChosenEmpty, EachEmpty
<1>8. Collected'
  BY <1>0, <1>2, <1>3 DEF Collected, Kept
<1>9. RunsTogether'
  BY <1>0, <1>5, <1>6 DEF RunsTogether
<1>10. Displayed'
  BY <1>2, <1>5, <1>7 DEF Displayed
<1>11. BlocksInOrder'
  BY <1>0, <1>1, <1>2 DEF BlocksInOrder, Sorted, Range
<1>12. (provider = "anthropic" => ReplySays)'
  <2> SUFFICES ASSUME provider' = "anthropic" PROVE ReplySays'
    OBVIOUS
  <2>2. Reply' = <<>>
    <3>1. Reply' = AnthropicReply'
      BY DEF Reply
    <3>. QED  BY <1>0, <3>1, RepliesNext, EachEmpty, FlattenEmpty
  <2>3. <<>> \in Seq(Kinded("prompt"))
    BY EmptySeq
  <2>4. TextOf(<<>>) = <<>> /\ OfKind(<<>>, "call") = <<>>
    BY <2>3, TextOfOther, OfKindNone
  <2>. QED  BY <1>5, <1>6, <2>2, <2>4, EachEmpty DEF ReplySays
<1>. QED  BY <1>4, <1>8, <1>9, <1>10, <1>11, <1>12 DEF Faithful

(***************************************************************************)
(* What the server's steps do to what it is taken to have said.            *)
(***************************************************************************)

\* What a new item changes in what the server has said.
LEMMA ServerBegins ==
  ASSUME TypeOK, TypeOK', PiecesKnown, NEW kind \in Kinds, NEW i, i = Len(items) + 1,
         i <= MaxItems, items' = Append(items, kind), heard' = heard
  PROVE  /\ i \in Keys /\ i \notin DOMAIN items /\ DOMAIN items' = DOMAIN items \cup {i}
         /\ \A k \in DOMAIN items : items'[k] = items[k]
         /\ \A j : ItemsOf(j)' = IF j = kind THEN ItemsOf(j) \cup {i} ELSE ItemsOf(j)
         /\ PiecesKnown'
         /\ \A k \in Keys : HeardOf(k)' = HeardOf(k)
         /\ HeardOf(i) = <<>>
         /\ TextHeard' = TextHeard
         /\ CallsBegun' = IF kind = "call" THEN Append(CallsBegun, i) ELSE CallsBegun
<1>1. /\ i \in Nat /\ Len(items) \in Nat /\ DOMAIN items = 1..Len(items) /\ Len(items') = i
      /\ DOMAIN items' = 1..i /\ items'[i] = kind
        /\ \A k \in 1..Len(items) : items'[k] = items[k]
  <2>1. items \in Seq(Kinds)
    BY DEF TypeOK
  <2>. QED  BY <2>1, Longer, LenProperties
<1>2. i \in Keys /\ i \notin DOMAIN items /\ DOMAIN items' = DOMAIN items \cup {i}
  BY <1>1, StreamAssumption DEF Keys
<1>3. \A j : ItemsOf(j)' = IF j = kind THEN ItemsOf(j) \cup {i} ELSE ItemsOf(j)
  BY <1>1, <1>2 DEF ItemsOf
<1>4. \A k \in Keys : HeardOf(k)' = HeardOf(k)
  BY DEF HeardOf, Select
<1>5. PiecesKnown'
  BY <1>2, <1>4 DEF PiecesKnown, Whole
<1>6. heard \in Seq(Pieces) /\ DOMAIN heard = 1..Len(heard)
      /\ \A n \in 1..Len(heard) : heard[n] \in Pieces /\ heard[n].item \in DOMAIN items
  BY LenProperties, ElementOfSeq DEF TypeOK, PiecesKnown
<1>7. HeardOf(i) = <<>>
  <2>1. HeardOf(i) = Chosen(heard, PiecesOf(i))
    BY <1>2, HeardOfIs
  <2>2. \A n \in 1..Len(heard) : heard[n] \notin PiecesOf(i)
    BY <1>2, <1>6 DEF PiecesOf
  <2>. QED  BY <1>6, <2>1, <2>2, ChosenNever
<1>8. TextHeard' = TextHeard
  <2>2. TextHeard' = Chosen(heard, TextPieces')
    BY <1>5, ChosenNext
  <2>3. TextHeard = Chosen(heard, TextPieces)
    BY TextHeardIs
  <2>4. \A n \in 1..Len(heard) : heard[n] \in TextPieces <=> heard[n] \in TextPieces'
    BY <1>2, <1>3, <1>6 DEF TextPieces
  <2>5. Chosen(heard, TextPieces) = Chosen(heard, TextPieces')
    BY <1>6, <2>4, ChosenSame
  <2>. QED  BY <2>2, <2>3, <2>5
<1>9. CallsBegun' = IF kind = "call" THEN Append(CallsBegun, i) ELSE CallsBegun
  <2> DEFINE C == ItemsOf("call")
             s == Numbers(Len(items))
  <2>2. CallsBegun' = Chosen(Numbers(i), C')
    BY <1>1, <1>5, ChosenNext
  <2>3. CallsBegun = Chosen(s, C)
    BY CallsBegunIs
  <2>4. Numbers(i) = Append(s, i)
    BY <1>1, OneMore
  <2>5. s \in Seq(Nat) /\ Len(s) = Len(items) /\ \A k \in 1..Len(items) : s[k] = k
    BY <1>1, NumbersAre
  <2>6. C \subseteq 1..Len(items)
    BY <1>1 DEF ItemsOf
  <2>7. C' = IF kind = "call" THEN C \cup {i} ELSE C
    BY <1>3
  <2>. HIDE DEF s, C
  <2>8. Chosen(s, C') = Chosen(s, C)
    <3>1. \A k \in 1..Len(s) : s[k] \in C' <=> s[k] \in C
      BY <1>1, <2>5, <2>7
    <3>. QED  BY <2>5, <3>1, ChosenSame
  <2>9. i \in C' <=> kind = "call"
    BY <1>1, <2>6, <2>7
  <2>10. Chosen(Append(s, i), C') = IF i \in C' THEN Append(Chosen(s, C'), i) ELSE Chosen(s, C')
    BY <1>1, <2>5, ChosenAppend
  <2>. QED  BY <2>2, <2>3, <2>4, <2>8, <2>9, <2>10
<1>. QED  BY <1>1, <1>2, <1>3, <1>4, <1>5, <1>7, <1>8, <1>9

\* What a new piece changes in it.
LEMMA ServerSays ==
  ASSUME TypeOK, TypeOK', PiecesKnown, NEW i \in DOMAIN items, NEW piece \in Pieces,
         piece.item = i, ~Whole(i), heard' = Append(heard, piece), items' = items
  PROVE  /\ i \in Keys
         /\ \A j : ItemsOf(j)' = ItemsOf(j)
         /\ PiecesKnown'
         /\ \A k \in Keys : HeardOf(k)' = IF k
           = i THEN Append(HeardOf(k), piece) ELSE HeardOf(k)
         /\ TextHeard' = IF i \in ItemsOf("text") THEN Append(TextHeard, piece) ELSE TextHeard
         /\ CallsBegun' = CallsBegun
<1>1. i \in Keys
  BY DEF PiecesKnown
<1>2. \A j : ItemsOf(j)' = ItemsOf(j)
  BY DEF ItemsOf
<1>3. CallsBegun' = CallsBegun
  BY DEF CallsBegun, Select
<1>4. /\ heard \in Seq(Pieces) /\ Len(heard) \in Nat /\ DOMAIN heard = 1..Len(heard)
      /\ DOMAIN heard' = 1..(Len(heard) + 1) /\ heard'[Len(heard) + 1] = piece
      /\ \A n \in 1..Len(heard) : heard'[n] = heard[n]
  <2>1. heard \in Seq(Pieces) /\ heard' \in Seq(Pieces)
    BY DEF TypeOK
  <2>. QED  BY <2>1, Longer, LenProperties
<1>5. \A k \in Keys : /\ HeardOf(k)' = IF k = i THEN Append(HeardOf(k), piece) ELSE HeardOf(k)
                      /\ HeardOf(k) \in Seq(Pieces)
  <2> SUFFICES ASSUME NEW k \in Keys
               PROVE  /\ HeardOf(k)' = IF k = i THEN Append(HeardOf(k), piece) ELSE HeardOf(k)
                      /\ HeardOf(k) \in Seq(Pieces)
    OBVIOUS
  <2>2. HeardOf(k)' = Chosen(Append(heard, piece), PiecesOf(k))
    BY ChosenNext
  <2>3. HeardOf(k) = Chosen(heard, PiecesOf(k))
    BY HeardOfIs
  <2>4. Chosen(Append(heard, piece), PiecesOf(k))
        = IF piece \in PiecesOf(k) THEN Append(Chosen(heard, PiecesOf(k)), piece)
                                   ELSE Chosen(heard, PiecesOf(k))
    BY <1>4, ChosenAppend
  <2>5. piece \in PiecesOf(k) <=> k = i
    BY DEF PiecesOf
  <2>6. Chosen(heard, PiecesOf(k)) \in Seq(Pieces)
    BY <1>4, ChosenType
  <2>. QED  BY <2>2, <2>3, <2>4, <2>5, <2>6
<1>6. PiecesKnown'
  <2>1. \A n \in DOMAIN heard' : heard'[n].item \in DOMAIN items'
    BY <1>4 DEF PiecesKnown
  <2>2. ASSUME NEW k \in Keys
        PROVE  Whole(k)' <=> HeardOf(k)' # <<>> /\ Last(HeardOf(k)').last
    <3>1. Whole(k)' <=> Whole(k) \/ (k = i /\ piece.last)
      BY <1>4 DEF Whole
    <3>2. CASE k = i
      <4>1. HeardOf(k)' = Append(HeardOf(k), piece) /\ HeardOf(k) \in Seq(Pieces)
        BY <1>5, <3>2
      <4>2. HeardOf(k)' # <<>> /\ Last(HeardOf(k)') = piece
        BY <4>1, AppendProperties DEF Last
      <4>. QED  BY <3>1, <3>2, <4>2
    <3>3. CASE k # i
      BY <1>5, <3>1, <3>3 DEF PiecesKnown
    <3>. QED  BY <3>2, <3>3
  <2>. QED  BY <2>1, <2>2 DEF PiecesKnown
<1>7. TextHeard' = IF i \in ItemsOf("text") THEN Append(TextHeard, piece) ELSE TextHeard
  <2>2. TextPieces' = TextPieces
    BY <1>2 DEF TextPieces
  <2>3. TextHeard' = Chosen(Append(heard, piece), TextPieces)
    BY <1>6, ChosenNext, <2>2
  <2>4. TextHeard = Chosen(heard, TextPieces)
    BY TextHeardIs
  <2>5. piece \in TextPieces <=> i \in ItemsOf("text")
    BY DEF TextPieces
  <2>6. Chosen(Append(heard, piece), TextPieces)
        = IF piece \in TextPieces THEN Append(Chosen(heard, TextPieces), piece)
                                  ELSE Chosen(heard, TextPieces)
    BY <1>4, ChosenAppend
  <2>. QED  BY <2>3, <2>4, <2>5, <2>6
<1>. QED  BY <1>1, <1>2, <1>3, <1>5, <1>6, <1>7

\* A delta is shown under its key and no other.
LEMMA ShowsOne ==
  ASSUME TypeOK, TypeOK', NEW key \in Keys \cup {0}, NEW piece \in Pieces, Show(key, piece)
  PROVE  \A k \in Keys \cup {0} :
           ShownUnder(k)' = IF k = key THEN Append(ShownUnder(k), piece) ELSE ShownUnder(k)
<1> DEFINE e == [key |-> key, piece |-> piece]
<1>1. events \in Seq(Delta) /\ e \in Delta /\ events' = Append(events, e)
  BY DEF TypeOK, Delta, Show
<1> SUFFICES ASSUME NEW k \in Keys \cup {0}
             PROVE  ShownUnder(k)'
                      = IF k = key THEN Append(ShownUnder(k), piece) ELSE ShownUnder(k)
  OBVIOUS
<1>3. e \in DeltasOf(k) <=> k = key
  BY <1>1 DEF DeltasOf
<1>4. PieceOf[e] = piece
  BY <1>1 DEF PieceOf
<1>. HIDE DEF e
<1>5. ShownUnder(k)' = Each(Chosen(Append(events, e), DeltasOf(k)), PieceOf)
  BY <1>1, ChosenNext
<1>6. ShownUnder(k) = Each(Chosen(events, DeltasOf(k)), PieceOf)
  BY ShownUnderIs
<1>7. Chosen(Append(events, e), DeltasOf(k))
      = IF e \in DeltasOf(k) THEN Append(Chosen(events, DeltasOf(k)), e)
                             ELSE Chosen(events, DeltasOf(k))
  BY <1>1, ChosenAppend
<1>8. Chosen(events, DeltasOf(k)) \in Seq(Delta)
  BY <1>1, ChosenType
<1>9. Each(Append(Chosen(events, DeltasOf(k)), e), PieceOf)
      = Append(Each(Chosen(events, DeltasOf(k)), PieceOf), PieceOf[e])
  BY <1>1, <1>8, EachAppend
<1>. QED  BY <1>3, <1>4, <1>5, <1>6, <1>7, <1>9

(***************************************************************************)
(* The decoders' steps.                                                    *)
(***************************************************************************)

\* A key more in the order is its blocks more in the reply.
LEMMA BlocksAppend ==
  ASSUME NEW o \in Seq(Keys), NEW k \in Keys, NEW B, \A j \in Keys : B[j] \in Seq(Block)
  PROVE  /\ FlattenSeq(Each(o, B)) \in Seq(Block)
         /\ FlattenSeq(Each(Append(o, k), B)) = FlattenSeq(Each(o, B)) \o B[k]
<1>1. Each(o, B) \in Seq(Seq(Block))
  BY EachType
<1>2. Each(Append(o, k), B) = Append(Each(o, B), B[k])
  BY EachAppend
<1>3. FlattenSeq(Append(Each(o, B), B[k])) = FlattenSeq(Each(o, B)) \o B[k]
  BY <1>1, FlattenAppend
<1>. QED  BY <1>1, <1>2, <1>3, FlattenType

\* In a sorted sequence the greatest element is the last.
LEMMA GreatestIsLast ==
  ASSUME NEW o \in Seq(Keys), Sorted(o), NEW k \in Range(o), \A j \in Range(o) : j <= k
  PROVE  \E front \in Seq(Keys) : o = Append(front, k) /\ k \notin Range(front)
<1>1. DOMAIN o = 1..Len(o) /\ Len(o) \in Nat /\ \A n \in 1..Len(o) : o[n] \in Keys
  BY LenProperties, ElementOfSeq
<1>2. PICK m \in 1..Len(o) : o[m] = k
  BY <1>1 DEF Range
<1>3. o # <<>>
  BY <1>1, <1>2, EmptySeq
<1>4. PICK front \in Seq(Keys), x \in Keys : o = Append(front, x)
  BY <1>3, SequenceEmptyOrAppend
<1>5. /\ Len(o) = Len(front) + 1 /\ o[Len(o)] = x /\ Len(front) \in Nat
      /\ DOMAIN front = 1..Len(front) /\ \A n \in 1..Len(front) : front[n] = o[n]
  BY <1>4, Longer, LenProperties
<1>6. x \in Range(o)
  BY <1>1, <1>5 DEF Range
<1>7. \A n \in 1..Len(front) : o[n] < x
  BY <1>1, <1>5 DEF Sorted
<1>8. x \in Nat /\ k \in Nat /\ \A n \in 1..Len(o) : o[n] \in Nat
  BY <1>1, <1>2 DEF Keys
<1>9. x = k
  <2>1. CASE m = Len(o)
    BY <1>2, <1>5, <2>1
  <2>2. CASE m # Len(o)
    <3>1. m \in 1..Len(front)
      BY <1>1, <1>2, <1>5, <2>2
    <3>2. k < x /\ x <= k
      BY <1>2, <1>6, <1>7, <3>1
    <3>. QED  BY <1>8, <3>2
  <2>. QED  BY <2>1, <2>2
<1>10. k \notin Range(front)
  <2> SUFFICES ASSUME NEW n \in 1..Len(front), front[n] = k PROVE FALSE
    BY <1>5 DEF Range
  <2>1. o[n] = k /\ o[n] < k
    BY <1>5, <1>7, <1>9
  <2>. QED  BY <1>8, <2>1
<1>. QED  BY <1>4, <1>9, <1>10

\* Only items that were begun are in the order.
LEMMA OrderIn ==
  TypeOK /\ Faithful => Range(order) \subseteq DOMAIN items /\ Range(order) \subseteq Keys
<1> SUFFICES ASSUME TypeOK, Faithful
             PROVE  Range(order) \subseteq DOMAIN items /\ Range(order) \subseteq Keys
  OBVIOUS
<1>1. CASE provider = "anthropic"
  BY <1>1 DEF Faithful, BlocksInOrder, PiecesKnown
<1>2. CASE provider # "anthropic"
  <2>1. order = CallsBegun
    BY <1>2 DEF Faithful, RunsTogether
  <2>2. Range(order) = ItemsOf("call")
    BY <2>1, BegunAre DEF Faithful
  <2>. QED  BY <2>2 DEF ItemsOf
<1>. QED  BY <1>1, <1>2

\* A call that has just been opened, or a block of another kind, has nothing in it.
LEMMA BeginsFaithful ==
  ASSUME TypeOK, TypeOK', Faithful, NEW kind \in Kinds, NEW announced \in BOOLEAN,
         announced \/ (provider = "anthropic" /\ kind = "text"), Begins(kind, announced)
  PROVE  Faithful'
<1> DEFINE i == Len(items) + 1
           opens == announced /\ (provider = "anthropic" \/ kind = "call")
<1>0. /\ items' = Append(items, kind) /\ heard' = heard /\ pending' = pending /\ text' = text
      /\ events' = events /\ provider' = provider /\ i <= MaxItems
      /\ PiecesKnown /\ Collected /\ RunsTogether /\ Displayed
      /\ provider = "anthropic" => BlocksInOrder /\ ReplySays
  BY DEF Begins, Faithful
<1>1. /\ i \in Keys /\ i \notin DOMAIN items /\ DOMAIN items' = DOMAIN items \cup {i}
      /\ \A k \in DOMAIN items : items'[k] = items[k]
      /\ \A j : ItemsOf(j)' = IF j = kind THEN ItemsOf(j) \cup {i} ELSE ItemsOf(j)
      /\ PiecesKnown'
      /\ \A k \in Keys : HeardOf(k)' = HeardOf(k)
      /\ HeardOf(i) = <<>>
      /\ TextHeard' = TextHeard
      /\ CallsBegun' = IF kind = "call" THEN Append(CallsBegun, i) ELSE CallsBegun
  <2> HIDE DEF i
  <2>. QED  BY <1>0, ServerBegins DEF i
<1>2. /\ i \notin Range(order)
      /\ order' = IF opens THEN Append(order, i) ELSE order
      /\ calls' = IF kind = "call" THEN calls \cup {i} ELSE calls
  <2>1. i \notin Range(order)
    BY <1>1, OrderIn
  <2>2. ~Contains(order, i)
    BY <2>1, LenProperties DEF Contains, Range, TypeOK
  <2>3. kind = "call" => opens
    OBVIOUS
  <2>4. IF opens THEN Opened(i, kind) ELSE order' = order /\ calls' = calls
    BY DEF Begins
  <2>. HIDE DEF i, opens
  <2>. QED  BY <2>1, <2>2, <2>3, <2>4 DEF Opened
<1>. HIDE DEF i
<1>3. pending[i] = <<>> /\ \A j : i \notin ItemsOf(j)
  BY <1>0, <1>1 DEF Collected, Kept, ItemsOf
<1>4. Collected'
  <2>1. calls' = ItemsOf("call")'
    BY <1>0, <1>1, <1>2 DEF Collected
  <2>2. \A k \in Keys : pending[k] = IF Kept(k)' THEN HeardOf(k)' ELSE <<>>
    <3> SUFFICES ASSUME NEW k \in Keys
                 PROVE  pending[k] = IF Kept(k)' THEN HeardOf(k)' ELSE <<>>
      OBVIOUS
    <3>1. CASE k = i
      BY <1>1, <1>3, <3>1
    <3>2. CASE k # i
      <4>1. Kept(k)' <=> Kept(k)
        BY <1>0, <1>1, <3>2 DEF Kept
      <4>. QED  BY <1>0, <1>1, <4>1 DEF Collected
    <3>. QED  BY <3>1, <3>2
  <2>3. pending = [k \in Keys |-> pending[k]]
    BY <1>0 DEF Collected
  <2>. QED  BY <1>0, <2>1, <2>2, <2>3 DEF Collected
<1>5. RunsTogether'
  BY <1>0, <1>1, <1>2 DEF RunsTogether
<1>6. Displayed'
  <2>1. \A k \in Keys \cup {0} : ShownUnder(k)' = ShownUnder(k)
    BY <1>0 DEF ShownUnder, Select
  <2>2. ASSUME NEW k \in Keys
        PROVE  ShownUnder(k)' = IF k \in ItemsOf("call")' THEN HeardOf(k)' ELSE <<>>
    <3>1. CASE k = i
      BY <1>0, <1>1, <1>3, <2>1, <3>1 DEF Displayed
    <3>2. CASE k # i
      <4>1. k \in ItemsOf("call")' <=> k \in ItemsOf("call")
        BY <1>1, <3>2
      <4>. QED  BY <1>0, <1>1, <2>1, <4>1 DEF Displayed
    <3>. QED  BY <3>1, <3>2
  <2>. QED  BY <1>0, <1>1, <2>1, <2>2 DEF Displayed
<1>7. ASSUME provider = "anthropic" PROVE BlocksInOrder'
  <2>1. order \in Seq(Keys) /\ BlocksInOrder
    BY <1>0, <1>7 DEF TypeOK
  <2>2. Range(order') = IF opens THEN Range(order) \cup {i} ELSE Range(order)
    <3>1. Range(Append(order, i)) = Range(order) \cup {i}
      BY <1>1, <2>1, RangeOfAppend
    <3>. QED  BY <1>2, <3>1
  <2>3. kind = "call" => opens
    OBVIOUS
  <2>4. ItemsOf("call")' \subseteq Range(order') /\ Range(order') \subseteq DOMAIN items'
    BY <1>1, <2>1, <2>2, <2>3 DEF BlocksInOrder
  <2>5. \A k \in Keys : pending'[k] # <<>> => k \in Range(order')
    BY <1>0, <2>1, <2>2 DEF BlocksInOrder
  <2>6. Sorted(order')
    <3>1. CASE ~opens
      BY <1>2, <2>1, <3>1 DEF BlocksInOrder
    <3>2. CASE opens
      <4>1. /\ DOMAIN order = 1..Len(order) /\ DOMAIN order' = 1..(Len(order) + 1)
            /\ Len(order) \in Nat /\ order'[Len(order) + 1] = i
            /\ \A n \in 1..Len(order) : order'[n] = order[n]
        BY <1>1, <1>2, <2>1, <3>2, Longer, LenProperties
      <4>2. \A n \in 1..Len(order) : order[n] < i
        <5>1. \A n \in 1..Len(order) : order[n] \in DOMAIN items
          BY <2>1, <4>1 DEF BlocksInOrder, Range
        <5>2. DOMAIN items = 1..Len(items) /\ Len(items) \in Nat
          BY LenProperties DEF TypeOK
        <5>. QED  BY <5>1, <5>2 DEF i
      <4>. QED  BY <2>1, <4>1, <4>2 DEF BlocksInOrder, Sorted
    <3>. QED  BY <3>1, <3>2
  <2>. QED  BY <2>4, <2>5, <2>6 DEF BlocksInOrder
<1>8. ASSUME provider = "anthropic" PROVE ReplySays'
  <2> DEFINE P == FlattenSeq(Each(order, BlocksOf))
  <2>1. order \in Seq(Keys) /\ ReplySays /\ \A k \in Keys : BlocksOf[k] \in Seq(Block)
    BY <1>0, <1>8, BlocksAre DEF TypeOK
  <2>2. Reply = P /\ Reply' = FlattenSeq(Each(order', BlocksOf'))
    BY <1>0, <1>8, RepliesAre, RepliesNext DEF Reply
  <2>3. P \in Seq(Block)
    BY <1>1, <2>1, BlocksAppend
  <2>4. /\ CallOf' = CallOf
        /\ \A k \in Keys : k # i => BlocksOf'[k] = BlocksOf[k]
        /\ BlocksOf'[i] = IF kind = "call" THEN <<CallOf[i]>> ELSE <<>>
    <3>1. CallOf' = CallOf
      BY <1>0 DEF CallOf, CallBlock
    <3>2. calls' \ {i} = calls \ {i} /\ (i \in calls' <=> kind = "call")
      BY <1>0, <1>1, <1>2, <1>3 DEF Collected
    <3>3. TextBlocks(pending[i]) = <<>>
      BY <1>3 DEF TextBlocks
    <3>. QED  BY <1>0, <1>1, <3>1, <3>2, <3>3 DEF BlocksOf, CallOf, CallBlock
  <2>5. Each(order, BlocksOf') = Each(order, BlocksOf)
    <3>1. \A k \in Range(order) : BlocksOf'[k] = BlocksOf[k]
      BY <1>2, <2>4, OrderIn
    <3>. QED  BY <2>1, <3>1, EachSame
  <2>6. Reply' = IF kind = "call" THEN P \o <<CallOf[i]>> ELSE P
    <3>1. \A k \in Keys : BlocksOf'[k] \in Seq(Block)
      BY BlocksNext
    <3>2. CASE opens
      <4>1. FlattenSeq(Each(Append(order, i), BlocksOf'))
            = FlattenSeq(Each(order, BlocksOf')) \o BlocksOf'[i]
        BY <1>1, <2>1, <3>1, BlocksAppend
      <4>2. Reply' = P \o BlocksOf'[i]
        BY <1>2, <2>2, <2>5, <3>2, <4>1
      <4>3. P \o <<>> = P
        BY <2>3, ConcatEmptySeq
      <4>. QED  BY <2>4, <4>2, <4>3
    <3>3. CASE ~opens
      BY <1>2, <1>8, <2>2, <2>5, <3>3
    <3>. QED  BY <3>2, <3>3
  <2>. HIDE DEF P
  <2>7. CASE kind # "call"
    BY <1>1, <2>1, <2>2, <2>4, <2>6, <2>7 DEF ReplySays
  <2>8. CASE kind = "call"
    <3> DEFINE b == <<CallOf[i]>>
    <3>1. CallOf[i] \in Kinded("call")
      BY <1>1, BlocksAre
    <3>2. b \in Seq(Kinded("call"))
      BY <3>1
    <3>3. b \in Seq(Block) /\ OfKind(b, "call") = b /\ TextOf(b) = <<>>
      BY <3>2, OfKindAll, TextOfOther
    <3>. HIDE DEF b
    <3>4. TextOf(Reply') = TextHeard'
      <4>1. TextOf(P \o b) = TextOf(P) \o TextOf(b)
        BY <2>3, <3>3, TextOfConcat
      <4>2. TextOf(P) \o <<>> = TextOf(P)
        BY <2>3, TextOfType, ConcatEmptySeq
      <4>. QED  BY <1>1, <2>1, <2>2, <2>6, <2>8, <3>3, <4>1, <4>2 DEF ReplySays, b
    <3>5. OfKind(Reply', "call") = Each(CallsBegun', CallOf')
      <4>1. OfKind(P \o b, "call") = OfKind(P, "call") \o b
        BY <2>3, <3>3, CallsConcat
      <4>2. CallsBegun \in Seq(Keys)
        BY <1>0, BegunAre
      <4>3. Each(Append(CallsBegun, i), CallOf) = Append(Each(CallsBegun, CallOf), CallOf[i])
        BY <1>1, <4>2, EachAppend
      <4>4. OfKind(P, "call") = Each(CallsBegun, CallOf) /\ OfKind(P, "call") \in Seq(Block)
        BY <2>1, <2>2, <2>3, OfKindType DEF ReplySays
      <4>5. CallOf[i] \in Block
        BY <3>1 DEF Kinded
      <4>6. Append(OfKind(P, "call"), CallOf[i]) = OfKind(P, "call") \o b
        BY <4>4, <4>5, AppendIsConcat DEF b
      <4>. QED  BY <1>1, <2>4, <2>6, <2>8, <4>1, <4>3, <4>4, <4>6 DEF b
    <3>. QED  BY <3>4, <3>5 DEF ReplySays
  <2>. QED  BY <2>7, <2>8
<1>. QED  BY <1>0, <1>1, <1>4, <1>5, <1>6, <1>7, <1>8 DEF Faithful

\* If the last item is a call, it is the call that was begun last.
LEMMA LastBegun ==
  ASSUME TypeOK, PiecesKnown, Len(items) \in ItemsOf("call")
  PROVE  \E e \in Seq(Keys) : CallsBegun = Append(e, Len(items)) /\ Len(items) \notin Range(e)
<1> DEFINE n == Len(items)
           C == ItemsOf("call")
           e == Chosen(Numbers(n - 1), C)
<1>1. n \in Nat \ {0} /\ n \in Keys /\ DOMAIN items = 1..n /\ C \subseteq Keys
  BY LenProperties DEF TypeOK, ItemsOf
<1>2. CallsBegun = Chosen(Numbers(n), C)
  BY CallsBegunIs
<1>. HIDE DEF n, C
<1>3. n - 1 \in Nat /\ (n - 1) + 1 = n
  BY <1>1
<1>4. Numbers(n) = Append(Numbers(n - 1), n)
  <2>1. Numbers((n - 1) + 1) = Append(Numbers(n - 1), (n - 1) + 1)
    BY <1>3, OneMore
  <2>. QED  BY <1>3, <2>1
<1>5. Numbers(n - 1) \in Seq(1..(n - 1)) /\ Numbers(n - 1) \in Seq(Nat)
  BY <1>3, NumbersAre
<1>6. Chosen(Append(Numbers(n - 1), n), C) = Append(e, n)
  <2>1. n \in C
    BY DEF n, C
  <2>2. Numbers(n - 1) \in Seq(Nat) /\ n \in Nat
    BY <1>1, <1>5
  <2>. HIDE DEF e
  <2>3. Chosen(Append(Numbers(n - 1), n), C)
        = IF n \in C THEN Append(Chosen(Numbers(n - 1), C), n) ELSE Chosen(Numbers(n - 1), C)
    BY <2>2, ChosenAppend
  <2>. QED  BY <2>1, <2>3 DEF e
<1>7. e \in Seq((1..(n - 1)) \cap C)
  BY <1>5, ChosenType
<1>8. e \in Seq(Keys) /\ n \notin Range(e)
  <2>1. Seq((1..(n - 1)) \cap C) \subseteq Seq(Keys)
    BY <1>1, SeqMonotonic
  <2>2. \A k \in Range(e) : k \in 1..(n - 1)
    BY <1>7, LenProperties, ElementOfSeq DEF Range
  <2>. QED  BY <1>1, <1>7, <2>1, <2>2
<1>9. CallsBegun = Append(e, n)
  BY <1>2, <1>4, <1>6
<1>. QED  BY <1>8, <1>9 DEF n

\* A piece goes where the pieces of its item go, whichever item it belongs to.
LEMMA HearsFaithful ==
  ASSUME TypeOK, TypeOK', Faithful, tries # 0,
         NEW i \in Keys, NEW last \in BOOLEAN, Hears(i, last)
  PROVE  Faithful'
<1> DEFINE piece == [item |-> i, try |-> tries, at |-> Len(heard) + 1, last |-> last]
           inText == i \in ItemsOf("text")
           inCall == i \in ItemsOf("call")
<1>0. /\ i \in DOMAIN items /\ ~Whole(i) /\ (provider = "anthropic" => i = Len(items))
      /\ heard' = Append(heard, piece) /\ items' = items /\ provider' = provider
      /\ IF provider = "anthropic" THEN AnthropicHears(i, piece) ELSE OthersHear(i, piece)
      /\ PiecesKnown /\ Collected /\ RunsTogether /\ Displayed
      /\ provider = "anthropic" => BlocksInOrder /\ ReplySays
  BY DEF Hears, Faithful
<1>1. piece \in Pieces /\ piece.item = i
  <2>1. tries \in 1..MaxTries
    BY StreamAssumption DEF TypeOK
  <2>2. Len(heard) + 1 \in 1..MaxPieces
    BY StreamAssumption, LenProperties DEF Hears, TypeOK
  <2>. QED  BY <2>1, <2>2 DEF Pieces
<1>2. /\ items[i] \in Kinds
      /\ inText <=> items[i] = "text"
      /\ inCall <=> items[i] = "call"
  BY <1>0, LenProperties, ElementOfSeq DEF TypeOK, ItemsOf
<1>3. /\ calls' = calls
      /\ pending' = IF Kept(i) THEN [pending EXCEPT ![i] = Append(@, piece)] ELSE pending
      /\ IF inText THEN Show(0, piece) ELSE IF inCall THEN Show(i, piece) ELSE events' = events
      /\ provider # "anthropic" => /\ order' = order
                                   /\ text' = IF inText THEN Append(text, piece) ELSE text
      /\ provider = "anthropic" =>
           order' = IF Contains(order, i) THEN order ELSE Append(order, i)
  <2>1. CASE provider = "anthropic"
    <3>1. AnthropicHears(i, piece)
      BY <1>0, <2>1
    <3>2. Kept(i) <=> items[i] # "other"
      BY <1>2, <2>1 DEF Kept, Kinds
    <3>. HIDE DEF piece
    <3>. QED  BY <1>2, <2>1, <3>1, <3>2 DEF AnthropicHears, Opened, Kinds
  <2>2. CASE provider # "anthropic"
    <3>1. OthersHear(i, piece)
      BY <1>0, <2>2
    <3>2. Kept(i) <=> items[i] = "call"
      BY <1>2, <2>2 DEF Kept
    <3>. HIDE DEF piece
    <3>3. CASE items[i] = "text"
      BY <1>2, <2>2, <3>1, <3>2, <3>3 DEF OthersHear
    <3>4. CASE items[i] = "call"
      BY <1>2, <2>2, <3>1, <3>2, <3>4 DEF OthersHear
    <3>5. CASE items[i] = "other"
      BY <1>2, <2>2, <3>1, <3>2, <3>5 DEF OthersHear
    <3>. QED  BY <1>2, <3>3, <3>4, <3>5 DEF Kinds
  <2>. QED  BY <2>1, <2>2
<1>. HIDE DEF piece
<1>4. /\ \A j : ItemsOf(j)' = ItemsOf(j)
      /\ PiecesKnown'
      /\ \A k \in Keys : HeardOf(k)' = IF k = i THEN Append(HeardOf(k), piece) ELSE HeardOf(k)
      /\ TextHeard' = IF inText THEN Append(TextHeard, piece) ELSE TextHeard
      /\ CallsBegun' = CallsBegun
  BY <1>0, <1>1, ServerSays
<1>5. ~(inText /\ inCall)
  BY <1>2
<1>. HIDE DEF inText, inCall
<1>6. Collected'
  <2>1. calls' = ItemsOf("call")'
    BY <1>0, <1>3, <1>4 DEF Collected
  <2>2. \A k \in Keys : Kept(k)' <=> Kept(k)
    BY <1>0, <1>4 DEF Kept
  <2>3. \A k \in Keys : pending[k] = IF Kept(k) THEN HeardOf(k) ELSE <<>>
    BY <1>0 DEF Collected
  <2>4. pending \in [Keys -> Seq(Pieces)]
    BY DEF TypeOK
  <2>5. pending' = [k \in Keys |-> IF Kept(k)' THEN HeardOf(k)' ELSE <<>>]
    <3>1. CASE Kept(i)
      BY <1>3, <1>4, <2>2, <2>3, <2>4, <3>1
    <3>2. CASE ~Kept(i)
      BY <1>3, <1>4, <2>2, <2>3, <2>4, <3>2
    <3>. QED  BY <3>1, <3>2
  <2>. QED  BY <2>1, <2>5 DEF Collected
<1>7. RunsTogether'
  BY <1>0, <1>3, <1>4 DEF RunsTogether
<1>8. Displayed'
  <2>1. /\ ShownUnder(0) = TextHeard
        /\ \A k \in Keys : ShownUnder(k) = IF k \in ItemsOf("call") THEN HeardOf(k) ELSE <<>>
        /\ 0 \notin Keys
    BY <1>0 DEF Displayed, Keys
  <2>2. CASE inText
    <3>1. \A k \in Keys \cup {0} :
            ShownUnder(k)' = IF k = 0 THEN Append(ShownUnder(k), piece) ELSE ShownUnder(k)
      BY <1>1, <1>3, <2>2, ShowsOne
    <3>. QED  BY <1>4, <1>5, <2>1, <2>2, <3>1 DEF Displayed, inCall
  <2>3. CASE inCall
    <3>1. \A k \in Keys \cup {0} :
            ShownUnder(k)' = IF k = i THEN Append(ShownUnder(k), piece) ELSE ShownUnder(k)
      BY <1>1, <1>3, <1>5, <2>3, ShowsOne
    <3>. QED  BY <1>4, <1>5, <2>1, <2>3, <3>1 DEF Displayed, inCall
  <2>4. CASE ~inText /\ ~inCall
    <3>1. \A k \in Keys \cup {0} : ShownUnder(k)' = ShownUnder(k)
      BY <1>3, <2>4 DEF ShownUnder, Select
    <3>. QED  BY <1>4, <2>1, <2>4, <3>1 DEF Displayed, inCall
  <2>. QED  BY <2>2, <2>3, <2>4
<1>9. ASSUME provider = "anthropic"
      PROVE  /\ BlocksInOrder'
             /\ \E front \in Seq(Keys) : /\ i \notin Range(front) /\ order' = Append(front, i)
                                         /\ order = IF i \in Range(order) THEN order' ELSE front
  <2>1. /\ order \in Seq(Keys) /\ BlocksInOrder /\ i = Len(items)
        /\ DOMAIN items = 1..Len(items) /\ Len(items) \in Nat
        /\ order' = IF i \in Range(order) THEN order ELSE Append(order, i)
    <3>1. Contains(order, i) <=> i \in Range(order)
      BY LenProperties DEF Contains, Range, TypeOK
    <3>. QED  BY <1>0, <1>3, <1>9, <3>1, LenProperties DEF TypeOK
  <2>2. Range(order') = Range(order) \cup {i}
    <3>1. Range(Append(order, i)) = Range(order) \cup {i}
      BY <2>1, RangeOfAppend
    <3>. QED  BY <2>1, <3>1
  <2>3. ItemsOf("call")' \subseteq Range(order') /\ Range(order') \subseteq DOMAIN items'
    BY <1>0, <1>4, <2>1, <2>2 DEF BlocksInOrder
  <2>4. \A k \in Keys : pending'[k] # <<>> => k \in Range(order')
    <3> SUFFICES ASSUME NEW k \in Keys, k # i, pending'[k] # <<>> PROVE k \in Range(order')
      BY <2>2
    <3>1. pending'[k] = pending[k]
      BY <1>3 DEF TypeOK
    <3>. QED  BY <2>1, <2>2, <3>1 DEF BlocksInOrder
  <2>5. Sorted(order')
    <3>1. CASE i \in Range(order)
      BY <2>1, <3>1 DEF BlocksInOrder
    <3>2. CASE i \notin Range(order)
      <4>1. /\ DOMAIN order = 1..Len(order) /\ DOMAIN order' = 1..(Len(order) + 1)
            /\ Len(order) \in Nat /\ order'[Len(order) + 1] = i
            /\ \A n \in 1..Len(order) : order'[n] = order[n]
        BY <2>1, <3>2, Longer, LenProperties
      <4>2. \A n \in 1..Len(order) : order[n] < i
        <5>1. \A n \in 1..Len(order) : order[n] \in DOMAIN items /\ order[n] # i
          BY <2>1, <3>2, <4>1 DEF BlocksInOrder, Range
        <5>. QED  BY <2>1, <5>1
      <4>. QED  BY <2>1, <4>1, <4>2 DEF BlocksInOrder, Sorted
    <3>. QED  BY <3>1, <3>2
  <2>6. BlocksInOrder'
    BY <2>3, <2>4, <2>5 DEF BlocksInOrder
  <2>7. \E front \in Seq(Keys) : /\ i \notin Range(front) /\ order' = Append(front, i)
                                 /\ order = IF i \in Range(order) THEN order' ELSE front
    <3>1. CASE i \in Range(order)
      <4>1. \A j \in Range(order) : j <= i
        BY <2>1 DEF BlocksInOrder
      <4>2. \E front \in Seq(Keys) : order = Append(front, i) /\ i \notin Range(front)
        BY <2>1, <3>1, <4>1, GreatestIsLast DEF BlocksInOrder
      <4>. QED  BY <2>1, <3>1, <4>2
    <3>2. CASE i \notin Range(order)
      BY <2>1, <3>2
    <3>. QED  BY <3>1, <3>2
  <2>. QED  BY <2>6, <2>7
<1>10. ASSUME provider = "anthropic" PROVE ReplySays'
  <2>1. PICK front \in Seq(Keys) : /\ i \notin Range(front) /\ order' = Append(front, i)
                                   /\ order = IF i \in Range(order) THEN order' ELSE front
    BY <1>9, <1>10
  <2> DEFINE P == FlattenSeq(Each(front, BlocksOf))
             b == BlocksOf[i]
             c == BlocksOf'[i]
  <2>2. /\ ReplySays /\ BlocksInOrder
        /\ \A k \in Keys : BlocksOf[k] \in Seq(Block) /\ BlocksOf'[k] \in Seq(Block)
                           /\ CallOf[k] \in Kinded("call") /\ CallOf'[k] \in Kinded("call")
                           /\ pending[k] \in Seq(Pieces) /\ pending'[k] \in Seq(Pieces)
    BY <1>0, <1>10, BlocksAre, BlocksNext
  <2>3. Reply = FlattenSeq(Each(order, BlocksOf))
          /\ Reply' = FlattenSeq(Each(order', BlocksOf'))
    BY <1>0, <1>10, RepliesAre, RepliesNext DEF Reply
  <2>4. P \in Seq(Block) /\ b \in Seq(Block) /\ c \in Seq(Block)
    BY <2>2, BlocksAppend
  <2>5. \A k \in Keys : k # i => BlocksOf'[k] = BlocksOf[k] /\ CallOf'[k] = CallOf[k]
    <3> SUFFICES ASSUME NEW k \in Keys, k # i
                 PROVE  BlocksOf'[k] = BlocksOf[k] /\ CallOf'[k] = CallOf[k]
      OBVIOUS
    <3>1. pending'[k] = pending[k]
      BY <1>3 DEF TypeOK
    <3>. QED  BY <1>3, <3>1 DEF BlocksOf, CallOf, CallBlock
  <2>6. Reply' = P \o c
    <3>1. Each(front, BlocksOf') = Each(front, BlocksOf)
      <4>1. \A k \in Range(front) : k \in Keys
        BY LenProperties, ElementOfSeq DEF Range
      <4>2. \A k \in Range(front) : BlocksOf'[k] = BlocksOf[k]
        BY <2>1, <2>5, <4>1
      <4>. QED  BY <4>2, EachSame
    <3>2. FlattenSeq(Each(Append(front, i), BlocksOf'))
            = FlattenSeq(Each(front, BlocksOf')) \o BlocksOf'[i]
      BY <2>2, BlocksAppend
    <3>. QED  BY <2>1, <2>3, <3>1, <3>2
  <2>7. Reply = P \o b
    <3>1. CASE i \in Range(order)
      <4>1. FlattenSeq(Each(Append(front, i), BlocksOf))
              = FlattenSeq(Each(front, BlocksOf)) \o BlocksOf[i]
        BY <2>2, BlocksAppend
      <4>. QED  BY <2>1, <2>3, <3>1, <4>1
    <3>2. CASE i \notin Range(order)
      <4>1. pending[i] = <<>> /\ i \notin calls
        BY <1>0, <2>2, <3>2 DEF BlocksInOrder, Collected
      <4>2. b = <<>>
        BY <4>1 DEF BlocksOf, TextBlocks
      <4>3. P \o <<>> = P
        BY <2>4, ConcatEmptySeq
      <4>. QED  BY <2>1, <2>3, <3>2, <4>2, <4>3
    <3>. QED  BY <3>1, <3>2
  <2>. HIDE DEF P
  <2>8. /\ TextOf(P) \o TextOf(b) = TextHeard
        /\ OfKind(P, "call") \o OfKind(b, "call") = Each(CallsBegun, CallOf)
        /\ TextOf(Reply') = TextOf(P) \o TextOf(c)
        /\ OfKind(Reply', "call") = OfKind(P, "call") \o OfKind(c, "call")
        /\ TextOf(P) \in Seq(Pieces) /\ OfKind(P, "call") \in Seq(Block)
    <3>. HIDE DEF b, c
    <3>1. TextOf(P \o b) = TextOf(P) \o TextOf(b) /\ TextOf(P \o c) = TextOf(P) \o TextOf(c)
      BY <2>4, TextOfConcat
    <3>2. OfKind(P \o b, "call") = OfKind(P, "call") \o OfKind(b, "call")
      BY <2>4, CallsConcat
    <3>3. OfKind(P \o c, "call") = OfKind(P, "call") \o OfKind(c, "call")
      BY <2>4, CallsConcat
    <3>4. TextOf(P) \in Seq(Pieces) /\ OfKind(P, "call") \in Seq(Block)
      BY <2>4, TextOfType, OfKindType
    <3>. QED  BY <2>2, <2>6, <2>7, <3>1, <3>2, <3>3, <3>4 DEF ReplySays
  <2>9. inCall <=> i \in calls
    BY <1>0 DEF Collected, inCall
  <2>10. CallsBegun \in Seq(Keys) /\ Range(CallsBegun) = ItemsOf("call")
    BY <1>0, BegunAre
  <2>11. CASE ~inCall
    <3>1. Each(CallsBegun', CallOf') = Each(CallsBegun, CallOf)
      <4>1. \A k \in Range(CallsBegun) : k \in Keys /\ k # i
        BY <2>10, <2>11 DEF inCall, ItemsOf
      <4>2. \A k \in Range(CallsBegun) : CallOf'[k] = CallOf[k]
        BY <2>5, <4>1
      <4>3. Each(CallsBegun, CallOf') = Each(CallsBegun, CallOf)
        BY <2>10, <4>2, EachSame
      <4>. QED  BY <1>4, <4>3
    <3>2. b = TextBlocks(pending[i]) /\ c = TextBlocks(pending'[i])
      BY <1>3, <2>9, <2>11 DEF BlocksOf
    <3>3. /\ TextOf(b) = pending[i] /\ TextOf(c) = pending'[i]
          /\ b \in Seq(Kinded("text")) /\ c \in Seq(Kinded("text"))
      BY <2>2, <3>2, TextBlocksAre
    <3>4. OfKind(b, "call") = <<>> /\ OfKind(c, "call") = <<>>
      BY <3>3, OfKindNone
    <3>5. pending'[i] = IF inText THEN Append(pending[i], piece) ELSE pending[i]
      <4>1. Kept(i) <=> inText
        BY <1>10, <2>11 DEF Kept, inText, inCall
      <4>. QED  BY <1>3, <4>1 DEF TypeOK
    <3>6. TextOf(P) \o Append(pending[i], piece) = Append(TextOf(P) \o pending[i], piece)
      <4>1. TextOf(P) \in Seq(Pieces) /\ pending[i] \in Seq(Pieces) /\ piece \in Pieces
        BY <1>1, <2>2, <2>8
      <4>. QED  BY <4>1, ConcatAppend
    <3>. HIDE DEF b, c
    <3>7. TextOf(Reply') = TextHeard'
      BY <1>4, <2>8, <3>3, <3>5, <3>6
    <3>8. OfKind(Reply', "call") = Each(CallsBegun', CallOf')
      BY <2>8, <3>1, <3>4
    <3>. QED  BY <3>7, <3>8 DEF ReplySays
  <2>12. CASE inCall
    <3>1. b = <<CallOf[i]>> /\ c = <<CallOf'[i]>>
      BY <1>3, <2>9, <2>12 DEF BlocksOf, CallOf
    <3>2. b \in Seq(Kinded("call")) /\ c \in Seq(Kinded("call"))
      BY <2>2, <3>1
    <3>3. /\ OfKind(b, "call") = b /\ OfKind(c, "call") = c
          /\ TextOf(b) = <<>> /\ TextOf(c) = <<>>
      BY <3>2, OfKindAll, TextOfOther
    <3>4. TextOf(Reply') = TextHeard'
      <4>1. TextHeard' = TextHeard
        BY <1>4, <1>5, <2>12
      <4>. HIDE DEF b, c
      <4>. QED  BY <2>8, <3>3, <4>1
    <3>5. PICK e \in Seq(Keys) : CallsBegun = Append(e, i) /\ i \notin Range(e)
      BY <2>10, <2>12, LastBegun, <1>0, <1>10 DEF inCall
    <3>6. /\ Each(CallsBegun, CallOf) = Append(Each(e, CallOf), CallOf[i])
          /\ Each(CallsBegun, CallOf') = Append(Each(e, CallOf'), CallOf'[i])
      BY <3>5, EachAppend
    <3>7. Each(e, CallOf') = Each(e, CallOf)
      <4>1. \A k \in Range(e) : k \in Keys /\ k # i
        BY <3>5, LenProperties, ElementOfSeq DEF Range
      <4>2. \A k \in Range(e) : CallOf'[k] = CallOf[k]
        BY <2>5, <4>1
      <4>. QED  BY <4>2, EachSame
    <3>8. CallOf[i] \in Block /\ CallOf'[i] \in Block /\ Each(e, CallOf) \in Seq(Block)
      <4>1. \A k \in Keys : CallOf[k] \in Block /\ CallOf'[k] \in Block
        BY <2>2 DEF Kinded
      <4>. QED  BY <4>1, EachType
    <3>9. /\ OfKind(P, "call") \o b = Append(OfKind(P, "call"), CallOf[i])
          /\ OfKind(P, "call") \o c = Append(OfKind(P, "call"), CallOf'[i])
      BY <2>8, <3>1, <3>8, AppendIsConcat
    <3>10. OfKind(P, "call") = Each(e, CallOf)
      BY <2>8, <3>3, <3>6, <3>8, <3>9, AppendInjective
    <3>11. OfKind(Reply', "call") = Each(CallsBegun', CallOf')
      BY <1>4, <2>8, <3>3, <3>6, <3>7, <3>9, <3>10
    <3>. QED  BY <3>4, <3>11 DEF ReplySays
  <2>. QED  BY <2>11, <2>12
<1>. QED  BY <1>0, <1>4, <1>6, <1>7, <1>8, <1>9, <1>10 DEF Faithful

(***************************************************************************)
(* Every step keeps the invariant.                                         *)
(***************************************************************************)

\* No call has been made.
LEMMA StreamStarts == Init => StreamInv
<1> SUFFICES ASSUME Init PROVE StreamInv
  OBVIOUS
<1>1. TypeOK
  <2>1. 0 \in 0..MaxTries
    BY StreamAssumption
  <2>2. /\ <<>> \in Seq(Kinds) /\ <<>> \in Seq(Pieces) /\ <<>> \in Seq(Keys)
        /\ <<>> \in Seq([key : Keys \cup {0}, piece : Pieces])
    BY EmptySeq
  <2>. QED  BY <2>1, <2>2 DEF Init, TypeOK
<1>2. Attempts /\ Decoded /\ Conversation
  BY DEF Init, Attempts, Decoded, Conversation
<1>. QED  BY <1>1, <1>2 DEF StreamInv

\* A new decoder.
LEMMA FreshType ==
  ASSUME FreshAccum
  PROVE  /\ order' \in Seq(Keys) /\ calls' \subseteq Keys
         /\ pending' \in [Keys -> Seq(Pieces)] /\ text' \in Seq(Pieces)
         /\ events' \in Seq([key : Keys \cup {0}, piece : Pieces])
BY EmptySeq DEF FreshAccum

\* Types are kept when an item is begun, ...
LEMMA BeginsType ==
  ASSUME TypeOK, NEW kind \in Kinds, NEW announced \in BOOLEAN, Begins(kind, announced)
  PROVE  TypeOK'
<1> DEFINE i == Len(items) + 1
<1>1. i \in Keys
  BY LenProperties, StreamAssumption DEF Begins, TypeOK, Keys
<1>2. items' = Append(items, kind) /\ items' \in Seq(Kinds)
  BY AppendProperties DEF Begins, TypeOK
<1>3. order' \in Seq(Keys) /\ calls' \subseteq Keys
  <2>1. Opened(i, kind) \/ (order' = order /\ calls' = calls)
    BY DEF Begins
  <2>. HIDE DEF i
  <2>2. Append(order, i) \in Seq(Keys) /\ order \in Seq(Keys) /\ calls \subseteq Keys
    BY <1>1, AppendProperties DEF TypeOK
  <2>3. CASE Opened(i, kind)
    BY <1>1, <2>2, <2>3 DEF Opened
  <2>4. CASE order' = order /\ calls' = calls
    BY <2>2, <2>4
  <2>. QED  BY <2>1, <2>3, <2>4
<1>. QED  BY <1>2, <1>3 DEF TypeOK, Begins

\* ... when a piece is heard ...
LEMMA HearsType ==
  ASSUME TypeOK, tries # 0, PiecesKnown, Collected, RunsTogether,
         NEW i \in Keys, NEW last \in BOOLEAN, Hears(i, last)
  PROVE  TypeOK'
<1> DEFINE piece == [item |-> i, try |-> tries, at |-> Len(heard) + 1, last |-> last]
<1>1. piece \in Pieces
  <2>1. tries \in 1..MaxTries
    BY StreamAssumption DEF TypeOK
  <2>2. Len(heard) + 1 \in 1..MaxPieces
    BY StreamAssumption, LenProperties DEF Hears, TypeOK
  <2>. QED  BY <2>1, <2>2 DEF Pieces
<1>2. /\ heard' = Append(heard, piece)
      /\ IF provider = "anthropic" THEN AnthropicHears(i, piece) ELSE OthersHear(i, piece)
      /\ UNCHANGED <<provider, pc, tries, items, history, cancelled>>
  BY DEF Hears
<1>. HIDE DEF piece
<1>3. heard' \in Seq(Pieces)
  BY <1>1, <1>2, AppendProperties DEF TypeOK
<1>4. /\ order \in Seq(Keys) /\ Append(order, i) \in Seq(Keys) /\ calls \subseteq Keys
      /\ text \in Seq(Pieces) /\ Append(text, piece) \in Seq(Pieces)
      /\ pending \in [Keys -> Seq(Pieces)]
  BY <1>1, AppendProperties DEF TypeOK
<1>5. [pending EXCEPT ![i] = Append(@, piece)] \in [Keys -> Seq(Pieces)]
  <2>1. Append(pending[i], piece) \in Seq(Pieces)
    <3>1. pending[i] \in Seq(Pieces)
      BY <1>4
    <3>. QED  BY <1>1, <3>1, AppendProperties
  <2>. QED  BY <1>4, <2>1
<1>6. \A key \in Keys \cup {0} :
        /\ events \in Seq([key : Keys \cup {0}, piece : Pieces])
        /\ Show(key, piece) => events' \in Seq([key : Keys \cup {0}, piece : Pieces])
  <2> SUFFICES ASSUME NEW key \in Keys \cup {0}
               PROVE  /\ events \in Seq(Delta)
                      /\ Show(key, piece) => events' \in Seq(Delta)
    BY DEF Delta
  <2>1. [key |-> key, piece |-> piece] \in Delta /\ events \in Seq(Delta)
    BY <1>1 DEF TypeOK, Delta
  <2>. QED  BY <2>1, AppendProperties DEF Show
<1>7. /\ order' \in Seq(Keys) /\ calls' \subseteq Keys
      /\ pending' \in [Keys -> Seq(Pieces)] /\ text' \in Seq(Pieces)
      /\ events' \in Seq([key : Keys \cup {0}, piece : Pieces])
  <2>1. CASE provider = "anthropic"
    <3>1. AnthropicHears(i, piece)
      BY <1>2, <2>1
    <3>2. order' \in Seq(Keys) /\ calls' \subseteq Keys /\ text' \in Seq(Pieces)
      BY <1>4, <3>1 DEF AnthropicHears, Opened
    <3>3. CASE items[i] = "other"
      BY <1>4, <1>6, <3>1, <3>2, <3>3 DEF AnthropicHears
    <3>4. CASE items[i] # "other"
      BY <1>5, <1>6, <3>1, <3>2, <3>4 DEF AnthropicHears
    <3>. QED  BY <3>3, <3>4
  <2>2. CASE provider # "anthropic"
    <3>1. OthersHear(i, piece)
      BY <1>2, <2>2
    <3>2. order' \in Seq(Keys) /\ calls' \subseteq Keys
      BY <1>4, <3>1 DEF OthersHear
    <3>3. CASE items[i] = "text"
      BY <1>4, <1>6, <3>1, <3>2, <3>3 DEF OthersHear
    <3>4. CASE items[i] = "call"
      BY <1>4, <1>5, <1>6, <3>1, <3>2, <3>4 DEF OthersHear
    <3>5. CASE items[i] # "text" /\ items[i] # "call"
      BY <1>4, <1>6, <3>1, <3>2, <3>5 DEF OthersHear
    <3>. QED  BY <3>3, <3>4, <3>5
  <2>. QED  BY <2>1, <2>2
<1>. QED  BY <1>2, <1>3, <1>7 DEF TypeOK

\* ... and by every other step.
LEMMA TypeStep ==
  ASSUME StreamInv, [Next]_vars
  PROVE  TypeOK'
<1>0. TypeOK /\ Attempts /\ Decoded
  BY DEF StreamInv
<1>1. CASE Start
  <2>1. 1 \in 0..MaxTries
    BY StreamAssumption
  <2>2. <<>> \in Seq(Kinds) /\ <<>> \in Seq(Pieces)
    BY EmptySeq
  <2>3. FreshAccum
    BY <1>1 DEF Start
  <2>. QED  BY <1>0, <1>1, <2>1, <2>2, <2>3, FreshType DEF Start, NothingHeard, TypeOK
<1>2. CASE Answered
  BY <1>0, <1>2, FreshType DEF Answered, server, TypeOK
<1>3. ASSUME NEW retryable \in BOOLEAN, Fails(retryable) PROVE TypeOK'
  BY <1>0, <1>3, EmptySeq DEF Fails, NothingHeard, decoder, TypeOK
<1>4. ASSUME NEW kind \in Kinds, NEW announced \in BOOLEAN, Begins(kind, announced)
      PROVE  TypeOK'
  BY <1>0, <1>4, BeginsType
<1>5. ASSUME NEW i \in Keys, NEW last \in BOOLEAN, Hears(i, last) PROVE TypeOK'
  <2>1. tries # 0 /\ PiecesKnown /\ Collected /\ RunsTogether
    BY <1>0, <1>5 DEF Hears, Attempts, Decoded, Faithful
  <2>. QED  BY <1>0, <1>5, <2>1, HearsType
<1>6. CASE Retry
  BY <1>0, <1>6, StreamAssumption DEF Retry, Attempts, server, decoder, TypeOK
<1>7. CASE StreamEnds \/ CancelNoticed \/ Ask \/ Cancel \/ UNCHANGED vars
  BY <1>0, <1>7 DEF StreamEnds, CancelNoticed, Ask, Cancel, vars, server, decoder, TypeOK
<1>8. ASSUME NEW prompted \in BOOLEAN, NextTurn(prompted) PROVE TypeOK'
  <2>1. pc' \in {"idle", "asking"} /\ UNCHANGED <<provider, tries, server, decoder, cancelled>>
    BY <1>8 DEF NextTurn
  <2>. QED  BY <1>0, <2>1 DEF server, decoder, TypeOK
<1>9. CASE StreamFails \/ StreamIdles
  BY <1>3, <1>9 DEF StreamFails, StreamIdles
<1>10. ASSUME NEW how, NEW mentioned, RequestFails(how, mentioned) PROVE TypeOK'
  <2> DEFINE retryable == (how \in {"network", "limited", "passing"}
                             \/ (provider = "codex" /\ how = "lasting" /\ mentioned))
  <2>1. Fails(retryable)
    BY <1>10 DEF RequestFails
  <2>. HIDE DEF retryable
  <2>2. pc' \in {"sleeping", "idle"} /\ NothingHeard
        /\ UNCHANGED <<provider, tries, decoder, history, cancelled>>
    BY <2>1 DEF Fails
  <2>. QED  BY <1>0, <2>2, EmptySeq DEF NothingHeard, decoder, TypeOK
<1>. QED  BY <1>1, <1>2, <1>4, <1>5, <1>6, <1>7, <1>8, <1>9, <1>10 DEF Next, ClientGoes

\* Every step keeps count of the attempts, and leaves nothing heard between them.
LEMMA AttemptsStep ==
  ASSUME StreamInv, [Next]_vars
  PROVE  Attempts'
<1>0. TypeOK /\ Attempts
  BY DEF StreamInv
<1>1. CASE Start
  BY <1>0, <1>1 DEF Start, NothingHeard, Attempts
<1>2. CASE Answered \/ StreamEnds \/ CancelNoticed \/ Ask \/ Cancel \/ UNCHANGED vars
  BY <1>0, <1>2 DEF Answered, StreamEnds, CancelNoticed, Ask, Cancel, vars, server, decoder,
     Attempts
<1>3. ASSUME NEW retryable, pc # "idle", Fails(retryable) PROVE Attempts'
  <2>1. /\ pc' \in {"sleeping", "idle"} /\ NothingHeard /\ tries' = tries
        /\ pc' = "sleeping" => tries < MaxTries
    BY <1>3 DEF Fails
  <2>. QED  BY <1>0, <1>3, <2>1 DEF Attempts, NothingHeard
<1>4. ASSUME NEW kind, NEW announced, Begins(kind, announced) PROVE Attempts'
  BY <1>0, <1>4 DEF Begins, Attempts
<1>5. ASSUME NEW i, NEW last, Hears(i, last) PROVE Attempts'
  BY <1>0, <1>5 DEF Hears, Attempts
<1>6. CASE Retry
  BY <1>0, <1>6 DEF Retry, Attempts, server, TypeOK
<1>7. ASSUME NEW prompted, NextTurn(prompted) PROVE Attempts'
  <2>1. pc = "returned" /\ pc' \in {"idle", "asking"} /\ tries' = tries
    BY <1>7 DEF NextTurn
  <2>. QED  BY <1>0, <2>1 DEF Attempts
<1>8. CASE StreamFails \/ StreamIdles
  BY <1>3, <1>8 DEF StreamFails, StreamIdles
<1>9. ASSUME NEW how, NEW mentioned, RequestFails(how, mentioned) PROVE Attempts'
  BY <1>3, <1>9 DEF RequestFails
<1>. QED  BY <1>1, <1>2, <1>4, <1>5, <1>6, <1>7, <1>8, <1>9 DEF Next, ClientGoes

\* Every step keeps the decoder faithful to the server.
LEMMA DecodedStep ==
  ASSUME StreamInv, TypeOK', [Next]_vars
  PROVE  Decoded'
<1>0. TypeOK /\ Attempts /\ Decoded
  BY DEF StreamInv
<1>1. CASE pc' \notin {"streaming", "returned", "asking"}
  BY <1>1 DEF Decoded
<1>2. CASE Answered
  <2>1. items' = <<>> /\ heard' = <<>> /\ FreshAccum
    BY <1>0, <1>2 DEF Answered, Attempts, server
  <2>. QED  BY <2>1, FreshIsFaithful DEF Decoded
<1>3. ASSUME NEW kind \in Kinds, NEW announced \in BOOLEAN,
             announced \/ (provider = "anthropic" /\ kind = "text"), Begins(kind, announced)
      PROVE  Decoded'
  <2>1. Faithful
    BY <1>0, <1>3 DEF Begins, Decoded
  <2>. QED  BY <1>0, <1>3, <2>1, BeginsFaithful DEF Decoded
<1>4. ASSUME NEW i \in Keys, NEW last \in BOOLEAN, Hears(i, last) PROVE Decoded'
  <2>1. Faithful /\ tries # 0
    BY <1>0, <1>4 DEF Hears, Attempts, Decoded
  <2>. QED  BY <1>0, <1>4, <2>1, HearsFaithful DEF Decoded
<1>5. ASSUME UNCHANGED <<provider, server, decoder>>, pc \in {"streaming", "returned", "asking"}
      PROVE  Decoded'
  <2>1. Faithful
    BY <1>0, <1>5 DEF Decoded
  <2>2. Faithful'
    BY <1>5, <2>1, FaithfulKept
  <2>. QED  BY <2>2 DEF Decoded
<1>6. CASE StreamEnds
  <2>1. UNCHANGED <<provider, server, decoder>> /\ pc = "streaming"
    BY <1>6 DEF StreamEnds
  <2>. QED  BY <1>5, <2>1
<1>7. CASE Cancel \/ UNCHANGED vars
  <2>1. UNCHANGED <<provider, server, decoder>> /\ pc' = pc
    BY <1>7 DEF Cancel, vars
  <2>2. CASE pc \in {"streaming", "returned", "asking"}
    BY <1>5, <2>1, <2>2
  <2>3. CASE pc \notin {"streaming", "returned", "asking"}
    BY <1>1, <2>1, <2>3
  <2>. QED  BY <2>2, <2>3
<1>8. ASSUME NEW prompted, NextTurn(prompted) PROVE Decoded'
  <2>1. UNCHANGED <<provider, server, decoder>> /\ pc = "returned"
    BY <1>8 DEF NextTurn
  <2>. QED  BY <1>5, <2>1
<1>9. ASSUME NEW retryable, Fails(retryable) PROVE Decoded'
  <2>1. pc' \in {"sleeping", "idle"}
    BY <1>9 DEF Fails
  <2>. QED  BY <1>1, <2>1
<1>10. CASE StreamFails \/ StreamIdles
  BY <1>9, <1>10 DEF StreamFails, StreamIdles
<1>11. ASSUME NEW how, NEW mentioned, RequestFails(how, mentioned) PROVE Decoded'
  BY <1>9, <1>11 DEF RequestFails
<1>12. CASE Start \/ Retry \/ CancelNoticed \/ Ask
  <2>1. pc' \in {"sent", "idle"}
    BY <1>12 DEF Start, Retry, CancelNoticed, Ask
  <2>. QED  BY <1>1, <2>1
<1>. QED  BY <1>2, <1>3, <1>4, <1>6, <1>7, <1>8, <1>10, <1>11, <1>12 DEF Next, ClientGoes

\* Every step keeps the shape of what is pushed.
LEMMA ConversationStep ==
  ASSUME StreamInv, [Next]_vars
  PROVE  Conversation'
<1>0. Conversation
  BY DEF StreamInv
<1>1. CASE pc' \notin {"returned", "asking"}
  BY <1>1 DEF Conversation
<1>2. CASE StreamEnds
  <2>1. UNCHANGED <<provider, decoder>> /\ pc' = "returned" /\ history' = Turn(Reply)
    BY <1>2 DEF StreamEnds, Turn
  <2>. QED  BY <2>1, ReplyKept DEF Conversation
<1>3. CASE Cancel \/ UNCHANGED vars
  <2>1. UNCHANGED <<provider, decoder>> /\ pc' = pc /\ history' = history
    BY <1>3 DEF Cancel, vars
  <2>2. Reply' = Reply
    BY <2>1, ReplyKept
  <2>. QED  BY <1>0, <2>1, <2>2 DEF Conversation
<1>4. ASSUME NEW prompted \in BOOLEAN, NextTurn(prompted) PROVE Conversation'
  <2>1. history = Turn(Reply) /\ history[2].content = Reply
    BY <1>0, <1>4 DEF NextTurn, Conversation, Turn, Message
  <2>2. UNCHANGED <<provider, decoder>> /\ pc' \in {"idle", "asking"}
    BY <1>4 DEF NextTurn
  <2>3. Reply' = Reply
    BY <2>2, ReplyKept
  <2>4. CASE pc' = "asking"
    <3>1. history' = history \o Answer(history[2].content) \o Asked(prompted)
      BY <1>4, <2>4 DEF NextTurn, Answer, Asked
    <3>. QED  BY <2>1, <2>3, <2>4, <3>1 DEF Conversation
  <2>. QED  BY <1>1, <2>2, <2>4
<1>5. ASSUME NEW retryable, Fails(retryable) PROVE Conversation'
  <2>1. pc' \in {"sleeping", "idle"}
    BY <1>5 DEF Fails
  <2>. QED  BY <1>1, <2>1
<1>6. CASE StreamFails \/ StreamIdles
  BY <1>5, <1>6 DEF StreamFails, StreamIdles
<1>7. ASSUME NEW how, NEW mentioned, RequestFails(how, mentioned) PROVE Conversation'
  BY <1>5, <1>7 DEF RequestFails
<1>8. CASE Start \/ Answered \/ Retry \/ CancelNoticed \/ Ask
  <2>1. pc' \in {"sent", "streaming", "idle"}
    BY <1>8 DEF Start, Answered, Retry, CancelNoticed, Ask
  <2>. QED  BY <1>1, <2>1
<1>9. ASSUME NEW kind, NEW announced, Begins(kind, announced) PROVE Conversation'
  <2>1. pc' = "streaming"
    BY <1>9 DEF Begins
  <2>. QED  BY <1>1, <2>1
<1>10. ASSUME NEW i, NEW last, Hears(i, last) PROVE Conversation'
  <2>1. pc' = "streaming"
    BY <1>10 DEF Hears
  <2>. QED  BY <1>1, <2>1
<1>. QED  BY <1>2, <1>3, <1>4, <1>6, <1>7, <1>8, <1>9, <1>10 DEF Next, ClientGoes

\* While an attempt lasts, and as long as its reply is used, the decoder holds what the
\* server said in that attempt and nothing of an earlier one, piece by piece under the key
\* of its item: the invariant all the rest follows from.
THEOREM StreamInvariant == Spec => []StreamInv
<1>1. Init => StreamInv
  BY StreamStarts
<1>2. StreamInv /\ [Next]_vars => StreamInv'
  <2> SUFFICES ASSUME StreamInv, [Next]_vars PROVE StreamInv'
    OBVIOUS
  <2>1. TypeOK'
    BY TypeStep
  <2>2. Attempts' /\ Decoded' /\ Conversation'
    BY <2>1, AttemptsStep, DecodedStep, ConversationStep
  <2>. QED  BY <2>1, <2>2 DEF StreamInv
<1>. QED  BY <1>1, <1>2, PTL DEF Spec

\* Every variable stays in its type, for any number of items, pieces and attempts.
THEOREM StreamTypeCorrect == Spec => []TypeOK
<1>1. StreamInv => TypeOK
  BY DEF StreamInv
<1>. QED  BY <1>1, StreamInvariant, PTL

(***************************************************************************)
(* The properties.                                                         *)
(***************************************************************************)

Said == {b \in Block : b.kind \in {"text", "call"}}

\* Arguments are parsed if and only if the server completed them.
LEMMA MeantAre ==
  ASSUME TypeOK, PiecesKnown, Collected
  PROVE  CallsMeant = Each(CallsBegun, CallOf)
<1>1. CallsBegun \in Seq(Keys) /\ Range(CallsBegun) = ItemsOf("call")
  BY BegunAre
<1>2. ASSUME NEW n \in DOMAIN CallsBegun
      PROVE  [kind |-> "call", key |-> CallsBegun[n],
              parts |-> IF Whole(CallsBegun[n]) THEN HeardOf(CallsBegun[n]) ELSE <<>>]
             = CallOf[CallsBegun[n]]
  <2> DEFINE k == CallsBegun[n]
  <2>1. k \in ItemsOf("call") /\ k \in Keys
    BY <1>1, <1>2 DEF Range, ItemsOf
  <2>. HIDE DEF k
  <2>2. pending[k] = HeardOf(k)
    BY <2>1 DEF Collected, Kept
  <2>3. Parsed(pending[k]) = IF Whole(k) THEN HeardOf(k) ELSE <<>>
    BY <2>1, <2>2 DEF Parsed, PiecesKnown
  <2>4. CallOf[k] = [kind |-> "call", key |-> k, parts |-> Parsed(pending[k])]
    BY <2>1 DEF CallOf, CallBlock
  <2>. QED  BY <2>3, <2>4 DEF k
<1>3. [n \in DOMAIN CallsBegun |->
         [kind |-> "call", key |-> CallsBegun[n],
          parts |-> IF Whole(CallsBegun[n]) THEN HeardOf(CallsBegun[n]) ELSE <<>>]]
      = [n \in DOMAIN CallsBegun |-> CallOf[CallsBegun[n]]]
  BY <1>2
<1>. QED  BY <1>3 DEF CallsMeant, Each

\* The reply in the form of each provider.
LEMMA ReplyIs ==
  ASSUME TypeOK, Faithful
  PROVE  Reply \in Seq(Said) /\ Reply \in Seq(Block) /\ ReplySays
<1>0. Said \subseteq Block /\ Kinded("call") \subseteq Said /\ Kinded("text") \subseteq Said
  BY DEF Said, Kinded
<1>1. Reply \in Seq(Said) /\ ReplySays
  <2>1. CASE provider = "anthropic"
    <3>1. \A k \in Keys : BlocksOf[k] \in Seq(Said)
      <4> SUFFICES ASSUME NEW k \in Keys PROVE BlocksOf[k] \in Seq(Said)
        OBVIOUS
      <4>1. CallBlock(k) \in Said /\ pending[k] \in Seq(Pieces)
        BY <1>0, BlocksAre
      <4>2. <<CallBlock(k)>> \in Seq(Said)
        BY <4>1
      <4>3. TextBlocks(pending[k]) \in Seq(Said)
        BY <1>0, <4>1, TextBlocksAre, SeqMonotonic
      <4>. QED  BY <4>2, <4>3 DEF BlocksOf
    <3>2. Each(order, BlocksOf) \in Seq(Seq(Said))
      <4>1. order \in Seq(Keys)
        BY DEF TypeOK
      <4>. QED  BY <3>1, <4>1, EachType
    <3>3. FlattenSeq(Each(order, BlocksOf)) \in Seq(Said)
      BY <3>2, FlattenType
    <3>. QED  BY <2>1, <3>3, RepliesAre DEF Reply, Faithful
  <2>2. CASE provider # "anthropic"
    <3>1. Reply = TextBlocks(text) \o Each(CallsBegun, CallOf) /\ ReplySays
      BY <2>2, OthersSay DEF Faithful
    <3>2. TextBlocks(text) \in Seq(Said)
      BY <1>0, TextBlocksAre, SeqMonotonic DEF TypeOK
    <3>3. Each(CallsBegun, CallOf) \in Seq(Said)
      <4>1. CallsBegun \in Seq(Keys)
        BY BegunAre DEF Faithful
      <4>2. \A k \in Keys : CallOf[k] \in Said
        BY <1>0, BlocksAre
      <4>. QED  BY <4>1, <4>2, EachType
    <3>. QED  BY <3>1, <3>2, <3>3, ConcatProperties
  <2>. QED  BY <2>1, <2>2
<1>. QED  BY <1>0, <1>1, SeqMonotonic

\* Blocks of keys in ascending order are in the order of their items.
Ascending(r) == \A m, n \in DOMAIN r : m < n => ItemOf(r[m]) < ItemOf(r[n])

\* At most one is none or one.
LEMMA NoneOrOne == \A n \in Nat : n <= 1 => n = 0 \/ n = 1
OBVIOUS

\* Blocks that are put together in the order of their keys.
LEMMA BlocksAscend ==
  ASSUME NEW B, \A k \in Keys : /\ B[k] \in Seq(Block) /\ Len(B[k]) <= 1
                                /\ \A n \in DOMAIN B[k] : ItemOf(B[k][n]) = k
  PROVE  \A o \in Seq(Keys) : Sorted(o) => Ascending(FlattenSeq(Each(o, B)))
<1> DEFINE R(o) == FlattenSeq(Each(o, B))
           G == {o \in Seq(Keys) : Sorted(o) =>
                   Ascending(R(o)) /\ \A n \in DOMAIN R(o) : ItemOf(R(o)[n]) \in Range(o)}
<1>1. <<>> \in G
  <2>1. R(<<>>) = <<>> /\ <<>> \in Seq(Keys)
    BY EachEmpty, FlattenEmpty, EmptySeq
  <2>2. DOMAIN <<>> = {}
    BY EmptySeq
  <2>. HIDE DEF R
  <2>. QED  BY <2>1, <2>2 DEF Ascending
<1>2. ASSUME NEW o \in Seq(Keys), NEW k \in Keys, o \in G
      PROVE  Append(o, k) \in G
  <2>0. Append(o, k) \in Seq(Keys)
    BY AppendProperties
  <2> SUFFICES ASSUME Sorted(Append(o, k))
               PROVE  /\ Ascending(R(Append(o, k)))
                      /\ \A n \in DOMAIN R(Append(o, k)) :
                           ItemOf(R(Append(o, k))[n]) \in Range(Append(o, k))
    BY <2>0
  <2>1. /\ DOMAIN o = 1..Len(o) /\ DOMAIN Append(o, k) = 1..(Len(o) + 1) /\ Len(o) \in Nat
        /\ Append(o, k)[Len(o) + 1] = k /\ \A n \in 1..Len(o) : Append(o, k)[n] = o[n]
    BY <2>0, Longer, LenProperties
  <2>2. Sorted(o) /\ \A j \in Range(o) : j < k
    BY <2>1 DEF Sorted, Range
  <2>3. Range(Append(o, k)) = Range(o) \cup {k}
    BY RangeOfAppend
  <2>4. R(o) \in Seq(Block) /\ R(Append(o, k)) = R(o) \o B[k]
    BY BlocksAppend
  <2>5. Ascending(R(o)) /\ \A n \in DOMAIN R(o) : ItemOf(R(o)[n]) \in Range(o)
    BY <1>2, <2>2
  <2>. HIDE DEF R
  <2>6. /\ B[k] \in Seq(Block) /\ Len(B[k]) \in {0, 1}
        /\ \A n \in 1..Len(B[k]) : ItemOf(B[k][n]) = k
    <3>1. /\ B[k] \in Seq(Block) /\ Len(B[k]) <= 1
          /\ \A n \in DOMAIN B[k] : ItemOf(B[k][n]) = k
      OBVIOUS
    <3>2. Len(B[k]) \in Nat /\ DOMAIN B[k] = 1..Len(B[k])
      BY <3>1, LenProperties
    <3>3. Len(B[k]) = 0 \/ Len(B[k]) = 1
      BY <3>1, <3>2, NoneOrOne
    <3>. QED  BY <3>1, <3>2, <3>3
  <2> DEFINE r == R(o)
             s == r \o B[k]
  <2>7. /\ Len(r) \in Nat /\ DOMAIN r = 1..Len(r) /\ DOMAIN s = 1..(Len(r) + Len(B[k]))
        /\ \A n \in 1..Len(r) : s[n] = r[n]
        /\ \A n \in 1..(Len(r) + Len(B[k])) : n > Len(r) => s[n] = B[k][n - Len(r)]
    <3>1. s \in Seq(Block) /\ Len(s) = Len(r) + Len(B[k])
      BY <2>4, <2>6, ConcatProperties
    <3>2. \A n \in 1..(Len(r) + Len(B[k])) : s[n]
            = IF n <= Len(r) THEN r[n] ELSE B[k][n - Len(r)]
      BY <2>4, <2>6, ConcatProperties
    <3>3. Len(r) \in Nat /\ DOMAIN r = 1..Len(r) /\ DOMAIN s = 1..Len(s)
      BY <2>4, <3>1, LenProperties
    <3>. HIDE DEF r, s
    <3>. QED  BY <2>6, <3>1, <3>2, <3>3
  <2>. HIDE DEF r, s
  <2>8. \A n \in DOMAIN s : \/ n \in DOMAIN r /\ s[n] = r[n]
                            \/ n = Len(r) + 1 /\ ItemOf(s[n]) = k
    <3> SUFFICES ASSUME NEW n \in 1..(Len(r) + Len(B[k])), n > Len(r)
                 PROVE  n = Len(r) + 1 /\ ItemOf(s[n]) = k
      BY <2>6, <2>7
    <3>1. n = Len(r) + 1 /\ Len(B[k]) = 1 /\ n - Len(r) = 1
      BY <2>6, <2>7
    <3>. QED  BY <2>6, <2>7, <3>1
  <2>9. Ascending(r) /\ \A n \in DOMAIN r : ItemOf(r[n]) \in Range(o)
    BY <2>5 DEF r
  <2>10. Ascending(s)
    <3> SUFFICES ASSUME NEW m \in DOMAIN s, NEW n \in DOMAIN s, m < n
                 PROVE  ItemOf(s[m]) < ItemOf(s[n])
      BY DEF Ascending
    <3>1. m \in DOMAIN r /\ s[m] = r[m]
      BY <2>6, <2>7, <2>8
    <3>2. CASE n \in DOMAIN r /\ s[n] = r[n]
      BY <2>9, <3>1, <3>2 DEF Ascending
    <3>3. CASE ItemOf(s[n]) = k
      BY <2>2, <2>9, <3>1, <3>3
    <3>. QED  BY <2>8, <3>2, <3>3
  <2>11. \A n \in DOMAIN s : ItemOf(s[n]) \in Range(o) \cup {k}
    BY <2>8, <2>9
  <2>. QED  BY <2>3, <2>4, <2>10, <2>11 DEF r, s
<1>3. \A o \in Seq(Keys) : o \in G
  <2> HIDE DEF G
  <2>. QED  BY <1>1, <1>2, BuildUp
<1>. QED  BY <1>3

\* The blocks of the Anthropic client are in the order of their items.
LEMMA AnthropicAscends ==
  ASSUME TypeOK, Faithful, provider = "anthropic"
  PROVE  Ascending(Reply)
<1>1. order \in Seq(Keys) /\ Sorted(order) /\ Reply = FlattenSeq(Each(order, BlocksOf))
  BY RepliesAre DEF TypeOK, Faithful, BlocksInOrder, Reply
<1>2. ASSUME NEW k \in Keys
      PROVE  /\ BlocksOf[k] \in Seq(Block) /\ Len(BlocksOf[k]) <= 1
             /\ \A n \in DOMAIN BlocksOf[k] : ItemOf(BlocksOf[k][n]) = k
  <2>1. BlocksOf[k] \in Seq(Block)
    BY BlocksAre
  <2>2. CASE k \in calls
    <3>1. BlocksOf[k] = <<CallBlock(k)>>
      BY <2>2 DEF BlocksOf
    <3>2. ItemOf(CallBlock(k)) = k
      BY DEF ItemOf, CallBlock
    <3>. QED  BY <2>1, <3>1, <3>2
  <2>3. CASE k \notin calls /\ pending[k] = <<>>
    <3>1. BlocksOf[k] = <<>>
      BY <2>3 DEF BlocksOf, TextBlocks
    <3>. QED  BY <2>1, <3>1, EmptySeq
  <2>4. CASE k \notin calls /\ pending[k] # <<>>
    <3> DEFINE b == [kind |-> "text", key |-> 0, parts |-> pending[k]]
    <3>1. BlocksOf[k] = <<b>>
      BY <2>4 DEF BlocksOf, TextBlocks
    <3>2. pending[k] = HeardOf(k)
      BY <2>4 DEF Faithful, Collected
    <3>3. pending[k] \in Seq(Pieces \cap PiecesOf(k))
      <4>1. heard \in Seq(Pieces)
        BY DEF TypeOK
      <4>. QED  BY <3>2, <4>1, HeardOfIs, ChosenType
    <3>4. 1 \in 1..Len(pending[k])
      BY <2>4, <3>3, LenProperties, EmptySeq
    <3>5. pending[k][1] \in PiecesOf(k)
      BY <3>3, <3>4, ElementOfSeq
    <3>6. ItemOf(b) = k
      BY <3>5 DEF ItemOf, PiecesOf
    <3>. HIDE DEF b
    <3>. QED  BY <2>1, <3>1, <3>6
  <2>. QED  BY <2>2, <2>3, <2>4
<1>. QED  BY <1>1, <1>2, BlocksAscend

\* A reply holds what the server said in the attempt that brought it: all the text in the
\* order it came, every call once, in the order the calls were begun, with its own
\* arguments or none.
THEOREM RepliesAssembled == Spec => []Assembled
<1>1. StreamInv => Assembled
  <2> SUFFICES ASSUME StreamInv, pc = "returned"
               PROVE  LET reply == history[2].content IN
                      /\ TextOf(reply) = TextHeard
                      /\ OfKind(reply, "call") = CallsMeant
                      /\ provider = "anthropic" =>
                           \A m, n \in DOMAIN reply : m < n => ItemOf(reply[m]) < ItemOf(reply[n])
    BY DEF Assembled
  <2>1. TypeOK /\ Faithful /\ history[2].content = Reply
    BY DEF StreamInv, Decoded, Conversation, Turn, Message
  <2>2. ReplySays /\ CallsMeant = Each(CallsBegun, CallOf)
    BY <2>1, ReplyIs, MeantAre DEF Faithful
  <2>3. provider = "anthropic" => Ascending(Reply)
    BY <2>1, AnthropicAscends
  <2>. QED  BY <2>1, <2>2, <2>3 DEF ReplySays, Ascending
<1>. QED  BY <1>1, StreamInvariant, PTL

\* What the deltas showed is what the reply keeps: the same text, and for each call the
\* arguments it ends with, unless they were cut.
THEOREM DeltasAreKept == Spec => []ShownIsKept
<1>1. StreamInv => ShownIsKept
  <2> SUFFICES ASSUME StreamInv, pc = "returned" PROVE ShownIsKept
    BY DEF ShownIsKept
  <2>1. TypeOK /\ Faithful /\ history[2].content = Reply
    BY DEF StreamInv, Decoded, Conversation, Turn, Message
  <2>2. ReplySays /\ Displayed /\ Collected
    BY <2>1, ReplyIs DEF Faithful
  <2>3. CallsBegun \in Seq(Keys) /\ Range(CallsBegun) = ItemsOf("call")
    BY <2>1, BegunAre DEF Faithful
  <2>4. ASSUME NEW b \in ToSet(OfKind(Reply, "call"))
        PROVE  b.parts \in {ShownUnder(b.key), <<>>}
    <3>1. PICK n \in DOMAIN CallsBegun : b = CallOf[CallsBegun[n]]
      BY <2>2, <2>4 DEF ReplySays, ToSet, Each
    <3> DEFINE k == CallsBegun[n]
    <3>2. k \in Keys /\ k \in ItemsOf("call")
      BY <2>3 DEF Range, ItemsOf
    <3>. HIDE DEF k
    <3>3. b = [kind |-> "call", key |-> k, parts |-> Parsed(pending[k])]
      BY <3>1, <3>2 DEF CallOf, CallBlock, k
    <3>4. pending[k] = HeardOf(k) /\ ShownUnder(k) = HeardOf(k)
      BY <2>2, <3>2 DEF Collected, Kept, Displayed
    <3>. QED  BY <3>3, <3>4 DEF Parsed
  <2>. QED  BY <2>1, <2>2, <2>4 DEF ShownIsKept, ShownUnder, Displayed, ReplySays
<1>. QED  BY <1>1, StreamInvariant, PTL

(***************************************************************************)
(* The request of the next turn.                                           *)
(***************************************************************************)

Msg == [role : {"user", "assistant"}, content : Seq(Block)]

WireOf == [m \in Msg |-> IF provider = "anthropic" THEN m.content ELSE OthersWire(m)]
Sent(h) == FlattenSeq(Each(h, WireOf))

\* What is sent of a message are blocks.
LEMMA WireType == \A m \in Msg : WireOf[m] \in Seq(Block)
<1> SUFFICES ASSUME NEW m \in Msg PROVE WireOf[m] \in Seq(Block)
  OBVIOUS
<1>1. m.content \in Seq(Block)
  BY DEF Msg
<1>2. TextOf(m.content) \in Seq(Pieces)
  BY <1>1, TextOfType
<1>3. JoinedText(m.content) \in Seq(Block)
  BY <1>2, TextBlocksAre DEF JoinedText, TextOf
<1>4. /\ OfKind(m.content, "result") \in Seq(Block)
        /\ OfKind(m.content, "prompt") \in Seq(Block)
      /\ OfKind(m.content, "call") \in Seq(Block)
  BY <1>1, OfKindType
<1>5. OthersWire(m) \in Seq(Block)
  BY <1>3, <1>4, ConcatProperties DEF OthersWire
<1>. QED  BY <1>1, <1>5 DEF WireOf

\* So is what is sent of a conversation.
LEMMA SentType ==
  ASSUME NEW h \in Seq(Msg)
  PROVE  Sent(h) \in Seq(Block) /\ Each(h, WireOf) \in Seq(Seq(Block))
<1>1. Each(h, WireOf) \in Seq(Seq(Block))
  BY WireType, EachType
<1>. QED  BY <1>1, FlattenType DEF Sent

\* Two conversations are sent one after the other.
LEMMA SentConcat ==
  ASSUME NEW g \in Seq(Msg), NEW h \in Seq(Msg)
  PROVE  Sent(g \o h) = Sent(g) \o Sent(h)
<1>1. Each(g, WireOf) \in Seq(Seq(Block)) /\ Each(h, WireOf) \in Seq(Seq(Block))
  BY SentType
<1>2. Each(g \o h, WireOf) = Each(g, WireOf) \o Each(h, WireOf)
  BY EachConcat
<1>. QED  BY <1>1, <1>2, FlattenConcat DEF Sent

\* One message is sent.
LEMMA SentOne ==
  ASSUME NEW m \in Msg
  PROVE  Sent(<<m>>) = WireOf[m] /\ <<m>> \in Seq(Msg)
<1>1. Each(<<m>>, WireOf) = <<WireOf[m]>>
  BY DEF Each
<1>2. WireOf[m] \in Seq(Block)
  BY WireType
<1>. QED  BY <1>1, <1>2, FlattenOne DEF Sent

\* None is.
LEMMA SentNone == Sent(<<>>) = <<>> /\ <<>> \in Seq(Msg)
BY EachEmpty, FlattenEmpty, EmptySeq DEF Sent

\* The request sends the conversation.
LEMMA WireIs ==
  ASSUME history \in Seq(Msg)
  PROVE  Wire = Sent(history)
<1>1. \A n \in DOMAIN history : history[n] \in Msg
  BY LenProperties, ElementOfSeq
<1>2. Each(history, WireOf)
      = [n \in DOMAIN history |->
           IF provider = "anthropic" THEN history[n].content ELSE OthersWire(history[n])]
  BY <1>1 DEF Each, WireOf
<1>. QED  BY <1>2 DEF Wire, Sent

\* What is said besides text.
Besides(c) == Chosen(c, NotText)

\* What is besides text in two contents.
LEMMA BesidesConcat ==
  ASSUME NEW c \in Seq(Block), NEW d \in Seq(Block)
  PROVE  Besides(c \o d) = Besides(c) \o Besides(d)
BY ChosenConcat DEF Besides

\* Blocks of another kind are all besides text.
LEMMA BesidesAll ==
  ASSUME NEW kind, kind # "text", NEW c \in Seq(Kinded(kind))
  PROVE  Besides(c) = c
<1>1. Kinded(kind) \subseteq NotText
  BY DEF Kinded, NotText
<1>. QED  BY <1>1, ChosenAll DEF Besides

\* The blocks that are not text.
LEMMA BesidesIs ==
  ASSUME NEW c \in Seq(Block)
  PROVE  Select(c, LAMBDA b : b.kind # "text") = Besides(c)
<1>1. \A n \in DOMAIN c : c[n] \in Block
  BY LenProperties, ElementOfSeq
<1>2. [n \in DOMAIN c |-> IF c[n].kind # "text" THEN <<c[n]>> ELSE <<>>]
      = [n \in DOMAIN c |-> IF c[n] \in NotText THEN <<c[n]>> ELSE <<>>]
  BY <1>1 DEF NotText
<1>. QED  BY <1>2 DEF Select, Chosen, Besides

\* Besides text a reply has calls only.
LEMMA BesidesSaid ==
  ASSUME NEW c \in Seq(Said)
  PROVE  Besides(c) = OfKind(c, "call")
<1>1. Said \subseteq Block /\ c \in Seq(Block)
  BY SeqMonotonic DEF Said
<1>2. \A n \in 1..Len(c) : c[n] \in Said
  BY ElementOfSeq
<1>3. \A n \in 1..Len(c) : c[n] \in NotText <=> c[n] \in Kinded("call")
  BY <1>2 DEF Said, NotText, Kinded
<1>4. Chosen(c, NotText) = Chosen(c, Kinded("call"))
  BY <1>3, ChosenSame
<1>. QED  BY <1>1, <1>4, OfKindIs DEF Besides

\* The messages, as they are sent.
LEMMA PromptSent ==
  Prompt \in Msg /\ WireOf[Prompt] = <<PromptBlock>>
    /\ <<PromptBlock>> \in Seq(Kinded("prompt"))
<1>1. PromptBlock \in Kinded("prompt")
  BY NoneIsPieces DEF PromptBlock, Kinded, Block
<1>2. <<PromptBlock>> \in Seq(Kinded("prompt")) /\ <<PromptBlock>> \in Seq(Block)
  BY <1>1 DEF Kinded
<1>3. Prompt \in Msg /\ Prompt.role = "user" /\ Prompt.content = <<PromptBlock>>
  BY <1>2 DEF Prompt, Message, Msg
<1>4. OfKind(<<PromptBlock>>, "prompt") = <<PromptBlock>>
        /\ OfKind(<<PromptBlock>>, "result") = <<>>
  BY <1>2, OfKindAll, OfKindNone
<1>5. OthersWire(Prompt) = <<PromptBlock>>
  BY <1>2, <1>3, <1>4, ConcatEmptySeq DEF OthersWire
<1>. QED  BY <1>2, <1>3, <1>5 DEF WireOf

\* The answers of the tools as they are sent: one result for each call, in their order.
LEMMA AnswerSent ==
  ASSUME TypeOK, Faithful
  PROVE  /\ Answer(Reply) \in Seq(Msg)
         /\ Sent(Answer(Reply)) = Each(CallsBegun, ResultFor)
         /\ Each(CallsBegun, ResultFor) \in Seq(Kinded("result"))
<1> DEFINE calling == OfKind(Reply, "call")
           results == Each(CallsBegun, ResultFor)
           content == [n \in DOMAIN calling |-> [kind |-> "result", key |-> calling[n].key,
           parts |-> <<>>]]
<1>1. calling = Each(CallsBegun, CallOf)
  BY ReplyIs DEF ReplySays
<1>2. CallsBegun \in Seq(Keys)
  BY BegunAre DEF Faithful
<1>3. \A k \in Keys : ResultFor[k] \in Kinded("result")
  BY NoneIsPieces DEF ResultFor, Kinded, Block
<1>4. results \in Seq(Kinded("result")) /\ results \in Seq(Block)
  <2>1. results \in Seq(Kinded("result"))
    BY <1>2, <1>3, EachType
  <2>. HIDE DEF results
  <2>. QED  BY <2>1, OfKindAll
<1>5. CASE calling = <<>>
  <2>1. Len(CallsBegun) = 0
    BY <1>1, <1>2, <1>5, EachLen, EmptySeq
  <2>2. CallsBegun = <<>>
    BY <1>2, <2>1, EmptySeq
  <2>3. results = <<>>
    BY <2>2, EachEmpty
  <2>4. Answer(Reply) = <<>>
    BY <1>5 DEF Answer
  <2>. QED  BY <1>4, <2>3, <2>4, SentNone
<1>6. CASE calling # <<>>
  <2>1. content = results
    <3>1. /\ DOMAIN calling = DOMAIN CallsBegun
          /\ \A n \in DOMAIN CallsBegun : calling[n] = CallOf[CallsBegun[n]]
            /\ CallsBegun[n] \in Keys
      BY <1>1, <1>2, LenProperties, ElementOfSeq DEF Each
    <3>. HIDE DEF calling
    <3>2. \A k \in Keys : CallOf[k].key = k
      BY DEF CallOf, CallBlock
    <3>3. \A n \in DOMAIN CallsBegun : calling[n].key = CallsBegun[n]
      BY <3>1, <3>2
    <3>4. content = [n \in DOMAIN CallsBegun |-> ResultFor[CallsBegun[n]]]
      BY <3>1, <3>3 DEF ResultFor
    <3>. QED  BY <3>4 DEF Each
  <2>2. Results(Reply) = Message("user", results)
    BY <2>1 DEF Results
  <2> DEFINE m == Message("user", results)
  <2>3. Answer(Reply) = <<m>>
    BY <1>6, <2>2 DEF Answer
  <2>. HIDE DEF results, content
  <2>4. m \in Msg /\ m.role = "user" /\ m.content = results
    BY <1>4 DEF Message, Msg
  <2>5. OfKind(results, "result") = results /\ OfKind(results, "prompt") = <<>>
    BY <1>4, OfKindAll, OfKindNone
  <2>6. OthersWire(m) = results
    BY <1>4, <2>4, <2>5, ConcatEmptySeq DEF OthersWire
  <2>. HIDE DEF m
  <2>7. WireOf[m] = results
    BY <2>4, <2>6 DEF WireOf
  <2>. QED  BY <1>4, <2>3, <2>4, <2>7, SentOne DEF results
<1>. QED  BY <1>5, <1>6

\* The reply as it is sent: the text that was heard and the calls that were meant.
LEMMA ReplySent ==
  ASSUME TypeOK, Faithful
  PROVE  LET m == Message("assistant", Reply)
             w == WireOf[m]
         IN  /\ m \in Msg /\ w \in Seq(Block)
             /\ TextOf(w) = TextHeard /\ Besides(w) = CallsMeant
             /\ provider # "anthropic" =>
                  w = TextBlocks(TextHeard) \o CallsMeant /\ CallsMeant \in Seq(Kinded("call"))
<1> DEFINE m == Message("assistant", Reply)
           t == TextBlocks(TextHeard)
           c == OfKind(Reply, "call")
<1>1. /\ Reply \in Seq(Said) /\ Reply \in Seq(Block)
      /\ TextOf(Reply) = TextHeard /\ OfKind(Reply, "call") = CallsMeant
  BY ReplyIs, MeantAre DEF ReplySays, Faithful
<1>2. m \in Msg /\ m.role = "assistant" /\ m.content = Reply
  BY <1>1 DEF Message, Msg
<1>3. WireOf[m] \in Seq(Block)
  BY <1>2, WireType
<1>4. CASE provider = "anthropic"
  <2>1. WireOf[m] = Reply
    BY <1>2, <1>4 DEF WireOf
  <2>. QED  BY <1>1, <1>2, <1>3, <1>4, <2>1, BesidesSaid
<1>5. CASE provider # "anthropic"
  <2>1. WireOf[m] = JoinedText(Reply) \o c
    <3>1. OthersWire(m) = JoinedText(Reply) \o c
      BY <1>2 DEF OthersWire
    <3>. QED  BY <1>2, <1>5, <3>1 DEF WireOf
  <2>2. JoinedText(Reply) = t
    BY <1>1 DEF JoinedText, TextOf
  <2>3. TextHeard \in Seq(Pieces)
    BY <1>1, TextOfType
  <2>4. t \in Seq(Kinded("text")) /\ t \in Seq(Block) /\ TextOf(t) = TextHeard
    BY <2>3, TextBlocksAre
  <2>5. c \in Seq(Kinded("call")) /\ c \in Seq(Block)
    BY <1>1, OfKindType
  <2>. HIDE DEF t, c, m
  <2>6. TextOf(t \o c) = TextHeard
    <3>1. TextOf(t \o c) = TextOf(t) \o TextOf(c)
      BY <2>4, <2>5, TextOfConcat
    <3>2. TextOf(c) = <<>>
      BY <2>5, TextOfOther
    <3>. QED  BY <2>3, <2>4, <3>1, <3>2, ConcatEmptySeq
  <2>7. Besides(t \o c) = c
    <3>1. Besides(t \o c) = Besides(t) \o Besides(c)
      BY <2>4, <2>5, BesidesConcat
    <3>2. Besides(t) = <<>>
      <4>1. Kinded("text") \cap NotText = {}
        BY DEF Kinded, NotText
      <4>. QED  BY <2>4, <4>1, ChosenNone DEF Besides
    <3>3. Besides(c) = c
      BY <2>5, BesidesAll
    <3>. QED  BY <2>5, <3>1, <3>2, <3>3, ConcatEmptySeq
  <2>. QED  BY <1>1, <1>2, <1>3, <2>1, <2>2, <2>5, <2>6, <2>7 DEF t, c, m
<1>. QED  BY <1>4, <1>5

\* Text is sent in one block, the second.
TextIsSecond(c) == \A n \in DOMAIN c : c[n].kind = "text" => n = 2

\* A block of text after one of another kind is the second.
LEMMA SecondFirst ==
  ASSUME NEW u \in Seq(NotText), Len(u) = 1, NEW t \in Seq(Block), Len(t) <= 1
  PROVE  TextIsSecond(u \o t) /\ u \o t \in Seq(Block)
<1> DEFINE w == u \o t
<1>1. u \in Seq(Block)
  <2>1. NotText \subseteq Block
    BY DEF NotText
  <2>. QED  BY <2>1, SeqMonotonic
<1>2. Len(t) \in {0, 1}
  <2>1. Len(t) \in Nat
    BY LenProperties
  <2>. QED  BY <2>1, NoneOrOne
<1>3. /\ w \in Seq(Block) /\ Len(w) = 1 + Len(t)
      /\ \A n \in 1..Len(w) : w[n] = IF n <= Len(u) THEN u[n] ELSE t[n - Len(u)]
  BY <1>1, ConcatProperties
<1>. HIDE DEF w
<1>4. DOMAIN w = 1..Len(w)
  BY <1>3, LenProperties
<1>5. w[1].kind # "text"
  <2>1. 1 \in 1..Len(u)
    OBVIOUS
  <2>2. u[1] \in NotText
    BY <2>1, ElementOfSeq
  <2>3. w[1] = u[1]
    BY <1>2, <1>3
  <2>. QED  BY <2>2, <2>3 DEF NotText
<1>6. TextIsSecond(w)
  BY <1>2, <1>3, <1>4, <1>5 DEF TextIsSecond
<1>. QED  BY <1>3, <1>6 DEF w

\* What follows without text changes nothing in this.
LEMMA SecondThen ==
  ASSUME NEW c \in Seq(Block), TextIsSecond(c), NEW r \in Seq(NotText)
  PROVE  TextIsSecond(c \o r)
<1> DEFINE w == c \o r
<1>1. r \in Seq(Block)
  <2>1. NotText \subseteq Block
    BY DEF NotText
  <2>. QED  BY <2>1, SeqMonotonic
<1>2. /\ w \in Seq(Block) /\ Len(w) = Len(c) + Len(r)
      /\ \A n \in 1..Len(w) : w[n] = IF n <= Len(c) THEN c[n] ELSE r[n - Len(c)]
  BY <1>1, ConcatProperties
<1>. HIDE DEF w
<1>3. DOMAIN w = 1..Len(w) /\ DOMAIN c = 1..Len(c) /\ Len(c) \in Nat /\ Len(r) \in Nat
  BY <1>1, <1>2, LenProperties
<1>4. \A n \in 1..Len(r) : r[n].kind # "text"
  <2>1. \A n \in 1..Len(r) : r[n] \in NotText
    BY ElementOfSeq
  <2>. QED  BY <2>1 DEF NotText
<1>5. ASSUME NEW n \in 1..Len(w), w[n].kind = "text"
      PROVE  n = 2
  <2>1. CASE n <= Len(c)
    BY <1>2, <1>3, <1>5, <2>1 DEF TextIsSecond
  <2>2. CASE n > Len(c)
    <3>1. w[n] = r[n - Len(c)] /\ n - Len(c) \in 1..Len(r)
      BY <1>2, <1>3, <2>2
    <3>. QED  BY <1>4, <1>5, <3>1
  <2>. QED  BY <1>2, <1>3, <2>1, <2>2
<1>. QED  BY <1>3, <1>5 DEF TextIsSecond, w

\* The request of the next turn, message by message.
LEMMA Conveyed ==
  ASSUME TypeOK, Faithful, NEW prompted \in BOOLEAN,
         history = (Turn(Reply) \o Answer(Reply)) \o Asked(prompted)
  PROVE  LET u == <<PromptBlock>>
             a == WireOf[Message("assistant", Reply)]
             r == Each(CallsBegun, ResultFor)
             p == IF prompted THEN <<PromptBlock>> ELSE <<>>
         IN  Wire = ((u \o a) \o r) \o p
<1> DEFINE m == Message("assistant", Reply)
<1>1. Prompt \in Msg /\ m \in Msg /\ Answer(Reply) \in Seq(Msg)
  BY PromptSent, ReplySent, AnswerSent
<1>2. <<Prompt>> \in Seq(Msg) /\ <<m>> \in Seq(Msg) /\ Turn(Reply) = <<Prompt>> \o <<m>>
  BY <1>1 DEF Turn
<1>3. Asked(prompted) \in Seq(Msg)
  BY <1>1, EmptySeq DEF Asked
<1>4. Sent(<<Prompt>>) = <<PromptBlock>> /\ Sent(<<m>>) = WireOf[m]
  BY <1>1, SentOne, PromptSent
<1>5. Sent(Asked(prompted)) = IF prompted THEN <<PromptBlock>> ELSE <<>>
  BY <1>4, SentNone DEF Asked
<1>. HIDE DEF m
<1>6. Turn(Reply) \in Seq(Msg) /\ Sent(Turn(Reply)) = <<PromptBlock>> \o WireOf[m]
  BY <1>2, <1>4, SentConcat, ConcatProperties
<1> DEFINE ta == Turn(Reply) \o Answer(Reply)
<1>7. ta \in Seq(Msg) /\ Sent(ta) = Sent(Turn(Reply)) \o Sent(Answer(Reply))
  BY <1>1, <1>6, SentConcat, ConcatProperties
<1>. HIDE DEF ta
<1>8. history \in Seq(Msg) /\ Sent(history) = Sent(ta) \o Sent(Asked(prompted))
  <2>1. history = ta \o Asked(prompted)
    BY DEF ta
  <2>. QED  BY <1>3, <1>7, <2>1, SentConcat, ConcatProperties
<1>9. Wire = Sent(history)
  BY <1>8, WireIs
<1>10. Sent(Answer(Reply)) = Each(CallsBegun, ResultFor)
  BY AnswerSent
<1>. QED  BY <1>5, <1>6, <1>7, <1>8, <1>9, <1>10 DEF m

\* The next request tells the server what it said, in each provider's form: its text, its
\* calls in order and after the last of them, before the user speaks again, one result per
\* call in the same order.
THEOREM ConversationToldBack == Spec => []ToldBack
<1>1. StreamInv => ToldBack
  <2> SUFFICES ASSUME StreamInv, pc = "asking" PROVE ToldBack
    BY DEF ToldBack
  <2>1. TypeOK /\ Faithful
    BY DEF StreamInv, Decoded
  <2>2. PICK prompted \in BOOLEAN : history = (Turn(Reply) \o Answer(Reply)) \o Asked(prompted)
    BY DEF StreamInv, Conversation
  <2> DEFINE u == <<PromptBlock>>
             a == WireOf[Message("assistant", Reply)]
             r == Each(CallsBegun, ResultFor)
             p == IF prompted THEN <<PromptBlock>> ELSE <<>>
             ua == u \o a
             uar == ua \o r
             w == uar \o p
  <2>3. Wire = w
    BY <2>1, <2>2, Conveyed
  <2>4. u \in Seq(Kinded("prompt")) /\ p \in Seq(Kinded("prompt"))
    BY PromptSent, EmptySeq
  <2>5. r \in Seq(Kinded("result"))
    BY <2>1, AnswerSent
  <2>6. a \in Seq(Block) /\ TextOf(a) = TextHeard /\ Besides(a) = CallsMeant
    BY <2>1, ReplySent
  <2>. HIDE DEF a, r
  <2>7. Len(u) = 1 /\ (prompted => p = u) /\ (~prompted => p = <<>>)
    OBVIOUS
  <2>. HIDE DEF u, p
  <2>8. u \in Seq(Block) /\ r \in Seq(Block) /\ p \in Seq(Block)
    BY <2>4, <2>5, OfKindAll
  <2>9. ua \in Seq(Block) /\ TextOf(ua) = TextOf(u) \o TextOf(a)
          /\ Besides(ua) = Besides(u) \o Besides(a)
    BY <2>6, <2>8, TextOfConcat, BesidesConcat, ConcatProperties
  <2>. HIDE DEF ua
  <2>10. uar \in Seq(Block) /\ TextOf(uar) = TextOf(ua) \o TextOf(r)
           /\ Besides(uar) = Besides(ua) \o Besides(r)
    BY <2>8, <2>9, TextOfConcat, BesidesConcat, ConcatProperties
  <2>. HIDE DEF uar
  <2>11. w \in Seq(Block) /\ TextOf(w) = TextOf(uar) \o TextOf(p)
           /\ Besides(w) = Besides(uar) \o Besides(p)
    BY <2>8, <2>10, TextOfConcat, BesidesConcat, ConcatProperties
  <2>12. /\ TextOf(u) = <<>> /\ TextOf(r) = <<>> /\ TextOf(p) = <<>>
         /\ Besides(u) = u /\ Besides(r) = r /\ Besides(p) = p
    BY <2>4, <2>5, TextOfOther, BesidesAll
  <2>13. TextOf(w) = TextHeard
    <3>1. TextHeard \in Seq(Pieces)
      BY <2>6, TextOfType
    <3>. QED  BY <2>6, <2>9, <2>10, <2>11, <2>12, <3>1, ConcatEmptySeq
  <2>. HIDE DEF w
  <2> DEFINE said == (u \o CallsMeant) \o r
  <2>14. Besides(w) \in {said, Append(said, PromptBlock)}
    <3>1. Besides(w) = said \o p
      BY <2>6, <2>9, <2>10, <2>11, <2>12
    <3>2. said \in Seq(Block)
      <4>1. CallsMeant \in Seq(Block)
        BY <2>6, ChosenType DEF Besides
      <4>2. u \o CallsMeant \in Seq(Block)
        BY <2>8, <4>1, ConcatProperties
      <4>. QED  BY <2>8, <4>2, ConcatProperties
    <3>3. CASE ~prompted
      BY <2>7, <3>1, <3>2, <3>3, ConcatEmptySeq
    <3>4. CASE prompted
      <4>1. PromptBlock \in Block
        BY NoneIsPieces DEF PromptBlock, Block
      <4>2. Append(said, PromptBlock) = said \o <<PromptBlock>>
        BY <3>2, <4>1, AppendIsConcat
      <4>. QED  BY <2>7, <3>1, <3>4, <4>2 DEF u
    <3>. QED  BY <3>3, <3>4
  <2>15. Select(w, LAMBDA b : b.kind # "text") = Besides(w)
    BY <2>11, BesidesIs
  <2>16. r = LET begun == CallsBegun IN
             [n \in DOMAIN begun |-> [kind |-> "result", key |-> begun[n], parts |-> <<>>]]
    <3>1. CallsBegun \in Seq(Keys)
      BY <2>1, BegunAre DEF Faithful
    <3>2. \A n \in DOMAIN CallsBegun : CallsBegun[n] \in Keys
      BY <3>1, LenProperties, ElementOfSeq
    <3>. QED  BY <3>2 DEF r, Each, ResultFor
  <2>17. ASSUME provider # "anthropic"
         PROVE  \A n \in DOMAIN w : w[n].kind = "text" => n = 2
    <3> DEFINE t == TextBlocks(TextHeard)
    <3>1. a = t \o CallsMeant /\ CallsMeant \in Seq(Kinded("call"))
      BY <2>1, <2>17, ReplySent DEF a
    <3>2. t \in Seq(Block) /\ Len(t) <= 1
      <4>1. TextHeard \in Seq(Pieces)
        BY <2>6, TextOfType
      <4>2. t \in Seq(Block)
        BY <4>1, TextBlocksAre
      <4>3. Len(t) <= 1
        BY DEF TextBlocks
      <4>. QED  BY <4>2, <4>3
    <3>3. CallsMeant \in Seq(Block) /\ CallsMeant \in Seq(NotText)
      <4>1. Kinded("call") \subseteq NotText
        BY DEF Kinded, NotText
      <4>. QED  BY <3>1, <4>1, OfKindAll, SeqMonotonic
    <3>4. u \in Seq(NotText) /\ r \in Seq(NotText) /\ p \in Seq(NotText)
      <4>1. Kinded("prompt") \subseteq NotText /\ Kinded("result") \subseteq NotText
        BY DEF Kinded, NotText
      <4>. QED  BY <2>4, <2>5, <4>1, SeqMonotonic
    <3>. HIDE DEF t
    <3>5. TextIsSecond(u \o t) /\ u \o t \in Seq(Block)
      BY <2>7, <3>2, <3>4, SecondFirst
    <3>6. ua = (u \o t) \o CallsMeant
      <4>1. ua = u \o (t \o CallsMeant)
        BY <3>1 DEF ua
      <4>2. u \o (t \o CallsMeant) = (u \o t) \o CallsMeant
        <5>1. u \in Seq(Block) /\ t \in Seq(Block)
          BY <2>8, <3>2
        <5>2. CallsMeant \in Seq(Block)
          BY <3>3
        <5>. QED  BY <5>1, <5>2, ConcatAssociative
      <4>. QED  BY <4>1, <4>2
    <3>7. TextIsSecond(ua)
      BY <3>3, <3>5, <3>6, SecondThen
    <3>8. TextIsSecond(uar)
      BY <2>9, <3>4, <3>7, SecondThen DEF uar
    <3>9. TextIsSecond(w)
      BY <2>10, <3>4, <3>8, SecondThen DEF w
    <3>. QED  BY <3>9 DEF TextIsSecond
  <2>18. said = <<PromptBlock>> \o CallsMeant \o r
    BY DEF u
  <2>. HIDE DEF said
  <2>. QED  BY <2>3, <2>13, <2>14, <2>15, <2>16, <2>17, <2>18 DEF ToldBack
<1>. QED  BY <1>1, StreamInvariant, PTL
=============================================================================
