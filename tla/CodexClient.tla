----------------------------- MODULE CodexClient -----------------------------
(***************************************************************************)
(* CodexApiClient (oh-api, codex.rs): calls of stream_message that share   *)
(* one pair of OAuth tokens and one refresh_lock.  The main loop, the      *)
(* in-process subagents and the prompt hooks call the same client; a hook  *)
(* that runs out of time and a run that is cancelled drop their call.      *)
(*                                                                         *)
(* Tokens are numbered in the order they are issued; requests, bodies and  *)
(* delays are left out.  tokens is written only under refresh_lock and     *)
(* never across an await, so reading and writing it are single steps.  The *)
(* server is external: it may rotate the refresh token with an exchange,   *)
(* after which the old one is spent, it may fail at anything, and a        *)
(* request may reach it after its caller has given up.                     *)
(***************************************************************************)
EXTENDS Naturals

CONSTANTS
  Callers,     \* calls that may be under way at once
  MaxTokens,   \* bound: exchanges that succeed
  MaxAttempts, \* attempts of a call: MAX_RETRIES + 1
  None         \* nobody

ASSUME CodexAssumption ==
  MaxTokens \in Nat /\ MaxAttempts \in Nat \ {0} /\ None \notin Callers

Tokens == 0..MaxTokens

Exchanging == {"exchanging_due", "exchanging_401"}
Sending == {"sending", "resending"}
Streaming == {"streaming", "restreaming"}
Steps == {"idle", "sleeping", "reading", "waiting_due", "waiting_401"}
           \cup Exchanging \cup Sending \cup Streaming

Answers == [kind : {"none", "bad"}] \cup
           [kind : {"ok"}, access : Tokens, refresh : Tokens]
NoAnswer == [kind |-> "none"]

VARIABLES
  access, refresh,  \* the tokens stored
  issued,           \* the number of the newest access token
  due,              \* the clock has come near to expires_at
  refused,          \* access tokens the server answers with 401
  spent,            \* refresh tokens the server has replaced
  holder,           \* who holds refresh_lock
  await,            \* await[c]: the await call c is at
  attempt,          \* attempt[c]: attempts so far
  used,             \* used[c]: the access token of the attempt
  asked,            \* asked[c]: the refresh token of the exchange
  answer,           \* answer[c]: what the server answered to the exchange
  outcome,          \* outcome[c]: c's last call failed for want of a good token, or not
  abandoned         \* refresh tokens of exchanges whose answer nobody received

client == <<access, refresh>>
issuer == <<issued, spent>>
codexVars == <<client, issuer, due, refused, holder, await, attempt, used, asked, answer,
               outcome, abandoned>>

CodexTypeOK ==
  /\ access \in Tokens /\ refresh \in Tokens /\ issued \in Tokens
  /\ due \in BOOLEAN /\ refused \subseteq Tokens
  /\ spent \subseteq Tokens /\ abandoned \subseteq Tokens
  /\ holder \in Callers \cup {None}
  /\ await \in [Callers -> Steps]
  /\ attempt \in [Callers -> 0..MaxAttempts]
  /\ used \in [Callers -> Tokens] /\ asked \in [Callers -> Tokens]
  /\ answer \in [Callers -> Answers]
  /\ outcome \in [Callers -> {"none", "unauthorized"}]
  /\ \A c \in Callers :
       await[c] \in {"exchanging_due", "exchanging_401", "resending", "restreaming"}
         <=> holder = c

\* from_env: any tokens, fresh or not.
CodexInit ==
  /\ access = 0 /\ refresh = 0 /\ issued = 0
  /\ due = FALSE /\ refused = {} /\ spent = {} /\ abandoned = {}
  /\ holder = None
  /\ await = [c \in Callers |-> "idle"]
  /\ attempt = [c \in Callers |-> 0]
  /\ used = [c \in Callers |-> 0] /\ asked = [c \in Callers |-> 0]
  /\ answer = [c \in Callers |-> NoAnswer]
  /\ outcome = [c \in Callers |-> "none"]

GoTo(c, step) == await' = [await EXCEPT ![c] = step]

Use(c, token) == used' = [used EXCEPT ![c] = token]

\* The call's future ends or is dropped, and its guard with it.
End(c, how) ==
  /\ GoTo(c, "idle")
  /\ outcome' = [outcome EXCEPT ![c] = how]
  /\ holder' = IF holder = c THEN None ELSE holder
  /\ attempt' = [attempt EXCEPT ![c] = 0]
  /\ used' = [used EXCEPT ![c] = 0] /\ asked' = [asked EXCEPT ![c] = 0]
  /\ answer' = [answer EXCEPT ![c] = NoAnswer]

(***************************************************************************)
(* current_access_token.                                                   *)
(***************************************************************************)

StartCall(c) ==
  /\ await[c] = "idle" /\ GoTo(c, "reading")
  /\ attempt' = [attempt EXCEPT ![c] = 1]
  /\ outcome' = [outcome EXCEPT ![c] = "none"]
  /\ UNCHANGED <<client, issuer, due, refused, holder, used, asked, answer, abandoned>>

\* The fast path: a token that is not due is used as it is.
ReadTokens(c) ==
  /\ await[c] = "reading"
  /\ IF due THEN GoTo(c, "waiting_due") /\ UNCHANGED used
            ELSE GoTo(c, "sending") /\ Use(c, access)
  /\ UNCHANGED <<client, issuer, due, refused, holder, attempt, asked, answer, outcome,
                 abandoned>>

\* Mutant: what another call did while this one waited for the lock is not looked at.
LockDueBlindly(c) ==
  /\ await[c] = "waiting_due" /\ holder = None
  /\ Use(c, access)
  /\ holder' = c /\ GoTo(c, "exchanging_due")
  /\ asked' = [asked EXCEPT ![c] = refresh]
  /\ UNCHANGED <<client, issuer, due, refused, attempt, answer, outcome, abandoned>>

\* Mutant: no lock around the exchange.
LockDueNot(c) ==
  /\ await[c] = "waiting_due"
  /\ Use(c, access)
  /\ GoTo(c, "exchanging_due")
  /\ asked' = [asked EXCEPT ![c] = refresh]
  /\ UNCHANGED <<client, issuer, due, refused, holder, attempt, answer, outcome, abandoned>>

\* With the lock: another call may have refreshed meanwhile.
LockDue(c) ==
  /\ await[c] = "waiting_due" /\ holder = None
  /\ Use(c, access)
  /\ IF due
       THEN /\ holder' = c /\ GoTo(c, "exchanging_due")
            /\ asked' = [asked EXCEPT ![c] = refresh]
       ELSE GoTo(c, "sending") /\ UNCHANGED <<holder, asked>>
  /\ UNCHANGED <<client, issuer, due, refused, attempt, answer, outcome, abandoned>>

(***************************************************************************)
(* do_refresh, within ten seconds.                                         *)
(***************************************************************************)

\* A token that is exchanged and not replaced stays good.
ServerExchanges(c, rotates) ==
  /\ await[c] \in Exchanging /\ answer[c] = NoAnswer
  /\ asked[c] \notin spent /\ issued < MaxTokens
  /\ issued' = issued + 1
  /\ spent' = IF rotates THEN spent \cup {asked[c]} ELSE spent
  /\ answer' = [answer EXCEPT ![c] =
       [kind |-> "ok", access |-> issued + 1,
        refresh |-> IF rotates THEN issued + 1 ELSE asked[c]]]
  /\ UNCHANGED <<client, due, refused, holder, await, attempt, used, asked, outcome, abandoned>>

ServerRejects(c) ==
  /\ await[c] \in Exchanging /\ answer[c] = NoAnswer
  /\ answer' = [answer EXCEPT ![c] = [kind |-> "bad"]]
  /\ UNCHANGED <<client, issuer, due, refused, holder, await, attempt, used, asked, outcome,
                 abandoned>>

\* A request whose caller is gone reaches the server.
ServerExchangesLate(token) ==
  /\ token \in abandoned \ spent
  /\ spent' = spent \cup {token}
  /\ UNCHANGED <<client, issued, due, refused, holder, await, attempt, used, asked, answer,
                 outcome, abandoned>>

\* Mutant: a rotated refresh token is not kept.
StoreAccess(c) ==
  LET keep == await[c] = "exchanging_401" IN
  /\ await[c] \in Exchanging /\ answer[c].kind = "ok"
  /\ access' = answer[c].access /\ due' = FALSE
  /\ Use(c, answer[c].access)
  /\ GoTo(c, IF keep THEN "resending" ELSE "sending")
  /\ holder' = IF keep THEN c ELSE None
  /\ answer' = [answer EXCEPT ![c] = NoAnswer] /\ asked' = [asked EXCEPT ![c] = 0]
  /\ UNCHANGED <<refresh, issuer, refused, attempt, outcome, abandoned>>

\* The tokens are replaced.  After a 401 the lock is kept for the second attempt.
Store(c) ==
  LET keep == await[c] = "exchanging_401" IN
  /\ await[c] \in Exchanging /\ answer[c].kind = "ok"
  /\ access' = answer[c].access /\ refresh' = answer[c].refresh /\ due' = FALSE
  /\ Use(c, answer[c].access)
  /\ GoTo(c, IF keep THEN "resending" ELSE "sending")
  /\ holder' = IF keep THEN c ELSE None
  /\ answer' = [answer EXCEPT ![c] = NoAnswer] /\ asked' = [asked EXCEPT ![c] = 0]
  /\ UNCHANGED <<issuer, refused, attempt, outcome, abandoned>>

\* Mutant: the guard of current_access_token lives on in the call, which waits for it
\* when its token is refused.
GoOnGuarded(c) ==
  IF await[c] = "exchanging_due"
    THEN /\ GoTo(c, "sending")
         /\ answer' = [answer EXCEPT ![c] = NoAnswer]
         /\ asked' = [asked EXCEPT ![c] = 0]
         /\ UNCHANGED <<holder, attempt, used, outcome>>
    ELSE End(c, "unauthorized")

\* What an exchange that brought no tokens leads to: the old token is tried, or,
\* if it is the one that was refused, the call fails.
GoOnWithout(c) ==
  IF await[c] = "exchanging_due"
    THEN /\ GoTo(c, "sending") /\ holder' = None
         /\ answer' = [answer EXCEPT ![c] = NoAnswer]
         /\ asked' = [asked EXCEPT ![c] = 0]
         /\ UNCHANGED <<attempt, used, outcome>>
    ELSE End(c, "unauthorized")

ExchangeFails(c) ==
  /\ await[c] \in Exchanging /\ answer[c].kind = "bad"
  /\ GoOnWithout(c)
  /\ UNCHANGED <<client, issuer, due, refused, abandoned>>

\* No answer in time, or one that is lost on its way.
ExchangeTimesOut(c) ==
  /\ await[c] \in Exchanging /\ answer[c].kind # "bad"
  /\ abandoned' = abandoned \cup {asked[c]}
  /\ GoOnWithout(c)
  /\ UNCHANGED <<client, issuer, due, refused>>

(***************************************************************************)
(* complete_once and the retries of stream_message.                        *)
(***************************************************************************)

Accepted(c) ==
  /\ await[c] \in Sending /\ used[c] \notin refused
  /\ GoTo(c, IF await[c] = "sending" THEN "streaming" ELSE "restreaming")
  /\ UNCHANGED <<client, issuer, due, refused, holder, attempt, used, asked, answer, outcome,
                 abandoned>>

Unauthorized(c) ==
  /\ await[c] = "sending" /\ used[c] \in refused
  /\ GoTo(c, "waiting_401")
  /\ UNCHANGED <<client, issuer, due, refused, holder, attempt, used, asked, answer, outcome,
                 abandoned>>

\* Mutant: the token is exchanged without a look at whether it was replaced.
LockRefusedBlindly(c) ==
  /\ await[c] = "waiting_401" /\ holder = None
  /\ holder' = c
  /\ GoTo(c, "exchanging_401")
  /\ asked' = [asked EXCEPT ![c] = refresh]
  /\ UNCHANGED <<client, issuer, due, refused, attempt, used, answer, outcome, abandoned>>

\* With the lock: another call may have replaced the token that was refused.
LockRefused(c) ==
  /\ await[c] = "waiting_401" /\ holder = None
  /\ holder' = c
  /\ IF access # used[c]
       THEN GoTo(c, "resending") /\ Use(c, access) /\ UNCHANGED asked
       ELSE /\ GoTo(c, "exchanging_401")
            /\ asked' = [asked EXCEPT ![c] = refresh] /\ UNCHANGED used
  /\ UNCHANGED <<client, issuer, due, refused, attempt, answer, outcome, abandoned>>

RefusedAgain(c) ==
  /\ await[c] = "resending" /\ used[c] \in refused
  /\ End(c, "unauthorized")
  /\ UNCHANGED <<client, issuer, due, refused, abandoned>>

\* The response is streamed to its end before stream_message returns.
ResponseEnds(c) ==
  /\ await[c] \in Streaming
  /\ End(c, "none")
  /\ UNCHANGED <<client, issuer, due, refused, abandoned>>

\* The network, a status, or a stream that stays idle for two minutes.
CallFails(c, retryable) ==
  /\ await[c] \in Sending \cup Streaming
  /\ IF retryable /\ attempt[c] < MaxAttempts
       THEN /\ GoTo(c, "sleeping")
            /\ holder' = IF holder = c THEN None ELSE holder
            /\ Use(c, 0)
            /\ UNCHANGED <<attempt, asked, answer, outcome>>
       ELSE End(c, "none")
  /\ UNCHANGED <<client, issuer, due, refused, abandoned>>

RetryCall(c) ==
  /\ await[c] = "sleeping" /\ GoTo(c, "reading")
  /\ attempt' = [attempt EXCEPT ![c] = @ + 1]
  /\ UNCHANGED <<client, issuer, due, refused, holder, used, asked, answer, outcome,
                 abandoned>>

\* A cancelled run or a hook's time limit drops the call at any await.
DropCall(c) ==
  /\ await[c] # "idle"
  /\ abandoned' = IF await[c] \in Exchanging /\ answer[c].kind # "bad"
                    THEN abandoned \cup {asked[c]} ELSE abandoned
  /\ End(c, "none")
  /\ UNCHANGED <<client, issuer, due, refused>>

(***************************************************************************)
(* Time passes; the server refuses a token that expired or was revoked.    *)
(***************************************************************************)

\* A token without an exp claim never does.
ComesDue ==
  /\ ~due /\ due' = TRUE
  /\ UNCHANGED <<client, issuer, refused, holder, await, attempt, used, asked, answer, outcome,
                 abandoned>>

IsRefused(token) ==
  /\ token \in 0..issued \ refused
  /\ refused' = refused \cup {token}
  /\ UNCHANGED <<client, issuer, due, holder, await, attempt, used, asked, answer, outcome,
                 abandoned>>

\* What the client does by itself, and the time limit of the exchange.
Goes(c) ==
  ReadTokens(c) \/ Store(c) \/ ExchangeFails(c) \/ ExchangeTimesOut(c) \/ RetryCall(c)

Locks(c) == LockDue(c) \/ LockRefused(c)

CodexNext ==
  \/ \E c \in Callers :
       \/ StartCall(c) \/ Goes(c) \/ Locks(c) \/ DropCall(c)
       \/ \E rotates \in BOOLEAN : ServerExchanges(c, rotates)
       \/ ServerRejects(c)
       \/ Accepted(c) \/ Unauthorized(c) \/ RefusedAgain(c) \/ ResponseEnds(c)
       \/ \E retryable \in BOOLEAN : CallFails(c, retryable)
  \/ \E token \in Tokens :
       ServerExchangesLate(token) \/ IsRefused(token)
  \/ ComesDue

CodexSpec == CodexInit /\ [][CodexNext]_codexVars

\* The runtime polls what is ready; tokio's mutex is handed on in the order of the
\* queue.  No fairness for the server.
CodexFairSpec == CodexSpec /\ \A c \in Callers : WF_codexVars(Goes(c)) /\ SF_codexVars(Locks(c))

-----------------------------------------------------------------------------
(***************************************************************************)
(* Properties.                                                             *)
(***************************************************************************)

\* A refresh token the server has replaced is sent to it only if the answer that
\* replaced it never arrived: calls that find one token due, or refused, at the
\* same time do not spend it twice.
SpentNotSent ==
  \A c \in Callers :
    await[c] \in Exchanging /\ answer[c] = NoAnswer /\ asked[c] \in spent
      => asked[c] \in abandoned

\* An exchange replaces only a token that is due or was refused: a call that waited
\* for the lock while another refreshed does not refresh again.
ReplacesOnlyBad == [][access' # access => due \/ access \in refused]_codexVars

\* No answer that was overtaken puts older tokens back.
TokensAdvance == [][access' >= access /\ refresh' >= refresh]_codexVars

\* A call gives up as unauthorized only while the token stored is refused itself:
\* whatever others did meanwhile, it does not fail over a token that was replaced.
FailureIsCurrent ==
  [][\A c \in Callers :
       outcome'[c] = "unauthorized" /\ outcome[c] # "unauthorized" => access \in refused]_codexVars

\* While the server answers requests and ends its streams, every call ends: none
\* waits for ever for the lock, which some hold through a whole stream.
CallsEnd ==
  (\A c \in Callers : []<>(await[c] \notin Sending \cup Streaming))
    => \A c \in Callers : await[c] # "idle" ~> await[c] = "idle"
=============================================================================
