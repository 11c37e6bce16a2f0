---------------------------- MODULE ProviderStream ----------------------------
(***************************************************************************)
(* One call of the model: the streaming clients of oh-api (client.rs,      *)
(* openai.rs with sse.rs, codex.rs), which ask, retry, decode the server's *)
(* events and hand the reply to run_query (query.rs); and the request of   *)
(* the next turn, in which the conversation is put into the provider's own *)
(* form.                                                                   *)
(*                                                                         *)
(* The server is external.  What it says is a sequence of items, in pieces *)
(* that know their item and attempt; the piece that completes the          *)
(* arguments of a call is marked, for arguments that are cut do not parse. *)
(* Wording, usage counts and stop reasons are left out.                    *)
(***************************************************************************)
EXTENDS Naturals, Sequences, SequencesExt

CONSTANTS
  Providers,  \* of "anthropic", "openai", "codex"
  MaxTries,   \* attempts of a call: MAX_RETRIES + 1
  MaxItems,   \* bound: items of a reply
  MaxPieces   \* bound: pieces of a reply

ASSUME StreamAssumption ==
  /\ Providers \subseteq {"anthropic", "openai", "codex"}
  /\ MaxTries \in Nat \ {0} /\ MaxItems \in Nat /\ MaxPieces \in Nat

VARIABLES
  provider,   \* the client in use
  pc,         \* where the call is
  tries,      \* attempts so far
  items,      \* server: the kinds of the items it has begun
  heard,      \* server: the pieces it has sent
  order,      \* decoder: keys of block_order, tool_calls or pending
  calls,      \* decoder: those that are tool calls
  pending,    \* decoder: what was collected under each key
  text,       \* decoder: the text collected (OpenAI, Codex)
  events,     \* decoder: the deltas to be shown
  history,    \* the conversation
  cancelled   \* the engine's token

server == <<items, heard>>
decoder == <<order, calls, pending, text, events>>
vars == <<provider, pc, tries, server, decoder, history, cancelled>>

Keys == 1..MaxItems
Kinds == {"text", "call", "other"}   \* other: reasoning, which is not kept

Pieces == [item : Keys, try : 1..MaxTries, at : 1..MaxPieces, last : BOOLEAN]

TypeOK ==
  /\ provider \in Providers
  /\ pc \in {"idle", "sent", "streaming", "sleeping", "returned", "asking"}
  /\ tries \in 0..MaxTries
  /\ items \in Seq(Kinds) /\ heard \in Seq(Pieces)
  /\ order \in Seq(Keys) /\ calls \subseteq Keys
  /\ pending \in [Keys -> Seq(Pieces)] /\ text \in Seq(Pieces)
  /\ events \in Seq([key : Keys \cup {0}, piece : Pieces])
  /\ cancelled \in BOOLEAN

\* SelectSeq(s, Test), written so that it can be reasoned about.
Select(s, Test(_)) == FlattenSeq([n \in DOMAIN s |-> IF Test(s[n]) THEN <<s[n]>> ELSE <<>>])

NothingHeard == items' = <<>> /\ heard' = <<>>

\* SseAccum, AnthropicSseAccum, ResponsesResult: one per response.
FreshAccum ==
  /\ order' = <<>> /\ calls' = {} /\ text' = <<>> /\ events' = <<>>
  /\ pending' = [k \in Keys |-> <<>>]

Init ==
  /\ provider \in Providers
  /\ pc = "idle" /\ tries = 0
  /\ items = <<>> /\ heard = <<>>
  /\ order = <<>> /\ calls = {} /\ text = <<>> /\ events = <<>>
  /\ pending = [k \in Keys |-> <<>>]
  /\ history = <<>> /\ cancelled = FALSE

(***************************************************************************)
(* stream_message: attempts with delays between them.                      *)
(***************************************************************************)

\* A turn of a run; a run whose token is cancelled does not get here.
Start ==
  /\ pc = "idle" /\ pc' = "sent"
  /\ tries' = 1 /\ cancelled' = FALSE /\ history' = <<>>
  /\ NothingHeard /\ FreshAccum
  /\ UNCHANGED provider

\* Mutant: the decoder of an attempt goes on with what the last one collected.
AnsweredWithLeftovers ==
  /\ pc = "sent" /\ pc' = "streaming"
  /\ UNCHANGED <<provider, tries, server, decoder, history, cancelled>>

\* A success status: the response is decoded from its first byte.
Answered ==
  /\ pc = "sent" /\ pc' = "streaming"
  /\ FreshAccum
  /\ UNCHANGED <<provider, tries, server, history, cancelled>>

Fails(retryable) ==
  /\ pc' = IF retryable /\ tries < MaxTries THEN "sleeping" ELSE "idle"
  /\ NothingHeard
  /\ UNCHANGED <<provider, tries, decoder, history, cancelled>>

\* The Codex client looks for the retryable codes anywhere in its message, the
\* others at the status.
RequestFails(how, mentioned) ==
  /\ pc = "sent"
  /\ Fails(how \in {"network", "limited", "passing"}
             \/ (provider = "codex" /\ how = "lasting" /\ mentioned))

\* The connection breaks off.
StreamFails == pc = "streaming" /\ Fails(TRUE)

\* Mutant: no client limits the wait for an event.
StreamIdlesNever == FALSE

\* Only the Codex client does: two minutes.
StreamIdles == pc = "streaming" /\ provider = "codex" /\ Fails(TRUE)

Retry ==
  /\ pc = "sleeping" /\ pc' = "sent"
  /\ tries' = tries + 1
  /\ UNCHANGED <<provider, server, decoder, history, cancelled>>

(***************************************************************************)
(* The decoders, event by event.                                           *)
(***************************************************************************)

Whole(i) == \E k \in DOMAIN heard : heard[k].item = i /\ heard[k].last

Opened(i, kind) ==
  /\ order' = IF Contains(order, i) THEN order ELSE Append(order, i)
  /\ calls' = IF kind = "call" THEN calls \cup {i} ELSE calls

\* content_block_start of any kind; the first chunk of a tool call; an added
\* output item that is a function call.
Begins(kind, announced) ==
  LET i == Len(items) + 1 IN
  /\ pc = "streaming" /\ i <= MaxItems
  /\ items' = Append(items, kind)
  /\ IF announced /\ (provider = "anthropic" \/ kind = "call")
       THEN Opened(i, kind) ELSE UNCHANGED <<order, calls>>
  /\ UNCHANGED <<provider, pc, tries, heard, pending, text, events, history, cancelled>>

Show(key, piece) == events' = Append(events, [key |-> key, piece |-> piece])

\* content_block_delta: a block that was not announced is a text block.
AnthropicHears(i, piece) ==
  /\ Opened(i, "text")
  /\ IF items[i] = "other"
       THEN UNCHANGED <<pending, events>>
       ELSE /\ pending' = [pending EXCEPT ![i] = Append(@, piece)]
            /\ Show(IF items[i] = "call" THEN i ELSE 0, piece)
  /\ UNCHANGED text

\* Mutant: arguments go to the call that was begun last.
OthersHearLast(i, piece) ==
  /\ CASE items[i] = "text" ->
            text' = Append(text, piece) /\ Show(0, piece) /\ UNCHANGED pending
       [] items[i] = "call" ->
            /\ pending' = [pending EXCEPT ![Last(order)] = Append(@, piece)]
            /\ Show(i, piece) /\ UNCHANGED text
       [] OTHER -> UNCHANGED <<pending, text, events>>
  /\ UNCHANGED <<order, calls>>

\* Text is one run of text whichever item it belongs to; arguments go by their key.
OthersHear(i, piece) ==
  /\ CASE items[i] = "text" ->
            text' = Append(text, piece) /\ Show(0, piece) /\ UNCHANGED pending
       [] items[i] = "call" ->
            /\ pending' = [pending EXCEPT ![i] = Append(@, piece)]
            /\ Show(i, piece) /\ UNCHANGED text
       [] OTHER -> UNCHANGED <<pending, text, events>>
  /\ UNCHANGED <<order, calls>>

\* Anthropic's blocks come one after another; the others may interleave theirs.
Hears(i, last) ==
  LET piece == [item |-> i, try |-> tries, at |-> Len(heard) + 1, last |-> last] IN
  /\ pc = "streaming" /\ i \in DOMAIN items /\ ~Whole(i) /\ Len(heard) < MaxPieces
  /\ provider = "anthropic" => i = Len(items)
  /\ heard' = Append(heard, piece)
  /\ IF provider = "anthropic" THEN AnthropicHears(i, piece) ELSE OthersHear(i, piece)
  /\ UNCHANGED <<provider, pc, tries, items, history, cancelled>>

(***************************************************************************)
(* The reply that is put together when the stream ends, and its request.   *)
(***************************************************************************)

TextBlocks(parts) ==
  IF parts = <<>> THEN <<>> ELSE <<[kind |-> "text", key |-> 0, parts |-> parts]>>

\* Arguments that do not parse are taken for none.
Parsed(parts) == IF parts # <<>> /\ Last(parts).last THEN parts ELSE <<>>

CallBlock(k) == [kind |-> "call", key |-> k, parts |-> Parsed(pending[k])]

AnthropicReply ==
  FlattenSeq([n \in DOMAIN order |->
    IF order[n] \in calls THEN <<CallBlock(order[n])>> ELSE TextBlocks(pending[order[n]])])

OpenAiReply ==
  TextBlocks(text) \o
    LET keys == Select([k \in Keys |-> k], LAMBDA k : Contains(order, k))
    IN [n \in DOMAIN keys |-> CallBlock(keys[n])]

CodexReply == TextBlocks(text) \o [n \in DOMAIN order |-> CallBlock(order[n])]

Reply ==
  CASE provider = "anthropic" -> AnthropicReply
    [] provider = "openai" -> OpenAiReply
    [] provider = "codex" -> CodexReply

Message(role, content) == [role |-> role, content |-> content]
PromptBlock == [kind |-> "prompt", key |-> 0, parts |-> <<>>]
Prompt == Message("user", <<PromptBlock>>)
OfKind(content, kind) == Select(content, LAMBDA b : b.kind = kind)

\* The tools answer every call, in order.
Results(content) ==
  LET asked == OfKind(content, "call") IN
  Message("user", [n \in DOMAIN asked |->
                     [kind |-> "result", key |-> asked[n].key, parts |-> <<>>]])

\* A marker, the end of the body, or, all the same, a body that ends too soon.
StreamEnds ==
  /\ pc = "streaming" /\ pc' = "returned"
  /\ history' = <<Prompt, Message("assistant", Reply)>>
  /\ UNCHANGED <<provider, tries, server, decoder, cancelled>>

\* run_query looks at the token when it polls the finished stream.
CancelNoticed ==
  /\ pc = "returned" /\ cancelled /\ pc' = "idle"
  /\ UNCHANGED <<provider, tries, server, decoder, history, cancelled>>

\* The reply is pushed, and the results of its calls; the user may come in when the
\* turns are used up.
NextTurn(prompted) ==
  LET reply == history[2].content IN
  /\ pc = "returned" /\ ~cancelled
  /\ IF OfKind(reply, "call") = <<>> /\ ~prompted
       THEN pc' = "idle" /\ UNCHANGED history
       ELSE /\ pc' = "asking"
            /\ history' = history
                 \o (IF OfKind(reply, "call") = <<>> THEN <<>> ELSE <<Results(reply)>>)
                 \o (IF prompted THEN <<Prompt>> ELSE <<>>)
  /\ UNCHANGED <<provider, tries, server, decoder, cancelled>>

Ask ==
  /\ pc = "asking" /\ pc' = "idle"
  /\ UNCHANGED <<provider, tries, server, decoder, history, cancelled>>

Cancel ==
  /\ pc # "idle" /\ ~cancelled /\ cancelled' = TRUE
  /\ UNCHANGED <<provider, pc, tries, server, decoder, history>>

(***************************************************************************)
(* The request of the next turn, block by block.                           *)
(***************************************************************************)

JoinedText(content) ==
  LET texts == OfKind(content, "text") IN
  TextBlocks(FlattenSeq([n \in DOMAIN texts |-> texts[n].parts]))

\* Mutant: a message that has text is sent as text.
OthersWireText(m) ==
  IF m.role = "user" THEN OfKind(m.content, "result") \o OfKind(m.content, "prompt")
  ELSE IF JoinedText(m.content) # <<>> THEN JoinedText(m.content)
  ELSE OfKind(m.content, "call")

\* convert_message_to_openai, append_input_items: results before the user's text,
\* the assistant's text before its calls.
OthersWire(m) ==
  IF m.role = "user" THEN OfKind(m.content, "result") \o OfKind(m.content, "prompt")
                     ELSE JoinedText(m.content) \o OfKind(m.content, "call")

\* to_api_param keeps the blocks as they are.
Wire ==
  FlattenSeq([n \in DOMAIN history |->
    IF provider = "anthropic" THEN history[n].content ELSE OthersWire(history[n])])

ClientGoes ==
  StreamIdles \/ Retry \/ CancelNoticed \/ Ask \/ \E prompted \in BOOLEAN : NextTurn(prompted)

Next ==
  \/ Start \/ Cancel \/ ClientGoes
  \/ Answered \/ StreamFails \/ StreamEnds
  \/ \E how \in {"network", "limited", "passing", "lasting", "unauthorized"},
        mentioned \in BOOLEAN : RequestFails(how, mentioned)
  \/ \E kind \in Kinds, announced \in BOOLEAN :
       /\ announced \/ (provider = "anthropic" /\ kind = "text")
       /\ Begins(kind, announced)
  \/ \E i \in Keys, last \in BOOLEAN : Hears(i, last)

Spec == Init /\ [][Next]_vars

\* The runtime polls the client; the server need not answer, nor say anything.
FairSpec == Spec /\ WF_vars(ClientGoes)

-----------------------------------------------------------------------------
(***************************************************************************)
(* Properties.                                                             *)
(***************************************************************************)

TextHeard == Select(heard, LAMBDA p : items[p.item] = "text")
HeardOf(i) == Select(heard, LAMBDA p : p.item = i)
CallsBegun == Select([i \in DOMAIN items |-> i], LAMBDA i : items[i] = "call")

\* The calls as the server meant them: arguments it did not complete are none.
CallsMeant ==
  LET begun == CallsBegun IN
  [n \in DOMAIN begun |->
     [kind |-> "call", key |-> begun[n],
      parts |-> IF Whole(begun[n]) THEN HeardOf(begun[n]) ELSE <<>>]]

TextOf(blocks) ==
  LET texts == OfKind(blocks, "text") IN
  FlattenSeq([n \in DOMAIN texts |-> texts[n].parts])

\* The item a block was made from.
ItemOf(block) == IF block.kind = "call" THEN block.key ELSE block.parts[1].item

\* A reply holds what the server said in the attempt that brought it and nothing else:
\* all the text in the order it came, every call once, in the order the calls were
\* begun, under its own name, with its own arguments or, if these were cut, with none.
\* Interleaved items, unannounced blocks and attempts that broke off change nothing.
Assembled ==
  pc = "returned" =>
    LET reply == history[2].content IN
    /\ TextOf(reply) = TextHeard
    /\ OfKind(reply, "call") = CallsMeant
    /\ provider = "anthropic" =>
         \A m, n \in DOMAIN reply : m < n => ItemOf(reply[m]) < ItemOf(reply[n])

\* What the deltas show is what the reply keeps: the same text, and for each call the
\* arguments it ends with, unless they were cut.
ShownIsKept ==
  pc = "returned" =>
    LET reply == history[2].content
        Shown(key) == LET of == Select(events, LAMBDA e : e.key = key)
                      IN [n \in DOMAIN of |-> of[n].piece]
    IN
    /\ Shown(0) = TextOf(reply)
    /\ \A b \in ToSet(OfKind(reply, "call")) : b.parts \in {Shown(b.key), <<>>}

\* The next request tells the server what it said, in each provider's form: its text,
\* its calls in order and after the last of them, before the user speaks again, one
\* result per call in the same order.
ToldBack ==
  pc = "asking" =>
    LET wire == Wire
        rest == Select(wire, LAMBDA b : b.kind # "text")
        begun == CallsBegun
        results == [n \in DOMAIN begun |->
                      [kind |-> "result", key |-> begun[n], parts |-> <<>>]]
        said == <<PromptBlock>> \o CallsMeant \o results
    IN
    /\ TextOf(wire) = TextHeard
    /\ rest \in {said, Append(said, PromptBlock)}
    /\ provider # "anthropic" => \A n \in DOMAIN wire : wire[n].kind = "text" => n = 2

\* A response of the Codex server that falls silent does not hold the call up for ever:
\* if the server answers requests at all, the call ends although every stream stalls.
StalledStreamEnds ==
  []<>(pc # "sent") =>
    (provider = "codex" /\ pc = "streaming" ~> pc \notin {"sent", "streaming", "sleeping"})
=============================================================================
