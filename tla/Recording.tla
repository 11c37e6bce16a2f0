------------------------------ MODULE Recording ------------------------------
(***************************************************************************)
(* What a print-mode process (oh-harness, cli.rs) leaves behind: the       *)
(* messages its TrajectoryRecorders append to the SQLite session store     *)
(* (oh-services), for the main run and for in-process subagents, and the   *)
(* JSONL file of --trajectory, which the main thread writes when the run   *)
(* has returned and a signal handler finalizes (main.rs).                  *)
(*                                                                         *)
(* An append runs to its end on a blocking thread, whatever becomes of     *)
(* the call that waits for it, and holds the connection's mutex            *)
(* throughout: it is one step.  Processes run one after another; another   *)
(* that uses the database at the same time shows as statements that fail.  *)
(* SQLite's promises (atomic commit, rollback of what a process leaves     *)
(* open, the constraints) are external.  Contents, roles, names, models    *)
(* and times are left out, and update_session with them.                   *)
(***************************************************************************)
EXTENDS Naturals, Sequences, FiniteSets

CONSTANTS
  Sessions,   \* ids of sessions
  Runs,       \* the runs of all processes
  Mains,      \* the main ones; the others are in-process subagents'
  MaxEvents,  \* bound: events that are recorded
  MaxTurns,   \* bound: turns of a run
  MaxStarts,  \* bound: processes
  None        \* no session, no run

Events == 1..MaxEvents

\* Where main is: opening the file, running, writing what happened, closing.
MainSteps ==
  {"off", "started", "opened", "running", "ended", "writing", "finalizing", "clearing",
   "closing"}

ASSUME RecordingAssumption ==
  /\ MaxEvents \in Nat /\ MaxTurns \in Nat /\ MaxStarts \in Nat
  /\ Mains \subseteq Runs
  /\ None \notin Sessions \cup Runs \cup MainSteps

Statuses == {"ok", "error"}  \* the turn ceiling counts as an error

Lines == {"meta", "turn"} \cup Statuses  \* a status stands for the end line

VARIABLES
  rows,      \* sessions that have a row
  count,     \* count[s]: message_count in that row
  messages,  \* rows of messages
  stuck,     \* a transaction was left open on the process's connection
  session,   \* session[r]: the session that run r records into
  resumed,   \* resumed[r]: that session is one an earlier run recorded into
  live,      \* runs of the process that is up
  next,      \* next[r]: the recorder's seq
  of,        \* of[e]: the run that event e is of
  seq,       \* seq[e]: its number
  place,     \* place[e]: what became of it
  fired,     \* events fired so far; an event is named by its place in that order
  starts,    \* processes started so far
  step,      \* where main is
  status,    \* how the run ended
  turns,     \* turns the run has completed
  written,   \* turns written to the file
  file,      \* the lines of this process's file
  slot,      \* the signal handler can reach the writer
  writer,    \* the writer has not been taken out and dropped
  signalled, \* where main was when the signal handler finalized what it could reach
  exit       \* how the process ended, or that it is up

store == <<rows, count, messages, stuck>>
recorders == <<session, resumed, live, next, of, seq, place, fired>>
main == <<step, status, turns, written, file, slot, writer, signalled, exit>>
vars == <<store, recorders, main, starts>>

Messages == [session : Sessions, seq : Nat, event : Events]

TypeOK ==
  /\ rows \subseteq Sessions
  /\ count \in [Sessions -> Nat]
  /\ messages \subseteq Messages /\ IsFiniteSet(messages)
  /\ stuck \in BOOLEAN
  /\ session \in [Runs -> Sessions \cup {None}]
  /\ resumed \in [Runs -> BOOLEAN]
  /\ live \subseteq Runs
  /\ next \in [Runs -> Nat]
  /\ of \in [Events -> Runs \cup {None}]
  /\ seq \in [Events -> Nat]
  /\ place \in [Events -> {"new", "queued", "kept", "failed", "taken", "dropped"}]
  /\ fired \in 0..MaxEvents
  /\ starts \in 0..MaxStarts
  /\ step \in MainSteps
  /\ status \in Statuses
  /\ turns \in 0..MaxTurns /\ written \in 0..MaxTurns
  /\ file \in Seq(Lines)
  /\ slot \in BOOLEAN /\ writer \in BOOLEAN
  /\ signalled \in MainSteps \cup {None}
  /\ exit \in {"up", "returned", "signal", "panic"}

Init ==
  /\ rows = {} /\ count = [s \in Sessions |-> 0] /\ messages = {} /\ stuck = FALSE
  /\ session = [r \in Runs |-> None] /\ resumed = [r \in Runs |-> FALSE] /\ live = {}
  /\ next = [r \in Runs |-> 0]
  /\ of = [e \in Events |-> None] /\ seq = [e \in Events |-> 0]
  /\ place = [e \in Events |-> "new"] /\ fired = 0
  /\ starts = 0
  /\ step = "off" /\ status = "ok" /\ turns = 0 /\ written = 0 /\ file = <<>>
  /\ slot = FALSE /\ writer = FALSE /\ signalled = None /\ exit = "returned"

(***************************************************************************)
(* The store.                                                              *)
(***************************************************************************)

MessagesOf(s) == {m \in messages : m.session = s}

\* create_session: a row of that id is an error the callers only log, like any
\* other.  In a transaction that was left open the row is never committed.
CreateSession(s, ok) ==
  IF ok /\ ~stuck /\ s \notin rows
    THEN rows' = rows \cup {s} /\ count' = [count EXCEPT ![s] = 0]
    ELSE UNCHANGED <<rows, count>>

\* Mutant: an event gets its number when it is inserted.
KeyedLate(e) == count[session[of[e]]]

\* The number under which an event is inserted.
Keyed(e) == seq[e]

Taken(e) ==
  \E m \in messages : m.session = session[of[e]] /\ m.seq = Keyed(e)

Settle(e, where) == place' = [place EXCEPT ![e] = where]

\* Mutant: no transaction: the UPDATE may fail after the INSERT.
KeepUncounted(e) ==
  LET s == session[of[e]] IN
  /\ ~stuck /\ s \in rows /\ ~Taken(e)
  /\ messages' = messages \cup {[session |-> s, seq |-> Keyed(e), event |-> e]}
  /\ count' \in {count, [count EXCEPT ![s] = @ + 1]}
  /\ Settle(e, "kept")
  /\ UNCHANGED <<rows, stuck>>

\* BEGIN; INSERT; UPDATE; COMMIT.
Keep(e) ==
  LET s == session[of[e]] IN
  /\ ~stuck /\ s \in rows /\ ~Taken(e)
  /\ messages' = messages \cup {[session |-> s, seq |-> Keyed(e), event |-> e]}
  /\ count' = [count EXCEPT ![s] = @ + 1]
  /\ Settle(e, "kept")
  /\ UNCHANGED <<rows, stuck>>

\* UNIQUE(session_id, seq) rejects the message.
Reject(e) ==
  /\ ~stuck /\ session[of[e]] \in rows /\ Taken(e)
  /\ Settle(e, "taken")
  /\ UNCHANGED store

\* Any statement may fail.  The transaction is rolled back, or, if it is COMMIT or
\* ROLLBACK that fails, may stay open: every later BEGIN on the connection fails.
Fail(e) ==
  /\ Settle(e, "failed")
  /\ stuck' \in {stuck, TRUE}
  /\ UNCHANGED <<rows, count, messages>>

AppendMessage(e) ==
  /\ exit = "up" /\ place[e] = "queued"
  /\ Keep(e) \/ Reject(e) \/ Fail(e)
  /\ UNCHANGED <<session, resumed, live, next, of, seq, fired, main, starts>>

(***************************************************************************)
(* Runs and their recorders.                                               *)
(***************************************************************************)

\* A recorder starts at 0, also on a session that has messages.
StartRun(r, s) ==
  /\ session[r] = None
  /\ session' = [session EXCEPT ![r] = s]
  /\ resumed' = [resumed EXCEPT ![r] = \E r2 \in Runs : session[r2] = s]
  /\ live' = live \cup {r}
  /\ UNCHANGED <<next, of, seq, place, fired>>

\* The process starts on a session of its own or on one named by --resume.
StartProcess(r, s, ok) ==
  /\ exit # "up" /\ starts < MaxStarts
  /\ r \in Mains
  /\ starts' = starts + 1
  /\ CreateSession(s, ok) /\ UNCHANGED <<messages, stuck>>
  /\ StartRun(r, s)
  /\ step' = "started" /\ exit' = "up" /\ signalled' = None
  /\ turns' = 0 /\ written' = 0 /\ file' = <<>>
  /\ UNCHANGED <<status, slot, writer>>

\* A subagent's session is new.
StartSubagent(r, s, ok) ==
  /\ exit = "up" /\ step = "running"
  /\ r \notin Mains
  /\ \A r2 \in Runs : session[r2] # s
  /\ CreateSession(s, ok) /\ UNCHANGED <<messages, stuck>>
  /\ StartRun(r, s)
  /\ UNCHANGED <<main, starts>>

\* Mutant: the number is read from the store.
FireCounting(r) ==
  LET e == fired + 1 IN
  /\ exit = "up" /\ r \in live
  /\ r \in Mains => step = "running"
  /\ fired < MaxEvents
  /\ fired' = e
  /\ of' = [of EXCEPT ![e] = r]
  /\ seq' = [seq EXCEPT ![e] = count[session[r]]]
  /\ next' = [next EXCEPT ![r] = @ + 1]
  /\ Settle(e, "queued")
  /\ UNCHANGED <<session, resumed, live, store, main, starts>>

\* The recorder numbers the event and leaves the append to a blocking thread.
Fire(r) ==
  LET e == fired + 1 IN
  /\ exit = "up" /\ r \in live
  /\ r \in Mains => step = "running"
  /\ fired < MaxEvents
  /\ fired' = e
  /\ of' = [of EXCEPT ![e] = r]
  /\ seq' = [seq EXCEPT ![e] = next[r]]
  /\ next' = [next EXCEPT ![r] = @ + 1]
  /\ Settle(e, "queued")
  /\ UNCHANGED <<session, resumed, live, store, main, starts>>

(***************************************************************************)
(* The file of --trajectory.  What main does with it is one step from lock *)
(* to unlock, but for the writing of the turns.  Writes do not fail.       *)
(***************************************************************************)

Ended == \E i \in DOMAIN file : file[i] \in Statuses

\* Mutant: write_end does not look whether the file has ended.
EndLineAgain(line) == Append(file, line)

\* write_end: only the first end line is written.
EndLine(line) == IF Ended THEN file ELSE Append(file, line)

Proceed(from, to) ==
  /\ exit = "up" /\ step = from /\ step' = to
  /\ UNCHANGED <<store, recorders, starts, exit, signalled>>

OpenFile ==
  /\ Proceed("started", "opened")
  /\ file' = <<"meta">> /\ writer' = TRUE
  /\ UNCHANGED <<status, turns, written, slot>>

\* No --trajectory, or the file cannot be opened.
NoFile ==
  /\ Proceed("started", "running")
  /\ UNCHANGED <<status, turns, written, file, slot, writer>>

Register ==
  /\ Proceed("opened", "running")
  /\ slot' = TRUE
  /\ UNCHANGED <<status, turns, written, file, writer>>

Turn ==
  /\ turns < MaxTurns /\ turns' = turns + 1
  /\ Proceed("running", "running")
  /\ UNCHANGED <<status, written, file, slot, writer>>

\* submit_message returns: only now are its turns known to main, and only if it
\* succeeded.
RunReturns(outcome) ==
  /\ exit = "up" /\ step = "running"
  /\ step' = IF writer THEN "ended" ELSE "closing"
  /\ status' = outcome
  /\ live' = live \ Mains
  /\ UNCHANGED <<store, session, resumed, next, of, seq, place, fired, starts,
                 turns, written, file, slot, writer, signalled, exit>>

LockWriter ==
  /\ status = "ok" /\ Proceed("ended", "writing")
  /\ UNCHANGED <<status, turns, written, file, slot, writer>>

WriteTurn ==
  /\ written < turns /\ Proceed("writing", "writing")
  /\ written' = written + 1 /\ file' = Append(file, "turn")
  /\ UNCHANGED <<status, turns, slot, writer>>

TurnsWritten ==
  /\ written = turns /\ Proceed("writing", "finalizing")
  /\ UNCHANGED <<status, turns, written, file, slot, writer>>

\* Mutant: the file is finalized before the turns are written.
FinalizeAtOnce ==
  /\ Proceed("finalizing", "clearing") \/ Proceed("ended", "clearing")
  /\ file' = EndLine(status)
  /\ UNCHANGED <<status, turns, written, slot, writer>>

Finalize ==
  /\ Proceed("finalizing", "clearing") \/ (status # "ok" /\ Proceed("ended", "clearing"))
  /\ file' = EndLine(status)
  /\ UNCHANGED <<status, turns, written, slot, writer>>

ClearSlot ==
  /\ Proceed("clearing", "closing")
  /\ slot' = FALSE
  /\ UNCHANGED <<status, turns, written, file, writer>>

\* The writer is taken out and dropped, which ends a file that has not ended.
DropWriter ==
  /\ writer /\ Proceed("closing", "closing")
  /\ writer' = FALSE /\ file' = EndLine("error")
  /\ UNCHANGED <<status, turns, written, slot>>

(***************************************************************************)
(* The end of the process.                                                 *)
(***************************************************************************)

\* SIGTERM or SIGINT: the handler finalizes the writer it can reach, once main
\* does not hold its lock.
SignalFinalizes ==
  /\ exit = "up" /\ signalled = None
  /\ step = "writing" => ~slot
  /\ signalled' = step
  /\ file' = IF slot /\ writer THEN EndLine("error") ELSE file
  /\ UNCHANGED <<store, recorders, starts, step, status, turns, written, slot, writer, exit>>

\* What has not been committed is gone: appends under way, and the transaction
\* that was left open.
Exit(how) ==
  /\ exit = "up" /\ exit' = how
  /\ place' = [e \in Events |-> IF place[e] = "queued" THEN "dropped" ELSE place[e]]
  /\ live' = {}
  /\ stuck' = FALSE
  /\ slot' = FALSE /\ writer' = FALSE
  /\ UNCHANGED <<rows, count, messages, session, resumed, next, of, seq, fired, starts,
                 step, status, turns, written, file, signalled>>

SignalExits == signalled # None /\ Exit("signal")

Return == step = "closing" /\ ~writer /\ Exit("returned")

\* The run panics.  The static slot still holds the writer: it is never dropped.
Panic == step = "running" /\ Exit("panic")

Next ==
  \/ \E r \in Runs :
       \/ \E s \in Sessions, ok \in BOOLEAN : StartProcess(r, s, ok) \/ StartSubagent(r, s, ok)
       \/ Fire(r)
  \/ \E e \in Events : AppendMessage(e)
  \/ OpenFile \/ NoFile \/ Register \/ Turn
  \/ \E outcome \in Statuses : RunReturns(outcome)
  \/ LockWriter \/ WriteTurn \/ TurnsWritten \/ Finalize \/ ClearSlot \/ DropWriter
  \/ SignalFinalizes \/ SignalExits \/ Return \/ Panic

Spec == Init /\ [][Next]_vars

-----------------------------------------------------------------------------
(***************************************************************************)
(* Properties.                                                             *)
(***************************************************************************)

\* Whatever statement fails and wherever a process dies, the message_count of a
\* session is the number of its messages, and no message is without its session.
CountMatches ==
  /\ \A s \in rows : count[s] = Cardinality(MessagesOf(s))
  /\ \A m \in messages : m.session \in rows

\* UNIQUE(session_id, seq) strikes runs only that resume a session: not the events
\* of a run that overtake one another, nor a subagent and its parent.
FreshSessionsLoseNothing ==
  \A e \in Events : place[e] = "taken" => resumed[of[e]]

\* list_messages, which sorts by seq, gives the events of a run in the order in
\* which they were fired, however their appends overtook one another.
NumbersFollowEvents ==
  \A m, n \in messages :
    of[m.event] = of[n.event] /\ m.event < n.event /\ m.session = n.session
      => m.seq < n.seq

Ends(lines) == {i \in DOMAIN lines : lines[i] \in Statuses}

\* A process that returns, or is ended by a signal that came once the writer was
\* registered, leaves one end line, wherever the handler meets main.
EndWritten ==
  /\ exit \in {"returned", "signal"} /\ file # <<>>
  /\ signalled \notin {"started", "opened"}
  => \E i \in DOMAIN file : Ends(file) = {i}

\* A process that returns unmolested leaves the turns of a run that succeeded, and
\* then the status of its run.
FileTellsRun ==
  exit = "returned" /\ signalled = None /\ file # <<>> =>
    /\ Len(file) = 2 + (IF status = "ok" THEN turns ELSE 0)
    /\ \A i \in 2..(Len(file) - 1) : file[i] = "turn"
    /\ file[Len(file)] = status
=============================================================================
