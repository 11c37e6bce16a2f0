--------------------------- MODULE Recording_proofs ---------------------------
(***************************************************************************)
(* Proofs about Recording: that counts and messages agree, that the        *)
(* numbering of events loses none and keeps their order, and that the file *)
(* is ended once.                                                          *)
(***************************************************************************)
EXTENDS Recording, FiniteSetTheorems, TLAPS

(***************************************************************************)
(* The inductive invariant.                                                *)
(***************************************************************************)

\* Events that have been fired, and those under way.
Numbered ==
  /\ \A e \in Events : e > fired => place[e] = "new"
  /\ \A e \in Events : e <= fired =>
       of[e] \in Runs /\ session[of[e]] # None /\ seq[e] < next[of[e]]
  /\ \A e, f \in Events : e < f /\ f <= fired /\ of[e] = of[f] => seq[e] < seq[f]
  /\ exit # "up" => live = {} /\ \A e \in Events : place[e] # "queued"

\* A message is an event that was kept, under its run's session and its number.
Recorded ==
  \A m \in messages :
    /\ m.event <= fired /\ place[m.event] = "kept"
    /\ m.session = session[of[m.event]] /\ m.seq = seq[m.event]
    /\ m.session \in rows

\* A run that shares its session with another has resumed it, while it may still
\* have events to append.
Shared(r) == \E r2 \in Runs : r2 # r /\ session[r2] = session[r]

Alone ==
  /\ \A r \in live : session[r] # None /\ (Shared(r) => resumed[r])
  /\ \A e \in Events : place[e] = "queued" /\ Shared(of[e]) => resumed[of[e]]

StoreInv == Numbered /\ Recorded /\ Alone /\ CountMatches /\ FreshSessionsLoseNothing

\* How far main and the handler have come is how far the file has.
FileInv ==
  /\ \A i, j \in Ends(file) : i = j
  /\ step \in {"off", "started"} => file = <<>>
  /\ writer \/ step \in {"ended", "writing", "finalizing", "clearing"} => file # <<>>
  /\ exit = "up" /\ file # <<>> /\ step # "closing" => writer /\ (step = "opened" \/ slot)
  /\ file # <<>> /\ step \in {"clearing", "closing"} => Ended
  /\ file # <<>> /\ signalled \notin {None, "started", "opened"} => Ended
  /\ step = "started" => signalled \in {None, "started"}
  /\ exit # "up" => ~writer
  /\ exit = "returned" => step \in {"off", "closing"}
  /\ exit = "signal" => signalled # None

\* How many turns the file has, by where main is.
TurnsInv ==
  /\ step \in {"off", "started", "opened", "running", "ended"} => written = 0
  /\ step = "writing" => status = "ok" /\ written <= turns
  /\ step = "finalizing" => status = "ok" /\ written = turns
  /\ file # <<>> /\ step \in {"clearing", "closing"} =>
       IF status = "ok" THEN written = turns ELSE written = 0

\* What the lines are, while no signal has come.
LinesInv ==
  file # <<>> /\ signalled = None =>
    /\ \A i \in 2..(1 + written) : file[i] = "turn"
    /\ file[1] = "meta"
    /\ step \notin {"clearing", "closing"} => Len(file) = 1 + written
    /\ step \in {"clearing", "closing"} => Len(file) = 2 + written /\ file[2 + written] = status

Inv == TypeOK /\ StoreInv /\ FileInv /\ TurnsInv /\ LinesInv

\* At the start nothing has been recorded.
LEMMA RecordingInit == Init => Inv
<1> SUFFICES ASSUME Init PROVE Inv
  OBVIOUS
<1>1. TypeOK
  <2>1. /\ fired \in 0..MaxEvents /\ starts \in 0..MaxStarts
        /\ turns \in 0..MaxTurns /\ written \in 0..MaxTurns
    BY RecordingAssumption DEF Init
  <2>2. messages \subseteq Messages /\ IsFiniteSet(messages)
    BY FS_EmptySet DEF Init
  <2>3. file \in Seq(Lines)
    BY DEF Init
  <2>. QED  BY <2>1, <2>2, <2>3 DEF Init, TypeOK, MainSteps, Statuses
<1>2. StoreInv
  <2>1. \A s \in Sessions : MessagesOf(s) = {}
    BY DEF Init, MessagesOf
  <2>2. \A e \in Events : e > fired
    BY DEF Init, Events
  <2>. QED  BY <2>1, <2>2 DEF Init, StoreInv, Numbered, Recorded, Alone, CountMatches,
                              FreshSessionsLoseNothing, Events
<1>3. FileInv
  BY DEF Init, FileInv, Ends
<1>4. TurnsInv /\ LinesInv
  BY DEF Init, TurnsInv, LinesInv
<1>. QED  BY <1>1, <1>2, <1>3, <1>4 DEF Inv

(***************************************************************************)
(* Types.                                                                  *)
(***************************************************************************)

\* The actions that leave the store and the recorders alone.
FileStep ==
  \/ OpenFile \/ NoFile \/ Register \/ Turn
  \/ LockWriter \/ WriteTurn \/ TurnsWritten \/ Finalize \/ ClearSlot \/ DropWriter
  \/ SignalFinalizes

\* The actions that end the process.
Exits == SignalExits \/ Return \/ Panic

\* An end line is a line.
LEMMA EndLineType ==
  ASSUME file \in Seq(Lines), NEW line \in Statuses
  PROVE  EndLine(line) \in Seq(Lines)
  BY DEF EndLine, Lines

\* A step on the file keeps its type.
LEMMA FileTypeStep ==
  ASSUME TypeOK, FileStep
  PROVE  TypeOK'
<1>1. /\ file \in Seq(Lines) /\ turns \in 0..MaxTurns /\ written \in 0..MaxTurns
      /\ step \in MainSteps /\ slot \in BOOLEAN /\ writer \in BOOLEAN
      /\ signalled \in MainSteps \cup {None} /\ status \in Statuses
  BY DEF TypeOK
<1>2. UNCHANGED <<store, recorders, starts, exit, status>>
  BY DEF FileStep, OpenFile, NoFile, Register, Turn, LockWriter, WriteTurn, TurnsWritten,
         Finalize, ClearSlot, DropWriter, SignalFinalizes, Proceed
<1>3. step' \in MainSteps
  BY <1>1 DEF FileStep, OpenFile, NoFile, Register, Turn, LockWriter, WriteTurn, TurnsWritten,
         Finalize, ClearSlot, DropWriter, SignalFinalizes, Proceed, MainSteps
<1>4. slot' \in BOOLEAN /\ writer' \in BOOLEAN /\ signalled' \in MainSteps \cup {None}
  BY <1>1 DEF FileStep, OpenFile, NoFile, Register, Turn, LockWriter, WriteTurn, TurnsWritten,
         Finalize, ClearSlot, DropWriter, SignalFinalizes, Proceed
<1>5. turns' \in 0..MaxTurns
  <2>1. CASE Turn
    BY <1>1, <2>1, RecordingAssumption DEF Turn
  <2>2. CASE ~Turn
    BY <1>1, <2>2 DEF FileStep, OpenFile, NoFile, Register, LockWriter, WriteTurn,
       TurnsWritten, Finalize, ClearSlot, DropWriter, SignalFinalizes, Proceed
  <2>. QED  BY <2>1, <2>2
<1>6. written' \in 0..MaxTurns
  <2>1. CASE WriteTurn
    BY <1>1, <2>1, RecordingAssumption DEF WriteTurn
  <2>2. CASE ~WriteTurn
    BY <1>1, <2>2 DEF FileStep, OpenFile, NoFile, Register, LockWriter, Turn,
       TurnsWritten, Finalize, ClearSlot, DropWriter, SignalFinalizes, Proceed
  <2>. QED  BY <2>1, <2>2
<1>7. file' \in Seq(Lines)
  <2>1. CASE OpenFile
    BY <2>1 DEF OpenFile, Lines
  <2>2. CASE WriteTurn
    BY <1>1, <2>2 DEF WriteTurn, Lines
  <2>3. CASE Finalize \/ DropWriter \/ SignalFinalizes
    <3>1. EndLine(status) \in Seq(Lines) /\ EndLine("error") \in Seq(Lines)
      BY <1>1, EndLineType DEF Statuses
    <3>. QED  BY <1>1, <2>3, <3>1 DEF Finalize, DropWriter, SignalFinalizes
  <2>4. CASE UNCHANGED file
    BY <1>1, <2>4
  <2>. QED  BY <2>1, <2>2, <2>3, <2>4 DEF FileStep, NoFile, Register, Turn, LockWriter,
       TurnsWritten, ClearSlot
<1>. QED  BY <1>1, <1>2, <1>3, <1>4, <1>5, <1>6, <1>7 DEF TypeOK, store, recorders

\* A row is entered with a count of zero, or nothing changes.
LEMMA CreateSessionEffect ==
  ASSUME rows \subseteq Sessions, count \in [Sessions -> Nat],
         NEW s \in Sessions, NEW ok \in BOOLEAN, CreateSession(s, ok)
  PROVE  /\ rows' \subseteq Sessions /\ count' \in [Sessions -> Nat]
         /\ rows \subseteq rows' /\ rows' \subseteq rows \cup {s}
         /\ \A s2 \in Sessions : s2 \in rows => count'[s2] = count[s2]
         /\ s \in rows' \ rows => count'[s] = 0
<1>1. CASE ok /\ ~stuck /\ s \notin rows
  <2>1. rows' = rows \cup {s} /\ count' = [count EXCEPT ![s] = 0]
    BY <1>1 DEF CreateSession
  <2>2. count' \in [Sessions -> Nat]
    BY <2>1
  <2>. QED  BY <1>1, <2>1, <2>2
<1>2. CASE ~(ok /\ ~stuck /\ s \notin rows)
  <2>1. rows' = rows /\ count' = count
    BY <1>2 DEF CreateSession
  <2>. QED  BY <2>1
<1>. QED  BY <1>1, <1>2

\* What a started run changes.
LEMMA StartRunEffect ==
  ASSUME TypeOK, NEW r \in Runs, NEW s \in Sessions, StartRun(r, s)
  PROVE  /\ session[r] = None
         /\ session' \in [Runs -> Sessions \cup {None}]
         /\ session'[r] = s /\ \A r2 \in Runs \ {r} : session'[r2] = session[r2]
         /\ resumed' \in [Runs -> BOOLEAN]
         /\ resumed'[r] <=> \E r2 \in Runs : session[r2] = s
         /\ \A r2 \in Runs \ {r} : resumed'[r2] = resumed[r2]
         /\ live' = live \cup {r}
         /\ UNCHANGED <<next, of, seq, place, fired>>
<1>1. PICK b \in BOOLEAN : b <=> \E r2 \in Runs : session[r2] = s
  OBVIOUS
<1>2. resumed' = [resumed EXCEPT ![r] = b]
  BY <1>1 DEF StartRun
<1>3. /\ session[r] = None /\ session' = [session EXCEPT ![r] = s]
      /\ live' = live \cup {r} /\ UNCHANGED <<next, of, seq, place, fired>>
  BY DEF StartRun
<1>4. session' \in [Runs -> Sessions \cup {None}]
      /\ session'[r] = s /\ \A r2 \in Runs \ {r} : session'[r2] = session[r2]
  BY <1>3 DEF TypeOK
<1>5. resumed' \in [Runs -> BOOLEAN] /\ resumed'[r] = b
      /\ \A r2 \in Runs \ {r} : resumed'[r2] = resumed[r2]
  BY <1>2 DEF TypeOK
<1>. QED  BY <1>1, <1>3, <1>4, <1>5

\* What firing changes: the event is the recorder's next, under its next number.
LEMMA FireEffect ==
  ASSUME TypeOK, NEW r \in Runs, Fire(r)
  PROVE  LET e == fired + 1 IN
         /\ e \in Events /\ fired' = e /\ fired' \in 0..MaxEvents
         /\ of' \in [Events -> Runs \cup {None}] /\ of'[e] = r
         /\ seq' \in [Events -> Nat] /\ seq'[e] = next[r]
         /\ place' \in [Events -> {"new", "queued", "kept", "failed", "taken", "dropped"}]
         /\ place'[e] = "queued"
         /\ \A f \in Events \ {e} : of'[f] = of[f] /\ seq'[f] = seq[f] /\ place'[f] = place[f]
         /\ next' \in [Runs -> Nat] /\ next'[r] = next[r] + 1
         /\ \A r2 \in Runs \ {r} : next'[r2] = next[r2]
         /\ UNCHANGED <<session, resumed, live, rows, count, messages, stuck, starts, exit>>
<1> DEFINE e == fired + 1
<1>1. e \in Events /\ e \in 0..MaxEvents
  BY RecordingAssumption DEF Fire, TypeOK, Events
<1>2. /\ fired' = e
      /\ of' = [of EXCEPT ![e] = r] /\ seq' = [seq EXCEPT ![e] = next[r]]
      /\ next' = [next EXCEPT ![r] = @ + 1] /\ place' = [place EXCEPT ![e] = "queued"]
  BY DEF Fire, Settle
<1>3. UNCHANGED <<session, resumed, live, rows, count, messages, stuck, starts, exit>>
  BY DEF Fire, store, main
<1> HIDE DEF e
<1>4. of' \in [Events -> Runs \cup {None}] /\ of'[e] = r
      /\ \A f \in Events \ {e} : of'[f] = of[f]
  BY <1>1, <1>2 DEF TypeOK
<1>5. next[r] \in Nat /\ next[r] + 1 \in Nat
  BY DEF TypeOK
<1>6. seq' \in [Events -> Nat] /\ seq'[e] = next[r]
      /\ \A f \in Events \ {e} : seq'[f] = seq[f]
  BY <1>1, <1>2, <1>5 DEF TypeOK
<1>7. place' \in [Events -> {"new", "queued", "kept", "failed", "taken", "dropped"}]
      /\ place'[e] = "queued" /\ \A f \in Events \ {e} : place'[f] = place[f]
  BY <1>1, <1>2 DEF TypeOK
<1>8. next' \in [Runs -> Nat] /\ next'[r] = next[r] + 1
      /\ \A r2 \in Runs \ {r} : next'[r2] = next[r2]
  BY <1>2, <1>5 DEF TypeOK
<1>. QED  BY <1>1, <1>2, <1>3, <1>4, <1>6, <1>7, <1>8 DEF e

\* Every step keeps the type.
LEMMA TypeStep ==
  ASSUME TypeOK, [Next]_vars
  PROVE  TypeOK'
<1>1. ASSUME NEW r \in Runs, NEW s \in Sessions, NEW ok \in BOOLEAN, StartProcess(r, s, ok)
      PROVE  TypeOK'
  <2>1. starts' \in 0..MaxStarts /\ turns' \in 0..MaxTurns /\ written' \in 0..MaxTurns
    BY <1>1, RecordingAssumption DEF StartProcess, TypeOK
  <2>2. rows' \subseteq Sessions /\ count' \in [Sessions -> Nat]
    BY <1>1, CreateSessionEffect DEF StartProcess, TypeOK
  <2>3. /\ session' \in [Runs -> Sessions \cup {None}] /\ resumed' \in [Runs -> BOOLEAN]
        /\ live' = live \cup {r}
    BY <1>1, StartRunEffect DEF StartProcess
  <2>4. step' \in MainSteps /\ file' \in Seq(Lines) /\ signalled' = None /\ exit' = "up"
    BY <1>1 DEF StartProcess, MainSteps
  <2>. QED  BY <1>1, <2>1, <2>2, <2>3, <2>4 DEF StartProcess, StartRun, TypeOK
<1>2. ASSUME NEW r \in Runs, NEW s \in Sessions, NEW ok \in BOOLEAN, StartSubagent(r, s, ok)
      PROVE  TypeOK'
  <2>1. rows' \subseteq Sessions /\ count' \in [Sessions -> Nat]
    BY <1>2, CreateSessionEffect DEF StartSubagent, TypeOK
  <2>2. /\ session' \in [Runs -> Sessions \cup {None}] /\ resumed' \in [Runs -> BOOLEAN]
        /\ live' = live \cup {r}
    BY <1>2, StartRunEffect DEF StartSubagent
  <2>3. UNCHANGED <<step, status, turns, written, file, slot, writer, signalled, exit>>
    BY <1>2 DEF StartSubagent, main
  <2>4. UNCHANGED <<messages, stuck, starts, next, of, seq, place, fired>>
    BY <1>2 DEF StartSubagent, StartRun
  <2>. QED  BY <2>1, <2>2, <2>3, <2>4 DEF TypeOK
<1>3. ASSUME NEW r \in Runs, Fire(r) PROVE TypeOK'
  <2>1. fired' \in 0..MaxEvents
    BY <1>3, FireEffect
  <2>2. /\ next' \in [Runs -> Nat] /\ of' \in [Events -> Runs \cup {None}]
        /\ seq' \in [Events -> Nat]
        /\ place' \in [Events -> {"new", "queued", "kept", "failed", "taken", "dropped"}]
    BY <1>3, FireEffect
  <2>3. UNCHANGED <<step, status, turns, written, file, slot, writer, signalled, exit>>
    BY <1>3 DEF Fire, main
  <2>4. UNCHANGED <<rows, count, messages, stuck, starts, session, resumed, live>>
    BY <1>3 DEF Fire, store
  <2>. QED  BY <2>1, <2>2, <2>3, <2>4 DEF TypeOK
<1>4. ASSUME NEW e \in Events, AppendMessage(e) PROVE TypeOK'
  <2>1. place' \in [Events -> {"new", "queued", "kept", "failed", "taken", "dropped"}]
    BY <1>4 DEF AppendMessage, Keep, Reject, Fail, Settle, TypeOK
  <2>2. stuck' \in BOOLEAN /\ rows' \subseteq Sessions
    BY <1>4 DEF AppendMessage, Keep, Reject, Fail, TypeOK, store
  <2>3. messages' \subseteq Messages /\ IsFiniteSet(messages')
    <3>1. CASE Keep(e)
      <4>1. session[of[e]] \in Sessions
        BY <3>1 DEF Keep, TypeOK
      <4>2. Keyed(e) \in Nat
        BY DEF TypeOK, Keyed
      <4>3. PICK m \in Messages : messages' = messages \cup {m}
        BY <3>1, <4>1, <4>2 DEF Keep, Messages
      <4>. QED  BY <4>3, FS_AddElement DEF TypeOK
    <3>2. CASE ~Keep(e)
      BY <1>4, <3>2 DEF AppendMessage, Reject, Fail, store, TypeOK
    <3>. QED  BY <3>1, <3>2
  <2>4. count' \in [Sessions -> Nat]
    <3>1. CASE Keep(e)
      <4>1. PICK s \in Sessions : count' = [count EXCEPT ![s] = count[s] + 1]
        BY <3>1 DEF Keep, TypeOK
      <4>2. count[s] + 1 \in Nat
        BY DEF TypeOK
      <4>. QED  BY <4>1, <4>2 DEF TypeOK
    <3>2. CASE ~Keep(e)
      BY <1>4, <3>2 DEF AppendMessage, Reject, Fail, store, TypeOK
    <3>. QED  BY <3>1, <3>2
  <2>5. UNCHANGED <<step, status, turns, written, file, slot, writer, signalled, exit>>
    BY <1>4 DEF AppendMessage, main
  <2>6. UNCHANGED <<session, resumed, live, next, of, seq, fired, starts>>
    BY <1>4 DEF AppendMessage
  <2>. QED  BY <2>1, <2>2, <2>3, <2>4, <2>5, <2>6 DEF TypeOK
<1>5. ASSUME NEW outcome \in Statuses, RunReturns(outcome) PROVE TypeOK'
  <2>1. step' \in MainSteps /\ live' \subseteq Runs
    BY <1>5 DEF RunReturns, MainSteps, TypeOK
  <2>. QED  BY <1>5, <2>1 DEF RunReturns, TypeOK, store
<1>6. ASSUME Exits PROVE TypeOK'
  <2>1. PICK how \in {"returned", "signal", "panic"} : Exit(how)
    BY <1>6 DEF Exits, SignalExits, Return, Panic
  <2>2. place' \in [Events -> {"new", "queued", "kept", "failed", "taken", "dropped"}]
    BY <2>1 DEF Exit, TypeOK
  <2>. QED  BY <2>1, <2>2 DEF Exit, TypeOK
<1>7. ASSUME UNCHANGED vars PROVE TypeOK'
  BY <1>7 DEF vars, store, recorders, main, TypeOK
<1>8. ASSUME FileStep PROVE TypeOK'
  BY <1>8, FileTypeStep
<1>. QED  BY <1>1, <1>2, <1>3, <1>4, <1>5, <1>6, <1>7, <1>8 DEF Next, FileStep, Exits

(***************************************************************************)
(* The store and the recorders.                                            *)
(***************************************************************************)

\* The parts of the invariant, for a start.
LEMMA StoreParts ==
  StoreInv <=> Numbered /\ Recorded /\ Alone /\ CountMatches /\ FreshSessionsLoseNothing
  BY DEF StoreInv

\* A step that leaves rows, messages and events alone, and drops no run that may
\* still record, keeps the invariant.
LEMMA StoreFrame ==
  ASSUME TypeOK, StoreInv, live' \subseteq live, exit' = exit,
         UNCHANGED <<rows, count, messages, session, resumed, next, of, seq, place, fired>>
  PROVE  StoreInv'
<1>0. Numbered /\ Recorded /\ Alone /\ CountMatches /\ FreshSessionsLoseNothing
  BY StoreParts
<1>1. Numbered'
  BY <1>0 DEF Numbered
<1>2. Recorded' /\ CountMatches' /\ FreshSessionsLoseNothing'
  BY <1>0 DEF Recorded, CountMatches, MessagesOf, FreshSessionsLoseNothing
<1>3. Alone'
  BY <1>0 DEF Alone, Shared
<1>. QED  BY <1>1, <1>2, <1>3 DEF StoreInv

\* An exit leaves no append under way and no run.
LEMMA StoreExit ==
  ASSUME TypeOK, StoreInv, NEW how \in {"returned", "signal", "panic"}, Exit(how)
  PROVE  StoreInv'
<1>0. Numbered /\ Recorded /\ Alone /\ CountMatches /\ FreshSessionsLoseNothing
  BY StoreParts
<1>1. /\ exit = "up" /\ exit' = how /\ live' = {}
      /\ place' = [e \in Events |-> IF place[e] = "queued" THEN "dropped" ELSE place[e]]
      /\ UNCHANGED <<rows, count, messages, session, resumed, next, of, seq, fired>>
  BY DEF Exit
<1>2. \A e \in Events : /\ place'[e] # "queued"
                        /\ place[e] = "queued" => place'[e] = "dropped"
                        /\ place[e] # "queued" => place'[e] = place[e]
  BY <1>1
<1>3. Numbered'
  BY <1>0, <1>1, <1>2 DEF Numbered
<1>4. Recorded'
  <2>1. \A m \in messages : m.event \in Events
    BY DEF TypeOK, Messages
  <2>. QED  BY <1>0, <1>1, <1>2, <2>1 DEF Recorded
<1>5. Alone' /\ FreshSessionsLoseNothing'
  BY <1>0, <1>1, <1>2 DEF Alone, FreshSessionsLoseNothing
<1>6. CountMatches'
  BY <1>0, <1>1 DEF CountMatches, MessagesOf
<1>. QED  BY <1>3, <1>4, <1>5, <1>6 DEF StoreInv

\* A new run has a session to itself, or has resumed it.
LEMMA StoreStart ==
  ASSUME TypeOK, StoreInv, NEW r \in Runs, NEW s \in Sessions, NEW ok \in BOOLEAN,
         CreateSession(s, ok), StartRun(r, s), messages' = messages, exit' = "up",
         \/ exit # "up"
         \/ exit = "up" /\ \A r2 \in Runs : session[r2] # s
  PROVE  StoreInv'
<1>0. Numbered /\ Recorded /\ Alone /\ CountMatches /\ FreshSessionsLoseNothing
  BY StoreParts
<1>1. /\ session[r] = None
      /\ session'[r] = s /\ \A r2 \in Runs \ {r} : session'[r2] = session[r2]
      /\ resumed' \in [Runs -> BOOLEAN]
      /\ resumed'[r] <=> \E r2 \in Runs : session[r2] = s
      /\ \A r2 \in Runs \ {r} : resumed'[r2] = resumed[r2]
      /\ live' = live \cup {r}
      /\ UNCHANGED <<next, of, seq, place, fired>>
  BY StartRunEffect
<1>2. /\ rows \subseteq rows' /\ rows' \subseteq rows \cup {s}
      /\ \A s2 \in Sessions : s2 \in rows => count'[s2] = count[s2]
      /\ s \in rows' \ rows => count'[s] = 0
  BY CreateSessionEffect DEF TypeOK
<1>3. s # None
  BY RecordingAssumption
<1>4. \A e \in Events : e <= fired => of[e] \in Runs \ {r}
  BY <1>0, <1>1 DEF Numbered
<1>5. Numbered'
  <2>1. \A e \in Events : e <= fired => session'[of[e]] # None
    BY <1>0, <1>1, <1>4 DEF Numbered
  <2>. QED  BY <1>0, <1>1, <2>1 DEF Numbered
<1>6. Recorded'
  <2>1. \A m \in messages : m.event \in Events
    BY DEF TypeOK, Messages
  <2>2. \A m \in messages : session'[of[m.event]] = session[of[m.event]]
    BY <1>0, <1>1, <1>4, <2>1 DEF Recorded
  <2>. QED  BY <1>0, <1>1, <1>2, <2>2 DEF Recorded
<1>7. ASSUME NEW r2 \in Runs, r2 # r, exit = "up" PROVE Shared(r2)' => Shared(r2)
  BY <1>1, <1>7 DEF Shared
<1>8. Shared(r)' => resumed'[r]
  BY <1>1 DEF Shared
<1>9. Alone'
  <2>1. ASSUME NEW r2 \in live' PROVE session'[r2] # None /\ (Shared(r2)' => resumed'[r2])
    <3>1. CASE r2 = r
      BY <1>1, <1>3, <1>8, <3>1
    <3>2. CASE r2 # r
      <4>1. r2 \in live /\ r2 \in Runs /\ exit = "up"
        BY <1>0, <1>1, <2>1, <3>2 DEF Numbered, TypeOK
      <4>. QED  BY <1>0, <1>1, <1>7, <3>2, <4>1 DEF Alone
    <3>. QED  BY <3>1, <3>2
  <2>2. ASSUME NEW e \in Events, place'[e] = "queued", Shared(of[e])' PROVE resumed'[of[e]]
    <3>1. place[e] = "queued" /\ exit = "up"
      BY <1>0, <1>1, <2>2 DEF Numbered
    <3>2. e <= fired
      BY <1>0, <3>1 DEF Numbered, TypeOK, Events
    <3>3. of[e] \in Runs \ {r} /\ of'[e] = of[e]
      BY <1>1, <1>4, <3>2
    <3>. QED  BY <1>0, <1>1, <1>7, <2>2, <3>1, <3>3 DEF Alone
  <2>. QED  BY <1>1, <2>1, <2>2 DEF Alone
<1>10. CountMatches'
  <2>1. \A s2 \in Sessions : MessagesOf(s2)' = MessagesOf(s2)
    BY DEF MessagesOf
  <2>2. ASSUME NEW s2 \in rows' PROVE count'[s2] = Cardinality(MessagesOf(s2))
    <3>1. CASE s2 \in rows
      BY <1>0, <1>2, <3>1 DEF CountMatches, TypeOK
    <3>2. CASE s2 \notin rows
      <4>1. s2 = s /\ count'[s] = 0
        BY <1>2, <3>2
      <4>2. MessagesOf(s2) = {}
        BY <1>0, <3>2 DEF CountMatches, MessagesOf
      <4>. QED  BY <4>1, <4>2, FS_EmptySet
    <3>. QED  BY <3>1, <3>2
  <2>3. rows' \subseteq Sessions
    BY <1>2 DEF TypeOK
  <2>. QED  BY <1>0, <1>2, <2>1, <2>2, <2>3 DEF CountMatches
<1>11. FreshSessionsLoseNothing'
  <2>1. \A e \in Events : place[e] = "taken" => e <= fired
    BY <1>0 DEF Numbered, TypeOK, Events
  <2>. QED  BY <1>0, <1>1, <1>4, <2>1 DEF FreshSessionsLoseNothing
<1>. QED  BY <1>5, <1>6, <1>9, <1>10, <1>11 DEF StoreInv

\* An event fired gets a number its run has not used.
LEMMA StoreFire ==
  ASSUME TypeOK, StoreInv, NEW r \in Runs, Fire(r)
  PROVE  StoreInv'
<1>0. Numbered /\ Recorded /\ Alone /\ CountMatches /\ FreshSessionsLoseNothing
  BY StoreParts
<1>1. PICK e \in Events : e = fired + 1
  BY FireEffect
<1>2. /\ fired' = e /\ of'[e] = r /\ seq'[e] = next[r] /\ place'[e] = "queued"
      /\ \A f \in Events \ {e} : of'[f] = of[f] /\ seq'[f] = seq[f] /\ place'[f] = place[f]
      /\ next'[r] = next[r] + 1 /\ \A r2 \in Runs \ {r} : next'[r2] = next[r2]
      /\ UNCHANGED <<session, resumed, live, rows, count, messages, exit>>
  BY <1>1, FireEffect
<1>3. r \in live /\ exit = "up" /\ session[r] # None /\ (Shared(r) => resumed[r])
  BY <1>0 DEF Fire, Alone
<1>4. next \in [Runs -> Nat] /\ fired \in Nat
  BY DEF TypeOK
<1>5. \A f \in Events : f \in Nat
  BY RecordingAssumption DEF Events
<1>6. Numbered'
  <2>1. ASSUME NEW f \in Events, f > fired' PROVE place'[f] = "new"
    BY <1>0, <1>1, <1>2, <1>4, <1>5, <2>1 DEF Numbered
  <2>2. ASSUME NEW f \in Events, f <= fired'
        PROVE  of'[f] \in Runs /\ session'[of'[f]] # None /\ seq'[f] < next'[of'[f]]
    <3>1. CASE f = e
      BY <1>2, <1>3, <1>4, <3>1
    <3>2. CASE f # e
      <4>1. of'[f] = of[f] /\ seq'[f] = seq[f]
        BY <1>2, <3>2
      <4>0. f <= fired
        <5>1. f <= e
          BY <1>2, <2>2
        <5>. QED  BY <5>1, <1>1, <1>4, <1>5, <3>2
      <4>2. of[f] \in Runs /\ session[of[f]] # None /\ seq[f] < next[of[f]]
        BY <1>0, <4>0 DEF Numbered
      <4>3. next[of[f]] <= next'[of[f]]
        BY <1>2, <1>4, <4>2
      <4>4. seq[f] \in Nat /\ next[of[f]] \in Nat /\ next'[of[f]] \in Nat
        BY <1>2, <1>4, <4>2 DEF TypeOK
      <4>. QED  BY <1>2, <4>1, <4>2, <4>3, <4>4
    <3>. QED  BY <3>1, <3>2
  <2>3. ASSUME NEW f \in Events, NEW g \in Events, f < g, g <= fired', of'[f] = of'[g]
        PROVE  seq'[f] < seq'[g]
    <3>1. CASE g = e
      <4>1. f <= fired /\ f # e
        BY <1>1, <1>4, <1>5, <2>3, <3>1
      <4>. QED  BY <1>0, <1>2, <2>3, <3>1, <4>1 DEF Numbered
    <3>2. CASE g # e
      <4>1. g <= fired /\ f # e
        BY <1>1, <1>2, <1>4, <1>5, <2>3, <3>2
      <4>. QED  BY <1>0, <1>2, <2>3, <3>2, <4>1 DEF Numbered
    <3>. QED  BY <3>1, <3>2
  <2>. QED  BY <1>2, <1>3, <2>1, <2>2, <2>3 DEF Numbered
<1>7. \A m \in messages : m.event \in Events \ {e} /\ m.event <= fired
  <2>1. \A m \in messages : m.event \in Events /\ m.event <= fired
    BY <1>0 DEF Recorded, TypeOK, Messages
  <2>2. ~(e <= fired)
    BY <1>1, <1>4
  <2>. QED  BY <2>1, <2>2
<1>8. Recorded'
  <2>1. \A n \in Nat : n <= fired => n <= fired'
    BY <1>1, <1>2, <1>4
  <2>2. \A m \in messages : m.event <= fired'
    BY <1>5, <1>7, <2>1
  <2>. QED  BY <1>0, <1>2, <1>7, <2>2 DEF Recorded
<1>9. \A r2 \in Runs : Shared(r2)' <=> Shared(r2)
  BY <1>2 DEF Shared
<1>10. Alone'
  <2>1. \A r2 \in live' : session'[r2] # None /\ (Shared(r2)' => resumed'[r2])
    BY <1>0, <1>2, <1>9 DEF Alone, TypeOK
  <2>2. ASSUME NEW f \in Events, place'[f] = "queued", Shared(of[f])' PROVE resumed'[of'[f]]
    <3>1. CASE f = e
      BY <1>2, <1>3, <1>9, <2>2, <3>1
    <3>2. CASE f # e
      <4>1. place[f] = "queued" /\ of'[f] = of[f]
        BY <1>2, <2>2, <3>2
      <4>2. of[f] \in Runs
        BY <1>0, <1>4, <1>5, <4>1 DEF Numbered
      <4>. QED  BY <1>0, <1>2, <1>9, <2>2, <4>1, <4>2 DEF Alone
    <3>. QED  BY <3>1, <3>2
  <2>. QED  BY <2>1, <2>2 DEF Alone
<1>11. CountMatches' /\ FreshSessionsLoseNothing'
  BY <1>0, <1>2 DEF CountMatches, MessagesOf, FreshSessionsLoseNothing
<1>. QED  BY <1>6, <1>8, <1>10, <1>11 DEF StoreInv

\* An append keeps the event, under its number, with the count; or leaves the store.
LEMMA StoreAppend ==
  ASSUME TypeOK, StoreInv, NEW e \in Events, AppendMessage(e)
  PROVE  StoreInv'
<1>0. Numbered /\ Recorded /\ Alone /\ CountMatches /\ FreshSessionsLoseNothing
  BY StoreParts
<1>1. /\ exit = "up" /\ place[e] = "queued"
      /\ UNCHANGED <<session, resumed, live, next, of, seq, fired, exit, rows>>
  BY DEF AppendMessage, main, store, Keep, Reject, Fail
<1>2. e <= fired /\ of[e] \in Runs
  BY <1>0, <1>1 DEF Numbered, TypeOK, Events
<1>10. PICK s \in Sessions : s = session[of[e]]
  BY <1>0, <1>2 DEF Numbered, TypeOK
<1> DEFINE new == [session |-> s, seq |-> seq[e], event |-> e]
<1>3. \A m \in messages : m.event \in Events \ {e}
  BY <1>0, <1>1 DEF Recorded, TypeOK, Messages
<1>4. PICK to \in {"kept", "taken", "failed"} : place' = [place EXCEPT ![e] = to]
  BY DEF AppendMessage, Keep, Reject, Fail, Settle
<1>5. place'[e] = to /\ \A f \in Events \ {e} : place'[f] = place[f]
  BY <1>4 DEF TypeOK
<1>6. Numbered'
  BY <1>0, <1>1, <1>2, <1>5 DEF Numbered
<1>7. Alone'
  BY <1>0, <1>1, <1>5 DEF Alone, Shared
<1>8. CASE Keep(e)
  <2>1. messages' = messages \cup {new} /\ count' = [count EXCEPT ![s] = count[s] + 1]
        /\ s \in rows /\ to = "kept"
    BY <1>4, <1>8, <1>10 DEF Keep, Keyed, Settle, TypeOK
  <2>2. count'[s] = count[s] + 1 /\ \A s2 \in Sessions \ {s} : count'[s2] = count[s2]
    BY <1>2, <2>1 DEF TypeOK
  <2>3. Recorded'
    <3>1. new.event = e /\ new.session = s /\ new.seq = seq[e]
      OBVIOUS
    <3> HIDE DEF new
    <3>2. ASSUME NEW m \in messages'
          PROVE  /\ m.event <= fired /\ place'[m.event] = "kept"
                 /\ m.session = session[of[m.event]] /\ m.seq = seq[m.event]
                 /\ m.session \in rows
      <4>1. CASE m \in messages
        BY <1>0, <1>3, <1>5, <4>1 DEF Recorded
      <4>2. CASE m = new
        BY <1>2, <1>5, <1>10, <2>1, <3>1, <4>2
      <4>. QED  BY <2>1, <3>2, <4>1, <4>2
    <3>. QED  BY <1>1, <3>2 DEF Recorded
  <2>4. CountMatches'
    <3>1. MessagesOf(s)' = MessagesOf(s) \cup {new}
      BY <1>1, <2>1 DEF MessagesOf
    <3>2. new \notin MessagesOf(s)
      BY <1>3 DEF MessagesOf
    <3>3. IsFiniteSet(MessagesOf(s))
      BY FS_Subset DEF MessagesOf, TypeOK
    <3>4. \A s2 \in Sessions \ {s} : MessagesOf(s2)' = MessagesOf(s2)
      BY <2>1 DEF MessagesOf
    <3>5. Cardinality(MessagesOf(s)') = Cardinality(MessagesOf(s)) + 1
      BY <3>1, <3>2, <3>3, FS_AddElement
    <3>6. \A s2 \in rows : count'[s2] = Cardinality(MessagesOf(s2)')
      <4> SUFFICES ASSUME NEW s2 \in rows PROVE count'[s2] = Cardinality(MessagesOf(s2)')
        OBVIOUS
      <4>1. s2 \in Sessions /\ count[s2] = Cardinality(MessagesOf(s2))
        BY <1>0 DEF TypeOK, CountMatches
      <4>2. CASE s2 = s
        BY <2>2, <3>5, <4>1, <4>2
      <4>3. CASE s2 # s
        BY <2>2, <3>4, <4>1, <4>3
      <4>. QED  BY <4>2, <4>3
    <3>7. \A m \in messages' : m.session \in rows
      BY <1>0, <2>1 DEF CountMatches
    <3>. QED  BY <1>1, <3>6, <3>7 DEF CountMatches
  <2>5. FreshSessionsLoseNothing'
    BY <1>0, <1>1, <1>5, <2>1 DEF FreshSessionsLoseNothing
  <2>. QED  BY <1>6, <1>7, <2>3, <2>4, <2>5 DEF StoreInv
<1>9. CASE ~Keep(e)
  <2>1. UNCHANGED <<count, messages>> /\ (to = "taken" => Taken(e)) /\ to # "kept"
    <3>1. (Reject(e) \/ Fail(e))
      BY <1>9 DEF AppendMessage
    <3>2. place'[e] # "kept" /\ (place'[e] = "taken" => Taken(e))
      BY <3>1 DEF Reject, Fail, Settle, TypeOK
    <3>. QED  BY <1>5, <3>1, <3>2 DEF Reject, Fail, store
  <2>2. Recorded'
    BY <1>0, <1>1, <1>3, <1>5, <2>1 DEF Recorded
  <2>3. CountMatches'
    BY <1>0, <1>1, <2>1 DEF CountMatches, MessagesOf
  <2>4. to = "taken" => resumed[of[e]]
    <3> SUFFICES ASSUME to = "taken" PROVE resumed[of[e]]
      OBVIOUS
    <3>1. PICK m \in messages : m.session = s /\ m.seq = seq[e]
      BY <1>10, <2>1 DEF Taken, Keyed
    <3>2. PICK f \in Events : f = m.event
      BY <1>3
    <3>3. f # e /\ f <= fired /\ session[of[f]] = s /\ seq[f] = seq[e]
      BY <1>0, <1>3, <3>1, <3>2 DEF Recorded
    <3>4. of[f] # of[e]
      <4>1. f < e \/ e < f
        BY <3>3, RecordingAssumption DEF Events
      <4>2. seq[e] \in Nat /\ ~(seq[e] < seq[e])
        BY DEF TypeOK
      <4>. QED  BY <1>0, <1>2, <3>3, <4>1, <4>2 DEF Numbered
    <3>5. Shared(of[e])
      BY <1>0, <1>10, <3>3, <3>4 DEF Shared, Numbered
    <3>. QED  BY <1>0, <1>1, <3>5 DEF Alone
  <2>5. FreshSessionsLoseNothing'
    BY <1>0, <1>1, <1>5, <2>4 DEF FreshSessionsLoseNothing
  <2>. QED  BY <1>6, <1>7, <2>2, <2>3, <2>5 DEF StoreInv
<1>. QED  BY <1>8, <1>9

\* Every step keeps what is known of the store and the recorders.
LEMMA StoreStep ==
  ASSUME TypeOK, StoreInv, [Next]_vars
  PROVE  StoreInv'
<1>1. ASSUME NEW r \in Runs, NEW s \in Sessions, NEW ok \in BOOLEAN, StartProcess(r, s, ok)
      PROVE  StoreInv'
  <2>1. /\ CreateSession(s, ok) /\ StartRun(r, s) /\ messages' = messages
        /\ exit' = "up" /\ exit # "up"
    BY <1>1 DEF StartProcess
  <2>. QED  BY <2>1, StoreStart
<1>2. ASSUME NEW r \in Runs, NEW s \in Sessions, NEW ok \in BOOLEAN, StartSubagent(r, s, ok)
      PROVE  StoreInv'
  <2>1. /\ CreateSession(s, ok) /\ StartRun(r, s) /\ messages' = messages
        /\ exit' = "up" /\ exit = "up" /\ \A r2 \in Runs : session[r2] # s
    BY <1>2 DEF StartSubagent, main
  <2>. QED  BY <2>1, StoreStart
<1>3. ASSUME NEW r \in Runs, Fire(r) PROVE StoreInv'
  BY <1>3, StoreFire
<1>4. ASSUME NEW e \in Events, AppendMessage(e) PROVE StoreInv'
  BY <1>4, StoreAppend
<1>5. ASSUME NEW outcome \in Statuses, RunReturns(outcome) PROVE StoreInv'
  <2>1. /\ live' \subseteq live /\ exit' = exit
        /\ UNCHANGED <<rows, count, messages, session, resumed, next, of, seq, place, fired>>
    BY <1>5 DEF RunReturns, store
  <2>. QED  BY <2>1, StoreFrame
<1>6. ASSUME Exits PROVE StoreInv'
  <2>1. PICK how \in {"returned", "signal", "panic"} : Exit(how)
    BY <1>6 DEF Exits, SignalExits, Return, Panic
  <2>. QED  BY <2>1, StoreExit
<1>7. ASSUME FileStep \/ UNCHANGED vars PROVE StoreInv'
  <2>1. /\ live' \subseteq live /\ exit' = exit
        /\ UNCHANGED <<rows, count, messages, session, resumed, next, of, seq, place, fired>>
    BY <1>7 DEF vars, store, recorders, main, FileStep, OpenFile, NoFile, Register, Turn,
       LockWriter, WriteTurn, TurnsWritten, Finalize, ClearSlot, DropWriter, SignalFinalizes,
       Proceed
  <2>. QED  BY <2>1, StoreFrame
<1>. QED  BY <1>1, <1>2, <1>3, <1>4, <1>5, <1>6, <1>7 DEF Next, FileStep, Exits

(***************************************************************************)
(* The file.                                                               *)
(***************************************************************************)

\* An end line is written to a file that has none, and only there.
LEMMA EndLineEnds ==
  ASSUME file \in Seq(Lines), \A i, j \in Ends(file) : i = j,
         NEW line \in Statuses, NEW lines, lines = EndLine(line)
  PROVE  /\ \A i, j \in Ends(lines) : i = j
         /\ \E i \in DOMAIN lines : lines[i] \in Statuses
         /\ lines # <<>>
<1>1. CASE Ended
  <2>1. lines = file
    BY <1>1 DEF EndLine
  <2>. QED  BY <1>1, <2>1 DEF Ended
<1>2. CASE ~Ended
  <2>1. lines = Append(file, line)
    BY <1>2 DEF EndLine
  <2>2. /\ DOMAIN lines = 1..(Len(file) + 1) /\ lines[Len(file) + 1] = line
        /\ DOMAIN file = 1..Len(file) /\ Len(file) \in Nat
        /\ \A i \in 1..Len(file) : lines[i] = file[i]
    BY <2>1
  <2>3. Ends(lines) = {Len(file) + 1}
    BY <1>2, <2>2 DEF Ends, Ended
  <2>4. lines # <<>>
    BY <2>1
  <2>. QED  BY <2>2, <2>3, <2>4 DEF Ends
<1>. QED  BY <1>1, <1>2

\* The line of a turn is no end.
LEMMA TurnEnds ==
  ASSUME file \in Seq(Lines), NEW lines, lines = Append(file, "turn")
  PROVE  Ends(lines) = Ends(file) /\ lines # <<>>
<1>1. /\ DOMAIN lines = 1..(Len(file) + 1) /\ lines[Len(file) + 1] = "turn"
      /\ DOMAIN file = 1..Len(file) /\ Len(file) \in Nat
      /\ \A i \in 1..Len(file) : lines[i] = file[i]
  OBVIOUS
<1>2. "turn" \notin Statuses
  BY DEF Statuses
<1>3. Ends(lines) = Ends(file)
  BY <1>1, <1>2 DEF Ends
<1>. QED  BY <1>3

\* Steps that leave the file alone.
LEMMA FileFrame ==
  ASSUME TypeOK, FileInv, file' = file,
         \/ NoFile \/ Register \/ Turn \/ LockWriter \/ TurnsWritten \/ ClearSlot
         \/ \E outcome \in Statuses : RunReturns(outcome)
  PROVE  FileInv'
<1>1. \A i, j \in Ends(file') : i = j
  BY DEF FileInv
<1>2. Ends(file)' = Ends(file) /\ (Ended' <=> Ended)
  BY DEF Ends, Ended
<1>. QED  BY <1>1, <1>2 DEF FileInv, NoFile, Register, Turn, LockWriter, TurnsWritten, ClearSlot,
     RunReturns, Proceed, MainSteps

\* What main and the handler do with the file.
LEMMA FileInvStep ==
  ASSUME TypeOK, FileInv, FileStep
  PROVE  FileInv'
<1>0. file \in Seq(Lines) /\ \A i, j \in Ends(file) : i = j
  BY DEF TypeOK, FileInv
<1>1. "ok" \in Statuses /\ "error" \in Statuses /\ status \in Statuses /\ "meta" \notin Statuses
  BY DEF Statuses, TypeOK
<1>2. CASE OpenFile
  <2>1. file' = <<"meta">> /\ step = "started" /\ step' = "opened" /\ writer'
        /\ exit' = "up" /\ exit = "up" /\ signalled' = signalled
    BY <1>2 DEF OpenFile, Proceed
  <2>2. Ends(file') = {}
    BY <1>1, <2>1 DEF Ends
  <2>3. file' # <<>>
    BY <2>1
  <2>4. signalled' \in {None, "started"}
    BY <2>1 DEF FileInv
  <2>. QED  BY <2>1, <2>2, <2>3, <2>4 DEF FileInv
<1>3. CASE WriteTurn
  <2>1. /\ file' = Append(file, "turn") /\ step = "writing" /\ step' = "writing"
        /\ exit = "up" /\ UNCHANGED <<slot, writer, exit, signalled>>
    BY <1>3 DEF WriteTurn, Proceed
  <2>2. Ends(file') = Ends(file) /\ file' # <<>>
    BY <1>0, <2>1, TurnEnds
  <2>3. Ended' <=> Ended
    BY <2>2 DEF Ended, Ends
  <2>4. \A i, j \in Ends(file') : i = j
    BY <1>0, <2>2
  <2>5. file # <<>>
    BY <2>1 DEF FileInv
  <2>. QED  BY <2>1, <2>2, <2>3, <2>4, <2>5 DEF FileInv
<1>4. CASE Finalize
  <2>1. /\ file' = EndLine(status) /\ step' = "clearing" /\ step \in {"finalizing", "ended"}
        /\ exit = "up" /\ UNCHANGED <<slot, writer, exit, signalled>>
    BY <1>4 DEF Finalize, Proceed
  <2>2. (\A i, j \in Ends(file') : i = j) /\ Ended' /\ file' # <<>>
    BY <1>0, <1>1, <2>1, EndLineEnds DEF Ended
  <2>. QED  BY <2>1, <2>2 DEF FileInv
<1>5. CASE DropWriter
  <2>1. /\ file' = EndLine("error") /\ step' = "closing" /\ step = "closing" /\ ~writer'
        /\ exit = "up" /\ UNCHANGED <<slot, exit, signalled>>
    BY <1>5 DEF DropWriter, Proceed
  <2>2. (\A i, j \in Ends(file') : i = j) /\ Ended' /\ file' # <<>>
    BY <1>0, <1>1, <2>1, EndLineEnds DEF Ended
  <2>. QED  BY <2>1, <2>2 DEF FileInv
<1>6. CASE SignalFinalizes
  <2>1. /\ exit = "up" /\ signalled = None /\ signalled' = step
        /\ UNCHANGED <<step, slot, writer, exit>>
        /\ file' = IF slot /\ writer THEN EndLine("error") ELSE file
    BY <1>6 DEF SignalFinalizes
  <2>2. CASE slot /\ writer
    <3>1. (\A i, j \in Ends(file') : i = j) /\ Ended' /\ file' # <<>>
      BY <1>0, <1>1, <2>1, <2>2, EndLineEnds DEF Ended
    <3>2. file # <<>> /\ step \notin {"off", "started"}
      BY <2>2 DEF FileInv
    <3>. QED  BY <2>1, <2>2, <3>1, <3>2 DEF FileInv
  <2>3. CASE ~(slot /\ writer)
    <3>1. file' = file /\ (Ended' <=> Ended) /\ Ends(file)' = Ends(file)
      BY <2>1, <2>3 DEF Ended, Ends
    <3>2. step \in MainSteps /\ None \notin MainSteps
      BY RecordingAssumption DEF TypeOK
    <3>. QED  BY <2>1, <2>3, <3>1, <3>2 DEF FileInv
  <2>. QED  BY <2>2, <2>3
<1>7. CASE ~(OpenFile \/ WriteTurn \/ Finalize \/ DropWriter \/ SignalFinalizes)
  <2>1. file' = file
    BY <1>7 DEF FileStep, NoFile, Register, Turn, LockWriter, TurnsWritten, ClearSlot
  <2>2. NoFile \/ Register \/ Turn \/ LockWriter \/ TurnsWritten \/ ClearSlot
    BY <1>7 DEF FileStep
  <2>. QED  BY <2>1, <2>2, FileFrame
<1>. QED  BY <1>2, <1>3, <1>4, <1>5, <1>6, <1>7

\* Main leaves its file at the lines it has, or takes the next step of them.
LEMMA TurnsStep ==
  ASSUME TypeOK, FileInv, TurnsInv,
         FileStep \/ \E outcome \in Statuses : RunReturns(outcome)
  PROVE  TurnsInv'
<1>0. written \in Nat /\ turns \in Nat /\ exit \in {"up", "returned", "signal", "panic"}
  BY RecordingAssumption DEF TypeOK
<1>1. CASE WriteTurn
  <2>1. /\ step = "writing" /\ step' = "writing" /\ UNCHANGED <<status, turns>>
        /\ written' = written + 1 /\ written < turns
    BY <1>1 DEF WriteTurn, Proceed
  <2>2. written' <= turns
    BY <1>0, <2>1
  <2>3. status = "ok"
    BY <2>1 DEF TurnsInv
  <2>. QED  BY <2>1, <2>2, <2>3 DEF TurnsInv
<1>2. CASE Turn
  <2>1. step = "running" /\ step' = "running" /\ written' = written
    BY <1>2 DEF Turn, Proceed
  <2>. QED  BY <2>1 DEF TurnsInv
<1>3. CASE Finalize \/ ClearSlot \/ DropWriter
  <2>1. UNCHANGED <<status, turns, written>> /\ step' \in {"clearing", "closing"}
    BY <1>3 DEF Finalize, ClearSlot, DropWriter, Proceed
  <2>2. IF status = "ok" THEN written = turns ELSE written = 0
    BY <1>3 DEF Finalize, ClearSlot, DropWriter, Proceed, TurnsInv, FileInv
  <2>. QED  BY <2>1, <2>2 DEF TurnsInv
<1>4. CASE \E outcome \in Statuses : RunReturns(outcome)
  <2>1. /\ exit = "up" /\ step = "running" /\ step' = (IF writer THEN "ended" ELSE "closing")
        /\ UNCHANGED <<file, written>>
    BY <1>4 DEF RunReturns
  <2>2. written = 0 /\ (file # <<>> => writer)
    BY <2>1 DEF TurnsInv, FileInv
  <2>. QED  BY <2>1, <2>2 DEF TurnsInv
<1>5. CASE LockWriter
  <2>1. step = "ended" /\ step' = "writing" /\ status = "ok" /\ UNCHANGED <<status, turns, written>>
    BY <1>5 DEF LockWriter, Proceed
  <2>2. written = 0 /\ written <= turns
    BY <1>0, <2>1 DEF TurnsInv
  <2>. QED  BY <2>1, <2>2 DEF TurnsInv
<1>6. CASE TurnsWritten
  BY <1>6 DEF TurnsWritten, Proceed, TurnsInv
<1>7. CASE OpenFile \/ NoFile \/ Register
  BY <1>7 DEF OpenFile, NoFile, Register, Proceed, TurnsInv
<1>8. CASE SignalFinalizes
  <2>1. UNCHANGED <<step, status, turns, written>> /\ (file = <<>> => file' = file)
    BY <1>8 DEF SignalFinalizes, FileInv
  <2>. QED  BY <2>1 DEF TurnsInv
<1>. QED  BY <1>1, <1>2, <1>3, <1>4, <1>5, <1>6, <1>7, <1>8 DEF FileStep

\* The lines, action by action.
LEMMA LinesStep ==
  ASSUME TypeOK, FileInv, TurnsInv, LinesInv,
         FileStep \/ \E outcome \in Statuses : RunReturns(outcome)
  PROVE  LinesInv'
<1>0. /\ written \in Nat /\ file \in Seq(Lines) /\ status \in Statuses
      /\ step \in MainSteps /\ None \notin MainSteps
  BY RecordingAssumption DEF TypeOK
<1>1. CASE OpenFile
  <2>1. file' = <<"meta">> /\ step' = "opened" /\ written' = 0
    BY <1>1 DEF OpenFile, Proceed, TurnsInv
  <2>2. Len(file') = 1 /\ file'[1] = "meta" /\ 2..(1 + 0) = {}
    BY <2>1
  <2>. QED  BY <2>1, <2>2 DEF LinesInv
<1>2. CASE WriteTurn
  <2> SUFFICES ASSUME signalled = None PROVE LinesInv'
    BY <1>2 DEF WriteTurn, Proceed, LinesInv
  <2>1. /\ step = "writing" /\ step' = "writing" /\ written' = written + 1
        /\ file' = Append(file, "turn")
    BY <1>2 DEF WriteTurn, Proceed
  <2>2. /\ \A i \in 2..(1 + written) : file[i] = "turn"
        /\ file[1] = "meta" /\ Len(file) = 1 + written
    BY <2>1 DEF LinesInv, FileInv
  <2>3. /\ Len(file') = 2 + written /\ file'[2 + written] = "turn"
        /\ \A i \in 1..(1 + written) : file'[i] = file[i]
    BY <1>0, <2>1, <2>2
  <2>4. file'[1] = "meta" /\ \A i \in 2..(2 + written) : file'[i] = "turn"
    BY <1>0, <2>2, <2>3
  <2>5. 1 + written' = 2 + written
    BY <1>0, <2>1
  <2>. QED  BY <2>1, <2>3, <2>4, <2>5 DEF LinesInv
<1>3. CASE Finalize
  <2> SUFFICES ASSUME signalled = None PROVE LinesInv'
    BY <1>3 DEF Finalize, Proceed, LinesInv
  <2>1. /\ step \in {"ended", "finalizing"} /\ step' = "clearing"
        /\ UNCHANGED <<written, status>> /\ file' = EndLine(status)
    BY <1>3 DEF Finalize, Proceed
  <2>2. /\ \A i \in 2..(1 + written) : file[i] = "turn"
        /\ file[1] = "meta" /\ Len(file) = 1 + written
    BY <2>1 DEF LinesInv, FileInv
  <2>3. ~Ended
    <3>1. \A i \in 1..(1 + written) : i = 1 \/ i \in 2..(1 + written)
      BY <1>0
    <3>2. DOMAIN file = 1..(1 + written)
      BY <1>0, <2>2
    <3>3. "meta" \notin Statuses /\ "turn" \notin Statuses
      BY DEF Statuses
    <3>. QED  BY <2>2, <3>1, <3>2, <3>3 DEF Ended
  <2>4. file' = Append(file, status)
    BY <2>1, <2>3 DEF EndLine
  <2>5. status \in Lines
    BY <1>0 DEF Lines
  <2>6. /\ Len(file') = 2 + written /\ file'[2 + written] = status
        /\ \A i \in 1..(1 + written) : file'[i] = file[i]
    BY <1>0, <2>2, <2>4, <2>5
  <2>7. file'[1] = "meta" /\ \A i \in 2..(1 + written) : file'[i] = "turn"
    BY <1>0, <2>2, <2>6
  <2>. QED  BY <2>1, <2>6, <2>7 DEF LinesInv
<1>4. CASE DropWriter
  <2>1. step = "closing" /\ writer
    BY <1>4 DEF DropWriter, Proceed
  <2>2. Ended
    BY <2>1 DEF FileInv
  <2>3. UNCHANGED <<file, step, written, status, signalled>>
    BY <1>4, <2>2 DEF DropWriter, Proceed, EndLine
  <2>. QED  BY <2>3 DEF LinesInv
<1>5. CASE SignalFinalizes
  <2>1. signalled' # None
    BY <1>0, <1>5 DEF SignalFinalizes
  <2>. QED  BY <2>1 DEF LinesInv
<1>6. CASE \E outcome \in Statuses : RunReturns(outcome)
  <2>1. /\ exit = "up" /\ step = "running" /\ step' = (IF writer THEN "ended" ELSE "closing")
        /\ UNCHANGED <<file, written, signalled>>
    BY <1>6 DEF RunReturns
  <2>2. file # <<>> => writer
    BY <2>1 DEF FileInv
  <2>. QED  BY <2>1, <2>2 DEF LinesInv
<1>7. CASE NoFile
  <2>1. file' = <<>>
    BY <1>7 DEF NoFile, Proceed, FileInv
  <2>. QED  BY <2>1 DEF LinesInv
<1>8. CASE Register \/ Turn \/ LockWriter \/ TurnsWritten
  <2>1. /\ UNCHANGED <<file, written, signalled>>
        /\ step \notin {"clearing", "closing"} /\ step' \notin {"clearing", "closing"}
    BY <1>8 DEF Register, Turn, LockWriter, TurnsWritten, Proceed
  <2>. QED  BY <2>1 DEF LinesInv
<1>9. CASE ClearSlot
  <2>1. /\ UNCHANGED <<file, written, signalled, status>>
        /\ step = "clearing" /\ step' = "closing"
    BY <1>9 DEF ClearSlot, Proceed
  <2>. QED  BY <2>1 DEF LinesInv
<1>. QED  BY <1>1, <1>2, <1>3, <1>4, <1>5, <1>6, <1>7, <1>8, <1>9 DEF FileStep

\* Every step keeps what is known of the file.
LEMMA MainStep ==
  ASSUME TypeOK, FileInv, TurnsInv, LinesInv, [Next]_vars
  PROVE  FileInv' /\ TurnsInv' /\ LinesInv'
<1>1. ASSUME FileStep PROVE FileInv' /\ TurnsInv' /\ LinesInv'
  BY <1>1, FileInvStep, TurnsStep, LinesStep
<1>2. ASSUME NEW outcome \in Statuses, RunReturns(outcome)
      PROVE  FileInv' /\ TurnsInv' /\ LinesInv'
  <2>1. file' = file
    BY <1>2 DEF RunReturns
  <2>. QED  BY <1>2, <2>1, FileFrame, TurnsStep, LinesStep
<1>3. ASSUME NEW r \in Runs, NEW s \in Sessions, NEW ok \in BOOLEAN, StartProcess(r, s, ok)
      PROVE  FileInv' /\ TurnsInv' /\ LinesInv'
  <2>1. /\ step' = "started" /\ exit' = "up" /\ signalled' = None /\ written' = 0
        /\ file' = <<>> /\ writer' = writer /\ exit # "up"
    BY <1>3 DEF StartProcess
  <2>2. Ends(file') = {}
    BY <2>1 DEF Ends
  <2>3. ~writer
    BY <2>1 DEF FileInv
  <2>. QED  BY <2>1, <2>2, <2>3 DEF FileInv, TurnsInv, LinesInv
<1>4. ASSUME Exits PROVE FileInv' /\ TurnsInv' /\ LinesInv'
  <2>1. /\ exit' \in {"returned", "signal", "panic"} /\ ~writer'
        /\ UNCHANGED <<step, status, turns, written, file, signalled>>
        /\ exit' = "returned" => step = "closing"
        /\ exit' = "signal" => signalled # None
    BY <1>4 DEF Exits, SignalExits, Return, Panic, Exit
  <2>2. Ends(file)' = Ends(file) /\ (Ended' <=> Ended)
    BY <2>1 DEF Ends, Ended
  <2>3. FileInv'
    BY <2>1, <2>2 DEF FileInv
  <2>. QED  BY <2>1, <2>3 DEF TurnsInv, LinesInv
<1>5. ASSUME UNCHANGED <<step, status, turns, written, file, slot, writer, signalled, exit>>
      PROVE  FileInv' /\ TurnsInv' /\ LinesInv'
  BY <1>5 DEF FileInv, TurnsInv, LinesInv, Ends, Ended
<1>6. ASSUME NEW r \in Runs, NEW s \in Sessions, NEW ok \in BOOLEAN, StartSubagent(r, s, ok)
      PROVE  FileInv' /\ TurnsInv' /\ LinesInv'
  BY <1>5, <1>6 DEF StartSubagent, main
<1>7. ASSUME NEW r \in Runs, Fire(r) PROVE FileInv' /\ TurnsInv' /\ LinesInv'
  BY <1>5, <1>7 DEF Fire, main
<1>8. ASSUME NEW e \in Events, AppendMessage(e) PROVE FileInv' /\ TurnsInv' /\ LinesInv'
  BY <1>5, <1>8 DEF AppendMessage, main
<1>9. ASSUME UNCHANGED vars PROVE FileInv' /\ TurnsInv' /\ LinesInv'
  BY <1>5, <1>9 DEF vars, main
<1>. QED  BY <1>1, <1>2, <1>3, <1>4, <1>6, <1>7, <1>8, <1>9 DEF Next, FileStep, Exits

(***************************************************************************)
(* The theorems.                                                           *)
(***************************************************************************)

\* The invariant is inductive.
THEOREM InvHolds == Spec => []Inv
<1>1. Init => Inv
  BY RecordingInit
<1>2. Inv /\ [Next]_vars => Inv'
  BY TypeStep, StoreStep, MainStep DEF Inv
<1>. QED  BY <1>1, <1>2, PTL DEF Spec

\* Every variable has its type (the state of sessions/mod.rs, trajectory.rs, cli.rs).
THEOREM RecordingTypeOK == Spec => []TypeOK
<1>1. Inv => TypeOK
  BY DEF Inv
<1>. QED  BY <1>1, InvHolds, PTL

\* append_message keeps a session's message_count its number of messages, whatever
\* statement fails and wherever a process dies.
THEOREM CountsMatchAlways == Spec => []CountMatches
<1>1. Inv => CountMatches
  BY DEF Inv, StoreInv
<1>. QED  BY <1>1, InvHolds, PTL

\* The numbers of TrajectoryRecorder collide under UNIQUE(session_id, seq) only for
\* the runs of a resumed session.
THEOREM OnlyResumedLose == Spec => []FreshSessionsLoseNothing
<1>1. Inv => FreshSessionsLoseNothing
  BY DEF Inv, StoreInv
<1>. QED  BY <1>1, InvHolds, PTL

\* list_messages gives a run's events in the order they were fired.
THEOREM OrderIsKept == Spec => []NumbersFollowEvents
<1>1. Inv => NumbersFollowEvents
  <2> SUFFICES ASSUME Inv, NEW m \in messages, NEW n \in messages,
                      of[m.event] = of[n.event], m.event < n.event
               PROVE  m.seq < n.seq
    BY DEF NumbersFollowEvents
  <2>1. m.event \in Events /\ n.event \in Events
    BY DEF Inv, TypeOK, Messages
  <2>2. n.event <= fired /\ m.seq = seq[m.event] /\ n.seq = seq[n.event]
    BY DEF Inv, StoreInv, Recorded
  <2>. QED  BY <2>1, <2>2 DEF Inv, StoreInv, Numbered
<1>. QED  BY <1>1, InvHolds, PTL

\* finalize, the signal handler and Drop leave one end line between them.
THEOREM EndIsWritten == Spec => []EndWritten
<1>1. Inv => EndWritten
  <2> SUFFICES ASSUME Inv, exit \in {"returned", "signal"}, file # <<>>,
                      signalled \notin {"started", "opened"}
               PROVE  \E i \in DOMAIN file : Ends(file) = {i}
    BY DEF EndWritten
  <2>1. Ended
    BY DEF Inv, FileInv
  <2>2. PICK i \in DOMAIN file : file[i] \in Statuses
    BY <2>1 DEF Ended
  <2>3. \A j \in Ends(file) : j = i
    BY <2>2 DEF Inv, FileInv, Ends
  <2>4. Ends(file) = {i}
    BY <2>2, <2>3 DEF Ends
  <2>. QED  BY <2>4
<1>. QED  BY <1>1, InvHolds, PTL

\* write_events and finalize leave the turns of a run that succeeded, then its status.
THEOREM FileTellsRunAlways == Spec => []FileTellsRun
<1>1. Inv => FileTellsRun
  <2> SUFFICES ASSUME Inv, exit = "returned", signalled = None, file # <<>>
               PROVE  /\ Len(file) = 2 + (IF status = "ok" THEN turns ELSE 0)
                      /\ \A i \in 2..(Len(file) - 1) : file[i] = "turn"
                      /\ file[Len(file)] = status
    BY DEF FileTellsRun
  <2>1. step = "closing"
    BY DEF Inv, FileInv
  <2>2. /\ Len(file) = 2 + written /\ file[2 + written] = status
        /\ \A i \in 2..(1 + written) : file[i] = "turn"
    BY <2>1 DEF Inv, LinesInv
  <2>3. written = (IF status = "ok" THEN turns ELSE 0)
    BY <2>1 DEF Inv, TurnsInv
  <2>4. written \in Nat
    BY RecordingAssumption DEF Inv, TypeOK
  <2>5. Len(file) - 1 = 1 + written
    BY <2>2, <2>4
  <2>. QED  BY <2>2, <2>3, <2>5
<1>. QED  BY <1>1, InvHolds, PTL
=============================================================================
