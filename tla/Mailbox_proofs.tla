---------------------------- MODULE Mailbox_proofs ----------------------------
(***************************************************************************)
(* Proofs about Mailbox.  TypeOK and OnePlace are inductive together; that *)
(* the oldest letter is claimed needs besides that a letter which was in   *)
(* the inbox when a call opened it never comes back, and is on the call's  *)
(* list as long as it lies there.  The refinement of LetterBox follows.    *)
(***************************************************************************)
EXTENDS Mailbox, WellFoundedInduction, TLAPS

\* What a call knows of the inbox it opened.
OpenedIsKnown ==
  \A r \in Readers :
    /\ there[r] \subseteq inbox \cup Held \cup Returned \cup aside
    /\ pc[r] = "claiming" => there[r] \cap inbox \subseteq todo[r]

Inv == TypeOK /\ OnePlace /\ OpenedIsKnown

\* The first of a set of letters is one of them, and none comes before it.
LEMMA MinIsLeast ==
  ASSUME NEW S \in SUBSET Letters, S # {}
  PROVE  Min(S) \in S /\ \A y \in S : Min(S) <= y
<1>1. S \subseteq Nat
  BY LettersAssumption
<1>2. \E x \in S : \A y \in S : <<y, x>> \notin OpToRel(<, Nat)
  BY <1>1, WFMin, NatLessThanWellFounded
<1>3. \A x, y \in Nat : <<y, x>> \notin OpToRel(<, Nat) => x <= y
  BY DEF OpToRel
<1>4. \E x \in S : \A y \in S : x <= y
  BY <1>1, <1>2, <1>3
<1>. QED  BY <1>4 DEF Min

\* Initially nothing has been sent and nobody reads.
LEMMA MailboxInit == Init => Inv
BY LettersAssumption DEF Init, Inv, TypeOK, OnePlace, OpenedIsKnown, Held, Returned

\* Sending puts a letter nobody has seen into the inbox.
LEMMA SendStep ==
  ASSUME Inv, NEW m \in Letters, Send(m)
  PROVE  Inv'
<1> USE LettersAssumption DEF Inv, TypeOK, OnePlace, OpenedIsKnown, Held, Returned
<1>1. CASE Write(m)
  BY <1>1 DEF Write, Unsent
<1>2. CASE Persist(m)
  BY <1>2 DEF Persist
<1>3. CASE WriteFails(m)
  BY <1>3 DEF WriteFails
<1>. QED  BY <1>1, <1>2, <1>3 DEF Send

\* A reader that lets go of its letter is the only one that held it.
LEMMA HandsEmptied ==
  ASSUME TypeOK, OnePlace, NEW r \in Readers, held' = [held EXCEPT ![r] = None]
  PROVE  Held' = Held \ {held[r]}
BY DEF TypeOK, OnePlace, Held

\* Returning a letter adds it to the returned ones.
LEMMA ReturnedGrows ==
  ASSUME TypeOK, NEW m \in Letters, returned' = [returned EXCEPT ![m] = @ + 1]
  PROVE  /\ returned' \in [Letters -> Nat]
         /\ Returned' = Returned \cup {m}
<1>1. returned \in [Letters -> Nat]
  BY DEF TypeOK
<1>2. returned' \in [Letters -> Nat]
  BY <1>1
<1>. QED  BY <1>1, <1>2 DEF Returned

\* A call's steps move letters between the inbox, its hands and what it returned.
LEMMA CallStep ==
  ASSUME Inv, NEW r \in Readers,
         StartRecv(r) \/ StartPeek(r) \/ Closure(r) \/ Crash(r)
  PROVE  Inv'
<1> USE LettersAssumption DEF Inv, TypeOK, OnePlace, OpenedIsKnown, Held, Returned
<1>1. CASE StartRecv(r)
  BY <1>1 DEF StartRecv
<1>2. CASE StartPeek(r)
  BY <1>2 DEF StartPeek
<1>3. CASE List(r)
  BY <1>3 DEF List, IsListing
<1>4. CASE Claim(r)
  BY <1>4 DEF Claim
<1>5. CASE Miss(r)
  <2>1. PICK m \in Letters \ inbox :
          /\ IsNext(r, m)
          /\ todo' = [todo EXCEPT ![r] = @ \ {m}]
          /\ IF todo[r] = {m}
             THEN /\ pc' = [pc EXCEPT ![r] = "listing"]
                  /\ there' = [there EXCEPT ![r] = inbox]
             ELSE UNCHANGED <<pc, there>>
    BY <1>5 DEF Miss
  <2>2. UNCHANGED <<temp, inbox, held, returned, aside>> /\ pc[r] = "claiming"
    BY <1>5 DEF Miss
  <2>3. CASE todo[r] = {m}
    <3>1. /\ pc' = [pc EXCEPT ![r] = "listing"]
          /\ there' = [there EXCEPT ![r] = inbox]
          /\ todo' = [todo EXCEPT ![r] = @ \ {m}]
      BY <2>1, <2>3
    <3>2. TypeOK' /\ OnePlace' /\ Held' = Held /\ Returned' = Returned
      BY <2>2, <3>1
    <3> HIDE DEF Held, Returned, TypeOK, OnePlace
    <3>3. OpenedIsKnown'
      BY <2>2, <3>1, <3>2 DEF TypeOK
    <3>. QED  BY <3>2, <3>3
  <2>4. CASE todo[r] # {m}
    BY <2>1, <2>2, <2>4
  <2>. QED  BY <2>3, <2>4
<1>6. CASE Remove(r)
  <2>1. /\ held[r] \in Letters /\ held[r] \notin Returned
        /\ UNCHANGED <<temp, inbox, there, todo, aside>>
        /\ pc' = [pc EXCEPT ![r] = "idle"]
    BY <1>6 DEF Remove
  <2>2. Held' = Held \ {held[r]} /\ Returned' = Returned \cup {held[r]}
    BY <1>6, <2>1, HandsEmptied, ReturnedGrows DEF Remove
  <2>3. TypeOK'
    <3>1. returned' \in [Letters -> Nat]
      BY <1>6, <2>1, ReturnedGrows DEF Remove
    <3>2. /\ held' = [held EXCEPT ![r] = None]
          /\ pc[r] = "reading"
      BY <1>6 DEF Remove
    <3>3. /\ held' \in [Readers -> Letters \cup {None}]
          /\ pc' \in [Readers -> {"idle", "listing", "claiming", "reading",
                                  "opening", "peeking"}]
          /\ there' \in [Readers -> SUBSET Letters]
          /\ todo' \in [Readers -> SUBSET Letters]
          /\ temp' \subseteq Letters /\ inbox' \subseteq Letters
          /\ aside' \subseteq Letters
      BY <2>1, <3>2
    <3>4. \A q \in Readers :
            /\ held'[q] # None <=> pc'[q] = "reading"
            /\ pc'[q] = "claiming" => todo'[q] # {}
      BY <2>1, <3>2
    <3> HIDE DEF Inv, OnePlace, OpenedIsKnown
    <3>. QED  BY <3>1, <3>3, <3>4
  <2>4. \A m \in Letters : returned'[m] <= 1
    BY <1>6, <2>1 DEF Remove
  <2>5. OnePlace'
    BY <1>6, <2>1, <2>2, <2>4 DEF Remove
  <2>6. OpenedIsKnown'
    <3>1. held[r] \in Held
      BY <2>1
    <3> HIDE DEF Held, Returned, TypeOK, OnePlace
    <3>2. ASSUME NEW q \in Readers
          PROVE  there'[q] \subseteq inbox' \cup Held' \cup Returned' \cup aside'
      BY <2>1, <2>2
    <3>3. ASSUME NEW q \in Readers, pc'[q] = "claiming"
          PROVE  there'[q] \cap inbox' \subseteq todo'[q]
      BY <2>1, <3>3 DEF TypeOK
    <3>. QED  BY <3>2, <3>3
  <2>. QED  BY <2>3, <2>5, <2>6
<1>7. CASE RecvFails(r)
  <2>1. /\ held[r] \in Letters
        /\ UNCHANGED <<temp, inbox, there, todo, returned>>
        /\ pc' = [pc EXCEPT ![r] = "idle"]
        /\ aside' = aside \cup {held[r]}
    BY <1>7 DEF RecvFails
  <2>2. Held' = Held \ {held[r]}
    BY <1>7, HandsEmptied DEF RecvFails
  <2>3. TypeOK'
    <3>1. /\ held' = [held EXCEPT ![r] = None]
          /\ pc[r] = "reading"
      BY <1>7 DEF RecvFails
    <3>2. /\ held' \in [Readers -> Letters \cup {None}]
          /\ pc' \in [Readers -> {"idle", "listing", "claiming", "reading",
                                  "opening", "peeking"}]
          /\ there' \in [Readers -> SUBSET Letters]
          /\ todo' \in [Readers -> SUBSET Letters]
          /\ temp' \subseteq Letters /\ inbox' \subseteq Letters
          /\ aside' \subseteq Letters
          /\ returned' \in [Letters -> Nat]
      BY <2>1, <3>1
    <3>3. \A q \in Readers :
            /\ held'[q] # None <=> pc'[q] = "reading"
            /\ pc'[q] = "claiming" => todo'[q] # {}
      BY <2>1, <3>1
    <3> HIDE DEF Inv, OnePlace, OpenedIsKnown
    <3>. QED  BY <3>2, <3>3
  <2>5. OnePlace'
    BY <1>7, <2>1, <2>2 DEF RecvFails
  <2>6. OpenedIsKnown'
    <3>1. Returned' = Returned
      BY <2>1
    <3> HIDE DEF Held, Returned, TypeOK, OnePlace
    <3>2. ASSUME NEW q \in Readers
          PROVE  there'[q] \subseteq inbox' \cup Held' \cup Returned' \cup aside'
      BY <2>1, <2>2, <3>1
    <3>3. ASSUME NEW q \in Readers, pc'[q] = "claiming"
          PROVE  there'[q] \cap inbox' \subseteq todo'[q]
      BY <2>1, <3>3 DEF TypeOK
    <3>. QED  BY <3>2, <3>3
  <2>. QED  BY <2>3, <2>5, <2>6
<1>8. CASE ListPeek(r)
  BY <1>8 DEF ListPeek, IsListing
<1>9. CASE PeekOne(r)
  BY <1>9 DEF PeekOne
<1>10. CASE PeekEnds(r)
  BY <1>10 DEF PeekEnds
<1>11. CASE Crash(r)
  <2>1. /\ UNCHANGED <<temp, inbox, returned>>
        /\ pc' = [pc EXCEPT ![r] = "idle"]
        /\ there' = [there EXCEPT ![r] = {}]
        /\ todo' = [todo EXCEPT ![r] = {}]
        /\ aside' = aside \cup ({held[r]} \ {None})
    BY <1>11 DEF Crash
  <2>2. Held' = Held \ {held[r]}
    BY <1>11, HandsEmptied DEF Crash
  <2>3. TypeOK'
    <3>1. held' = [held EXCEPT ![r] = None]
      BY <1>11 DEF Crash
    <3>2. aside' \subseteq Letters
      <4>1. held[r] \in Letters \cup {None} /\ aside \subseteq Letters
        OBVIOUS
      <4> HIDE DEF Inv, TypeOK, OnePlace, OpenedIsKnown
      <4>. QED  BY <2>1, <4>1
    <3>3. /\ held' \in [Readers -> Letters \cup {None}]
          /\ pc' \in [Readers -> {"idle", "listing", "claiming", "reading",
                                  "opening", "peeking"}]
          /\ there' \in [Readers -> SUBSET Letters]
          /\ todo' \in [Readers -> SUBSET Letters]
          /\ temp' \subseteq Letters /\ inbox' \subseteq Letters
          /\ returned' \in [Letters -> Nat]
      BY <2>1, <3>1
    <3>4. \A q \in Readers :
            /\ held'[q] # None <=> pc'[q] = "reading"
            /\ pc'[q] = "claiming" => todo'[q] # {}
      BY <2>1, <3>1
    <3> HIDE DEF Inv, OnePlace, OpenedIsKnown
    <3>. QED  BY <3>2, <3>3, <3>4
  <2>5. OnePlace'
    BY <1>11, <2>1, <2>2 DEF Crash
  <2>6. OpenedIsKnown'
    <3>1. Returned' = Returned /\ (held[r] \in Held => held[r] # None)
      BY <2>1
    <3> HIDE DEF Held, Returned, TypeOK, OnePlace
    <3>2. ASSUME NEW q \in Readers
          PROVE  there'[q] \subseteq inbox' \cup Held' \cup Returned' \cup aside'
      BY <2>1, <2>2, <3>1 DEF TypeOK
    <3>3. ASSUME NEW q \in Readers, pc'[q] = "claiming"
          PROVE  there'[q] \cap inbox' \subseteq todo'[q]
      BY <2>1, <3>3 DEF TypeOK
    <3>. QED  BY <3>2, <3>3
  <2>. QED  BY <2>3, <2>5, <2>6
<1>. QED
  BY <1>1, <1>2, <1>3, <1>4, <1>5, <1>6, <1>7, <1>8, <1>9, <1>10, <1>11
  DEF Closure

\* Every reachable state is typed, keeps letters in one place, and every call
\* knows the inbox it opened.
LEMMA MailboxInvariant == Spec => []Inv
<1>1. Inv /\ [Next]_vars => Inv'
  <2> SUFFICES ASSUME Inv, [Next]_vars PROVE Inv'
    OBVIOUS
  <2>1. CASE UNCHANGED vars
    BY <2>1 DEF vars, Inv, TypeOK, OnePlace, OpenedIsKnown, Held, Returned
  <2>2. CASE Next
    BY <2>2, SendStep, CallStep DEF Next
  <2>. QED  BY <2>1, <2>2
<1>. QED  BY <1>1, MailboxInit, PTL DEF Spec

\* Type correctness of the mailbox.
THEOREM MailboxTypeCorrect == Spec => []TypeOK
<1>1. Inv => TypeOK
  BY DEF Inv
<1>. QED  BY <1>1, MailboxInvariant, PTL

\* SWARM-3, for any number of letters and of concurrent calls: no letter is
\* returned twice, and none is in two places.
THEOREM LettersReturnedOnce == Spec => []OnePlace
<1>1. Inv => OnePlace
  BY DEF Inv
<1>. QED  BY <1>1, MailboxInvariant, PTL

\* The oldest letter a call can know of is the one it claims.
THEOREM OldestIsClaimed == Spec => OldestFirst
<1> DEFINE Claims == \A r \in Readers : held[r] = None /\ held'[r] # None =>
                       \A o \in there[r] \cap inbox : held'[r] <= o
<1>1. Inv /\ [Next]_vars => [Claims]_vars
  <2> SUFFICES ASSUME Inv, Next, NEW r \in Readers, held[r] = None, held'[r] # None,
                      NEW o \in there[r] \cap inbox
               PROVE  held'[r] <= o
    BY DEF Claims
  <2>1. Claim(r)
    <3>1. ASSUME NEW m \in Letters, Send(m) PROVE held' = held
      BY <3>1 DEF Send, Write, Persist, WriteFails
    <3>2. PICK q \in Readers : StartRecv(q) \/ StartPeek(q) \/ Closure(q) \/ Crash(q)
      BY <3>1 DEF Next
    <3>3. held' = held \/ held' = [held EXCEPT ![q] = None] \/ Claim(q)
      BY <3>2 DEF StartRecv, StartPeek, Closure, Crash, List, Miss, Remove, RecvFails,
                  ListPeek, PeekOne, PeekEnds
    <3>4. held \in [Readers -> Letters \cup {None}]
      BY DEF Inv, TypeOK
    <3>5. Claim(q)
      BY <3>3, <3>4
    <3>6. q = r
      BY <3>4, <3>5 DEF Claim
    <3>. QED  BY <3>5, <3>6
  <2>2. /\ todo[r] \in SUBSET Letters /\ todo[r] # {} /\ o \in todo[r]
        /\ held'[r] = Min(todo[r])
    BY <2>1 DEF Inv, TypeOK, OpenedIsKnown, Claim, IsNext
  <2>. QED  BY <2>2, MinIsLeast
<1>. QED  BY <1>1, MailboxInvariant, PTL DEF Spec, OldestFirst

(***************************************************************************)
(* The refinement of LetterBox.                                            *)
(***************************************************************************)

\* A call that has a letter, or has none to look for, has forgotten what it saw.
Forgotten == \A r \in Readers : pc[r] \in {"idle", "reading", "peeking"} => there[r] = {}

LEMMA ForgottenAlways == Spec => []Forgotten
<1>1. Init => Forgotten
  BY DEF Init, Forgotten
<1>2. Inv /\ Forgotten /\ [Next]_vars => Forgotten'
  <2> SUFFICES ASSUME TypeOK, Forgotten, [Next]_vars PROVE Forgotten'
    BY DEF Inv
  <2> USE DEF TypeOK, Forgotten
  <2>1. ASSUME NEW m \in Letters, Send(m) PROVE Forgotten'
    BY <2>1 DEF Send, Write, Persist, WriteFails
  <2>2. ASSUME NEW r \in Readers, StartRecv(r) \/ StartPeek(r) \/ Crash(r) PROVE Forgotten'
    BY <2>2 DEF StartRecv, StartPeek, Crash
  <2>3. ASSUME NEW r \in Readers, List(r) \/ Claim(r) \/ Miss(r) PROVE Forgotten'
    BY <2>3 DEF List, Claim, Miss
  <2>4. ASSUME NEW r \in Readers,
               Remove(r) \/ RecvFails(r) \/ ListPeek(r) \/ PeekOne(r) \/ PeekEnds(r)
        PROVE  Forgotten'
    BY <2>4 DEF Remove, RecvFails, ListPeek, PeekOne, PeekEnds
  <2>5. CASE UNCHANGED vars
    BY <2>5 DEF vars
  <2>. QED  BY <2>1, <2>2, <2>3, <2>4, <2>5 DEF Next, Closure
<1>. QED  BY <1>1, <1>2, MailboxInvariant, PTL DEF Spec

\* Sending: the rename posts the letter, the rest does not show.
LEMMA SendMaps ==
  ASSUME Inv, NEW m \in Letters, Send(m)
  PROVE  [Box!BoxNext]_Box!letterBox
<1> USE DEF Box!letterBox
<1>1. UNCHANGED <<there, held, Returned, aside>>
  BY DEF Send, Write, Persist, WriteFails, Returned
<1>2. CASE Persist(m)
  <2>1. m \notin inbox \cup Held \cup Returned \cup aside
    BY <1>2 DEF Persist, Inv, OnePlace
  <2>2. m \in Box!Due
    BY <2>1, LettersAssumption DEF Box!Due, Held
  <2>3. Box!Post(m)
    BY <1>1, <1>2, <2>2 DEF Persist, Box!Post
  <2>. QED  BY <2>3 DEF Box!BoxNext
<1>3. CASE Write(m) \/ WriteFails(m)
  BY <1>1, <1>3 DEF Write, WriteFails
<1>. QED  BY <1>2, <1>3 DEF Send

\* A successful rename takes a letter: the oldest of the list, and so of all it saw.
LEMMA ClaimMaps ==
  ASSUME Inv, NEW r \in Readers, Claim(r)
  PROVE  \E m \in Letters : Box!Take(r, m)
<1>1. PICK m \in inbox : /\ IsNext(r, m) /\ inbox' = inbox \ {m}
                        /\ held' = [held EXCEPT ![r] = m]
  BY DEF Claim
<1>2. m \in Letters /\ held[r] = None /\ Returned' = Returned
  BY DEF Claim, Inv, TypeOK, Returned
<1>3. todo[r] \in SUBSET Letters /\ todo[r] # {} /\ there[r] \cap inbox \subseteq todo[r]
  BY DEF Claim, Inv, TypeOK, OpenedIsKnown
<1>4. \A o \in there[r] \cap inbox : m <= o
  BY <1>1, <1>3, MinIsLeast DEF IsNext
<1>5. Box!Take(r, m)
  BY <1>1, <1>2, <1>4 DEF Claim, Box!Take
<1>. QED  BY <1>2, <1>5

\* Every step of a call is one step of the box or none.
LEMMA CallMaps ==
  ASSUME Inv, Forgotten, NEW r \in Readers,
         StartRecv(r) \/ StartPeek(r) \/ Closure(r) \/ Crash(r)
  PROVE  [Box!BoxNext]_Box!letterBox
<1> USE DEF Inv, TypeOK, Box!letterBox, Returned
<1>1. CASE StartRecv(r) \/ StartPeek(r)
  <2>1. Box!Look(r)
    BY <1>1 DEF StartRecv, StartPeek, Box!Look
  <2>. QED  BY <2>1 DEF Box!BoxNext
<1>2. CASE List(r)
  <2>1. Box!TurnAway(r) \/ UNCHANGED Box!letterBox
    BY <1>2 DEF List, Box!TurnAway
  <2>. QED  BY <2>1 DEF Box!BoxNext
<1>3. CASE Claim(r)
  BY <1>3, ClaimMaps DEF Box!BoxNext
<1>4. CASE Miss(r)
  <2>1. Box!Look(r) \/ UNCHANGED Box!letterBox
    BY <1>4 DEF Miss, Box!Look
  <2>. QED  BY <2>1 DEF Box!BoxNext
<1>5. CASE Remove(r)
  <2>1. Returned' = Returned \cup {held[r]}
    BY <1>5, ReturnedGrows DEF Remove
  <2>2. Box!Return(r)
    BY <1>5, <2>1 DEF Remove, Box!Return
  <2>. QED  BY <2>2 DEF Box!BoxNext
<1>6. CASE RecvFails(r)
  <2>1. Box!Lose(r)
    BY <1>6 DEF RecvFails, Box!Lose
  <2>. QED  BY <2>1 DEF Box!BoxNext
<1>7. CASE ListPeek(r)
  <2>1. Box!TurnAway(r)
    BY <1>7 DEF ListPeek, Box!TurnAway
  <2>. QED  BY <2>1 DEF Box!BoxNext
<1>8. CASE PeekOne(r) \/ PeekEnds(r)
  BY <1>8 DEF PeekOne, PeekEnds
<1>9. CASE Crash(r)
  <2>1. CASE held[r] = None
    <3>1. Box!TurnAway(r)
      BY <1>9, <2>1 DEF Crash, Box!TurnAway
    <3>. QED  BY <3>1 DEF Box!BoxNext
  <2>2. CASE held[r] # None
    <3>1. there[r] = {}
      BY <2>2 DEF Forgotten
    <3>2. Box!Lose(r)
      BY <1>9, <2>2, <3>1 DEF Crash, Box!Lose
    <3>. QED  BY <3>2 DEF Box!BoxNext
  <2>. QED  BY <2>1, <2>2
<1>. QED
  BY <1>1, <1>2, <1>3, <1>4, <1>5, <1>6, <1>7, <1>8, <1>9 DEF Closure

\* The mailbox implements the box whose letters are taken in one step: initial states
\* map to the empty box, and every step to a step of it or a stutter.
THEOREM BoxImplemented == Spec => ImplementsBox
<1>1. Init => Box!BoxInit
  BY DEF Init, Box!BoxInit, Returned
<1>2. Inv /\ Forgotten /\ [Next]_vars => [Box!BoxNext]_Box!letterBox
  <2> SUFFICES ASSUME Inv, Forgotten, [Next]_vars PROVE [Box!BoxNext]_Box!letterBox
    OBVIOUS
  <2>1. CASE UNCHANGED vars
    BY <2>1 DEF vars, Box!letterBox, Returned
  <2>2. CASE Next
    BY <2>2, SendMaps, CallMaps DEF Next
  <2>. QED  BY <2>1, <2>2
<1>. QED
  BY <1>1, <1>2, MailboxInvariant, ForgottenAlways, PTL
     DEF Spec, ImplementsBox, Box!BoxSpec
=============================================================================
