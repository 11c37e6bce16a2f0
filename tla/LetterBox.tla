------------------------------ MODULE LetterBox ------------------------------
(***************************************************************************)
(* What a mailbox promises, without files, listings or lost races: letters *)
(* arrive, a call that looked into the box takes one letter in one step,   *)
(* none is older among those it saw and that are still there, and a letter *)
(* that was taken is returned once or is lost with the call that took it.  *)
(*                                                                         *)
(* Mailbox implements this specification (Mailbox!Box).                    *)
(***************************************************************************)
EXTENDS Naturals

CONSTANTS Letters, Readers, None

VARIABLES
  box,       \* the letters in the box
  seen,      \* seen[r]: those that were in it when r looked
  hand,      \* hand[r]: the letter r has taken and not returned yet
  returned,  \* the letters that were returned
  lost       \* the letters whose call ended without returning them

letterBox == <<box, seen, hand, returned, lost>>

BoxInit ==
  /\ box = {} /\ returned = {} /\ lost = {}
  /\ seen = [r \in Readers |-> {}]
  /\ hand = [r \in Readers |-> None]

\* Letters that have not arrived yet.
Due == Letters \ (box \cup {hand[r] : r \in Readers} \cup returned \cup lost)

Post(m) ==
  /\ m \in Due
  /\ box' = box \cup {m}
  /\ UNCHANGED <<seen, hand, returned, lost>>

\* A call looks, and looks again after others were faster.
Look(r) ==
  /\ hand[r] = None
  /\ seen' = [seen EXCEPT ![r] = box]
  /\ UNCHANGED <<box, hand, returned, lost>>

Take(r, m) ==
  /\ hand[r] = None
  /\ m \in box /\ \A o \in seen[r] \cap box : m <= o
  /\ box' = box \ {m}
  /\ hand' = [hand EXCEPT ![r] = m]
  /\ seen' = [seen EXCEPT ![r] = {}]
  /\ UNCHANGED <<returned, lost>>

Return(r) ==
  /\ hand[r] # None
  /\ returned' = returned \cup {hand[r]}
  /\ hand' = [hand EXCEPT ![r] = None]
  /\ UNCHANGED <<box, seen, lost>>

Lose(r) ==
  /\ hand[r] # None
  /\ lost' = lost \cup {hand[r]}
  /\ hand' = [hand EXCEPT ![r] = None]
  /\ UNCHANGED <<box, seen, returned>>

\* A call ends, or goes on, with no letter.
TurnAway(r) ==
  /\ hand[r] = None
  /\ seen' = [seen EXCEPT ![r] = {}]
  /\ UNCHANGED <<box, hand, returned, lost>>

BoxNext ==
  \/ \E m \in Letters : Post(m)
  \/ \E r \in Readers :
       \/ Look(r) \/ Return(r) \/ Lose(r) \/ TurnAway(r)
       \/ \E m \in Letters : Take(r, m)

BoxSpec == BoxInit /\ [][BoxNext]_letterBox
=============================================================================
