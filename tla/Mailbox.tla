------------------------------- MODULE Mailbox -------------------------------
(***************************************************************************)
(* The file-based mailbox of one agent (oh-swarm, mailbox.rs): senders     *)
(* write a temporary file and rename it into the inbox, recv_one lists the *)
(* inbox and claims the oldest letter by renaming it into a directory of   *)
(* its own, peek_all lists and reads.  Senders and readers may be          *)
(* different processes; what is atomic is one file system call.            *)
(*                                                                         *)
(* A letter is its file name, and names are ordered as the files sort: by  *)
(* the clock at which the message was made, not by the rename that made it *)
(* arrive.  Names are unique, so a letter is sent at most once.            *)
(***************************************************************************)
EXTENDS Naturals, FiniteSets, FiniteSetsExt

CONSTANTS
  Letters,   \* the letters that may be sent (bounds the model)
  Readers,   \* the calls of recv_one and peek_all that may run at a time
  None       \* no letter

ASSUME LettersAssumption == Letters \subseteq Nat /\ IsFiniteSet(Letters) /\ None \notin Letters

VARIABLES
  temp,     \* letters being written, as temporary files in the inbox
  inbox,    \* letters that arrived and are not claimed
  pc,       \* pc[r]: where the closure of r's call is
  there,    \* there[r]: the inbox when recv_one opened it (history variable)
  todo,     \* todo[r]: letters r listed and has not tried yet
  held,     \* held[r]: the letter in r's processing directory
  returned, \* returned[m]: how often recv_one returned m
  aside     \* letters left behind in a processing directory

vars == <<temp, inbox, pc, there, todo, held, returned, aside>>

Held == {held[r] : r \in Readers} \ {None}

Returned == {m \in Letters : returned[m] > 0}

TypeOK ==
  /\ temp \subseteq Letters
  /\ inbox \subseteq Letters
  /\ pc \in [Readers -> {"idle", "listing", "claiming", "reading",
                         "opening", "peeking"}]
  /\ there \in [Readers -> SUBSET Letters]
  /\ todo \in [Readers -> SUBSET Letters]
  /\ held \in [Readers -> Letters \cup {None}]
  /\ returned \in [Letters -> Nat]
  /\ aside \subseteq Letters
  /\ \A r \in Readers :
       /\ held[r] # None <=> pc[r] = "reading"
       /\ pc[r] = "claiming" => todo[r] # {}

Init ==
  /\ temp = {}
  /\ inbox = {}
  /\ pc = [r \in Readers |-> "idle"]
  /\ there = [r \in Readers |-> {}]
  /\ todo = [r \in Readers |-> {}]
  /\ held = [r \in Readers |-> None]
  /\ returned = [m \in Letters |-> 0]
  /\ aside = {}

\* Letters that were never given to send, or whose file could not be written.
Unsent == Letters \ (temp \cup inbox \cup Held \cup Returned \cup aside)

(***************************************************************************)
(* send.                                                                   *)
(***************************************************************************)

Write(m) ==
  /\ m \in Unsent
  /\ temp' = temp \cup {m}
  /\ UNCHANGED <<inbox, pc, there, todo, held, returned, aside>>

\* NamedTempFile::persist.  It runs on a blocking thread, so it happens even
\* if the sender's future is dropped.
Persist(m) ==
  /\ m \in temp
  /\ temp' = temp \ {m}
  /\ inbox' = inbox \cup {m}
  /\ UNCHANGED <<pc, there, todo, held, returned, aside>>

\* A failed write or rename removes the temporary file.
WriteFails(m) ==
  /\ m \in temp
  /\ temp' = temp \ {m}
  /\ UNCHANGED <<inbox, pc, there, todo, held, returned, aside>>

(****************************************************************************)
(* recv_one: one turn of its loop lists, claims, reads and removes.  It all *)
(* runs in a closure on a blocking thread, which goes on, and takes its     *)
(* letter, when the caller's future is dropped: a letter nobody awaits any  *)
(* more is returned all the same.                                           *)
(****************************************************************************)

\* read_dir opens the inbox.
StartRecv(r) ==
  /\ pc[r] = "idle"
  /\ pc' = [pc EXCEPT ![r] = "listing"]
  /\ there' = [there EXCEPT ![r] = inbox]
  /\ UNCHANGED <<temp, inbox, todo, held, returned, aside>>

\* What read_dir yields: whatever stayed in the directory since it was opened,
\* and any of the files that came or went meanwhile.  Temporary files, whose
\* names end otherwise, are skipped.
IsListing(r, s) ==
  /\ s \subseteq there[r] \cup inbox
  /\ there[r] \cap inbox \subseteq s

\* An empty listing ends the call with nothing.
List(r) ==
  /\ pc[r] = "listing"
  /\ \E s \in SUBSET Letters :
       /\ IsListing(r, s)
       /\ todo' = [todo EXCEPT ![r] = s]
       /\ pc' = [pc EXCEPT ![r] = IF s = {} THEN "idle" ELSE "claiming"]
       /\ there' = [there EXCEPT ![r] = IF s = {} THEN {} ELSE @]
  /\ UNCHANGED <<temp, inbox, held, returned, aside>>

\* Mutant: the newest letter is tried first.
IsNewest(r, m) == todo[r] # {} /\ m = Max(todo[r])

IsNext(r, m) == todo[r] # {} /\ m = Min(todo[r])

\* Mutant: the letter is read where it lies and not moved.
ClaimByReading(r) ==
  /\ pc[r] = "claiming"
  /\ \E m \in inbox :
       /\ IsNext(r, m)
       /\ held' = [held EXCEPT ![r] = m]
  /\ pc' = [pc EXCEPT ![r] = "reading"]
  /\ todo' = [todo EXCEPT ![r] = {}]
  /\ there' = [there EXCEPT ![r] = {}]
  /\ UNCHANGED <<temp, inbox, returned, aside>>

\* rename succeeds.
Claim(r) ==
  /\ pc[r] = "claiming"
  /\ \E m \in inbox :
       /\ IsNext(r, m)
       /\ inbox' = inbox \ {m}
       /\ held' = [held EXCEPT ![r] = m]
  /\ pc' = [pc EXCEPT ![r] = "reading"]
  /\ todo' = [todo EXCEPT ![r] = {}]
  /\ there' = [there EXCEPT ![r] = {}]
  /\ UNCHANGED <<temp, returned, aside>>

\* Mutant: a lost race is retried on the same file.
MissAndRetry(r) ==
  /\ pc[r] = "claiming"
  /\ \E m \in Letters \ inbox : IsNext(r, m)
  /\ UNCHANGED vars

\* rename finds nothing: the next candidate, or a new turn of the loop.
Miss(r) ==
  /\ pc[r] = "claiming"
  /\ \E m \in Letters \ inbox :
       /\ IsNext(r, m)
       /\ todo' = [todo EXCEPT ![r] = @ \ {m}]
       /\ IF todo[r] = {m}
          THEN /\ pc' = [pc EXCEPT ![r] = "listing"]
               /\ there' = [there EXCEPT ![r] = inbox]
          ELSE UNCHANGED <<pc, there>>
  /\ UNCHANGED <<temp, inbox, held, returned, aside>>

\* read and remove_file, then the closure returns the letter.
Remove(r) ==
  /\ pc[r] = "reading"
  /\ returned' = [returned EXCEPT ![held[r]] = @ + 1]
  /\ held' = [held EXCEPT ![r] = None]
  /\ pc' = [pc EXCEPT ![r] = "idle"]
  /\ UNCHANGED <<temp, inbox, there, todo, aside>>

\* The claimed file cannot be read, parsed or removed: recv_one returns the
\* error and leaves the letter where it is.
RecvFails(r) ==
  /\ pc[r] = "reading"
  /\ aside' = aside \cup {held[r]}
  /\ held' = [held EXCEPT ![r] = None]
  /\ pc' = [pc EXCEPT ![r] = "idle"]
  /\ UNCHANGED <<temp, inbox, there, todo, returned>>

(***************************************************************************)
(* peek_all: what it returns is what it read before todo[r] became empty.  *)
(***************************************************************************)

StartPeek(r) ==
  /\ pc[r] = "idle"
  /\ pc' = [pc EXCEPT ![r] = "opening"]
  /\ there' = [there EXCEPT ![r] = inbox]
  /\ UNCHANGED <<temp, inbox, todo, held, returned, aside>>

ListPeek(r) ==
  /\ pc[r] = "opening"
  /\ \E s \in SUBSET Letters :
       /\ IsListing(r, s)
       /\ todo' = [todo EXCEPT ![r] = s]
  /\ pc' = [pc EXCEPT ![r] = "peeking"]
  /\ there' = [there EXCEPT ![r] = {}]
  /\ UNCHANGED <<temp, inbox, held, returned, aside>>

PeekOne(r) ==
  /\ pc[r] = "peeking"
  /\ \E m \in inbox :
       /\ IsNext(r, m)
       /\ todo' = [todo EXCEPT ![r] = @ \ {m}]
  /\ UNCHANGED <<temp, inbox, pc, there, held, returned, aside>>

\* Everything was read; or a listed letter was claimed before it was read, and
\* the whole call is an error.
PeekEnds(r) ==
  /\ pc[r] = "peeking"
  /\ todo[r] = {} \/ \E m \in Letters \ inbox : IsNext(r, m)
  /\ pc' = [pc EXCEPT ![r] = "idle"]
  /\ todo' = [todo EXCEPT ![r] = {}]
  /\ UNCHANGED <<temp, inbox, there, held, returned, aside>>

(***************************************************************************)
(* The reader's process dies.  Nobody looks into processing/ again.  Seen  *)
(* from outside, a read_dir or rename that fails for another reason than a *)
(* missing file ends a call in the same way.                               *)
(***************************************************************************)

Crash(r) ==
  /\ pc[r] # "idle"
  /\ pc' = [pc EXCEPT ![r] = "idle"]
  /\ there' = [there EXCEPT ![r] = {}]
  /\ todo' = [todo EXCEPT ![r] = {}]
  /\ held' = [held EXCEPT ![r] = None]
  /\ aside' = aside \cup ({held[r]} \ {None})
  /\ UNCHANGED <<temp, inbox, returned>>

(***************************************************************************)
(* The specification.                                                      *)
(***************************************************************************)

Send(m) == Write(m) \/ Persist(m) \/ WriteFails(m)

Closure(r) ==
  \/ List(r) \/ Claim(r) \/ Miss(r) \/ Remove(r) \/ RecvFails(r)
  \/ ListPeek(r) \/ PeekOne(r) \/ PeekEnds(r)

Next ==
  \/ \E m \in Letters : Send(m)
  \/ \E r \in Readers : StartRecv(r) \/ StartPeek(r) \/ Closure(r) \/ Crash(r)

Spec == Init /\ [][Next]_vars

\* A closure on a blocking thread runs until it returns.
FairSpec == Spec /\ \A r \in Readers : WF_vars(Closure(r))

(***************************************************************************)
(* Properties.                                                             *)
(***************************************************************************)

\* SWARM-3: however many readers list the same files, a letter is returned once
\* at most, and is in one place at a time: still being written, in the inbox, in
\* the hands of one reader, returned, or left behind.
OnePlace ==
  /\ \A m \in Letters : returned[m] <= 1
  /\ \A q, r \in Readers : q # r /\ held[q] # None => held[q] # held[r]
  /\ temp \cap (inbox \cup Held \cup Returned \cup aside) = {}
  /\ inbox \cap (Held \cup Returned \cup aside) = {}
  /\ Held \cap (Returned \cup aside) = {}
  /\ Returned \cap aside = {}

\* recv_one pops the oldest: the letter it claims has no older one that lay in
\* the inbox when the call opened it and lies there still, whatever came, went
\* or was claimed by others between the listing and the claim.
OldestFirst ==
  [][\A r \in Readers : held[r] = None /\ held'[r] # None =>
       \A o \in there[r] \cap inbox : held'[r] <= o]_vars

\* Seen from outside, listings and lost races do not show: letters are taken in single
\* steps, each by one call, the oldest it can know of, and returned once or lost with it.
Box == INSTANCE LetterBox
         WITH box <- inbox, seen <- there, hand <- held, returned <- Returned, lost <- aside

ImplementsBox == Box!BoxSpec

\* A call of recv_one or peek_all whose process lives returns, however often it
\* loses the race for a file (the letters of the model are finitely many: a
\* call that always loses would need an endless supply).
CallsReturn == \A r \in Readers : pc[r] # "idle" ~> pc[r] = "idle"
=============================================================================
