----------------------------- MODULE TaskLedger -----------------------------
(***************************************************************************)
(* What the background task manager promises, without watchers, locks,     *)
(* processes or kill channels: every task is opened once and closed at     *)
(* most once, the number of open tasks is known at every moment, a closed  *)
(* entry never changes, and each listener is told of a task at most once,  *)
(* after it closed, with the status it closed with.                        *)
(*                                                                         *)
(* BackgroundTasks implements this specification (BackgroundTasks!Ledger). *)
(***************************************************************************)
EXTENDS Integers, Sequences

CONSTANTS Tasks, Listeners

VARIABLES
  book,   \* book[t]: the entry of t
  open,   \* how many tasks are open
  told    \* told[l][t]: what listener l was told of t

ledger == <<book, open, told>>

\* An open task may have been asked to stop; it is still open.
Open   == {"open", "stopping"}
Closed == {"completed", "failed", "killed"}

LedgerInit ==
  /\ book = [t \in Tasks |-> "absent"]
  /\ open = 0
  /\ told = [l \in Listeners |-> [t \in Tasks |-> <<>>]]

OpenTask(t) ==
  /\ book[t] = "absent"
  /\ book' = [book EXCEPT ![t] = "open"]
  /\ open' = open + 1
  /\ UNCHANGED told

AskToStop(t) ==
  /\ book[t] = "open"
  /\ book' = [book EXCEPT ![t] = "stopping"]
  /\ UNCHANGED <<open, told>>

\* A task that was asked to stop never closes as completed; one that was not
\* never closes as killed.
CloseTask(t, s) ==
  /\ \/ book[t] = "open"     /\ s \in {"completed", "failed"}
     \/ book[t] = "stopping" /\ s \in {"killed", "failed"}
  /\ book' = [book EXCEPT ![t] = s]
  /\ open' = open - 1
  /\ UNCHANGED told

Tell(l, t) ==
  /\ book[t] \in Closed
  /\ told[l][t] = <<>>
  /\ told' = [told EXCEPT ![l][t] = <<book[t]>>]
  /\ UNCHANGED <<book, open>>

LedgerNext ==
  \E t \in Tasks :
    \/ OpenTask(t)
    \/ AskToStop(t)
    \/ \E s \in Closed : CloseTask(t, s)
    \/ \E l \in Listeners : Tell(l, t)

LedgerSpec == LedgerInit /\ [][LedgerNext]_ledger
=============================================================================
