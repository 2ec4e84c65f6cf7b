------------------------------ MODULE RunLedger ------------------------------
(***************************************************************************)
(* What the run life cycle promises to somebody who reads only the public  *)
(* record: every run decides at most one book, announces only a book it    *)
(* has decided, trades only a book it has announced, and its phase only    *)
(* moves forward until it is halted for good.                              *)
(***************************************************************************)
EXTENDS Naturals

CONSTANTS Ids, Decisions, Undecided

VARIABLES phase, book, public, traded

ledger == <<phase, book, public, traded>>

Init ==
  /\ phase = [r \in Ids |-> "open"]
  /\ book = [r \in Ids |-> Undecided]
  /\ public = [r \in Ids |-> FALSE]
  /\ traded = [r \in Ids |-> FALSE]

Move(r, from, to) == phase[r] \in from /\ phase' = [phase EXCEPT ![r] = to]

\* The book is fixed in the step that commits it.
Commit(r) ==
  /\ Move(r, {"open"}, "committed")
  /\ \E b \in Decisions : book' = [book EXCEPT ![r] = b]
  /\ UNCHANGED <<public, traded>>

\* The manifest of the book reaches the public branch.
Announce(r) ==
  /\ book[r] # Undecided
  /\ public' = [public EXCEPT ![r] = TRUE]
  /\ UNCHANGED <<phase, book, traded>>

\* The run is anchored once its manifest is public.
Anchor(r) ==
  /\ public[r]
  /\ Move(r, {"committed"}, "anchored")
  /\ UNCHANGED <<book, public, traded>>

Trade(r) ==
  /\ public[r]
  /\ phase[r] \in {"anchored", "halted"}
  /\ traded' = [traded EXCEPT ![r] = TRUE]
  /\ UNCHANGED <<phase, book, public>>

Execute(r) ==
  /\ Move(r, {"anchored"}, "executed")
  /\ UNCHANGED <<book, public, traded>>

Halt(r) ==
  /\ Move(r, {"committed", "anchored", "executed"}, "halted")
  /\ UNCHANGED <<book, public, traded>>

Next == \E r \in Ids :
  Commit(r) \/ Announce(r) \/ Anchor(r) \/ Trade(r) \/ Execute(r) \/ Halt(r)

Spec == Init /\ [][Next]_ledger
=============================================================================
