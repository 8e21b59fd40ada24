------------------------------- MODULE Entries -------------------------------
(***************************************************************************)
(* The rows of a journal entry as the reports read them: an account, a     *)
(* debit and a credit.  Reporting takes them as given, the ledger writes   *)
(* them.                                                                   *)
(***************************************************************************)
EXTENDS Integers, Sequences, Functions

\* Lines on these accounts whose debits equal their credits.
BalancedLines(lines, accounts) ==
  /\ lines \in Seq([acct : accounts, debit : Nat, credit : Nat])
  /\ SumFunction([k \in DOMAIN lines |-> lines[k].debit - lines[k].credit]) = 0

\* The lines of a reversal.
Inverted(lines) ==
  [i \in DOMAIN lines |-> [lines[i] EXCEPT !.debit = lines[i].credit, !.credit = lines[i].debit]]
=============================================================================
