---------------------------- MODULE MCReporting ----------------------------
(***************************************************************************)
(* An instance of Reporting for TLC: a month of two days and one of a day,  *)
(* and entries on accounts of each type.                                   *)
(***************************************************************************)
EXTENDS Reporting, TLC

CONSTANTS bank, loan, capital, income, cost

MCTypeOf ==
  [a \in {bank} |-> "asset"] @@ [a \in {loan} |-> "liability"]
  @@ [a \in {capital} |-> "equity"] @@ [a \in {income} |-> "revenue"]
  @@ [a \in {cost} |-> "expense"]

MCMonthOf == [d \in 1 .. 3 |-> (d + 1) \div 2]

Dr(a, n) == [acct |-> a, debit |-> n, credit |-> 0]
Cr(a, n) == [acct |-> a, debit |-> 0, credit |-> n]

\* A sale, and the founding of a business: a loan, and the owner's capital of
\* which some is spent at once.
MCTemplates ==
  {<<Dr(bank, 2), Cr(income, 2)>>,
   <<Dr(bank, 1), Cr(loan, 1), Dr(bank, 2), Dr(cost, 2), Cr(capital, 4)>>}
=============================================================================
