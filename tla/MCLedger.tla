------------------------------ MODULE MCLedger ------------------------------
(***************************************************************************)
(* Instances of Ledger for TLC.  Amounts are in whole cents, rates in      *)
(* tenths.                                                                 *)
(***************************************************************************)
EXTENDS Ledger

CONSTANTS c1, c2, JE, PO, y1, cash, rev, other, k1, k2, day, usd

MCCompanies == {c1, c2}
MCDocTypes == {JE, PO}
MCYears == {NoYear, y1}

\* PO documents: one series per financial year and one without.
MCBareSeries == {<<c1, PO, NoYear>>, <<c1, PO, y1>>}
MCKeys == {NoKey, k1, k2}
MCChart == (c1 :> {cash, rev}) @@ (c2 :> {cash, other})

Line(a, dr, n) == [acct |-> a, debit |-> dr, amt |-> n]
Prop(k, rate, lines) == [company |-> c1, type |-> JE, key |-> k,
                         currency |-> usd, rate |-> rate, postDate |-> day,
                         docDate |-> day, lines |-> lines]

Sale(k, n) == Prop(k, 10, <<Line(cash, TRUE, n), Line(rev, FALSE, n)>>)

\* Two proposals of different companies (hence series) that share a key, one
\* without a key, one on an account only the other company has, and one that
\* does not balance.
MCProposals == {Sale(k1, 1),
                [Prop(k1, 10, <<Line(other, TRUE, 1), Line(cash, FALSE, 1)>>)
                    EXCEPT !.company = c2],
                Sale(NoKey, 1),
                Prop(k2, 10, <<Line(cash, TRUE, 1), Line(other, FALSE, 1)>>),
                Prop(k2, 10, <<Line(cash, TRUE, 1), Line(rev, FALSE, 2)>>)}

\* One proposal is enough where the question is about interleaving only.
OneProposal == {Sale(k1, 1)}

Symmetry == Permutations(Workers) \cup Permutations(DocIds)
=============================================================================
