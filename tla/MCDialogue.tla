----------------------------- MODULE MCDialogue -----------------------------
(***************************************************************************)
(* An instance of Dialogue for TLC.  Amounts are in half cents, rates in    *)
(* halves: 0.005 * 0.5 is the smallest product.                            *)
(***************************************************************************)
EXTENDS Dialogue

CONSTANTS c1, JE, cash, usd, day

Lines == [acct : {cash}, debit : BOOLEAN, amt : {Blank, 1, 2, 3}]
Written == [acct : {cash}, debit : BOOLEAN, amt : {1, 2, 3}]

\* Any two or three lines under any rate; two plain lines under any header.
MCRawProposals ==
  [company : {c1}, type : {JE}, currency : {usd}, postDate : {day}, docDate : {Blank},
   rate : {Blank, 0, 1, 3, 6}, lines : [1 .. 2 -> Lines] \cup [1 .. 3 -> Written]]
  \cup
  [company : {c1, Blank}, type : {JE, Blank}, currency : {usd, Blank},
   postDate : {day, Blank, Malformed}, docDate : {day, Blank, Malformed},
   rate : {-2, OtherZero, Malformed, 2},
   lines : {<<[acct |-> cash, debit |-> TRUE, amt |-> 2],
              [acct |-> cash, debit |-> FALSE, amt |-> n]>> : n \in {2, Malformed}}]

\* Rows of a form: empty, one side, both sides, or unreadable.
FormRows ==
  {[acct |-> a, debit |-> d, credit |-> Blank] : a \in {cash, Blank}, d \in {1, 2, Malformed}}
  \cup {[acct |-> cash, debit |-> d, credit |-> c] : d \in {Blank, 0, 3}, c \in {1, 2}}

Sides ==
  {[acct |-> cash, debit |-> d, credit |-> Blank] : d \in {1, 2}}
  \cup {[acct |-> cash, debit |-> Blank, credit |-> c] : c \in {1, 2}}

MCForms ==
  [company : {c1}, type : {JE}, currency : {usd}, postDate : {day, Blank},
   docDate : {day, Blank, Malformed},
   rate : {Blank, 0, 3, Malformed}, rows : [1 .. 2 -> FormRows] \cup [1 .. 3 -> Sides]]
=============================================================================
