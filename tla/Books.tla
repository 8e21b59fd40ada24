-------------------------------- MODULE Books --------------------------------
(***************************************************************************)
(* What the ledger promises its callers, without transactions: numbers and *)
(* entries appear atomically.  In one step a series gives out its next     *)
(* number, with the entry that refers to it or, in a series that has none, *)
(* without; or an entry already in the books is reversed.  A key is used   *)
(* at most once and nothing is ever changed or taken back.                 *)
(***************************************************************************)
EXTENDS Integers, Sequences

CONSTANTS Series, BareSeries, NoKey, NoRef

VARIABLES
  last,    \* series -> the last number given out
  journal  \* the entries, in the order they were committed

bookVars == <<last, journal>>

UsedKeys == {journal[e].key : e \in DOMAIN journal}

Give(s) == last' = [last EXCEPT ![s] = @ + 1]

\* A document without an entry: sales order, purchase order, vendor invoice.
Issue(s) == s \in BareSeries /\ Give(s) /\ UNCHANGED journal

\* A journal entry and its document.
Post(s) ==
  /\ Give(s)
  /\ Len(journal') = Len(journal) + 1
  /\ LET e == journal'[Len(journal) + 1] IN
     /\ journal' = Append(journal, e)
     /\ e.ref = <<s, last[s] + 1>>
     /\ e.key = NoKey \/ e.key \notin UsedKeys
     /\ e.rev = 0

\* An entry that undoes an earlier one: its lines with debit and credit
\* exchanged, no document, no key.
Undo ==
  /\ UNCHANGED last
  /\ \E r \in DOMAIN journal :
       journal' = Append(journal,
          [company |-> journal[r].company, key |-> NoKey, ref |-> NoRef,
           lines |-> [i \in DOMAIN journal[r].lines |->
                        [journal[r].lines[i] EXCEPT
                           !.debit = journal[r].lines[i].credit,
                           !.credit = journal[r].lines[i].debit]],
           rev |-> r])

BooksInit == last = [s \in Series |-> 0] /\ journal = <<>>

BooksNext == Undo \/ \E s \in Series : Issue(s) \/ Post(s)

BooksSpec == BooksInit /\ [][BooksNext]_bookVars
=============================================================================
