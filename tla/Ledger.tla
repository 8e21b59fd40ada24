------------------------------- MODULE Ledger -------------------------------
(***************************************************************************)
(* The double-entry ledger (internal/core/ledger.go) and the document      *)
(* numbering it uses (internal/core/document_service.go), as concurrent    *)
(* PostgreSQL transactions at READ COMMITTED.                              *)
(*                                                                         *)
(* docs, last and journal are the committed tables documents,              *)
(* document_sequences and journal_entries/journal_lines.  tx[w] is the     *)
(* transaction request handler w has open: the rows it wrote, invisible to *)
(* the others until its commit, and through them its locks:                *)
(*   - a transaction that has taken a number holds the row of its          *)
(*     numbering series until it ends;                                     *)
(*   - one that has inserted an entry with an idempotency key makes every  *)
(*     other insert of that key wait for its end (unique index).           *)
(* An error return, a cancelled context, a lost connection and a crash of  *)
(* the server all end in Rollback, which forgets tx[w].                    *)
(***************************************************************************)
EXTENDS ProposalLogic, FiniteSets

CONSTANTS
  Workers,      \* request handlers that run concurrently
  Companies,    \* rows of companies
  DocTypes,     \* rows of document_types
  Years,        \* financial years of documents, NoYear among them
  NoYear,       \* the NULL financial year: the series is GLOBAL
  BareSeries,   \* series posted without a journal entry (SO, PO, PI)
  DocIds,       \* ids of the documents table (bounds how many there are)
  NoDoc,
  Keys,         \* idempotency keys, NoKey among them
  NoKey,        \* the empty key: a plain INSERT
  Proposals,    \* the proposals callers submit
  NoProposal,
  Chart,        \* company -> the account codes of its chart
  MaxEntries    \* bound on journal entries (reversals may go on for ever)

VARIABLES docs, last, journal, tx

vars == <<docs, last, journal, tx>>

Series == Companies \X DocTypes \X Years

Accounts == UNION {Chart[c] : c \in Companies}

\* What a caller may submit: any numbers, any account code, any key.
ProposalType(p) == p.key \in Keys /\ ProposalNumbers(p)

ASSUME LedgerAssumption ==
  /\ NoYear \in Years
  /\ NoKey \in Keys
  /\ NoDoc \notin DocIds /\ NoDoc \notin Series \X Nat
  /\ NoProposal \notin Proposals
  /\ BareSeries \subseteq Series
  /\ MaxEntries \in Nat
  /\ \A p \in Proposals : ProposalType(p)
-----------------------------------------------------------------------------
(* Rows and transactions *)

NoRow == [status |-> "NONE", series |-> NoDoc, num |-> 0]
IdleTx == [pc |-> "idle", op |-> "none", prop |-> NoProposal,
           series |-> NoDoc, doc |-> NoDoc, num |-> 0, rev |-> 0]

Ops == {"none", "commit", "validate", "post", "reverse"}
PCs == {"idle", "number", "entry", "lines", "commit"}

SeriesOf(p) == <<p.company, p.type, NoYear>>

\* An entry refers to its document by number, <<series, number>>.
Entry(p, ref) == [company |-> p.company, key |-> p.key, ref |-> ref,
                  lines |-> StoredLines(p), rev |-> 0]

ReversalOf(e) == [company |-> journal[e].company, key |-> NoKey, ref |-> NoDoc,
                  lines |-> [i \in DOMAIN journal[e].lines |->
                               InvertedLine(journal[e].lines[i])],
                  rev |-> e]

CommittedKeys == {journal[e].key : e \in DOMAIN journal} \ {NoKey}
ReversalsOf(e) == {r \in DOMAIN journal : journal[r].rev = e}

\* SERIAL ids are never handed out twice.
FreshDocs == {d \in DocIds : /\ docs[d].status = "NONE"
                             /\ \A v \in Workers : tx[v].doc # d}

HoldsSeries(v, s) == tx[v].num > 0 /\ tx[v].series = s
HoldsKey(v, k) == /\ tx[v].op \in {"commit", "validate"}
                  /\ tx[v].pc \in {"lines", "commit"}
                  /\ tx[v].prop.key = k

Init ==
  /\ docs = [d \in DocIds |-> NoRow]
  /\ last = [s \in Series |-> 0]
  /\ journal = <<>>
  /\ tx = [w \in Workers |-> IdleTx]
-----------------------------------------------------------------------------
(* Documents *)

\* CreateDraftDocument: one INSERT outside any transaction.
CreateDraftDocument(d, s) ==
  /\ d \in FreshDocs
  /\ s \in BareSeries
  /\ docs' = [docs EXCEPT ![d] = [status |-> "DRAFT", series |-> s, num |-> 0]]
  /\ UNCHANGED <<last, journal, tx>>

\* PostDocument: SELECT ... FOR UPDATE waits while another transaction has the
\* row, and a document that is no longer DRAFT is refused.
PostDocument(w, d) ==
  /\ tx[w].pc = "idle"
  /\ docs[d].status = "DRAFT"
  /\ \A v \in Workers : tx[v].doc # d
  /\ tx' = [tx EXCEPT ![w] = [IdleTx EXCEPT !.pc = "number", !.op = "post",
                                !.series = docs[d].series, !.doc = d]]
  /\ UNCHANGED <<docs, last, journal>>

\* PostDocumentTx for a document the caller drafted in its own transaction, as
\* ConfirmOrder, ApprovePO and RecordVendorInvoice do.
PostNewDocument(w, d, s) ==
  /\ tx[w].pc = "idle"
  /\ d \in FreshDocs
  /\ s \in BareSeries
  /\ tx' = [tx EXCEPT ![w] = [IdleTx EXCEPT !.pc = "number", !.op = "post",
                                !.series = s, !.doc = d]]
  /\ UNCHANGED <<docs, last, journal>>

\* Mutant of TakeNumber: last_number is read without locking its row.
TakeNumberUnlocked(w) ==
  /\ tx[w].pc = "number"
  /\ tx' = [tx EXCEPT ![w].num = last[tx[w].series] + 1,
                      ![w].pc = IF tx[w].op = "post" THEN "commit" ELSE "entry"]
  /\ UNCHANGED <<docs, last, journal>>

\* The upsert of document_sequences: waits for the row, then takes the number
\* after the last committed one.
TakeNumber(w) ==
  /\ tx[w].pc = "number"
  /\ \A v \in Workers : ~HoldsSeries(v, tx[w].series)
  /\ tx' = [tx EXCEPT ![w].num = last[tx[w].series] + 1,
                      ![w].pc = IF tx[w].op = "post" THEN "commit" ELSE "entry"]
  /\ UNCHANGED <<docs, last, journal>>
-----------------------------------------------------------------------------
(* Commit, CommitInTx and Validate *)

\* execute up to the draft document, or, for Validate (op "validate"), which
\* drafts none and so never meets the document type, up to the journal entry.
BeginExecute(w, p, op, d) ==
  /\ tx[w].pc = "idle"
  /\ Validate(p)
  /\ p.company \in Companies
  /\ IF op = "commit" THEN p.type \in DocTypes /\ d \in FreshDocs ELSE d = NoDoc
  /\ Len(journal) < MaxEntries
  /\ tx' = [tx EXCEPT ![w] =
              [IdleTx EXCEPT !.pc = IF op = "commit" THEN "number" ELSE "entry",
                             !.op = op, !.prop = p, !.doc = d,
                             !.series = IF op = "commit" THEN SeriesOf(p) ELSE NoDoc]]
  /\ UNCHANGED <<docs, last, journal>>

\* Commit of a proposal that fails Validate, or names no known company or
\* document type, changes nothing.
RejectProposal(w, p) ==
  /\ tx[w].pc = "idle"
  /\ ~(Validate(p) /\ SeriesOf(p) \in Series)
  /\ UNCHANGED vars

\* Mutant of InsertEntry: the key is looked up, no unique index.
InsertEntryLookup(w) ==
  /\ tx[w].pc = "entry"
  /\ tx' = [tx EXCEPT ![w] = IF tx[w].prop.key \in CommittedKeys THEN IdleTx
                             ELSE [@ EXCEPT !.pc = "lines"]]
  /\ UNCHANGED <<docs, last, journal>>

\* Mutant of InsertEntry: a duplicate counts as posted, and its document is
\* committed.
InsertEntrySkipped(w) ==
  LET k == tx[w].prop.key IN
  /\ tx[w].pc = "entry"
  /\ k # NoKey => \A v \in Workers : ~HoldsKey(v, k)
  /\ tx' = [tx EXCEPT ![w] = IF k \in CommittedKeys
                             THEN [@ EXCEPT !.pc = "commit", !.op = "post"]
                             ELSE [@ EXCEPT !.pc = "lines"]]
  /\ UNCHANGED <<docs, last, journal>>

\* Mutant of InsertEntry: a duplicate waits for the key to become free.
InsertEntryWaits(w) ==
  LET k == tx[w].prop.key IN
  /\ tx[w].pc = "entry"
  /\ k # NoKey => \A v \in Workers : ~HoldsKey(v, k)
  /\ k \notin CommittedKeys
  /\ tx' = [tx EXCEPT ![w].pc = "lines"]
  /\ UNCHANGED <<docs, last, journal>>

\* INSERT INTO journal_entries ... ON CONFLICT (idempotency_key) DO NOTHING:
\* waits while another open transaction has inserted the key; returns no row,
\* hence the "duplicate proposal" error, when the key is committed.
InsertEntry(w) ==
  LET k == tx[w].prop.key IN
  /\ tx[w].pc = "entry"
  /\ k # NoKey => \A v \in Workers : ~HoldsKey(v, k)
  /\ tx' = [tx EXCEPT ![w] = IF k \in CommittedKeys THEN IdleTx
                             ELSE [@ EXCEPT !.pc = "lines"]]
  /\ UNCHANGED <<docs, last, journal>>

\* Mutant of InsertLines: the account is looked up by its code alone.
InsertLinesAnyChart(w) ==
  LET p == tx[w].prop IN
  /\ tx[w].pc = "lines"
  /\ tx' = [tx EXCEPT ![w] =
              IF \A i \in DOMAIN p.lines : p.lines[i].acct \in Accounts
              THEN [@ EXCEPT !.pc = "commit"] ELSE IdleTx]
  /\ UNCHANGED <<docs, last, journal>>

\* Each line's account must be in the company's chart, or the whole
\* transaction is rolled back.
InsertLines(w) ==
  LET p == tx[w].prop IN
  /\ tx[w].pc = "lines"
  /\ tx' = [tx EXCEPT ![w] =
              IF \A i \in DOMAIN p.lines : p.lines[i].acct \in Chart[p.company]
              THEN [@ EXCEPT !.pc = "commit"] ELSE IdleTx]
  /\ UNCHANGED <<docs, last, journal>>

\* tx.Commit: every row of the transaction becomes visible at once.
Commit(w) ==
  LET t == tx[w] IN
  /\ t.pc = "commit" /\ t.op \in {"commit", "post"}
  /\ docs' = [docs EXCEPT ![t.doc] = [status |-> "POSTED", series |-> t.series,
                                      num |-> t.num]]
  /\ last' = [last EXCEPT ![t.series] = t.num]
  /\ journal' = IF t.op = "commit"
                THEN Append(journal, Entry(t.prop, <<t.series, t.num>>))
                ELSE journal
  /\ tx' = [tx EXCEPT ![w] = IdleTx]

\* Validate returns without committing: the deferred rollback undoes it all.
EndValidate(w) ==
  /\ tx[w].pc = "commit" /\ tx[w].op = "validate"
  /\ tx' = [tx EXCEPT ![w] = IdleTx]
  /\ UNCHANGED <<docs, last, journal>>
-----------------------------------------------------------------------------
(* Reverse *)

\* The count of existing reversals sees committed rows only, and locks nothing.
ReverseCheck(w, e) ==
  /\ tx[w].pc = "idle"
  /\ Len(journal) < MaxEntries
  /\ e \in DOMAIN journal
  /\ ReversalsOf(e) = {}
  /\ tx' = [tx EXCEPT ![w] = [IdleTx EXCEPT !.pc = "commit", !.op = "reverse",
                                            !.rev = e]]
  /\ UNCHANGED <<docs, last, journal>>

CommitReverse(w) ==
  /\ tx[w].pc = "commit" /\ tx[w].op = "reverse"
  /\ journal' = Append(journal, ReversalOf(tx[w].rev))
  /\ tx' = [tx EXCEPT ![w] = IdleTx]
  /\ UNCHANGED <<docs, last>>

Rollback(w) ==
  /\ tx[w].pc # "idle"
  /\ tx' = [tx EXCEPT ![w] = IdleTx]
  /\ UNCHANGED <<docs, last, journal>>
-----------------------------------------------------------------------------
Call(w) ==
  \/ \E d \in DocIds : PostDocument(w, d)
  \/ \E d \in DocIds, s \in BareSeries : PostNewDocument(w, d, s)
  \/ \E p \in Proposals, d \in DocIds : BeginExecute(w, p, "commit", d)
  \/ \E p \in Proposals : BeginExecute(w, p, "validate", NoDoc)
  \/ \E p \in Proposals : RejectProposal(w, p)
  \/ \E e \in DOMAIN journal : ReverseCheck(w, e)

Step(w) ==
  \/ TakeNumber(w) \/ InsertEntry(w) \/ InsertLines(w)
  \/ Commit(w) \/ EndValidate(w) \/ CommitReverse(w)

Next ==
  \/ \E d \in DocIds, s \in BareSeries : CreateDraftDocument(d, s)
  \/ \E w \in Workers : Call(w) \/ Step(w) \/ Rollback(w)

Spec == Init /\ [][Next]_vars

\* A handler that is not blocked runs on, and PostgreSQL grants a lock in the
\* order of the requests, so that nobody waits for ever for a row that is
\* released again and again.
Fairness == \A w \in Workers : SF_vars(Step(w))
FairSpec == Spec /\ Fairness
-----------------------------------------------------------------------------
(* Properties *)

DocRow == [status : {"NONE", "DRAFT", "POSTED"}, series : Series \cup {NoDoc}, num : Nat]

TxRow == [pc : PCs, op : Ops, prop : Proposals \cup {NoProposal},
          series : Series \cup {NoDoc}, doc : DocIds \cup {NoDoc},
          num : Nat, rev : Nat]

LineRow == [acct : Accounts, amt : Nat, debit : Nat, credit : Nat]

EntryRow == [company : Companies, key : Keys, ref : (Series \X Nat) \cup {NoDoc},
             lines : Seq(LineRow), rev : Nat]

\* Each table and each open transaction keeps its type: in particular no
\* negative amount and no account outside the charts is ever stored.
TypeOK ==
  /\ docs \in [DocIds -> DocRow]
  /\ last \in [Series -> Nat]
  /\ tx \in [Workers -> TxRow]
  /\ journal \in Seq(EntryRow)

PostedIn(s) == {d \in DocIds : docs[d].status = "POSTED" /\ docs[d].series = s}

\* README "Gapless Numbering": each number in 1..last_number of a series is on
\* exactly one posted document and no other number is, whatever postings ran
\* concurrently or rolled back after they had taken a number.
GaplessNumbering ==
  \A s \in Series :
    /\ {docs[d].num : d \in PostedIn(s)} = 1 .. last[s]
    /\ \A d, e \in PostedIn(s) : docs[d].num = docs[e].num => d = e

\* README "Idempotency": a key enters the journal once, although two handlers
\* may submit it at the same moment and both find it absent.
Idempotent ==
  \A e, f \in DOMAIN journal :
     journal[e].key = journal[f].key /\ journal[e].key # NoKey => e = f

\* executeCore numbers the document before it knows whether the entry is a
\* duplicate: still, in a series only the ledger posts to, every number has
\* exactly one entry.
OneEntryPerNumber ==
  \A s \in Series \ BareSeries : \A n \in 1 .. last[s] :
     \E e \in DOMAIN journal :
        /\ journal[e].ref = <<s, n>>
        /\ \A f \in DOMAIN journal : journal[f].ref = <<s, n>> => f = e

\* README "Every transaction is scoped to a Company Code": the lines of an
\* entry are on accounts of the entry's own company, reversals included.
CompanyScoped ==
  \A e \in DOMAIN journal : \A i \in DOMAIN journal[e].lines :
     journal[e].lines[i].acct \in Chart[journal[e].company]

\* A reversal undoes an earlier entry of the same company, line by line.
ReversalsMirror ==
  \A r \in DOMAIN journal : journal[r].rev # 0 =>
     LET e == journal[r].rev IN
     /\ e < r
     /\ journal[e].company = journal[r].company
     /\ Len(journal[e].lines) = Len(journal[r].lines)
     /\ \A i \in DOMAIN journal[r].lines :
          /\ journal[r].lines[i].acct = journal[e].lines[i].acct
          /\ journal[r].lines[i].debit = journal[e].lines[i].credit
          /\ journal[r].lines[i].credit = journal[e].lines[i].debit

\* The ledger is append-only: no step changes or removes a committed entry.
AppendOnly ==
  [][ /\ Len(journal) <= Len(journal')
      /\ \A e \in DOMAIN journal : journal'[e] = journal[e] ]_vars

\* A posted document keeps its number and its status for ever, and the next
\* number of a series only grows.
PostedForEver ==
  [][ /\ \A d \in DocIds : docs[d].status = "POSTED" => docs'[d] = docs[d]
      /\ \A s \in Series : last'[s] >= last[s] ]_vars

\* README "Strict enforcement of debit = credit balance in base currency": the
\* rows of every entry balance as they are stored, reversals included, as long
\* as amount * rate is whole cents.  (Module Dialogue has what rounding does.)
StoredBalance ==
  \A e \in DOMAIN journal :
     DebitTotal(journal[e].lines) = CreditTotal(journal[e].lines)

\* TestLedger_Reversal: an entry is reversed at most once.
ReversedOnce == \A e \in DOMAIN journal : Cardinality(ReversalsOf(e)) <= 1

\* The ledger implements the books: seen from outside, each transaction gives
\* its number and its entry in the one step of its commit, or does nothing.
Books == INSTANCE Books WITH NoRef <- NoDoc
ImplementsBooks == Books!BooksSpec

\* Every transaction ends: the sequence row is taken before the key, and a
\* transaction that has its key waits for nobody.
EveryTxEnds == \A w \in Workers : (tx[w].pc # "idle") ~> (tx[w].pc = "idle")
=============================================================================
