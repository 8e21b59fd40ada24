---------------------------- MODULE LedgerProofs ----------------------------
(***************************************************************************)
(* Proofs about Ledger, for every set of handlers, companies, series,      *)
(* documents and proposals.                                                *)
(*                                                                         *)
(* The inductive invariant IInv adds to the properties what an open        *)
(* transaction knows (TxFits), which locks exclude each other (Locks), and *)
(* that no committed entry refers to a number not yet given out            *)
(* (RefsBelow).                                                            *)
(***************************************************************************)
EXTENDS Ledger, Totals, Entries

-----------------------------------------------------------------------------
(* The inductive invariant *)

\* What holds of an open transaction t, wherever the others are: a document
\* it posts is not posted yet, a number it has taken is still the next one, a
\* key it has inserted is still not committed, and what it checked is true.
TxFits(t) ==
  /\ t.pc = "idle" => t = IdleTx
  /\ t.op = "none" => t.pc = "idle"
  /\ t.pc = "number" => t.op \in {"commit", "post"} /\ t.num = 0
  /\ t.pc \in {"entry", "lines"} => t.op \in {"commit", "validate"}
  /\ t.op \in {"commit", "post"} =>
       /\ t.series \in Series /\ t.doc \in DocIds
       /\ docs[t.doc].status # "POSTED"
       /\ t.pc # "number" => t.num = last[t.series] + 1
  /\ t.op \notin {"commit", "post"} => t.num = 0 /\ t.doc = NoDoc
  /\ t.op \in {"commit", "validate"} =>
       /\ t.prop \in Proposals /\ Validate(t.prop) /\ t.prop.company \in Companies
       /\ t.pc \in {"lines", "commit"} => t.prop.key \notin CommittedKeys
       /\ t.pc = "commit" => \A i \in DOMAIN t.prop.lines :
                               t.prop.lines[i].acct \in Chart[t.prop.company]
  /\ t.op = "post" => t.series \in BareSeries
  /\ t.op = "reverse" => t.rev \in DOMAIN journal

AllFit == \A w \in Workers : TxFits(tx[w])

\* No two transactions hold the same series, document or key.
Locks ==
  \A v, w \in Workers : v # w =>
    /\ tx[v].num > 0 /\ tx[w].num > 0 => tx[v].series # tx[w].series
    /\ tx[v].doc # NoDoc => tx[v].doc # tx[w].doc
    /\ \A k \in Keys \ {NoKey} : ~(HoldsKey(v, k) /\ HoldsKey(w, k))

RefsBelow ==
  \A e \in DOMAIN journal : \A s \in Series, n \in Nat :
    journal[e].ref = <<s, n>> => n <= last[s]

DraftsBare ==
  \A d \in DocIds : docs[d].status = "DRAFT" => docs[d].series \in BareSeries

\* The conjuncts about committed rows only.
TablesOK ==
  /\ RefsBelow
  /\ DraftsBare
  /\ GaplessNumbering
  /\ Idempotent
  /\ OneEntryPerNumber
  /\ CompanyScoped
  /\ ReversalsMirror

IInv == TypeOK /\ AllFit /\ Locks /\ TablesOK
-----------------------------------------------------------------------------
(* Arithmetic and rows *)

\* Rounding half away from zero keeps a natural number natural.
LEMMA RoundToType ==
  ASSUME NEW x \in Nat, NEW u \in Nat \ {0}
  PROVE  RoundTo(x, u) \in Nat
<1>1. 2 * x + u \in Nat /\ 2 * u \in Nat /\ 2 * u > 0
  OBVIOUS
<1>2. \A a \in Nat, b \in Nat : b > 0 => a \div b \in Nat
  OBVIOUS
<1> QED
  BY <1>1, <1>2 DEF RoundTo

\* Every row executeCore inserts for a valid proposal is typed.
LEMMA StoredLinesType ==
  ASSUME NEW p \in Proposals, Validate(p), p.company \in Companies,
         \A i \in DOMAIN p.lines : p.lines[i].acct \in Chart[p.company]
  PROVE  StoredLines(p) \in Seq(LineRow)
<1>1. p.rate \in Nat \ {0} /\ \A i \in DOMAIN p.lines : p.lines[i].amt \in Nat \ {0}
  BY ValidNumbers, LedgerAssumption DEF ProposalType
<1>2. Len(p.lines) \in Nat /\ DOMAIN p.lines = 1 .. Len(p.lines)
  BY LedgerAssumption DEF ProposalType, ProposalNumbers
<1>3. AmtUnit \in Nat \ {0} /\ AmtUnit * RateUnit \in Nat \ {0}
  BY UnitAssumption
<1>4. ASSUME NEW i \in DOMAIN p.lines
      PROVE  StoredLine(p.lines[i], p.rate) \in LineRow
  <2>1. p.lines[i].acct \in Accounts
    BY DEF Accounts
  <2>2. p.lines[i].amt \in Nat /\ ExactBase(p.lines[i], p.rate) \in Nat
    BY <1>1 DEF ExactBase
  <2>3. StoredBase(p.lines[i], p.rate) \in Nat
    BY <2>2, <1>3, RoundToType DEF StoredBase
  <2>4. RoundTo(p.lines[i].amt, AmtUnit) \in Nat
    BY <2>2, <1>3, RoundToType
  <2> QED
    BY <2>1, <2>3, <2>4 DEF StoredLine, LineRow
<1> QED
  BY <1>2, <1>4 DEF StoredLines

-----------------------------------------------------------------------------
(* Steps that change one transaction only *)

\* The idle transaction fits any tables.
LEMMA IdleFits == TxFits(IdleTx) /\ IdleTx \in TxRow
BY DEF TxFits, IdleTx, TxRow, PCs, Ops

\* What holds of the numbers and entries alone is kept with them.
LEMMA OneEntryKept ==
  ASSUME OneEntryPerNumber, UNCHANGED <<last, journal>>
  PROVE  OneEntryPerNumber'
<1> SUFFICES ASSUME NEW s \in Series \ BareSeries, NEW n \in 1 .. last'[s]
             PROVE  \E e \in DOMAIN journal' :
                      /\ journal'[e].ref = <<s, n>>
                      /\ \A f \in DOMAIN journal' : journal'[f].ref = <<s, n>> => f = e
  BY DEF OneEntryPerNumber
<1>1. n \in 1 .. last[s]
  OBVIOUS
<1>2. PICK e \in DOMAIN journal :
        /\ journal[e].ref = <<s, n>>
        /\ \A f \in DOMAIN journal : journal[f].ref = <<s, n>> => f = e
  BY <1>1 DEF OneEntryPerNumber
<1> QED
  BY <1>2

\* Replacing the transaction of one handler by one that fits keeps the types
\* and AllFit.
LEMMA TxStep ==
  ASSUME NEW w \in Workers, NEW t \in TxRow,
         TypeOK, AllFit, TxFits(t),
         tx' = [tx EXCEPT ![w] = t], UNCHANGED <<docs, last, journal>>
  PROVE  TypeOK' /\ AllFit' /\ (TablesOK => TablesOK')
<1>1. TypeOK'
  BY DEF TypeOK
<1>2. AllFit'
  <2> SUFFICES ASSUME NEW v \in Workers PROVE TxFits(tx[v])'
    BY DEF AllFit
  <2>1. TxFits(tx'[v])
    BY DEF AllFit, TypeOK
  <2> QED
    BY <2>1 DEF TxFits, CommittedKeys
<1>3. RefsBelow => RefsBelow'
  BY DEF RefsBelow
<1>4. DraftsBare => DraftsBare'
  BY DEF DraftsBare
<1>5. GaplessNumbering => GaplessNumbering'
  BY DEF GaplessNumbering, PostedIn
<1>6. Idempotent => Idempotent'
  BY DEF Idempotent
<1>7. OneEntryPerNumber => OneEntryPerNumber'
  BY OneEntryKept
<1>8. CompanyScoped => CompanyScoped'
  BY DEF CompanyScoped
<1>9. ReversalsMirror => ReversalsMirror'
  BY DEF ReversalsMirror
<1> QED
  BY <1>1, <1>2, <1>3, <1>4, <1>5, <1>6, <1>7, <1>8, <1>9 DEF TablesOK

\* No other handler than w holds a lock that t has.
Uncontended(w, t) ==
  \A v \in Workers \ {w} :
    /\ t.num > 0 => ~(tx[v].num > 0 /\ tx[v].series = t.series)
    /\ t.doc # NoDoc => tx[v].doc # t.doc
    /\ t.op \in {"commit", "validate"} /\ t.pc \in {"lines", "commit"} =>
         t.prop.key = NoKey \/ ~HoldsKey(v, t.prop.key)

\* A transaction whose locks nobody else holds may replace that of w.
LEMMA LocksKept ==
  ASSUME NEW w \in Workers, NEW t \in TxRow, TypeOK, Locks, Uncontended(w, t),
         tx' = [tx EXCEPT ![w] = t]
  PROVE  Locks'
<1>1. tx'[w] = t /\ \A v \in Workers \ {w} : tx'[v] = tx[v]
  BY DEF TypeOK
<1> SUFFICES ASSUME NEW u \in Workers, NEW v \in Workers, u # v
             PROVE  /\ tx'[u].num > 0 /\ tx'[v].num > 0 => tx'[u].series # tx'[v].series
                    /\ tx'[u].doc # NoDoc => tx'[u].doc # tx'[v].doc
                    /\ \A k \in Keys \ {NoKey} : ~(HoldsKey(u, k)' /\ HoldsKey(v, k)')
  BY DEF Locks, HoldsKey
<1>2. CASE u # w /\ v # w
  BY <1>1, <1>2 DEF Locks, HoldsKey
<1>3. CASE u = w
  BY <1>1, <1>3 DEF Uncontended, HoldsKey
<1>4. CASE v = w
  BY <1>1, <1>4 DEF Uncontended, HoldsKey
<1> QED
  BY <1>2, <1>3, <1>4

\* A step that gives handler w another transaction that fits and that nobody
\* contends with keeps the invariant.
LEMMA TxOnlyKeeps ==
  ASSUME NEW w \in Workers, NEW t \in TxRow, IInv, TxFits(t), Uncontended(w, t),
         tx' = [tx EXCEPT ![w] = t], UNCHANGED <<docs, last, journal>>
  PROVE  IInv'
BY TxStep, LocksKept DEF IInv

\* In particular when it ends without a commit.
LEMMA EndKeeps ==
  ASSUME NEW w \in Workers, IInv, tx' = [tx EXCEPT ![w] = IdleTx],
         UNCHANGED <<docs, last, journal>>
  PROVE  IInv'
<1>1. Uncontended(w, IdleTx)
  BY DEF IdleTx, Uncontended
<1> QED
  BY <1>1, IdleFits, TxOnlyKeeps

LEMMA PostDocumentKeeps ==
  ASSUME NEW w \in Workers, NEW d \in DocIds, IInv, PostDocument(w, d)
  PROVE  IInv'
<1> DEFINE t == [IdleTx EXCEPT !.pc = "number", !.op = "post",
                               !.series = docs[d].series, !.doc = d]
<1>1. docs[d].series \in BareSeries /\ docs[d].series \in Series
  BY LedgerAssumption DEF PostDocument, IInv, TablesOK, DraftsBare
<1>2. t \in TxRow /\ TxFits(t)
  BY <1>1, IdleFits DEF PostDocument, TxFits, IdleTx, TxRow, PCs, Ops
<1>3. Uncontended(w, t)
  BY DEF PostDocument, Uncontended, IdleTx
<1> QED
  BY <1>2, <1>3, TxOnlyKeeps DEF PostDocument

LEMMA PostNewDocumentKeeps ==
  ASSUME NEW w \in Workers, NEW d \in DocIds, NEW s \in BareSeries, IInv,
         PostNewDocument(w, d, s)
  PROVE  IInv'
<1> DEFINE t == [IdleTx EXCEPT !.pc = "number", !.op = "post",
                               !.series = s, !.doc = d]
<1>1. s \in Series
  BY LedgerAssumption
<1>2. t \in TxRow /\ TxFits(t)
  BY <1>1, IdleFits DEF PostNewDocument, FreshDocs, TxFits, IdleTx, TxRow, PCs, Ops
<1>3. Uncontended(w, t)
  BY DEF PostNewDocument, FreshDocs, Uncontended, IdleTx
<1> QED
  BY <1>2, <1>3, TxOnlyKeeps DEF PostNewDocument

LEMMA TakeNumberKeeps ==
  ASSUME NEW w \in Workers, IInv, TakeNumber(w)
  PROVE  IInv'
<1> DEFINE n == last[tx[w].series] + 1
           pc == IF tx[w].op = "post" THEN "commit" ELSE "entry"
           t == [tx[w] EXCEPT !.num = n, !.pc = pc]
<1>1. tx[w] \in TxRow /\ TxFits(tx[w]) /\ last \in [Series -> Nat]
  BY DEF IInv, TypeOK, AllFit
<1>2. tx[w].op \in {"commit", "post"} /\ tx[w].series \in Series
  BY <1>1 DEF TakeNumber, TxFits
<1>3. t \in TxRow
  <2>1. n \in Nat /\ pc \in PCs
    BY <1>1, <1>2 DEF PCs
  <2> HIDE DEF n, pc
  <2> QED
    BY <1>1, <2>1 DEF TxRow
<1>4. TxFits(t)
  <2>1. /\ t.op = tx[w].op /\ t.series = tx[w].series /\ t.doc = tx[w].doc
        /\ t.prop = tx[w].prop /\ t.num = last[tx[w].series] + 1
        /\ t.pc = IF tx[w].op = "post" THEN "commit" ELSE "entry"
    BY <1>1 DEF TxRow
  <2> HIDE DEF t
  <2> QED
    BY <1>1, <1>2, <2>1 DEF TxFits
<1>5. Uncontended(w, t)
  <2>1. t.doc = tx[w].doc /\ t.series = tx[w].series /\ t.pc \in {"commit", "entry"}
        /\ (t.pc = "commit" => t.op = "post")
    BY <1>1, <1>2 DEF TxRow
  <2>2. \A v \in Workers \ {w} : t.doc # NoDoc => tx[v].doc # t.doc
    BY <2>1 DEF IInv, Locks
  <2> QED
    BY <2>1, <2>2 DEF Uncontended, TakeNumber, HoldsSeries
<1>6. tx' = [tx EXCEPT ![w] = t]
  BY <1>1 DEF TakeNumber, TxRow
<1> QED
  BY <1>3, <1>4, <1>5, <1>6, TxOnlyKeeps DEF TakeNumber

LEMMA BeginExecuteKeeps ==
  ASSUME NEW w \in Workers, NEW p \in Proposals, NEW op \in {"commit", "validate"},
         NEW d \in DocIds \cup {NoDoc}, IInv, BeginExecute(w, p, op, d)
  PROVE  IInv'
<1> DEFINE s == IF op = "commit" THEN SeriesOf(p) ELSE NoDoc
           t == [IdleTx EXCEPT !.pc = IF op = "commit" THEN "number" ELSE "entry",
                               !.op = op, !.prop = p, !.doc = d, !.series = s]
<1>1. /\ op = "commit" => d \in DocIds /\ docs[d].status = "NONE" /\ s \in Series
      /\ s \in Series \cup {NoDoc}
  BY LedgerAssumption DEF BeginExecute, FreshDocs, SeriesOf, Series
<1> HIDE DEF s
<1>2. t \in TxRow
  BY <1>1, IdleFits DEF BeginExecute, IdleTx, TxRow, PCs, Ops
<1>3. TxFits(t)
  <2>1. /\ t.op = op /\ t.prop = p /\ t.series = s /\ t.doc = d /\ t.num = 0
        /\ t.pc = IF op = "commit" THEN "number" ELSE "entry"
    BY DEF IdleTx
  <2>2. op # "commit" => d = NoDoc
    BY DEF BeginExecute
  <2> HIDE DEF t
  <2> QED
    BY <1>1, <2>1, <2>2 DEF TxFits, BeginExecute
<1>4. Uncontended(w, t)
  BY DEF BeginExecute, FreshDocs, Uncontended, IdleTx
<1> QED
  BY <1>2, <1>3, <1>4, TxOnlyKeeps DEF BeginExecute, s

LEMMA InsertEntryKeeps ==
  ASSUME NEW w \in Workers, IInv, InsertEntry(w)
  PROVE  IInv'
<1> DEFINE t == [tx[w] EXCEPT !.pc = "lines"]
<1>1. tx[w] \in TxRow /\ TxFits(tx[w]) /\ tx[w].op \in {"commit", "validate"}
  BY DEF IInv, TypeOK, AllFit, InsertEntry, TxFits
<1>2. CASE tx[w].prop.key \in CommittedKeys
  BY <1>2, EndKeeps DEF InsertEntry
<1>3. CASE tx[w].prop.key \notin CommittedKeys
  <2>1. t \in TxRow /\ TxFits(t)
    BY <1>1, <1>3 DEF TxFits, TxRow, PCs, InsertEntry, IdleTx
  <2>2. Uncontended(w, t)
    <3>1. /\ t.num = tx[w].num /\ t.series = tx[w].series
          /\ t.doc = tx[w].doc /\ t.prop = tx[w].prop
      BY <1>1 DEF TxRow
    <3>2. \A v \in Workers \ {w} : t.prop.key = NoKey \/ ~HoldsKey(v, t.prop.key)
      BY <3>1 DEF InsertEntry
    <3> QED
      BY <3>1, <3>2 DEF Uncontended, IInv, Locks
  <2>3. tx' = [tx EXCEPT ![w] = t]
    BY <1>3 DEF InsertEntry
  <2> QED
    BY <2>1, <2>2, <2>3, TxOnlyKeeps DEF InsertEntry
<1> QED
  BY <1>2, <1>3

LEMMA InsertLinesKeeps ==
  ASSUME NEW w \in Workers, IInv, InsertLines(w)
  PROVE  IInv'
<1> DEFINE t == [tx[w] EXCEPT !.pc = "commit"]
           p == tx[w].prop
           Known == \A i \in DOMAIN p.lines : p.lines[i].acct \in Chart[p.company]
<1>1. tx[w] \in TxRow /\ TxFits(tx[w]) /\ tx[w].op \in {"commit", "validate"}
  BY DEF IInv, TypeOK, AllFit, InsertLines, TxFits
<1>2. CASE ~Known
  BY <1>2, EndKeeps DEF InsertLines
<1>3. CASE Known
  <2>1. t \in TxRow /\ TxFits(t)
    BY <1>1, <1>3 DEF TxFits, TxRow, PCs, InsertLines, IdleTx
  <2>2. Uncontended(w, t)
    <3>1. /\ t.num = tx[w].num /\ t.series = tx[w].series
          /\ t.doc = tx[w].doc /\ t.prop = tx[w].prop
      BY <1>1 DEF TxRow
    <3>2. p.key \in Keys /\ HoldsKey(w, p.key)
      BY <1>1, LedgerAssumption DEF TxFits, ProposalType, HoldsKey, InsertLines
    <3>3. \A v \in Workers \ {w} : p.key = NoKey \/ ~HoldsKey(v, p.key)
      BY <3>2 DEF IInv, Locks
    <3> QED
      BY <3>1, <3>3 DEF Uncontended, IInv, Locks
  <2>3. tx' = [tx EXCEPT ![w] = t]
    BY <1>3 DEF InsertLines
  <2> QED
    BY <2>1, <2>2, <2>3, TxOnlyKeeps DEF InsertLines
<1> QED
  BY <1>2, <1>3

LEMMA ReverseCheckKeeps ==
  ASSUME NEW w \in Workers, NEW e \in DOMAIN journal, IInv, ReverseCheck(w, e)
  PROVE  IInv'
<1> DEFINE t == [IdleTx EXCEPT !.pc = "commit", !.op = "reverse", !.rev = e]
<1>1. e \in Nat
  BY DEF IInv, TypeOK
<1>2. t \in TxRow /\ TxFits(t)
  BY <1>1, IdleFits DEF ReverseCheck, TxFits, IdleTx, TxRow, PCs, Ops
<1>3. Uncontended(w, t)
  BY DEF Uncontended, IdleTx
<1> QED
  BY <1>2, <1>3, TxOnlyKeeps DEF ReverseCheck
-----------------------------------------------------------------------------
(* Steps that change the tables *)

LEMMA AppendFacts ==
  ASSUME NEW S, NEW q \in Seq(S), NEW e \in S
  PROVE  /\ Append(q, e) \in Seq(S)
         /\ DOMAIN q = 1 .. Len(q) /\ Len(q) \in Nat
         /\ DOMAIN Append(q, e) = 1 .. Len(q) + 1
         /\ \A i \in DOMAIN q : Append(q, e)[i] = q[i]
         /\ Append(q, e)[Len(q) + 1] = e
OBVIOUS

\* The draft row of a document nobody has.
LEMMA CreateDraftKeeps ==
  ASSUME NEW d \in DocIds, NEW s \in BareSeries, IInv, CreateDraftDocument(d, s)
  PROVE  IInv'
<1>1. /\ docs[d].status = "NONE" /\ \A v \in Workers : tx[v].doc # d
      /\ docs' = [docs EXCEPT ![d] = [status |-> "DRAFT", series |-> s, num |-> 0]]
      /\ UNCHANGED <<last, journal, tx>>
  BY DEF CreateDraftDocument, FreshDocs
<1>2. TypeOK /\ AllFit /\ Locks /\ TablesOK
  BY DEF IInv
<1>3. /\ docs'[d] = [status |-> "DRAFT", series |-> s, num |-> 0]
      /\ \A c \in DocIds \ {d} : docs'[c] = docs[c]
  BY <1>1, <1>2 DEF TypeOK
<1>4. TypeOK'
  BY <1>1, <1>2, LedgerAssumption DEF TypeOK, DocRow
<1>5. AllFit'
  <2> SUFFICES ASSUME NEW v \in Workers PROVE TxFits(tx[v])'
    BY DEF AllFit
  <2>1. TxFits(tx[v]) /\ tx[v].doc # d
    BY <1>1, <1>2 DEF AllFit
  <2> QED
    BY <2>1, <1>1, <1>3 DEF TxFits, CommittedKeys
<1>6. Locks'
  BY <1>1, <1>2 DEF Locks, HoldsKey
<1>7. RefsBelow' /\ DraftsBare'
  BY <1>1, <1>2, <1>3 DEF TablesOK, RefsBelow, DraftsBare
<1>8. GaplessNumbering'
  <2>1. \A r \in Series : PostedIn(r)' = PostedIn(r)
    BY <1>1, <1>3 DEF PostedIn
  <2>2. \A r \in Series : \A c \in PostedIn(r) : docs'[c] = docs[c]
    BY <1>1, <1>3 DEF PostedIn
  <2> QED
    BY <2>1, <2>2, <1>1, <1>2 DEF TablesOK, GaplessNumbering
<1>9. Idempotent' /\ CompanyScoped'
  BY <1>1, <1>2 DEF TablesOK, Idempotent, CompanyScoped
<1>10. OneEntryPerNumber'
  <2>1. OneEntryPerNumber /\ UNCHANGED <<last, journal>>
    BY <1>1, <1>2 DEF TablesOK
  <2> QED
    BY <2>1, OneEntryKept
<1>11. ReversalsMirror'
  BY <1>1, <1>2 DEF TablesOK, ReversalsMirror
<1> QED
  BY <1>4, <1>5, <1>6, <1>7, <1>8, <1>9, <1>10, <1>11 DEF IInv, TablesOK

\* What a transaction that is about to commit a number knows.
LEMMA CommitFacts ==
  ASSUME NEW w \in Workers, IInv, tx[w].pc = "commit", tx[w].op \in {"commit", "post"}
  PROVE  /\ tx[w].series \in Series /\ tx[w].doc \in DocIds
         /\ docs[tx[w].doc].status # "POSTED"
         /\ last[tx[w].series] \in Nat /\ tx[w].num = last[tx[w].series] + 1
         /\ tx[w].num \in Nat /\ tx[w].num > 0
         /\ tx[w].op = "post" => tx[w].series \in BareSeries
         /\ tx[w].op = "commit" =>
              /\ tx[w].prop \in Proposals /\ tx[w].prop.key \notin CommittedKeys
              /\ Entry(tx[w].prop, <<tx[w].series, tx[w].num>>) \in EntryRow
              /\ \A i \in DOMAIN StoredLines(tx[w].prop) :
                   StoredLines(tx[w].prop)[i].acct \in Chart[tx[w].prop.company]
<1>1. TxFits(tx[w]) /\ tx[w] \in TxRow /\ last \in [Series -> Nat]
  BY DEF IInv, AllFit, TypeOK
<1>2. /\ tx[w].series \in Series /\ tx[w].doc \in DocIds
      /\ docs[tx[w].doc].status # "POSTED"
      /\ last[tx[w].series] \in Nat /\ tx[w].num = last[tx[w].series] + 1
      /\ tx[w].op = "post" => tx[w].series \in BareSeries
  BY <1>1 DEF TxFits
<1>3. ASSUME tx[w].op = "commit"
      PROVE  /\ tx[w].prop \in Proposals /\ tx[w].prop.key \notin CommittedKeys
             /\ Entry(tx[w].prop, <<tx[w].series, tx[w].num>>) \in EntryRow
             /\ \A i \in DOMAIN StoredLines(tx[w].prop) :
                  StoredLines(tx[w].prop)[i].acct \in Chart[tx[w].prop.company]
  <2> DEFINE p == tx[w].prop
  <2>1. /\ p \in Proposals /\ Validate(p) /\ p.company \in Companies
        /\ p.key \notin CommittedKeys
        /\ \A i \in DOMAIN p.lines : p.lines[i].acct \in Chart[p.company]
    BY <1>1, <1>3 DEF TxFits
  <2>3. p.key \in Keys
    BY <2>1, LedgerAssumption DEF ProposalType, ProposalNumbers
  <2>4. StoredLines(p) \in Seq(LineRow)
    BY <2>1, StoredLinesType
  <2>5. <<tx[w].series, tx[w].num>> \in Series \X Nat
    BY <1>2
  <2>6. Entry(p, <<tx[w].series, tx[w].num>>) \in EntryRow
    BY <2>1, <2>3, <2>4, <2>5 DEF Entry, EntryRow
  <2>7. \A i \in DOMAIN StoredLines(p) : StoredLines(p)[i].acct \in Chart[p.company]
    BY <2>1 DEF StoredLines, StoredLine
  <2> QED
    BY <2>1, <2>6, <2>7
<1>4. tx[w].num \in Nat /\ tx[w].num > 0
  BY <1>2
<1> QED
  BY <1>2, <1>3, <1>4

\* The commit of a numbered document keeps what holds of each table, ...
LEMMA CommitKeepsNumbers ==
  ASSUME NEW w \in Workers, IInv, Commit(w)
  PROVE  DraftsBare' /\ GaplessNumbering'
<1>1. /\ tx[w].series \in Series /\ tx[w].doc \in DocIds
      /\ docs[tx[w].doc].status # "POSTED"
      /\ last[tx[w].series] \in Nat /\ tx[w].num = last[tx[w].series] + 1
  BY CommitFacts DEF Commit
<1>2. PICK d \in DocIds, s \in Series, n \in Nat :
        /\ docs[d].status # "POSTED" /\ last[s] \in Nat /\ n = last[s] + 1
        /\ docs' = [docs EXCEPT ![d] =
                      [status |-> "POSTED", series |-> s, num |-> n]]
        /\ last' = [last EXCEPT ![s] = n]
  <2>1. tx[w].num \in Nat
    BY CommitFacts DEF Commit
  <2>2. /\ docs' = [docs EXCEPT ![tx[w].doc] = [status |-> "POSTED",
                                series |-> tx[w].series, num |-> tx[w].num]]
        /\ last' = [last EXCEPT ![tx[w].series] = tx[w].num]
    BY DEF Commit
  <2> QED
    BY <1>1, <2>1, <2>2
<1>3. /\ docs \in [DocIds -> DocRow] /\ last \in [Series -> Nat]
      /\ DraftsBare /\ GaplessNumbering
  BY DEF IInv, TypeOK, TablesOK
<1>4. /\ docs'[d] = [status |-> "POSTED", series |-> s, num |-> n]
      /\ \A c \in DocIds \ {d} : docs'[c] = docs[c]
      /\ last'[s] = n /\ \A r \in Series \ {s} : last'[r] = last[r]
  BY <1>2, <1>3
<1>5. DraftsBare'
  BY <1>3, <1>4 DEF DraftsBare
<1>6. PostedIn(s)' = PostedIn(s) \cup {d} /\ d \notin PostedIn(s)
  BY <1>2, <1>4 DEF PostedIn
<1>7. \A r \in Series \ {s} : PostedIn(r)' = PostedIn(r) /\ d \notin PostedIn(r)
  BY <1>2, <1>4 DEF PostedIn
<1>8. \A r \in Series : PostedIn(r) \subseteq DocIds
  BY DEF PostedIn
<1>9. \A r \in Series : \A c \in PostedIn(r) : docs'[c].num = docs[c].num
  BY <1>2, <1>4, <1>6, <1>7, <1>8
<1>10. ASSUME NEW r \in Series
       PROVE  /\ {docs'[c].num : c \in PostedIn(r)'} = 1 .. last'[r]
              /\ \A c, e \in PostedIn(r)' : docs'[c].num = docs'[e].num => c = e
  <2>1. /\ {docs[c].num : c \in PostedIn(r)} = 1 .. last[r]
        /\ \A c, e \in PostedIn(r) : docs[c].num = docs[e].num => c = e
    BY <1>3 DEF GaplessNumbering
  <2>2. CASE r # s
    BY <2>1, <2>2, <1>4, <1>7, <1>9
  <2>3. CASE r = s
    <3>1. {docs'[c].num : c \in PostedIn(s)'} =
            {docs[c].num : c \in PostedIn(s)} \cup {n}
      <4>1. docs'[d].num = n
        BY <1>4
      <4> QED
        BY <4>1, <1>6, <1>9
    <3>2. (1 .. last[s]) \cup {n} = 1 .. n
      BY <1>2
    <3>3. \A c \in PostedIn(s) : docs[c].num # n
      BY <2>1, <2>3, <1>2
    <3>4. {docs'[c].num : c \in PostedIn(r)'} = 1 .. last'[r]
      BY <2>1, <2>3, <3>1, <3>2, <1>4
    <3>5. ASSUME NEW c \in PostedIn(s)', NEW e \in PostedIn(s)',
                 docs'[c].num = docs'[e].num
          PROVE  c = e
      <4>1. docs'[d].num = n
        BY <1>4
      <4> QED
        BY <2>1, <2>3, <3>3, <3>5, <4>1, <1>6, <1>9
    <3> QED
      BY <2>3, <3>4, <3>5
  <2> QED
    BY <2>2, <2>3
<1>11. GaplessNumbering'
  BY <1>10 DEF GaplessNumbering
<1> QED
  BY <1>5, <1>11

\* ... the entry with its fresh key and number keeps what holds of the
\* journal, ...
LEMMA CommitKeepsJournal ==
  ASSUME NEW w \in Workers, IInv, Commit(w)
  PROVE  /\ RefsBelow' /\ Idempotent' /\ OneEntryPerNumber'
         /\ CompanyScoped' /\ ReversalsMirror'
<1> DEFINE s == tx[w].series
           n == tx[w].num
           p == tx[w].prop
           new == Entry(p, <<s, n>>)
<1>1. s \in Series /\ last[s] \in Nat /\ n = last[s] + 1
  BY CommitFacts DEF Commit
<1>2. /\ last \in [Series -> Nat] /\ journal \in Seq(EntryRow)
      /\ RefsBelow /\ Idempotent /\ OneEntryPerNumber
      /\ CompanyScoped /\ ReversalsMirror
  BY DEF IInv, TypeOK, TablesOK
<1>3. last'[s] = n /\ \A r \in Series \ {s} : last'[r] = last[r]
  BY <1>1, <1>2 DEF Commit
<1>4. \A r \in Series : last[r] \in Nat /\ last'[r] \in Nat /\ last[r] <= last'[r]
  BY <1>1, <1>2, <1>3
<1>5. CASE tx[w].op = "post"
  <2>1. journal' = journal /\ s \in BareSeries
    BY <1>5, CommitFacts DEF Commit
  <2>2. RefsBelow'
    BY <1>2, <1>4, <2>1 DEF RefsBelow
  <2>3. OneEntryPerNumber'
    <3>1. \A r \in Series \ BareSeries : last'[r] = last[r]
      BY <1>3, <2>1
    <3> QED
      BY <3>1, <1>2, <2>1 DEF OneEntryPerNumber
  <2>4. Idempotent' /\ CompanyScoped'
    BY <1>2, <2>1 DEF Idempotent, CompanyScoped
  <2>5. ReversalsMirror'
    BY <1>2, <2>1 DEF ReversalsMirror
  <2> QED
    BY <2>2, <2>3, <2>4, <2>5
<1>6. CASE tx[w].op = "commit"
  <2>1. /\ journal' = Append(journal, new)
        /\ new \in EntryRow /\ p.key \notin CommittedKeys
        /\ \A i \in DOMAIN new.lines : new.lines[i].acct \in Chart[new.company]
    BY <1>6, CommitFacts DEF Commit, Entry
  <2>2. /\ DOMAIN journal = 1 .. Len(journal) /\ Len(journal) \in Nat
        /\ DOMAIN journal' = 1 .. Len(journal) + 1
        /\ \A e \in DOMAIN journal : journal'[e] = journal[e]
        /\ journal'[Len(journal) + 1] = new
    BY <1>2, <2>1, AppendFacts
  <2>3. new.key = p.key /\ new.ref = <<s, n>> /\ new.rev = 0
    BY DEF Entry
  <2> DEFINE N == Len(journal) + 1
  <2>4. \A e \in DOMAIN journal' : e = N \/ e \in DOMAIN journal
    BY <2>2
  <2> HIDE DEF new, s, n, p
  <2>5. RefsBelow'
    <3> SUFFICES ASSUME NEW e \in DOMAIN journal', NEW r \in Series, NEW m \in Nat,
                        journal'[e].ref = <<r, m>>
                 PROVE  m <= last'[r]
      BY DEF RefsBelow
    <3>1. CASE e \in DOMAIN journal
      BY <3>1, <1>2, <1>4, <2>2 DEF RefsBelow
    <3>2. CASE e = N
      BY <3>2, <1>1, <1>3, <2>2, <2>3
    <3> QED
      BY <3>1, <3>2, <2>4
  <2>6. Idempotent'
    <3>1. \A e \in DOMAIN journal : journal[e].key # NoKey => journal[e].key # new.key
      BY <2>1, <2>3 DEF CommittedKeys
    <3> QED
      BY <3>1, <1>2, <2>2, <2>4 DEF Idempotent
  <2>7. OneEntryPerNumber'
    <3>1. \A e \in DOMAIN journal : journal[e].ref # <<s, n>>
      BY <1>1, <1>2 DEF RefsBelow
    <3> SUFFICES ASSUME NEW r \in Series \ BareSeries, NEW m \in 1 .. last'[r]
                 PROVE  \E e \in DOMAIN journal' :
                          /\ journal'[e].ref = <<r, m>>
                          /\ \A f \in DOMAIN journal' : journal'[f].ref = <<r, m>> => f = e
      BY DEF OneEntryPerNumber
    <3>2. CASE r = s /\ m = n
      <4>1. N \in DOMAIN journal' /\ journal'[N].ref = <<r, m>>
        BY <3>2, <2>2, <2>3
      <4>2. \A f \in DOMAIN journal' : journal'[f].ref = <<r, m>> => f = N
        BY <3>1, <3>2, <2>2, <2>4
      <4> QED
        BY <4>1, <4>2
    <3>3. CASE ~(r = s /\ m = n)
      <4>1. m \in 1 .. last[r]
        BY <3>3, <1>1, <1>3, <1>4
      <4>2. PICK e \in DOMAIN journal :
              /\ journal[e].ref = <<r, m>>
              /\ \A f \in DOMAIN journal : journal[f].ref = <<r, m>> => f = e
        BY <4>1, <1>2 DEF OneEntryPerNumber
      <4>3. journal'[N].ref # <<r, m>>
        BY <3>3, <2>2, <2>3
      <4>4. e \in DOMAIN journal' /\ journal'[e].ref = <<r, m>>
        BY <4>2, <2>2
      <4>5. \A f \in DOMAIN journal' : journal'[f].ref = <<r, m>> => f = e
        BY <4>2, <4>3, <2>2, <2>4
      <4> QED
        BY <4>4, <4>5
    <3> QED
      BY <3>2, <3>3
  <2>8. CompanyScoped'
    BY <1>2, <2>1, <2>2, <2>4 DEF CompanyScoped
  <2>9. ReversalsMirror'
    <3> SUFFICES ASSUME NEW r \in DOMAIN journal', journal'[r].rev # 0
                 PROVE  /\ journal'[r].rev < r
                        /\ journal'[journal'[r].rev].company = journal'[r].company
                        /\ Len(journal'[journal'[r].rev].lines) = Len(journal'[r].lines)
                        /\ \A i \in DOMAIN journal'[r].lines :
                             /\ journal'[r].lines[i].acct =
                                  journal'[journal'[r].rev].lines[i].acct
                             /\ journal'[r].lines[i].debit =
                                  journal'[journal'[r].rev].lines[i].credit
                             /\ journal'[r].lines[i].credit =
                                  journal'[journal'[r].rev].lines[i].debit
      BY DEF ReversalsMirror
    <3>1. r \in DOMAIN journal /\ journal'[r] = journal[r]
      BY <2>2, <2>3, <2>4
    <3>2. journal[r] \in EntryRow
      BY <3>1, <1>2
    <3>3. journal[r].rev \in 1 .. Len(journal)
      BY <3>1, <3>2, <1>2, <2>2 DEF ReversalsMirror, EntryRow
    <3>4. journal'[journal[r].rev] = journal[journal[r].rev]
      BY <3>3, <2>2
    <3> QED
      BY <3>1, <3>4, <1>2 DEF ReversalsMirror
  <2> QED
    BY <2>5, <2>6, <2>7, <2>8, <2>9
<1> QED
  BY <1>5, <1>6 DEF Commit

\* ... and what the other transactions know still holds: none of them has this
\* document, this number or this key.
LEMMA CommitKeepsTxs ==
  ASSUME NEW w \in Workers, IInv, Commit(w)
  PROVE  AllFit' /\ Locks'
<1>1. /\ tx' = [tx EXCEPT ![w] = IdleTx] /\ tx \in [Workers -> TxRow]
      /\ docs \in [DocIds -> DocRow] /\ last \in [Series -> Nat]
      /\ journal \in Seq(EntryRow) /\ AllFit /\ Locks
  BY DEF IInv, TypeOK, Commit
<1>2. Locks'
  <2>1. Uncontended(w, IdleTx)
    BY DEF IdleTx, Uncontended
  <2> QED
    BY <2>1, <1>1, IdleFits, LocksKept DEF IInv
<1>3. /\ tx[w].series \in Series /\ tx[w].doc \in DocIds
      /\ tx[w].num > 0 /\ tx[w].doc # NoDoc
  <2>1. /\ tx[w].series \in Series /\ tx[w].doc \in DocIds
        /\ tx[w].num > 0
    BY CommitFacts DEF Commit
  <2> QED
    BY <2>1, LedgerAssumption
<1>4. /\ DOMAIN journal \subseteq DOMAIN journal'
      /\ tx[w].op = "post" => CommittedKeys' = CommittedKeys
      /\ tx[w].op = "commit" =>
           CommittedKeys' \subseteq CommittedKeys \cup {tx[w].prop.key}
  <2>1. CASE tx[w].op = "post"
    BY <2>1 DEF Commit, CommittedKeys
  <2>2. CASE tx[w].op = "commit"
    <3> DEFINE new == Entry(tx[w].prop, <<tx[w].series, tx[w].num>>)
    <3>1. new \in EntryRow /\ journal' = Append(journal, new)
      BY <2>2, CommitFacts DEF Commit
    <3>2. new.key = tx[w].prop.key
      BY DEF Entry
    <3> HIDE DEF new
    <3>3. /\ DOMAIN journal = 1 .. Len(journal) /\ Len(journal) \in Nat
          /\ DOMAIN journal' = 1 .. Len(journal) + 1
          /\ \A e \in DOMAIN journal : journal'[e] = journal[e]
          /\ journal'[Len(journal) + 1] = new
      BY <3>1, <1>1, AppendFacts
    <3>4. \A e \in DOMAIN journal' : e = Len(journal) + 1 \/ e \in DOMAIN journal
      BY <3>3
    <3> QED
      BY <2>2, <3>2, <3>3, <3>4 DEF CommittedKeys
  <2> QED
    BY <2>1, <2>2 DEF Commit
<1>5. ASSUME NEW v \in Workers PROVE TxFits(tx[v])'
  <2>1. CASE v = w
    <3>1. tx'[v] = IdleTx
      BY <2>1, <1>1
    <3> QED
      BY <3>1 DEF TxFits, IdleTx
  <2>2. CASE v # w
    <3>1. tx'[v] = tx[v] /\ TxFits(tx[v]) /\ tx[v] \in TxRow
      BY <2>2, <1>1 DEF AllFit
    <3>2. tx[v].doc # tx[w].doc /\ (tx[v].num > 0 => tx[v].series # tx[w].series)
      BY <2>2, <1>1, <1>3 DEF Locks
    <3>3. tx[v].doc \in DocIds => docs'[tx[v].doc] = docs[tx[v].doc]
      BY <3>2, <1>1 DEF Commit
    <3>4. ASSUME tx[v].op \in {"commit", "post"}, tx[v].pc # "number"
          PROVE  tx[v].num = last'[tx[v].series] + 1
      <4>1. tx[v].num = last[tx[v].series] + 1 /\ tx[v].series \in Series
        BY <3>1, <3>4 DEF TxFits
      <4>2. tx[v].num > 0
        BY <4>1, <1>1
      <4> QED
        BY <4>1, <4>2, <3>2, <1>1 DEF Commit
    <3>5. ASSUME tx[v].op \in {"commit", "validate"}, tx[v].pc \in {"lines", "commit"}
          PROVE  tx[v].prop.key \notin CommittedKeys'
      <4>1. /\ tx[v].prop.key \notin CommittedKeys /\ tx[v].prop.key \in Keys
            /\ HoldsKey(v, tx[v].prop.key)
        BY <3>1, <3>5, LedgerAssumption DEF TxFits, ProposalType, HoldsKey
      <4>2. CASE tx[w].op = "post"
        BY <4>1, <4>2, <1>4
      <4>3. CASE tx[w].op = "commit"
        <5>1. HoldsKey(w, tx[w].prop.key)
          BY <4>3 DEF HoldsKey, Commit
        <5>2. NoKey \notin CommittedKeys'
          BY DEF CommittedKeys
        <5> QED
          BY <4>1, <4>3, <5>1, <5>2, <2>2, <1>1, <1>4 DEF Locks
      <4> QED
        BY <4>2, <4>3 DEF Commit
    <3>6. tx[v].op = "reverse" => tx[v].rev \in DOMAIN journal'
      BY <3>1, <1>4 DEF TxFits
    <3> QED
      BY <3>1, <3>3, <3>4, <3>5, <3>6 DEF TxFits
  <2> QED
    BY <2>1, <2>2
<1> QED
  BY <1>2, <1>5 DEF AllFit

LEMMA CommitKeeps ==
  ASSUME NEW w \in Workers, IInv, Commit(w)
  PROVE  IInv'
<1>1. TypeOK'
  <2>1. TypeOK
    BY DEF IInv
  <2>2. /\ tx[w].series \in Series /\ tx[w].doc \in DocIds /\ tx[w].num \in Nat
        /\ tx[w].op = "commit" =>
             Entry(tx[w].prop, <<tx[w].series, tx[w].num>>) \in EntryRow
    BY CommitFacts DEF Commit
  <2>3. docs' \in [DocIds -> DocRow]
    <3>1. [status |-> "POSTED", series |-> tx[w].series, num |-> tx[w].num] \in DocRow
      BY <2>2 DEF DocRow
    <3> QED
      BY <2>1, <2>2, <3>1 DEF TypeOK, Commit
  <2>4. last' \in [Series -> Nat]
    BY <2>1, <2>2 DEF TypeOK, Commit
  <2>5. tx' \in [Workers -> TxRow]
    BY <2>1, IdleFits DEF TypeOK, Commit
  <2>6. journal' \in Seq(EntryRow)
    <3>1. CASE tx[w].op = "post"
      BY <3>1, <2>1 DEF TypeOK, Commit
    <3>2. CASE tx[w].op = "commit"
      BY <3>2, <2>1, <2>2, AppendFacts DEF TypeOK, Commit
    <3> QED
      BY <3>1, <3>2 DEF Commit
  <2> QED
    BY <2>3, <2>4, <2>5, <2>6 DEF TypeOK
<1> QED
  BY <1>1, CommitKeepsTxs, CommitKeepsNumbers, CommitKeepsJournal DEF IInv, TablesOK

\* The row a reversal inserts: typed, without a key or a document, and the
\* mirror of an entry already in the journal.
LEMMA ReversalFacts ==
  ASSUME NEW e \in DOMAIN journal, TypeOK
  PROVE  /\ ReversalOf(e) \in EntryRow
         /\ ReversalOf(e).company = journal[e].company
         /\ ReversalOf(e).key = NoKey /\ ReversalOf(e).ref = NoDoc
         /\ ReversalOf(e).rev = e
         /\ DOMAIN ReversalOf(e).lines = DOMAIN journal[e].lines
         /\ Len(ReversalOf(e).lines) = Len(journal[e].lines)
         /\ \A i \in DOMAIN journal[e].lines :
              /\ ReversalOf(e).lines[i] = InvertedLine(journal[e].lines[i])
              /\ ReversalOf(e).lines[i].acct = journal[e].lines[i].acct
              /\ ReversalOf(e).lines[i].debit = journal[e].lines[i].credit
              /\ ReversalOf(e).lines[i].credit = journal[e].lines[i].debit
<1> DEFINE old == journal[e]
           lines == [i \in DOMAIN old.lines |-> InvertedLine(old.lines[i])]
<1>1. old \in EntryRow /\ e \in Nat
  BY DEF TypeOK
<1>2. old.lines \in Seq(LineRow) /\ old.company \in Companies
  BY <1>1 DEF EntryRow
<1>3. /\ DOMAIN old.lines = 1 .. Len(old.lines) /\ Len(old.lines) \in Nat
      /\ \A i \in DOMAIN old.lines : old.lines[i] \in LineRow
  BY <1>2
<1>4. \A i \in DOMAIN old.lines :
        /\ InvertedLine(old.lines[i]) \in LineRow
        /\ InvertedLine(old.lines[i]).acct = old.lines[i].acct
        /\ InvertedLine(old.lines[i]).debit = old.lines[i].credit
        /\ InvertedLine(old.lines[i]).credit = old.lines[i].debit
  BY <1>3 DEF InvertedLine, LineRow
<1>5. lines \in Seq(LineRow) /\ Len(lines) = Len(old.lines)
  BY <1>3, <1>4
<1>6. ReversalOf(e) = [company |-> old.company, key |-> NoKey, ref |-> NoDoc,
                       lines |-> lines, rev |-> e]
  BY DEF ReversalOf
<1>7. ReversalOf(e) \in EntryRow
  <2> HIDE DEF lines
  <2> QED
    BY <1>1, <1>2, <1>5, <1>6, LedgerAssumption DEF EntryRow
<1> QED
  BY <1>3, <1>4, <1>5, <1>6, <1>7

LEMMA CommitReverseKeeps ==
  ASSUME NEW w \in Workers, IInv, CommitReverse(w)
  PROVE  IInv'
<1>1. TypeOK /\ AllFit /\ Locks /\ TablesOK
  BY DEF IInv
<1>2. PICK o \in DOMAIN journal : journal' = Append(journal, ReversalOf(o))
  BY <1>1 DEF CommitReverse, AllFit, TxFits
<1>3. tx' = [tx EXCEPT ![w] = IdleTx] /\ UNCHANGED <<docs, last>>
  BY DEF CommitReverse
<1> DEFINE new == ReversalOf(o)
           N == Len(journal) + 1
<1>4. /\ new \in EntryRow /\ new.company = journal[o].company
      /\ new.key = NoKey /\ new.ref = NoDoc /\ new.rev = o
      /\ DOMAIN new.lines = DOMAIN journal[o].lines
      /\ Len(new.lines) = Len(journal[o].lines)
      /\ \A i \in DOMAIN journal[o].lines :
           /\ new.lines[i].acct = journal[o].lines[i].acct
           /\ new.lines[i].debit = journal[o].lines[i].credit
           /\ new.lines[i].credit = journal[o].lines[i].debit
  BY <1>1, ReversalFacts
<1> HIDE DEF new
<1>5. /\ DOMAIN journal = 1 .. Len(journal) /\ Len(journal) \in Nat
      /\ DOMAIN journal' = 1 .. N
      /\ \A e \in DOMAIN journal : journal'[e] = journal[e]
      /\ journal'[N] = new /\ journal' \in Seq(EntryRow)
  BY <1>1, <1>2, <1>4, AppendFacts DEF TypeOK, new
<1>6. \A e \in DOMAIN journal' : e = N \/ e \in DOMAIN journal
  BY <1>5
<1>7. TypeOK'
  BY <1>1, <1>3, <1>5, IdleFits DEF TypeOK
<1>8. CommittedKeys' = CommittedKeys
  BY <1>4, <1>5, <1>6 DEF CommittedKeys
<1>9. AllFit'
  <2> SUFFICES ASSUME NEW v \in Workers PROVE TxFits(tx[v])'
    BY DEF AllFit
  <2>1. CASE v = w
    <3>1. tx'[v] = IdleTx
      BY <2>1, <1>1, <1>3 DEF TypeOK
    <3> QED
      BY <3>1 DEF TxFits, IdleTx
  <2>2. CASE v # w
    <3>1. tx'[v] = tx[v] /\ TxFits(tx[v])
      BY <2>2, <1>1, <1>3 DEF TypeOK, AllFit
    <3>2. DOMAIN journal \subseteq DOMAIN journal'
      BY <1>5
    <3> QED
      BY <3>1, <3>2, <1>3, <1>8 DEF TxFits
  <2> QED
    BY <2>1, <2>2
<1>10. Locks'
  <2>1. Uncontended(w, IdleTx)
    BY DEF IdleTx, Uncontended
  <2> QED
    BY <2>1, <1>1, <1>3, IdleFits, LocksKept
<1>11. RefsBelow'
  <2> SUFFICES ASSUME NEW e \in DOMAIN journal', NEW r \in Series, NEW m \in Nat,
                      journal'[e].ref = <<r, m>>
               PROVE  m <= last'[r]
    BY DEF RefsBelow
  <2>1. <<r, m>> # NoDoc
    BY LedgerAssumption
  <2>2. e \in DOMAIN journal
    BY <2>1, <1>4, <1>5, <1>6
  <2> QED
    BY <2>2, <1>1, <1>3, <1>5 DEF TablesOK, RefsBelow
<1>12. DraftsBare'
  BY <1>1, <1>3 DEF TablesOK, DraftsBare
<1>13. GaplessNumbering'
  BY <1>1, <1>3 DEF TablesOK, GaplessNumbering, PostedIn
<1>14. Idempotent'
  BY <1>1, <1>4, <1>5, <1>6 DEF TablesOK, Idempotent
<1>15. OneEntryPerNumber'
  <2> SUFFICES ASSUME NEW r \in Series \ BareSeries, NEW m \in 1 .. last[r]
               PROVE  \E e \in DOMAIN journal' :
                        /\ journal'[e].ref = <<r, m>>
                        /\ \A f \in DOMAIN journal' : journal'[f].ref = <<r, m>> => f = e
    BY <1>3 DEF OneEntryPerNumber
  <2>1. PICK e \in DOMAIN journal :
          /\ journal[e].ref = <<r, m>>
          /\ \A f \in DOMAIN journal : journal[f].ref = <<r, m>> => f = e
    BY <1>1 DEF TablesOK, OneEntryPerNumber
  <2>2. <<r, m>> # NoDoc
    <3>1. last[r] \in Nat
      BY <1>1 DEF TypeOK
    <3>2. m \in Nat
      BY <3>1
    <3> QED
      BY <3>2, LedgerAssumption
  <2>3. journal'[N].ref # <<r, m>>
    BY <2>2, <1>4, <1>5
  <2>4. e \in DOMAIN journal' /\ journal'[e].ref = <<r, m>>
    BY <2>1, <1>5
  <2>5. \A f \in DOMAIN journal' : journal'[f].ref = <<r, m>> => f = e
    BY <2>1, <2>3, <1>5, <1>6
  <2> QED
    BY <2>4, <2>5
<1>16. CompanyScoped'
  <2>1. CompanyScoped
    BY <1>1 DEF TablesOK
  <2>2. \A i \in DOMAIN new.lines : new.lines[i].acct \in Chart[new.company]
    BY <2>1, <1>4 DEF CompanyScoped
  <2> QED
    BY <2>1, <2>2, <1>5, <1>6 DEF CompanyScoped
<1>17. ReversalsMirror'
  <2> SUFFICES ASSUME NEW r \in DOMAIN journal', journal'[r].rev # 0
               PROVE  \E e \in DOMAIN journal :
                        /\ e = journal'[r].rev /\ e < r
                        /\ journal[e].company = journal'[r].company
                        /\ Len(journal[e].lines) = Len(journal'[r].lines)
                        /\ \A i \in DOMAIN journal'[r].lines :
                             /\ journal'[r].lines[i].acct = journal[e].lines[i].acct
                             /\ journal'[r].lines[i].debit = journal[e].lines[i].credit
                             /\ journal'[r].lines[i].credit = journal[e].lines[i].debit
    BY <1>5, SMTT(20) DEF ReversalsMirror
  <2>1. CASE r = N
    <3>1. journal'[r].rev = o /\ o < r
      BY <2>1, <1>4, <1>5
    <3> QED
      BY <2>1, <3>1, <1>4, <1>5
  <2>2. CASE r \in DOMAIN journal
    <3>1. journal'[r] = journal[r] /\ journal[r] \in EntryRow
      BY <2>2, <1>1, <1>5 DEF TypeOK
    <3>2. journal[r].rev \in Nat /\ journal[r].rev < r
      BY <2>2, <3>1, <1>1 DEF EntryRow, TablesOK, ReversalsMirror
    <3>3. journal[r].rev \in DOMAIN journal
      BY <2>2, <3>1, <3>2, <1>5
    <3> QED
      BY <2>2, <3>1, <3>2, <3>3, <1>1 DEF TablesOK, ReversalsMirror
  <2> QED
    BY <2>1, <2>2, <1>6
<1> QED
  BY <1>7, <1>9, <1>10, <1>11, <1>12, <1>13, <1>14, <1>15, <1>16, <1>17
     DEF IInv, TablesOK
-----------------------------------------------------------------------------
(* The invariant and what follows from it *)

\* The empty tables satisfy the invariant.
LEMMA InitEstablishes == Init => IInv
<1> SUFFICES ASSUME Init PROVE IInv
  OBVIOUS
<1>1. /\ docs = [d \in DocIds |-> NoRow] /\ last = [s \in Series |-> 0]
      /\ journal = <<>> /\ tx = [w \in Workers |-> IdleTx]
  BY DEF Init
<1>2. TypeOK
  BY <1>1, IdleFits DEF TypeOK, NoRow, DocRow
<1>3. AllFit
  BY <1>1, IdleFits DEF AllFit
<1>4. Locks
  BY <1>1 DEF Locks, HoldsKey, IdleTx
<1>5. DOMAIN journal = {}
  BY <1>1
<1>6. RefsBelow /\ Idempotent /\ CompanyScoped
  BY <1>5 DEF RefsBelow, Idempotent, CompanyScoped
<1>7. ReversalsMirror
  BY <1>5 DEF ReversalsMirror
<1>8. OneEntryPerNumber
  BY <1>1 DEF OneEntryPerNumber
<1>9. DraftsBare
  BY <1>1 DEF DraftsBare, NoRow
<1>10. GaplessNumbering
  <2>1. \A s \in Series : PostedIn(s) = {} /\ last[s] = 0
    BY <1>1 DEF PostedIn, NoRow
  <2> QED
    BY <2>1 DEF GaplessNumbering
<1> QED
  BY <1>2, <1>3, <1>4, <1>6, <1>7, <1>8, <1>9, <1>10 DEF IInv, TablesOK

\* A step that changes nothing.
LEMMA StutterKeeps ==
  ASSUME IInv, UNCHANGED vars
  PROVE  IInv'
<1>1. UNCHANGED <<docs, last, journal, tx>>
  BY DEF vars
<1>2. TypeOK' /\ Locks' /\ AllFit'
  BY <1>1 DEF IInv, TypeOK, Locks, HoldsKey, AllFit, TxFits, CommittedKeys
<1>3. RefsBelow' /\ DraftsBare' /\ Idempotent' /\ CompanyScoped'
  BY <1>1 DEF IInv, TablesOK, RefsBelow, DraftsBare, Idempotent, CompanyScoped
<1>4. GaplessNumbering'
  BY <1>1 DEF IInv, TablesOK, GaplessNumbering, PostedIn
<1>5. OneEntryPerNumber'
  BY <1>1, OneEntryKept DEF IInv, TablesOK
<1>6. ReversalsMirror'
  BY <1>1 DEF IInv, TablesOK, ReversalsMirror
<1> QED
  BY <1>2, <1>3, <1>4, <1>5, <1>6 DEF IInv, TablesOK

\* Every step keeps it: one case per action.
LEMMA StepKeeps == IInv /\ [Next]_vars => IInv'
<1> SUFFICES ASSUME IInv, [Next]_vars PROVE IInv'
  OBVIOUS
<1>1. ASSUME NEW d \in DocIds, NEW s \in BareSeries, CreateDraftDocument(d, s)
      PROVE  IInv'
  BY <1>1, CreateDraftKeeps
<1>2. ASSUME NEW w \in Workers, Call(w) PROVE IInv'
  <2>1. ASSUME NEW d \in DocIds, PostDocument(w, d) PROVE IInv'
    BY <2>1, PostDocumentKeeps
  <2>2. ASSUME NEW d \in DocIds, NEW s \in BareSeries, PostNewDocument(w, d, s)
        PROVE  IInv'
    BY <2>2, PostNewDocumentKeeps
  <2>3. ASSUME NEW p \in Proposals, NEW d \in DocIds, BeginExecute(w, p, "commit", d)
        PROVE  IInv'
    BY <2>3, BeginExecuteKeeps
  <2>4. ASSUME NEW p \in Proposals, BeginExecute(w, p, "validate", NoDoc)
        PROVE  IInv'
    BY <2>4, BeginExecuteKeeps
  <2>5. ASSUME NEW p \in Proposals, RejectProposal(w, p) PROVE IInv'
    <3>1. UNCHANGED vars
      BY <2>5 DEF RejectProposal
    <3> QED
      BY <3>1, StutterKeeps
  <2>6. ASSUME NEW e \in DOMAIN journal, ReverseCheck(w, e) PROVE IInv'
    BY <2>6, ReverseCheckKeeps
  <2> QED
    BY <1>2, <2>1, <2>2, <2>3, <2>4, <2>5, <2>6 DEF Call
<1>3. ASSUME NEW w \in Workers, Step(w) PROVE IInv'
  <2>1. CASE TakeNumber(w)
    BY <2>1, TakeNumberKeeps
  <2>2. CASE InsertEntry(w)
    BY <2>2, InsertEntryKeeps
  <2>3. CASE InsertLines(w)
    BY <2>3, InsertLinesKeeps
  <2>4. CASE Commit(w)
    BY <2>4, CommitKeeps
  <2>5. CASE EndValidate(w)
    BY <2>5, EndKeeps DEF EndValidate
  <2>6. CASE CommitReverse(w)
    BY <2>6, CommitReverseKeeps
  <2> QED
    BY <1>3, <2>1, <2>2, <2>3, <2>4, <2>5, <2>6 DEF Step
<1>4. ASSUME NEW w \in Workers, Rollback(w) PROVE IInv'
  BY <1>4, EndKeeps DEF Rollback
<1>5. CASE UNCHANGED vars
  BY <1>5, StutterKeeps
<1> QED
  BY <1>1, <1>2, <1>3, <1>4, <1>5 DEF Next

LEMMA Invariance == Spec => []IInv
BY InitEstablishes, StepKeeps, PTL DEF Spec

\* Every table and every open transaction keeps its type: no negative amount
\* is ever stored, whatever rates and amounts the proposals carry.
THEOREM TypeCorrect == Spec => []TypeOK
<1>1. IInv => TypeOK
  BY DEF IInv
<1> QED
  BY <1>1, Invariance, PTL

\* The numbers of every series have no gap and no duplicate, for any number of
\* handlers, documents and series.
THEOREM Gapless == Spec => []GaplessNumbering
<1>1. IInv => GaplessNumbering
  BY DEF IInv, TablesOK
<1> QED
  BY <1>1, Invariance, PTL

\* A key enters the journal at most once.
THEOREM KeysOnce == Spec => []Idempotent
<1>1. IInv => Idempotent
  BY DEF IInv, TablesOK
<1> QED
  BY <1>1, Invariance, PTL

\* Every number of a series the ledger posts to has exactly one entry.
THEOREM NumbersHaveEntries == Spec => []OneEntryPerNumber
<1>1. IInv => OneEntryPerNumber
  BY DEF IInv, TablesOK
<1> QED
  BY <1>1, Invariance, PTL

\* The lines of an entry are on accounts of its own company.
THEOREM Scoped == Spec => []CompanyScoped
<1>1. IInv => CompanyScoped
  BY DEF IInv, TablesOK
<1> QED
  BY <1>1, Invariance, PTL

\* A reversal is the mirror of an earlier entry.
THEOREM Mirrored == Spec => []ReversalsMirror
<1>1. IInv => ReversalsMirror
  BY DEF IInv, TablesOK
<1> QED
  BY <1>1, Invariance, PTL
-----------------------------------------------------------------------------
(* Steps *)

\* What one step does to the numbers and the journal: nothing, the commit of a
\* document or entry, or the commit of a reversal.
LEMMA StepCases ==
  ASSUME [Next]_vars
  PROVE  \/ UNCHANGED <<last, journal>> /\ \A d \in DocIds :
              docs[d].status = "POSTED" => docs'[d] = docs[d]
         \/ \E w \in Workers : Commit(w)
         \/ \E w \in Workers : CommitReverse(w)
<1>1. ASSUME NEW d \in DocIds, NEW s \in BareSeries, CreateDraftDocument(d, s)
      PROVE  UNCHANGED <<last, journal>> /\ \A c \in DocIds :
               docs[c].status = "POSTED" => docs'[c] = docs[c]
  BY <1>1 DEF CreateDraftDocument, FreshDocs
<1>2. ASSUME NEW w \in Workers, Call(w) PROVE UNCHANGED <<docs, last, journal>>
  BY <1>2 DEF Call, PostDocument, PostNewDocument, BeginExecute, RejectProposal,
              ReverseCheck, vars
<1>3. ASSUME NEW w \in Workers, Step(w)
      PROVE  UNCHANGED <<docs, last, journal>> \/ Commit(w) \/ CommitReverse(w)
  BY <1>3 DEF Step, TakeNumber, InsertEntry, InsertLines, EndValidate
<1>4. ASSUME NEW w \in Workers, Rollback(w) PROVE UNCHANGED <<docs, last, journal>>
  BY <1>4 DEF Rollback
<1> QED
  BY <1>1, <1>2, <1>3, <1>4 DEF Next, vars

\* What a commit or a reversal appends.
LEMMA CommitAppends ==
  ASSUME NEW w \in Workers, IInv, Commit(w) \/ CommitReverse(w)
  PROVE  \/ journal' = journal
         \/ \E new \in EntryRow : journal' = Append(journal, new)
<1>1. CASE Commit(w)
  BY <1>1, CommitFacts DEF Commit
<1>2. CASE CommitReverse(w)
  BY <1>2, ReversalFacts DEF CommitReverse, IInv, AllFit, TxFits
<1> QED
  BY <1>1, <1>2

\* No step changes or removes a committed entry.
THEOREM JournalAppendOnly == Spec => AppendOnly
<1> DEFINE Grows == /\ Len(journal) <= Len(journal')
                    /\ \A e \in DOMAIN journal : journal'[e] = journal[e]
<1>1. ASSUME IInv, [Next]_vars PROVE Grows
  <2>1. journal \in Seq(EntryRow) /\ Len(journal) \in Nat
    BY <1>1 DEF IInv, TypeOK
  <2>2. CASE journal' = journal
    BY <2>1, <2>2
  <2>3. CASE \E new \in EntryRow : journal' = Append(journal, new)
    BY <2>1, <2>3, AppendFacts
  <2> QED
    BY <1>1, <2>2, <2>3, StepCases, CommitAppends
<1>2. IInv /\ [Next]_vars => [Grows]_vars
  BY <1>1
<1> QED
  BY <1>2, Invariance, PTL DEF Spec, AppendOnly

\* A posted document keeps its number for ever and numbers only grow.
THEOREM PostedStays == Spec => PostedForEver
<1> DEFINE Stays == /\ \A d \in DocIds : docs[d].status = "POSTED" => docs'[d] = docs[d]
                    /\ \A s \in Series : last'[s] >= last[s]
<1>1. ASSUME IInv, [Next]_vars PROVE Stays
  <2>1. last \in [Series -> Nat] /\ docs \in [DocIds -> DocRow]
    BY <1>1 DEF IInv, TypeOK
  <2>2. CASE UNCHANGED <<last, journal>> /\ \A d \in DocIds :
               docs[d].status = "POSTED" => docs'[d] = docs[d]
    BY <2>1, <2>2
  <2>3. ASSUME NEW w \in Workers, Commit(w) PROVE Stays
    <3>1. /\ tx[w].series \in Series /\ tx[w].doc \in DocIds
          /\ docs[tx[w].doc].status # "POSTED"
          /\ tx[w].num = last[tx[w].series] + 1
      BY <1>1, <2>3, CommitFacts DEF Commit
    <3>2. \A d \in DocIds \ {tx[w].doc} : docs'[d] = docs[d]
      BY <2>1, <2>3 DEF Commit
    <3>3. \A s \in Series : last'[s] = last[s] \/ last'[s] = last[s] + 1
      BY <2>1, <2>3, <3>1 DEF Commit
    <3> QED
      BY <2>1, <3>1, <3>2, <3>3
  <2>4. ASSUME NEW w \in Workers, CommitReverse(w) PROVE Stays
    BY <2>1, <2>4 DEF CommitReverse
  <2> QED
    BY <1>1, <2>2, <2>3, <2>4, StepCases
<1>2. IInv /\ [Next]_vars => [Stays]_vars
  BY <1>1
<1> QED
  BY <1>2, Invariance, PTL DEF Spec, PostedForEver
-----------------------------------------------------------------------------
(* The ledger implements the books *)

\* The commit of a transaction is one step of the books ...
LEMMA CommitIsBookStep ==
  ASSUME NEW w \in Workers, IInv, Commit(w)
  PROVE  Books!BooksNext
<1> DEFINE s == tx[w].series
           p == tx[w].prop
           new == Entry(p, <<s, tx[w].num>>)
<1>1. /\ s \in Series /\ tx[w].num = last[s] + 1
      /\ last \in [Series -> Nat] /\ journal \in Seq(EntryRow)
  BY CommitFacts DEF Commit, IInv, TypeOK
<1>2. last' = [last EXCEPT ![s] = last[s] + 1]
  BY <1>1 DEF Commit
<1>3. CASE tx[w].op = "post"
  <2>1. s \in BareSeries /\ journal' = journal
    BY <1>3, CommitFacts DEF Commit
  <2>2. Books!Issue(s)
    BY <1>2, <2>1 DEF Books!Issue, Books!Give
  <2> QED
    BY <1>1, <2>2 DEF Books!BooksNext
<1>4. CASE tx[w].op = "commit"
  <2>1. /\ journal' = Append(journal, new) /\ new \in EntryRow
        /\ p.key \notin CommittedKeys
    BY <1>4, CommitFacts DEF Commit
  <2>2. /\ new.ref = <<s, last[s] + 1>> /\ new.key = p.key /\ new.rev = 0
    BY <1>1 DEF Entry
  <2>3. new.key = NoKey \/ new.key \notin Books!UsedKeys
    BY <2>1, <2>2 DEF CommittedKeys, Books!UsedKeys
  <2> HIDE DEF new, p, s
  <2>4. Len(journal') = Len(journal) + 1 /\ journal'[Len(journal) + 1] = new
    BY <1>1, <2>1
  <2>5. Books!Post(s)
    BY <1>2, <2>1, <2>2, <2>3, <2>4 DEF Books!Post, Books!Give
  <2> QED
    BY <1>1, <2>5 DEF Books!BooksNext
<1> QED
  BY <1>3, <1>4 DEF Commit

\* ... and so is the commit of a reversal.
LEMMA ReverseIsBookStep ==
  ASSUME NEW w \in Workers, IInv, CommitReverse(w)
  PROVE  Books!BooksNext
<1>1. PICK o \in DOMAIN journal : journal' = Append(journal, ReversalOf(o))
  BY DEF CommitReverse, IInv, AllFit, TxFits
<1>2. Books!Undo
  BY <1>1 DEF CommitReverse, Books!Undo, ReversalOf, InvertedLine
<1> QED
  BY <1>2 DEF Books!BooksNext

\* Seen from outside, numbers and entries appear atomically: the ledger with
\* its concurrent transactions implements the books.
THEOREM RefinesBooks == Spec => ImplementsBooks
<1>1. Init => Books!BooksInit
  BY DEF Init, Books!BooksInit
<1>2. IInv /\ [Next]_vars => [Books!BooksNext]_(Books!bookVars)
  <2> SUFFICES ASSUME IInv, [Next]_vars
               PROVE  Books!BooksNext \/ UNCHANGED <<last, journal>>
    BY DEF Books!bookVars
  <2> QED
    BY StepCases, CommitIsBookStep, ReverseIsBookStep
<1> QED
  BY <1>1, <1>2, Invariance, PTL DEF Spec, ImplementsBooks, Books!BooksSpec
-----------------------------------------------------------------------------
(* Every entry balances, as far as rounding lets it *)

\* No valid proposal has a product that must be rounded.
NothingRounded == \A p \in Proposals : Validate(p) => WholeCents(p)

\* What rounding may do to the rows of an entry: nothing to the two rows of a
\* transfer, half a cent for each row of any other.
RoundedBalance(rows) ==
  /\ DebitTotal(rows) \in Int /\ CreditTotal(rows) \in Int
  /\ 2 * (DebitTotal(rows) - CreditTotal(rows)) <= Len(rows)
  /\ 2 * (CreditTotal(rows) - DebitTotal(rows)) <= Len(rows)
  /\ Len(rows) = 2 \/ NothingRounded => DebitTotal(rows) = CreditTotal(rows)

JournalBalance == \A e \in DOMAIN journal : RoundedBalance(journal[e].lines)

\* The rows of a valid proposal, ...
LEMMA ProposalBalance ==
  ASSUME NEW p \in Proposals, Validate(p)
  PROVE  RoundedBalance(StoredLines(p))
<1> DEFINE rows == StoredLines(p)
<1>1. ProposalNumbers(p)
  BY LedgerAssumption DEF ProposalType
<1>2. /\ DebitTotal(rows) \in Int /\ CreditTotal(rows) \in Int
      /\ Len(rows) = Len(p.lines)
      /\ 2 * (DebitTotal(rows) - CreditTotal(rows)) <= Len(rows)
      /\ 2 * (CreditTotal(rows) - DebitTotal(rows)) <= Len(rows)
  BY <1>1, RowsAlmostBalance
<1>3. Len(rows) = 2 => DebitTotal(rows) = CreditTotal(rows)
  BY <1>1, <1>2, TransfersBalance
<1>4. NothingRounded => DebitTotal(rows) = CreditTotal(rows)
  BY <1>1, WholeCentsBalance DEF NothingRounded
<1> QED
  BY <1>2, <1>3, <1>4 DEF RoundedBalance

\* ... and those of a reversal, whose totals change sides.
LEMMA ReversalBalance ==
  ASSUME TypeOK, NEW e \in DOMAIN journal, RoundedBalance(journal[e].lines)
  PROVE  RoundedBalance(ReversalOf(e).lines)
<1> DEFINE old == journal[e].lines
           new == ReversalOf(e).lines
<1>1. /\ DOMAIN new = DOMAIN old /\ Len(new) = Len(old)
      /\ \A i \in DOMAIN old : new[i].debit = old[i].credit /\ new[i].credit = old[i].debit
  BY ReversalFacts
<1>2. /\ IsFiniteSet(DOMAIN old)
      /\ \A i \in DOMAIN old : old[i].debit \in Int /\ old[i].credit \in Int
  <2>1. journal[e] \in EntryRow
    BY DEF TypeOK
  <2>2. old \in Seq(LineRow)
    BY <2>1 DEF EntryRow
  <2> HIDE DEF old
  <2>3. DOMAIN old = 1 .. Len(old) /\ Len(old) \in Nat /\ \A i \in DOMAIN old : old[i] \in LineRow
    BY <2>2
  <2>4. IsFiniteSet(1 .. Len(old))
    BY <2>3, FS_Interval
  <2> QED
    BY <2>3, <2>4 DEF LineRow
<1> HIDE DEF old, new
<1>3. /\ \A i \in DOMAIN old : Debits(new)[i] = Credits(old)[i]
      /\ \A i \in DOMAIN old : Credits(new)[i] = Debits(old)[i]
  BY <1>1 DEF Debits, Credits
<1>4. /\ DebitTotal(old) = SumFunctionOnSet(Debits(old), DOMAIN old)
      /\ CreditTotal(old) = SumFunctionOnSet(Credits(old), DOMAIN old)
  BY <1>2, DebitTotalIsSum, CreditTotalIsSum
<1>5. /\ DebitTotal(new) = SumFunctionOnSet(Debits(new), DOMAIN old)
      /\ CreditTotal(new) = SumFunctionOnSet(Credits(new), DOMAIN old)
  BY <1>1, <1>2, DebitTotalIsSum, CreditTotalIsSum
<1>6. \A i \in DOMAIN old : Debits(old)[i] \in Int /\ Credits(old)[i] \in Int
  BY <1>2 DEF Debits, Credits
<1>7. DebitTotal(new) = CreditTotal(old) /\ CreditTotal(new) = DebitTotal(old)
  BY <1>2, <1>3, <1>4, <1>5, <1>6, SumSame
<1>8. RoundedBalance(old)
  BY DEF old
<1>9. RoundedBalance(new)
  BY <1>1, <1>7, <1>8 DEF RoundedBalance
<1> QED
  BY <1>9 DEF new

LEMMA BalanceKept == IInv /\ JournalBalance /\ [Next]_vars => JournalBalance'
<1> SUFFICES ASSUME IInv, JournalBalance, [Next]_vars PROVE JournalBalance'
  OBVIOUS
<1>1. TypeOK /\ journal \in Seq(EntryRow)
  BY DEF IInv, TypeOK
<1>2. ASSUME NEW new \in EntryRow, journal' = Append(journal, new), RoundedBalance(new.lines)
      PROVE  JournalBalance'
  <2>1. \A e \in DOMAIN journal' :
          \/ journal'[e] = new
          \/ e \in DOMAIN journal /\ journal'[e] = journal[e]
    BY <1>1, <1>2, AppendFacts
  <2> QED
    BY <1>2, <2>1 DEF JournalBalance
<1>3. CASE journal' = journal
  BY <1>3 DEF JournalBalance
<1>4. ASSUME NEW w \in Workers, Commit(w), journal' # journal
      PROVE  JournalBalance'
  <2> DEFINE p == tx[w].prop
             new == Entry(p, <<tx[w].series, tx[w].num>>)
  <2>1. tx[w].op = "commit" /\ journal' = Append(journal, new)
    BY <1>4 DEF Commit
  <2>2. p \in Proposals /\ new \in EntryRow
    BY <1>4, <2>1, CommitFacts DEF Commit
  <2>3. Validate(p)
    BY <2>1 DEF IInv, AllFit, TxFits
  <2>4. RoundedBalance(new.lines)
    BY <2>2, <2>3, ProposalBalance DEF Entry
  <2> HIDE DEF new
  <2> QED
    BY <1>2, <2>1, <2>2, <2>4
<1>5. ASSUME NEW w \in Workers, CommitReverse(w)
      PROVE  JournalBalance'
  <2>1. PICK e \in DOMAIN journal : journal' = Append(journal, ReversalOf(e))
    BY <1>5 DEF CommitReverse, IInv, AllFit, TxFits
  <2>2. ReversalOf(e) \in EntryRow /\ RoundedBalance(ReversalOf(e).lines)
    BY <1>1, ReversalFacts, ReversalBalance DEF JournalBalance
  <2> QED
    BY <1>2, <2>1, <2>2
<1> QED
  BY <1>3, <1>4, <1>5, StepCases

LEMMA Balance == Spec => []JournalBalance
<1>1. Init => JournalBalance
  BY DEF Init, JournalBalance
<1> QED
  BY <1>1, BalanceKept, Invariance, PTL DEF Spec

\* README "Strict enforcement of debit = credit balance": the rows of every
\* entry balance as they are stored, reversals included, whatever the number of
\* lines, if no product of the proposals needs rounding.
THEOREM EntriesBalance ==
  ASSUME NothingRounded
  PROVE  Spec => []StoredBalance
<1>1. JournalBalance => StoredBalance
  BY DEF JournalBalance, RoundedBalance, StoredBalance
<1> QED
  BY <1>1, Balance, PTL

\* And without that assumption, for any rates and amounts: an entry of two
\* lines balances, any other is off by at most half a cent for each line.
THEOREM EntriesAlmostBalance ==
  Spec => [](\A e \in DOMAIN journal :
               LET rows == journal[e].lines
               IN  /\ 2 * (DebitTotal(rows) - CreditTotal(rows)) <= Len(rows)
                   /\ 2 * (CreditTotal(rows) - DebitTotal(rows)) <= Len(rows)
                   /\ Len(rows) = 2 => DebitTotal(rows) = CreditTotal(rows))
<1>1. JournalBalance =>
        \A e \in DOMAIN journal :
          LET rows == journal[e].lines
          IN  /\ 2 * (DebitTotal(rows) - CreditTotal(rows)) <= Len(rows)
              /\ 2 * (CreditTotal(rows) - DebitTotal(rows)) <= Len(rows)
              /\ Len(rows) = 2 => DebitTotal(rows) = CreditTotal(rows)
  BY DEF JournalBalance, RoundedBalance
<1> QED
  BY <1>1, Balance, PTL
-----------------------------------------------------------------------------
(* What the reports assume *)

\* An entry as the reports read it.
Reported(e) ==
  [i \in DOMAIN journal[e].lines |->
     [acct |-> journal[e].lines[i].acct, debit |-> journal[e].lines[i].debit,
      credit |-> journal[e].lines[i].credit]]

\* Entries are what Reporting takes for granted: lines on accounts of their
\* company whose debits equal their credits, and reversals inverted.
FitReports ==
  \A e \in DOMAIN journal :
    /\ BalancedLines(Reported(e), Chart[journal[e].company])
    /\ journal[e].rev # 0 => Reported(e) = Inverted(Reported(journal[e].rev))

\* An inverted line, field by field.
LEMMA Swapped ==
  ASSUME NEW a, NEW d, NEW c, NEW row, row = [acct |-> a, debit |-> d, credit |-> c]
  PROVE  [row EXCEPT !.debit = row.credit, !.credit = row.debit]
           = [acct |-> a, debit |-> c, credit |-> d]
<1> DEFINE x == [row EXCEPT !.debit = c, !.credit = d]
           y == [acct |-> a, debit |-> c, credit |-> d]
<1>1. row.debit = d /\ row.credit = c
  OBVIOUS
<1>2. /\ DOMAIN x = {"acct", "debit", "credit"}
      /\ x["acct"] = a /\ x["debit"] = c /\ x["credit"] = d
  OBVIOUS
<1>3. /\ DOMAIN y = {"acct", "debit", "credit"}
      /\ y["acct"] = a /\ y["debit"] = c /\ y["credit"] = d
  OBVIOUS
<1>4. x = [k \in DOMAIN x |-> x[k]] /\ y = [k \in DOMAIN y |-> y[k]]
  OBVIOUS
<1>5. x = y
  <2> HIDE DEF x, y
  <2> QED
    BY <1>2, <1>3, <1>4
<1> QED
  BY <1>1, <1>5

\* The rows of a posted entry are a finite sequence of natural amounts.
LEMMA RowsAreLines ==
  ASSUME TypeOK, NEW e \in DOMAIN journal
  PROVE  /\ journal[e].lines \in Seq(LineRow) /\ Len(journal[e].lines) \in Nat
         /\ DOMAIN journal[e].lines = 1 .. Len(journal[e].lines)
         /\ IsFiniteSet(DOMAIN journal[e].lines)
         /\ \A i \in DOMAIN journal[e].lines :
              /\ journal[e].lines[i].debit \in Nat /\ journal[e].lines[i].credit \in Nat
<1> DEFINE rows == journal[e].lines
<1>1. journal[e] \in EntryRow
  BY DEF TypeOK
<1>2. rows \in Seq(LineRow)
  BY <1>1 DEF EntryRow
<1> HIDE DEF rows
<1>3. Len(rows) \in Nat /\ DOMAIN rows = 1 .. Len(rows) /\ \A i \in DOMAIN rows : rows[i] \in LineRow
  BY <1>2
<1>4. IsFiniteSet(DOMAIN rows)
  BY <1>3, FS_Interval
<1>5. \A i \in DOMAIN rows : rows[i].debit \in Nat /\ rows[i].credit \in Nat
  BY <1>3 DEF LineRow
<1> QED
  BY <1>2, <1>3, <1>4, <1>5 DEF rows

\* An entry whose stored rows balance reads as a balanced entry of its company.
LEMMA ReportedBalances ==
  ASSUME TypeOK, CompanyScoped, StoredBalance, NEW e \in DOMAIN journal
  PROVE  BalancedLines(Reported(e), Chart[journal[e].company])
<1> DEFINE rows == journal[e].lines
           S == DOMAIN rows
           shown == Reported(e)
           f == [k \in DOMAIN shown |-> shown[k].debit - shown[k].credit]
           Lines == [acct : Chart[journal[e].company], debit : Nat, credit : Nat]
<1>1. /\ Len(rows) \in Nat /\ S = 1 .. Len(rows) /\ IsFiniteSet(S)
      /\ \A i \in S : rows[i].debit \in Nat /\ rows[i].credit \in Nat
  BY RowsAreLines
<1>2. \A i \in S : rows[i].acct \in Chart[journal[e].company]
  BY DEF CompanyScoped
<1>3. DebitTotal(rows) = CreditTotal(rows)
  BY Zenon DEF StoredBalance
<1>4. /\ DOMAIN shown = S
      /\ \A i \in S : /\ shown[i].debit = rows[i].debit /\ shown[i].credit = rows[i].credit
                       /\ shown[i] \in Lines
  BY <1>1, <1>2 DEF Reported
<1>5. shown \in Seq(Lines)
  <2>1. shown \in [1 .. Len(rows) -> Lines]
    BY <1>1, <1>4 DEF Reported
  <2> HIDE DEF rows, S, shown, Lines, f
  <2> QED
    BY <1>1, <2>1
<1>6. DOMAIN f = S /\ \A i \in S : f[i] = rows[i].debit - rows[i].credit
  BY <1>4
<1> HIDE DEF rows, S, shown, f, Lines
<1>7. /\ DebitTotal(rows) = SumFunctionOnSet(Debits(rows), DOMAIN rows)
      /\ CreditTotal(rows) = SumFunctionOnSet(Credits(rows), DOMAIN rows)
  BY <1>1, DebitTotalIsSum, CreditTotalIsSum DEF S
<1>8. \A i \in S : /\ Debits(rows)[i] \in Int /\ Credits(rows)[i] \in Int
                   /\ f[i] = Debits(rows)[i] - Credits(rows)[i]
  BY <1>1, <1>6 DEF Debits, Credits, S
<1>9. SumFunctionOnSet(f, S) = SumFunctionOnSet(Debits(rows), S) - SumFunctionOnSet(Credits(rows), S)
  BY <1>1, <1>8, SumDifference
<1>10. SumFunctionOnSet(Credits(rows), S) \in Int
  BY <1>1, <1>8, SumType
<1>11. SumFunction(f) = 0
  <2>1. SumFunction(f) = SumFunctionOnSet(f, S)
    BY <1>6 DEF SumFunction
  <2>2. SumFunctionOnSet(Debits(rows), S) = SumFunctionOnSet(Credits(rows), S)
    BY <1>3, <1>7 DEF S
  <2> QED
    BY <1>9, <1>10, <2>1, <2>2
<1> QED
  BY <1>5, <1>11 DEF BalancedLines, f, shown, Lines

\* A reversal reads as its original inverted.
LEMMA ReportedMirrors ==
  ASSUME TypeOK, ReversalsMirror, NEW r \in DOMAIN journal, journal[r].rev # 0
  PROVE  Reported(r) = Inverted(Reported(journal[r].rev))
<1> DEFINE e == journal[r].rev
           back == Reported(r)
           rows == Reported(e)
<1>1. /\ e < r /\ Len(journal[e].lines) = Len(journal[r].lines)
      /\ \A i \in DOMAIN journal[r].lines :
           /\ journal[r].lines[i].acct = journal[e].lines[i].acct
           /\ journal[r].lines[i].debit = journal[e].lines[i].credit
           /\ journal[r].lines[i].credit = journal[e].lines[i].debit
  BY DEF ReversalsMirror
<1>2. e \in DOMAIN journal
  <2>1. journal \in Seq(EntryRow) /\ journal[r] \in EntryRow
    BY DEF TypeOK
  <2>2. e \in Nat
    BY <2>1 DEF EntryRow
  <2> QED
    BY <1>1, <2>1, <2>2
<1>3. DOMAIN journal[e].lines = DOMAIN journal[r].lines
  BY <1>1, <1>2, RowsAreLines
<1> HIDE DEF e
<1>4. /\ DOMAIN back = DOMAIN rows /\ DOMAIN Inverted(rows) = DOMAIN rows
      /\ DOMAIN rows = DOMAIN journal[r].lines
  BY <1>3 DEF Reported, Inverted
<1>5. ASSUME NEW i \in DOMAIN rows PROVE back[i] = Inverted(rows)[i]
  <2>1. back[i] = [acct |-> journal[r].lines[i].acct, debit |-> journal[r].lines[i].debit,
                   credit |-> journal[r].lines[i].credit]
    BY <1>4 DEF Reported
  <2>2. rows[i] = [acct |-> journal[e].lines[i].acct, debit |-> journal[e].lines[i].debit,
                   credit |-> journal[e].lines[i].credit]
    BY <1>3, <1>4 DEF Reported
  <2>3. Inverted(rows)[i] = [rows[i] EXCEPT !.debit = rows[i].credit, !.credit = rows[i].debit]
    BY DEF Inverted
  <2> HIDE DEF back, rows
  <2>4. Inverted(rows)[i] = [acct |-> journal[e].lines[i].acct, debit |-> journal[e].lines[i].credit,
                             credit |-> journal[e].lines[i].debit]
    <3> DEFINE a == journal[e].lines[i].acct
               d == journal[e].lines[i].debit
               c == journal[e].lines[i].credit
               row == rows[i]
    <3>1. row = [acct |-> a, debit |-> d, credit |-> c]
      BY <2>2
    <3>2. Inverted(rows)[i] = [row EXCEPT !.debit = row.credit, !.credit = row.debit]
      BY <2>3
    <3> HIDE DEF a, d, c, row
    <3>3. [row EXCEPT !.debit = row.credit, !.credit = row.debit]
            = [acct |-> a, debit |-> c, credit |-> d]
      BY <3>1, Swapped, Zenon
    <3>4. Inverted(rows)[i] = [acct |-> a, debit |-> c, credit |-> d]
      BY <3>2, <3>3, Zenon
    <3> QED
      BY <3>4 DEF a, d, c
  <2> QED
    BY <1>1, <1>4, <2>1, <2>4
<1>6. back = [i \in DOMAIN back |-> back[i]] /\ Inverted(rows) = [i \in DOMAIN Inverted(rows) |-> Inverted(rows)[i]]
  BY DEF Reported, Inverted
<1> HIDE DEF back, rows
<1>7. back = Inverted(rows)
  BY <1>4, <1>5, <1>6
<1> QED
  BY <1>7 DEF back, rows, e

\* What Reporting assumes of the journal the ledger keeps: each entry balances
\* to the cent on its company's accounts, if no product of the proposals needs
\* rounding, and each reversal is its original inverted.
THEOREM EntriesFitReports ==
  ASSUME NothingRounded
  PROVE  Spec => []FitReports
<1>1. TypeOK /\ CompanyScoped /\ ReversalsMirror /\ StoredBalance => FitReports
  BY ReportedBalances, ReportedMirrors DEF FitReports
<1>2. Spec => []StoredBalance
  BY EntriesBalance
<1> QED
  BY <1>1, <1>2, TypeCorrect, Scoped, Mirrored, PTL
=============================================================================
