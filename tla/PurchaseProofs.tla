---------------------------- MODULE PurchaseProofs ----------------------------
(***************************************************************************)
(* Proofs about PurchaseOrders, for every set of handlers, orders,         *)
(* products, order lines and requests and every calendar.                  *)
(*                                                                         *)
(* The inductive invariant IInv adds to the properties what a running      *)
(* ReceivePO knows (RunFits: its order is past DRAFT, what it summed is    *)
(* still a lower bound of what was received, and a line it has got past    *)
(* left a receipt) and what the rows of an order imply of each other       *)
(* (OrderFits).                                                            *)
(***************************************************************************)
EXTENDS PurchaseOrders, TLAPS

-----------------------------------------------------------------------------
(* The inductive invariant *)

LineRow == [kind : Kinds, prod : Products \cup {None}, qty : Int]
ItemRow == [line : Nat \ {0}, qty : Int]
RunRow == [pc : {"idle", "check", "post", "finish"}, po : POs \cup {None},
           req : Seq(ItemRow), i : Nat, day : Nat, seen : Nat]

Types ==
  /\ status \in [POs -> DOMAIN Rank]
  /\ lines \in [POs -> Seq(LineRow)]
  /\ moved \in [POs -> SUBSET LineNos]
  /\ received \in [POs -> [LineNos -> Nat]]
  /\ stock \in [Products -> Nat]
  /\ docs \in [POs -> [PO : Nat, PI : Nat]]
  /\ paid \in [POs -> Nat]
  /\ today \in Nat \ {0}
  /\ run \in [Workers -> RunRow]

Before == {"NONE", "DRAFT"}
Done == {"RECEIVED", "INVOICED", "PAID"}

\* Product x has a receipt of one of the days so far.
ReceiptOn(x, d) == d \in 1 .. today /\ ReceiptKey(x, d) \in posted

\* A call has committed a line of p and will go on, or fail.
InHand(p) == \E w \in Workers : /\ run[w].po = p
                                /\ run[w].pc # "idle"
                                /\ run[w].i > 1 \/ run[w].pc = "finish"

\* What the rows of order p imply of each other.
OrderFits(p) ==
  /\ DOMAIN lines[p] \subseteq LineNos
  /\ paid[p] = IF PaymentKey(p) \in posted THEN 1 ELSE 0
  /\ docs[p].PO = IF status[p] \in Before THEN 0 ELSE 1
  /\ status[p] \in Before => ~Receipted(p)
  /\ status[p] \in Done => Receipted(p)
  /\ status[p] = "APPROVED" /\ Receipted(p) => p \in failed \/ InHand(p)

\* What the receipts of line l of order p imply: it has a movement, and a line
\* of goods has the key of its product and some day, an over-received one those
\* of two days.
LineFits(p, l) ==
  /\ received[p][l] > 0 => l \in moved[p]
  /\ l \in DOMAIN lines[p] /\ lines[p][l].kind = "goods" /\ received[p][l] > 0 =>
       /\ \E d \in Nat : ReceiptOn(lines[p][l].prod, d)
       /\ received[p][l] > lines[p][l].qty =>
            /\ lines[p][l].qty > 0
            /\ \E d, e \in Nat : /\ d # e /\ ReceiptOn(lines[p][l].prod, d)
                                 /\ ReceiptOn(lines[p][l].prod, e)

\* What a call of ReceivePO knows, whatever the others do.
RunFits(r) ==
  IF r.pc = "idle" THEN r = IdleRun
  ELSE /\ r.po \in POs /\ r.req \in Requests
       /\ r.i \in 1 .. Len(r.req) /\ r.day \in 1 .. today
       /\ status[r.po] \notin Before
       /\ r.i > 1 \/ r.pc = "finish" => Receipted(r.po)
       /\ r.pc = "post" =>
            /\ Item(r).qty > 0 /\ Item(r).line \in DOMAIN lines[r.po]
            /\ OrderLine(r).kind \in {"goods", "service"}
            /\ OrderLine(r).kind = "goods" =>
                 /\ r.seen * QtyUnit + Item(r).qty <= OrderLine(r).qty * QtyUnit
                 /\ r.seen <= received[r.po][Item(r).line]

IInv ==
  /\ Types
  /\ \A p \in POs : OrderFits(p)
  /\ \A p \in POs, l \in LineNos : LineFits(p, l)
  /\ \A w \in Workers : RunFits(run[w])

-----------------------------------------------------------------------------
(* Quantities *)

LEMMA RoundToType ==
  ASSUME NEW x \in Nat, NEW u \in Nat \ {0}
  PROVE  RoundTo(x, u) \in Nat
<1>1. 2 * x + u \in Nat /\ 2 * u \in Nat /\ 2 * u > 0
  OBVIOUS
<1>2. \A a \in Nat, b \in Nat : b > 0 => a \div b \in Nat
  OBVIOUS
<1> QED
  BY <1>1, <1>2 DEF RoundTo

LEMMA RoundedType ==
  ASSUME NEW x \in Int, NEW u \in Nat \ {0}
  PROVE  Rounded(x, u) \in Int
<1>1. CASE x < 0
  <2>1. RoundTo(-x, u) \in Nat
    BY <1>1, RoundToType
  <2> QED
    BY <1>1, <2>1 DEF Rounded
<1>2. CASE x >= 0
  <2>1. RoundTo(x, u) \in Nat
    BY <1>2, RoundToType
  <2> QED
    BY <1>2, <2>1 DEF Rounded
<1> QED
  BY <1>1, <1>2

\* What fits into the rest of a line still fits when it is rounded.
LEMMA RoundedFits ==
  ASSUME NEW q \in Nat \ {0}, NEW u \in Nat \ {0}, NEW seen \in Nat, NEW n \in Int,
         seen * u + q <= n * u
  PROVE  n > 0 /\ seen + RoundTo(q, u) <= n
<1> DEFINE m == n - seen
           t == RoundTo(q, u)
<1>1. m \in Int /\ q <= m * u
  OBVIOUS
<1>2. t \in Nat
  BY RoundToType
<1>3. 2 * u * t <= 2 * q + u
  <2> DEFINE a == 2 * q + u
             b == 2 * u
  <2>1. a \in Nat /\ b \in Nat /\ b > 0
    OBVIOUS
  <2>2. t = a \div b
    BY DEF RoundTo
  <2> HIDE DEF a, b, t
  <2>3. b * t <= a
    BY <2>1, <2>2
  <2> QED
    BY <2>3 DEF a, b
<1> HIDE DEF m, t
<1>4. m > 0
  <2>1. m <= 0 => m * u <= 0
    BY <1>1
  <2> QED
    BY <1>1, <2>1
<1>5. t <= m
  <2> SUFFICES ASSUME t >= m + 1 PROVE FALSE
    BY <1>1, <1>2
  <2>1. 2 * u * t >= 2 * u * (m + 1)
    BY <1>1, <1>2
  <2>2. 2 * u * (m + 1) = 2 * (m * u) + 2 * u
    BY <1>1
  <2> DEFINE v == m * u
             z == 2 * u * t
  <2>3. v \in Int /\ z \in Int
    BY <1>1, <1>2
  <2>4. z >= 2 * v + 2 * u /\ z <= 2 * q + u /\ q <= v
    BY <1>1, <1>3, <2>1, <2>2
  <2> HIDE DEF v, z
  <2> QED
    BY <2>3, <2>4
<1>6. n > 0 /\ seen + t <= n
  BY <1>1, <1>2, <1>4, <1>5 DEF m
<1> QED
  BY <1>6 DEF t

-----------------------------------------------------------------------------
(* Names, lines and requests *)

LEMMA RankFacts ==
  /\ DOMAIN Rank = {"NONE", "DRAFT", "APPROVED", "RECEIVED", "INVOICED", "PAID"}
  /\ \A s \in DOMAIN Rank : Rank[s] >= 3 <=> s \in Done
BY DEF Rank, Done

LEMMA LinesTyped ==
  /\ LineSets \subseteq Seq(LineRow)
  /\ \A ls \in LineSets : DOMAIN ls = 1 .. Len(ls) /\ Len(ls) \in Nat /\ DOMAIN ls \subseteq LineNos
  /\ Requests \subseteq Seq(ItemRow)
  /\ \A r \in Requests : r # <<>>
<1>1. LineSets \subseteq Seq(LineRow)
  BY POAssumption DEF LineRow
<1>2. \A ls \in LineSets : Len(ls) <= MaxLines
  BY POAssumption
<1>3. \A ls \in LineSets : DOMAIN ls = 1 .. Len(ls) /\ Len(ls) \in Nat
  BY <1>1
<1>4. \A ls \in LineSets : DOMAIN ls \subseteq LineNos
  BY <1>2, <1>3, POAssumption DEF LineNos
<1> QED
  BY <1>1, <1>3, <1>4, POAssumption DEF ItemRow

\* What an order of lines ls stores.
LEMMA StoredLines ==
  ASSUME NEW ls \in LineSets
  PROVE  LET new == [l \in DOMAIN ls |-> StoredLine(ls[l])] IN
         new \in Seq(LineRow) /\ DOMAIN new \subseteq LineNos
<1>1. ls \in Seq(LineRow) /\ DOMAIN ls = 1 .. Len(ls) /\ Len(ls) \in Nat /\ DOMAIN ls \subseteq LineNos
  BY LinesTyped
<1>2. ASSUME NEW l \in DOMAIN ls PROVE StoredLine(ls[l]) \in LineRow
  <2>1. ls[l] \in LineRow
    BY <1>1
  <2>2. QtyUnit * LineUnit \in Nat \ {0}
    BY POAssumption
  <2>3. Rounded(ls[l].qty, QtyUnit * LineUnit) \in Int
    <3>1. ls[l].qty \in Int
      BY <2>1 DEF LineRow
    <3> QED
      BY <2>2, <3>1, RoundedType
  <2> DEFINE q == Rounded(ls[l].qty, QtyUnit * LineUnit) * LineUnit
  <2>4. q \in Int
    BY <2>3, POAssumption
  <2>5. StoredLine(ls[l]) = [ls[l] EXCEPT !.qty = q]
    BY DEF StoredLine
  <2> HIDE DEF q
  <2> QED
    BY <2>1, <2>4, <2>5 DEF LineRow
<1> QED
  BY <1>1, <1>2

\* Line numbers of an order are line numbers.
LEMMA LineNumbers ==
  ASSUME IInv, NEW p \in POs
  PROVE  DOMAIN lines[p] \subseteq LineNos
BY DEF IInv, OrderFits

\* What a running call is at.
LEMMA AtItem ==
  ASSUME IInv, NEW w \in Workers, run[w].pc # "idle"
  PROVE  /\ RunFits(run[w]) /\ run[w] \in RunRow
         /\ run[w].po \in POs /\ run[w].req \in Seq(ItemRow)
         /\ run[w].i \in 1 .. Len(run[w].req)
         /\ Item(run[w]) \in ItemRow
<1>1. RunFits(run[w]) /\ run[w] \in RunRow
  BY DEF IInv, Types
<1>2. run[w].po \in POs /\ run[w].req \in Seq(ItemRow) /\ run[w].i \in 1 .. Len(run[w].req)
  BY <1>1 DEF RunFits, RunRow
<1>3. Item(run[w]) \in ItemRow
  BY <1>2 DEF Item
<1> QED
  BY <1>1, <1>2, <1>3

-----------------------------------------------------------------------------
(* What steps leave alone *)

\* Orders do not go back to DRAFT and keep their lines from then on; receipts
\* and keys are only added.
Grows ==
  /\ \A p \in POs : status[p] \notin Before =>
        status'[p] \notin Before /\ lines'[p] = lines[p]
  /\ \A p \in POs : moved[p] \subseteq moved'[p]
  /\ \A p \in POs, l \in LineNos : received[p][l] <= received'[p][l]
  /\ posted \subseteq posted'
  /\ today <= today'

LEMMA ReceiptedGrows ==
  ASSUME Grows, NEW p \in POs, Receipted(p)
  PROVE  Receipted(p)'
BY DEF Receipted, Grows, ServiceKey

\* A call that does not move stays fit while the others go on.
LEMMA RunKept ==
  ASSUME IInv, Types', Grows, NEW w \in Workers, run'[w] = run[w]
  PROVE  RunFits(run[w])'
<1> DEFINE r == run[w]
<1>1. RunFits(r) /\ r \in RunRow
  BY DEF IInv, Types
<1>2. CASE r.pc = "idle"
  BY <1>1, <1>2 DEF RunFits
<1>3. CASE r.pc # "idle"
  <2>1. /\ r.po \in POs /\ r.req \in Requests /\ r.i \in 1 .. Len(r.req) /\ r.day \in 1 .. today
        /\ status[r.po] \notin Before /\ Item(r) \in ItemRow
    BY <1>1, <1>3, AtItem DEF RunFits
  <2>2. r.day \in 1 .. today'
    <3>1. today \in Nat /\ today' \in Nat /\ today <= today'
      BY DEF IInv, Types, Grows
    <3> HIDE DEF r
    <3> QED
      BY <2>1, <3>1
  <2>3. status'[r.po] \notin Before /\ lines'[r.po] = lines[r.po]
    BY <2>1 DEF Grows
  <2>4. r.i > 1 \/ r.pc = "finish" => Receipted(r.po)'
    BY <1>1, <1>3, <2>1, ReceiptedGrows DEF RunFits, IInv
  <2>5. ASSUME r.pc = "post", OrderLine(r).kind = "goods"
        PROVE  r.seen <= received'[r.po][Item(r).line]
    <3>1. r.seen <= received[r.po][Item(r).line] /\ Item(r).line \in DOMAIN lines[r.po]
      BY <1>1, <1>3, <2>5 DEF RunFits
    <3>2. Item(r).line \in LineNos
      BY <2>1, <3>1, LineNumbers
    <3>3. /\ received[r.po][Item(r).line] \in Nat /\ received'[r.po][Item(r).line] \in Nat
          /\ received[r.po][Item(r).line] <= received'[r.po][Item(r).line] /\ r.seen \in Nat
      BY <1>1, <2>1, <3>2, SMTT(20) DEF IInv, Types, Grows, RunRow
    <3> QED
      BY <3>1, <3>3
  <2>6. r.pc = "post" =>
          /\ Item(r).qty > 0 /\ Item(r).line \in DOMAIN lines'[r.po]
          /\ OrderLine(r)' = OrderLine(r)
          /\ OrderLine(r).kind \in {"goods", "service"}
          /\ OrderLine(r).kind = "goods" =>
               r.seen * QtyUnit + Item(r).qty <= OrderLine(r).qty * QtyUnit
    BY <1>1, <1>3, <2>3 DEF RunFits, OrderLine, Item
  <2> QED
    BY <1>3, <2>1, <2>2, <2>3, <2>4, <2>5, <2>6 DEF RunFits, OrderLine, Item
<1> QED
  BY <1>2, <1>3

\* An order nobody changed.
LEMMA OrderKept ==
  ASSUME IInv, NEW p \in POs,
         status'[p] = status[p], lines'[p] = lines[p], docs'[p] = docs[p], paid'[p] = paid[p],
         received'[p] = received[p], moved'[p] = moved[p],
         PaymentKey(p) \in posted' <=> PaymentKey(p) \in posted,
         \A l \in LineNos : ServiceKey(p, l) \in posted' <=> ServiceKey(p, l) \in posted,
         failed \subseteq failed',
         InHand(p) => InHand(p)' \/ p \in failed'
  PROVE  OrderFits(p)'
<1>1. Receipted(p)' <=> Receipted(p)
  BY DEF Receipted, ServiceKey
<1>2. OrderFits(p)
  BY DEF IInv
<1> QED
  BY <1>1, <1>2 DEF OrderFits, PaymentKey

LEMMA LineKept ==
  ASSUME IInv, Types', NEW p \in POs, NEW l \in LineNos,
         lines'[p] = lines[p], received'[p][l] = received[p][l], moved[p] \subseteq moved'[p],
         posted \subseteq posted', today <= today'
  PROVE  LineFits(p, l)'
<1>1. \A x, d : ReceiptOn(x, d) => ReceiptOn(x, d)'
  <2> SUFFICES ASSUME NEW x, NEW d, ReceiptOn(x, d) PROVE ReceiptOn(x, d)'
    OBVIOUS
  <2>1. today \in Nat /\ today' \in Nat
    BY DEF IInv, Types
  <2> QED
    BY <2>1 DEF ReceiptOn, ReceiptKey
<1>2. LineFits(p, l)
  BY DEF IInv
<1> QED
  BY <1>1, <1>2 DEF LineFits

\* Keys of different kinds are different.
LEMMA KeysDiffer ==
  \A p, q, l, x, d :
    /\ PaymentKey(p) # ServiceKey(q, l) /\ PaymentKey(p) # ReceiptKey(x, d)
    /\ ServiceKey(q, l) # ReceiptKey(x, d)
    /\ PaymentKey(p) = PaymentKey(q) => p = q
BY DEF PaymentKey, ServiceKey, ReceiptKey

-----------------------------------------------------------------------------
(* The one-transaction operations *)

\* A step that runs no call and changes the orders of S only.
OnlyOrders(S) ==
  /\ UNCHANGED <<run, failed, moved, received>>
  /\ \A q \in POs \ S : /\ status'[q] = status[q] /\ lines'[q] = lines[q]
                        /\ docs'[q] = docs[q] /\ paid'[q] = paid[q]
                        /\ PaymentKey(q) \in posted' <=> PaymentKey(q) \in posted
  /\ \A q \in POs, l \in LineNos : ServiceKey(q, l) \in posted' <=> ServiceKey(q, l) \in posted

LEMMA OrderStep ==
  ASSUME IInv, Types', Grows, NEW S \in SUBSET POs, OnlyOrders(S),
         \A p \in S : OrderFits(p)' /\ \A l \in LineNos : LineFits(p, l)'
  PROVE  IInv'
<1> USE DEF OnlyOrders
<1>1. \A w \in Workers : RunFits(run[w])'
  BY RunKept
<1>2. \A q \in POs : InHand(q)' <=> InHand(q)
  BY DEF InHand
<1>3. \A q \in POs \ S : OrderFits(q)'
  BY <1>2, OrderKept
<1>4. posted \subseteq posted' /\ today <= today'
  BY DEF Grows
<1>5. \A q \in POs \ S, l \in LineNos : LineFits(q, l)'
  BY <1>4, LineKept
<1> QED
  BY <1>1, <1>3, <1>5 DEF IInv

LEMMA CreatePOKeeps ==
  ASSUME IInv, NEW p \in POs, NEW ls \in LineSets, CreatePO(p, ls)
  PROVE  IInv'
<1> DEFINE new == [l \in DOMAIN ls |-> StoredLine(ls[l])]
<1>0. new \in Seq(LineRow) /\ DOMAIN new \subseteq LineNos
  BY StoredLines
<1>1. /\ status \in [POs -> DOMAIN Rank] /\ lines \in [POs -> Seq(LineRow)]
      /\ received \in [POs -> [LineNos -> Nat]]
      /\ status[p] = "NONE" /\ status' = [status EXCEPT ![p] = "DRAFT"]
      /\ lines' = [lines EXCEPT ![p] = new]
      /\ UNCHANGED <<moved, received, stock, posted, docs, paid, today, run, failed>>
  BY DEF CreatePO, IInv, Types
<1> HIDE DEF new
<1>2. /\ status'[p] = "DRAFT" /\ lines'[p] = new
      /\ \A q \in POs \ {p} : status'[q] = status[q] /\ lines'[q] = lines[q]
  BY <1>1
<1>3. Types'
  <2>1. new \in Seq(LineRow) /\ "DRAFT" \in DOMAIN Rank
    BY <1>0, RankFacts
  <2>2. status' \in [POs -> DOMAIN Rank] /\ lines' \in [POs -> Seq(LineRow)]
    BY <1>1, <2>1
  <2> QED
    BY <1>1, <2>2 DEF IInv, Types
<1>4. Grows
  BY <1>1, <1>2 DEF Grows, Before, IInv, Types
<1>5. OrderFits(p) /\ ~Receipted(p)
  BY <1>1 DEF IInv, OrderFits, Before
<1>6. ~Receipted(p)'
  BY <1>1, <1>5 DEF Receipted, ServiceKey
<1>7. OrderFits(p)'
  BY <1>0, <1>1, <1>2, <1>5, <1>6 DEF OrderFits, Before, Done, PaymentKey
<1>8. ASSUME NEW l \in LineNos PROVE LineFits(p, l)'
  <2>1. ~(received[p][l] > 0)
    BY <1>5 DEF Receipted, IInv, LineFits
  <2> QED
    BY <1>1, <2>1 DEF LineFits
<1>9. OnlyOrders({p})
  BY <1>1, <1>2 DEF OnlyOrders
<1>10. \A q \in {p} : OrderFits(q)' /\ \A l \in LineNos : LineFits(q, l)'
  BY <1>7, <1>8
<1> QED
  BY <1>3, <1>4, <1>9, <1>10, OrderStep

LEMMA ApprovePOKeeps ==
  ASSUME IInv, NEW p \in POs, ApprovePO(p)
  PROVE  IInv'
<1>1. /\ status \in [POs -> DOMAIN Rank] /\ docs \in [POs -> [PO : Nat, PI : Nat]]
      /\ status[p] = "DRAFT" /\ status' = [status EXCEPT ![p] = "APPROVED"]
      /\ docs' = [docs EXCEPT ![p].PO = @ + 1]
      /\ UNCHANGED <<lines, moved, received, stock, posted, paid, today, run, failed>>
  BY DEF ApprovePO, IInv, Types
<1>2. /\ status'[p] = "APPROVED" /\ docs'[p].PO = docs[p].PO + 1
      /\ \A q \in POs \ {p} : status'[q] = status[q] /\ docs'[q] = docs[q]
  BY <1>1
<1>3. Types'
  <2>1. "APPROVED" \in DOMAIN Rank
    BY RankFacts
  <2>2. status' \in [POs -> DOMAIN Rank] /\ docs' \in [POs -> [PO : Nat, PI : Nat]]
    BY <1>1, <2>1
  <2> QED
    BY <1>1, <2>2 DEF IInv, Types
<1>4. Grows
  BY <1>1, <1>2 DEF Grows, Before, IInv, Types
<1>5. OrderFits(p) /\ ~Receipted(p)
  BY <1>1 DEF IInv, OrderFits, Before
<1>6. ~Receipted(p)'
  BY <1>1, <1>5 DEF Receipted, ServiceKey
<1>7. OrderFits(p)'
  BY <1>1, <1>2, <1>5, <1>6 DEF OrderFits, Before, Done, PaymentKey
<1>8. ASSUME NEW l \in LineNos PROVE LineFits(p, l)'
  <2>1. posted \subseteq posted' /\ today <= today'
    BY <1>4 DEF Grows
  <2> QED
    BY <1>1, <1>3, <2>1, LineKept
<1>9. OnlyOrders({p})
  BY <1>1, <1>2 DEF OnlyOrders
<1>10. \A q \in {p} : OrderFits(q)' /\ \A l \in LineNos : LineFits(q, l)'
  BY <1>7, <1>8
<1> QED
  BY <1>3, <1>4, <1>9, <1>10, OrderStep

LEMMA RecordVendorInvoiceKeeps ==
  ASSUME IInv, NEW p \in POs, RecordVendorInvoice(p)
  PROVE  IInv'
<1>1. /\ status \in [POs -> DOMAIN Rank] /\ docs \in [POs -> [PO : Nat, PI : Nat]]
      /\ status[p] = "RECEIVED" /\ status' = [status EXCEPT ![p] = "INVOICED"]
      /\ docs' = [docs EXCEPT ![p].PI = @ + 1]
      /\ UNCHANGED <<lines, moved, received, stock, posted, paid, today, run, failed>>
  BY DEF RecordVendorInvoice, IInv, Types
<1>2. /\ status'[p] = "INVOICED" /\ docs'[p].PO = docs[p].PO
      /\ \A q \in POs \ {p} : status'[q] = status[q] /\ docs'[q] = docs[q]
  BY <1>1
<1>3. Types'
  <2>1. "INVOICED" \in DOMAIN Rank
    BY RankFacts
  <2>2. status' \in [POs -> DOMAIN Rank] /\ docs' \in [POs -> [PO : Nat, PI : Nat]]
    BY <1>1, <2>1
  <2> QED
    BY <1>1, <2>2 DEF IInv, Types
<1>4. Grows
  BY <1>1, <1>2 DEF Grows, Before, IInv, Types
<1>5. OrderFits(p) /\ Receipted(p)
  BY <1>1 DEF IInv, OrderFits, Done
<1>6. Receipted(p)'
  BY <1>4, <1>5, ReceiptedGrows
<1>7. OrderFits(p)'
  BY <1>1, <1>2, <1>5, <1>6 DEF OrderFits, Before, Done, PaymentKey
<1>8. ASSUME NEW l \in LineNos PROVE LineFits(p, l)'
  <2>1. posted \subseteq posted' /\ today <= today'
    BY <1>4 DEF Grows
  <2> QED
    BY <1>1, <1>3, <2>1, LineKept
<1>9. OnlyOrders({p})
  BY <1>1, <1>2 DEF OnlyOrders
<1>10. \A q \in {p} : OrderFits(q)' /\ \A l \in LineNos : LineFits(q, l)'
  BY <1>7, <1>8
<1> QED
  BY <1>3, <1>4, <1>9, <1>10, OrderStep

LEMMA PayVendorKeeps ==
  ASSUME IInv, NEW p \in POs, PayVendor(p)
  PROVE  IInv'
<1>1. /\ status \in [POs -> DOMAIN Rank] /\ paid \in [POs -> Nat]
      /\ status[p] = "INVOICED" /\ status' = [status EXCEPT ![p] = "PAID"]
      /\ PaymentKey(p) \notin posted /\ posted' = posted \cup {PaymentKey(p)}
      /\ paid' = [paid EXCEPT ![p] = @ + 1]
      /\ UNCHANGED <<lines, moved, received, stock, docs, today, run, failed>>
  BY DEF PayVendor, IInv, Types
<1>2. /\ status'[p] = "PAID" /\ paid'[p] = paid[p] + 1
      /\ \A q \in POs \ {p} : status'[q] = status[q] /\ paid'[q] = paid[q]
  BY <1>1
<1>3. Types'
  <2>1. "PAID" \in DOMAIN Rank
    BY RankFacts
  <2>2. status' \in [POs -> DOMAIN Rank] /\ paid' \in [POs -> Nat]
    BY <1>1, <2>1
  <2> QED
    BY <1>1, <2>2 DEF IInv, Types
<1>4. Grows
  BY <1>1, <1>2, SMTT(20) DEF Grows, Before, IInv, Types
<1>5. OrderFits(p) /\ Receipted(p)
  BY <1>1 DEF IInv, OrderFits, Done
<1>6. Receipted(p)'
  BY <1>4, <1>5, ReceiptedGrows
<1>7. OrderFits(p)'
  <2>1. paid'[p] = 1 /\ PaymentKey(p) \in posted'
    BY <1>1, <1>2, <1>5 DEF OrderFits
  <2> QED
    BY <1>1, <1>2, <1>5, <1>6, <2>1 DEF OrderFits, Before, Done, PaymentKey
<1>8. ASSUME NEW l \in LineNos PROVE LineFits(p, l)'
  <2>1. posted \subseteq posted' /\ today <= today'
    BY <1>4 DEF Grows
  <2> QED
    BY <1>1, <1>3, <2>1, LineKept
<1>9. OnlyOrders({p})
  BY <1>1, <1>2, KeysDiffer DEF OnlyOrders
<1>10. \A q \in {p} : OrderFits(q)' /\ \A l \in LineNos : LineFits(q, l)'
  BY <1>7, <1>8
<1> QED
  BY <1>3, <1>4, <1>9, <1>10, OrderStep

LEMMA ReceiveStockKeeps ==
  ASSUME IInv, NEW x \in Products, NEW q \in Int, ReceiveStock(x, q)
  PROVE  IInv'
<1> DEFINE t == RoundTo(q, QtyUnit)
<1>0. t \in Nat
  <2>1. q \in Nat
    BY DEF ReceiveStock
  <2> QED
    BY <2>1, RoundToType, POAssumption
<1>1. /\ posted' = posted \cup {ReceiptKey(x, today)}
      /\ stock \in [Products -> Nat] /\ stock' = [stock EXCEPT ![x] = @ + t]
      /\ UNCHANGED <<status, lines, moved, received, docs, paid, today, run, failed>>
  BY DEF ReceiveStock, IInv, Types
<1> HIDE DEF t
<1>2. Types'
  BY <1>0, <1>1 DEF IInv, Types
<1>3. Grows
  BY <1>1 DEF Grows, IInv, Types
<1>4. OnlyOrders({})
  BY <1>1, KeysDiffer DEF OnlyOrders
<1> QED
  BY <1>2, <1>3, <1>4, OrderStep

LEMMA NextDayKeeps ==
  ASSUME IInv, NextDay
  PROVE  IInv'
<1>1. /\ today' = today + 1 /\ today \in Nat
      /\ UNCHANGED <<status, lines, moved, received, stock, posted, docs, paid, run, failed>>
  BY DEF NextDay, IInv, Types
<1>2. Types'
  BY <1>1 DEF IInv, Types
<1>3. Grows
  BY <1>1 DEF Grows, IInv, Types
<1>4. OnlyOrders({})
  BY <1>1 DEF OnlyOrders
<1> QED
  BY <1>2, <1>3, <1>4, OrderStep

-----------------------------------------------------------------------------
(* ReceivePO *)

\* Nobody changes an order by the step of a call.
Untouched == UNCHANGED <<status, lines, moved, received, stock, posted, docs, paid, today>>

LEMMA UntouchedGrows ==
  ASSUME IInv, Untouched, run' \in [Workers -> RunRow]
  PROVE  Grows /\ Types'
<1>1. Types'
  BY DEF IInv, Types, Untouched
<1>2. Grows
  BY DEF IInv, Types, Untouched, Grows
<1> QED
  BY <1>1, <1>2

\* The others of a step of w: their calls, and the orders it does not change.
LEMMA OtherCalls ==
  ASSUME IInv, Types', Grows, NEW w \in Workers, run' \in [Workers -> RunRow],
         \A v \in Workers \ {w} : run'[v] = run[v]
  PROVE  /\ \A v \in Workers \ {w} : RunFits(run[v])'
         /\ \A q \in POs : InHand(q) /\ (run[w].po # q \/ run[w].pc = "idle") => InHand(q)'
<1>1. \A v \in Workers \ {w} : RunFits(run[v])'
  BY RunKept
<1>2. ASSUME NEW q \in POs, InHand(q), run[w].po # q \/ run[w].pc = "idle" PROVE InHand(q)'
  <2>1. PICK v \in Workers : /\ run[v].po = q /\ run[v].pc # "idle"
                             /\ run[v].i > 1 \/ run[v].pc = "finish"
    BY <1>2 DEF InHand
  <2>2. v # w
    BY <1>2, <2>1
  <2>3. /\ run'[v].po = q /\ run'[v].pc # "idle" /\ (run'[v].i > 1 \/ run'[v].pc = "finish")
    BY <2>1, <2>2
  <2> QED
    BY <2>3 DEF InHand
<1> QED
  BY <1>1, <1>2

\* A step of a call that changes no table.
LEMMA CallOnly ==
  ASSUME IInv, Untouched, NEW w \in Workers, run' \in [Workers -> RunRow],
         \A v \in Workers \ {w} : run'[v] = run[v],
         RunFits(run[w])', failed \subseteq failed',
         \A q \in POs : InHand(q) => InHand(q)' \/ q \in failed'
  PROVE  IInv'
<1>1. Grows /\ Types'
  BY UntouchedGrows
<1>2. \A v \in Workers : RunFits(run[v])'
  BY <1>1, OtherCalls
<1>3. \A q \in POs : OrderFits(q)'
  BY OrderKept DEF Untouched
<1>4. \A q \in POs, l \in LineNos : LineFits(q, l)'
  <2>1. posted \subseteq posted' /\ today <= today'
    BY <1>1 DEF Grows
  <2> QED
    BY <1>1, <2>1, LineKept DEF Untouched
<1> QED
  BY <1>1, <1>2, <1>3, <1>4 DEF IInv

LEMMA IdleRunTyped ==
  IdleRun \in RunRow /\ IdleRun.pc = "idle"
BY DEF IdleRun, RunRow

\* A call that fails: the orders it had begun are now failed.
LEMMA FailKeeps ==
  ASSUME IInv, NEW w \in Workers, run[w].pc # "idle", FailCall(w), Untouched
  PROVE  IInv'
<1>1. /\ run \in [Workers -> RunRow] /\ run' = [run EXCEPT ![w] = IdleRun]
      /\ failed' = IF run[w].i > 1 \/ run[w].pc = "finish" THEN failed \cup {run[w].po} ELSE failed
  BY DEF FailCall, IInv, Types
<1>2. run' \in [Workers -> RunRow] /\ run'[w] = IdleRun /\ \A v \in Workers \ {w} : run'[v] = run[v]
  BY <1>1, IdleRunTyped
<1>3. RunFits(run[w])'
  BY <1>2, IdleRunTyped DEF RunFits, IdleRun
<1>4. Grows /\ Types'
  BY <1>2, UntouchedGrows
<1>5. failed \subseteq failed'
  BY <1>1
<1>6. ASSUME NEW q \in POs, InHand(q) PROVE InHand(q)' \/ q \in failed'
  <2>1. PICK v \in Workers : /\ run[v].po = q /\ run[v].pc # "idle"
                             /\ run[v].i > 1 \/ run[v].pc = "finish"
    BY <1>6 DEF InHand
  <2>2. CASE v = w
    BY <1>1, <2>1, <2>2
  <2>3. CASE v # w
    <3>1. run'[v] = run[v]
      BY <1>2, <2>3
    <3> QED
      BY <2>1, <3>1 DEF InHand
  <2> QED
    BY <2>2, <2>3
<1> QED
  BY <1>2, <1>3, <1>5, <1>6, CallOnly

LEMMA AbandonReceiveKeeps ==
  ASSUME IInv, NEW w \in Workers, AbandonReceive(w)
  PROVE  IInv'
BY FailKeeps DEF AbandonReceive, Untouched

LEMMA BeginReceiveKeeps ==
  ASSUME IInv, NEW w \in Workers, NEW p \in POs, NEW req \in Requests, BeginReceive(w, p, req)
  PROVE  IInv'
<1> DEFINE r == [pc |-> "check", po |-> p, req |-> req, i |-> 1, day |-> today, seen |-> 0]
<1>1. /\ run[w].pc = "idle" /\ status[p] = "APPROVED" /\ run' = [run EXCEPT ![w] = r]
      /\ Untouched /\ failed' = failed /\ run \in [Workers -> RunRow] /\ today \in Nat
  BY DEF BeginReceive, Untouched, IInv, Types
<1>2. req \in Seq(ItemRow) /\ Len(req) >= 1 /\ Len(req) \in Nat
  <2>1. req \in Seq(ItemRow) /\ req # <<>>
    BY LinesTyped
  <2> QED
    BY <2>1
<1>3. r \in RunRow
  BY <1>1, <1>2 DEF RunRow
<1> HIDE DEF r
<1>4. run' \in [Workers -> RunRow] /\ run'[w] = r /\ \A v \in Workers \ {w} : run'[v] = run[v]
  BY <1>1, <1>3
<1>5. Grows /\ Types'
  BY <1>1, <1>4, UntouchedGrows
<1>6. 1 <= today
  BY DEF IInv, Types
<1>7. RunFits(run[w])'
  BY <1>1, <1>2, <1>4, <1>6 DEF RunFits, r, Untouched, Before
<1>8. \A q \in POs : InHand(q) => InHand(q)'
  BY <1>1, <1>4, <1>5, OtherCalls
<1> QED
  BY <1>1, <1>4, <1>7, <1>8, CallOnly

LEMMA CheckLineKeeps ==
  ASSUME IInv, NEW w \in Workers, CheckLine(w)
  PROVE  IInv'
<1> DEFINE r == run[w]
<1>1. r.pc = "check" /\ Untouched
  BY DEF CheckLine, Untouched
<1>2. CASE ~Receivable(r)
  BY <1>1, <1>2, FailKeeps DEF CheckLine
<1>3. CASE Receivable(r)
  <2> DEFINE u == Checked(r)
  <2>1. /\ RunFits(r) /\ r \in RunRow /\ r.po \in POs /\ Item(r) \in ItemRow
        /\ r.i \in 1 .. Len(r.req)
    BY <1>1, AtItem
  <2>2. /\ Item(r).qty > 0 /\ Item(r).line \in DOMAIN lines[r.po]
        /\ OrderLine(r).kind \in {"goods", "service"}
        /\ OrderLine(r).kind = "goods" =>
             received[r.po][Item(r).line] * QtyUnit + Item(r).qty <= OrderLine(r).qty * QtyUnit
    BY <1>3 DEF Receivable
  <2>3. received[r.po][Item(r).line] \in Nat
    <3>1. Item(r).line \in LineNos
      BY <2>1, <2>2, LineNumbers
    <3> QED
      BY <2>1, <3>1 DEF IInv, Types
  <2>4. /\ u \in RunRow /\ u.pc = "post" /\ u.seen = received[r.po][Item(r).line]
        /\ u.po = r.po /\ u.req = r.req /\ u.i = r.i /\ u.day = r.day
    BY <2>1, <2>3 DEF Checked, RunRow
  <2>5. run' = [run EXCEPT ![w] = u] /\ failed' = failed /\ run \in [Workers -> RunRow]
    BY <1>3 DEF CheckLine, GoOn, IInv, Types
  <2> HIDE DEF u
  <2>6. /\ run' \in [Workers -> RunRow] /\ run'[w] = u
        /\ \A v \in Workers \ {w} : run'[v] = run[v]
    BY <2>4, <2>5
  <2>7. Item(u) = Item(r) /\ OrderLine(u) = OrderLine(r)
    BY <2>4 DEF Item, OrderLine
  <2>8. RunFits(u)
    <3>1. u.seen * QtyUnit + Item(u).qty = received[r.po][Item(r).line] * QtyUnit + Item(r).qty
      BY <2>4, <2>7
    <3>2. u.seen <= received[u.po][Item(u).line]
      BY <2>3, <2>4, <2>7
    <3>3. OrderLine(u).kind = "goods" =>
            u.seen * QtyUnit + Item(u).qty <= OrderLine(u).qty * QtyUnit
      BY <2>2, <2>7, <3>1
    <3> HIDE DEF r
    <3> QED
      BY <1>1, <2>1, <2>2, <2>4, <2>7, <3>2, <3>3 DEF RunFits, r
  <2>9. RunFits(run[w])'
    <3>1. RunFits(run'[w])
      BY <2>6, <2>8
    <3>2. \A p \in POs : Receipted(p)' <=> Receipted(p)
      BY <1>1 DEF Receipted, ServiceKey, Untouched
    <3> QED
      BY <1>1, <2>1, <2>4, <2>6, <3>1, <3>2 DEF RunFits, Untouched, OrderLine, Item
  <2>10. Grows /\ Types'
    BY <1>1, <2>6, UntouchedGrows
  <2>11. ASSUME NEW q \in POs, InHand(q) PROVE InHand(q)'
    <3>1. CASE r.po # q
      BY <2>6, <2>10, <2>11, <3>1, OtherCalls
    <3>2. CASE r.po = q
      <4>1. PICK v \in Workers : /\ run[v].po = q /\ run[v].pc # "idle"
                                 /\ run[v].i > 1 \/ run[v].pc = "finish"
        BY <2>11 DEF InHand
      <4>2. CASE v = w
        <5>1. run'[w].po = q /\ run'[w].pc # "idle" /\ run'[w].i > 1
          BY <1>1, <2>4, <2>6, <4>1, <4>2
        <5> QED
          BY <5>1 DEF InHand
      <4>3. CASE v # w
        <5>1. run'[v] = run[v]
          BY <2>6, <4>3
        <5> QED
          BY <4>1, <5>1 DEF InHand
      <4> QED
        BY <4>2, <4>3
    <3> QED
      BY <3>1, <3>2
  <2> QED
    BY <1>1, <2>5, <2>6, <2>9, <2>11, CallOnly
<1> QED
  BY <1>2, <1>3

\* The line is done: the next one, or the end.
LEMMA AdvanceFits ==
  ASSUME IInv, NEW w \in Workers, run[w].pc = "post"
  PROVE  LET u == Advance(run[w]) IN
         /\ u \in RunRow /\ u.po = run[w].po /\ u.req = run[w].req /\ u.day = run[w].day
         /\ u.pc \in {"check", "finish"} /\ u.i \in 1 .. Len(u.req)
         /\ u.i > 1 \/ u.pc = "finish"
<1> DEFINE r == run[w]
<1>1. r \in RunRow /\ r.i \in 1 .. Len(r.req) /\ r.req \in Seq(ItemRow)
  BY AtItem
<1>2. Len(r.req) \in Nat /\ r.i \in Nat
  BY <1>1
<1>3. CASE r.i < Len(r.req)
  <2> DEFINE u == [r EXCEPT !.i = @ + 1, !.pc = "check", !.seen = 0]
  <2>1. Advance(r) = u
    BY <1>3 DEF Advance
  <2>2. /\ u \in RunRow /\ u.po = r.po /\ u.req = r.req /\ u.day = r.day
        /\ u.pc = "check" /\ u.i = r.i + 1
    <3>1. r.i + 1 \in Nat
      BY <1>2
    <3> HIDE DEF r
    <3> QED
      BY <1>1, <3>1 DEF RunRow
  <2> HIDE DEF u, r
  <2>3. u.i \in 1 .. Len(u.req) /\ u.i > 1
    BY <1>1, <1>2, <1>3, <2>2
  <2> QED
    BY <2>1, <2>2, <2>3 DEF r
<1>4. CASE ~(r.i < Len(r.req))
  <2> DEFINE u == [r EXCEPT !.pc = "finish", !.seen = 0]
  <2>1. Advance(r) = u
    BY <1>4 DEF Advance
  <2>2. /\ u \in RunRow /\ u.po = r.po /\ u.req = r.req /\ u.day = r.day
        /\ u.pc = "finish" /\ u.i = r.i
    BY <1>1, <1>2 DEF RunRow
  <2> QED
    BY <1>1, <2>1, <2>2
<1> QED
  BY <1>3, <1>4

\* A call that has committed its line: the order has a receipt and the call
\* has it in hand.
LineDone(p) ==
  /\ UNCHANGED <<status, lines, docs, paid, failed, today>>
  /\ \A q \in POs : PaymentKey(q) \in posted' <=> PaymentKey(q) \in posted
  /\ \A q \in POs \ {p} :
       /\ received'[q] = received[q] /\ moved'[q] = moved[q]
       /\ \A l \in LineNos : ServiceKey(q, l) \in posted' <=> ServiceKey(q, l) \in posted

LEMMA PostedLine ==
  ASSUME IInv, Types', Grows, NEW w \in Workers, run[w].pc = "post",
         run' = [run EXCEPT ![w] = Advance(run[w])],
         NEW p \in POs, p = run[w].po, Receipted(p)', LineDone(p),
         \A q \in POs, l \in LineNos : LineFits(q, l)'
  PROVE  IInv'
<1> USE DEF LineDone
<1> DEFINE r == run[w]
           u == Advance(r)
<1>1. /\ u \in RunRow /\ u.po = p /\ u.req = r.req /\ u.day = r.day
      /\ u.pc \in {"check", "finish"} /\ u.i \in 1 .. Len(u.req)
      /\ u.i > 1 \/ u.pc = "finish"
  BY AdvanceFits
<1>2. RunFits(r) /\ p \in POs /\ r.req \in Requests /\ r.day \in 1 .. today
      /\ status[p] \notin Before
  BY AtItem DEF RunFits
<1>3. run \in [Workers -> RunRow]
  BY DEF IInv, Types
<1>4. run' \in [Workers -> RunRow] /\ run'[w] = u /\ \A v \in Workers \ {w} : run'[v] = run[v]
  BY <1>1, <1>3
<1> HIDE DEF u
<1>5. RunFits(run[w])'
  BY <1>1, <1>2, <1>4 DEF RunFits
<1>6. InHand(p)'
  <2>1. run'[w].po = p /\ run'[w].pc # "idle" /\ (run'[w].i > 1 \/ run'[w].pc = "finish")
    BY <1>1, <1>4
  <2> QED
    BY <2>1 DEF InHand
<1>7. /\ \A v \in Workers \ {w} : RunFits(run[v])'
      /\ \A q \in POs \ {p} : InHand(q) => InHand(q)'
  BY <1>4, OtherCalls
<1>8. OrderFits(p)'
  <2>1. OrderFits(p)
    BY <1>2 DEF IInv
  <2> QED
    BY <1>2, <1>6, <2>1 DEF OrderFits, PaymentKey
<1>9. \A q \in POs \ {p} : OrderFits(q)'
  BY <1>7, OrderKept
<1> QED
  BY <1>5, <1>7, <1>8, <1>9 DEF IInv

LEMMA PostGoodsKeeps ==
  ASSUME IInv, NEW w \in Workers, PostGoods(w)
  PROVE  IInv'
<1> DEFINE r == run[w]
<1> PICK p, x, day, n, q : /\ p = r.po /\ x = OrderLine(r).prod /\ day = r.day
                           /\ n = Item(r).line /\ q = Item(r).qty
  OBVIOUS
<1> DEFINE k == ReceiptKey(x, day)
           t == RoundTo(q, QtyUnit)
<1>1. r.pc = "post" /\ OrderLine(r).kind = "goods"
  BY DEF PostGoods
<1>2. CASE k \in posted
  BY <1>1, <1>2, FailKeeps DEF PostGoods, Untouched
<1>3. CASE k \notin posted
  <2>1. /\ posted' = posted \cup {k}
        /\ received' = [received EXCEPT ![p][n] = @ + t]
        /\ moved' = [moved EXCEPT ![p] = @ \cup {n}]
        /\ stock' = [stock EXCEPT ![x] = @ + t]
        /\ run' = [run EXCEPT ![w] = Advance(run[w])] /\ failed' = failed
        /\ status' = status /\ lines' = lines /\ docs' = docs /\ paid' = paid /\ today' = today
    BY <1>3 DEF PostGoods, Move, GoOn
  <2>2. /\ RunFits(r) /\ r \in RunRow /\ p \in POs /\ Item(r) \in ItemRow
        /\ n \in LineNos /\ n \in DOMAIN lines[p]
        /\ q > 0 /\ r.seen * QtyUnit + q <= OrderLine(r).qty * QtyUnit
        /\ r.seen <= received[p][n] /\ day \in 1 .. today
    <3>1. RunFits(r) /\ r \in RunRow /\ p \in POs /\ Item(r) \in ItemRow
      BY <1>1, AtItem
    <3>2. /\ n \in DOMAIN lines[p] /\ day \in 1 .. today
          /\ q > 0 /\ r.seen * QtyUnit + q <= OrderLine(r).qty * QtyUnit
          /\ r.seen <= received[p][n]
      BY <1>1, <3>1 DEF RunFits
    <3> QED
      BY <3>1, <3>2, LineNumbers
  <2>3. /\ received \in [POs -> [LineNos -> Nat]] /\ stock \in [Products -> Nat]
        /\ moved \in [POs -> SUBSET LineNos]
        /\ today \in Nat /\ q \in Nat \ {0} /\ r.seen \in Nat
        /\ lines[p] \in Seq(LineRow) /\ OrderLine(r).qty \in Int
    <3>1. lines[p] \in Seq(LineRow) /\ OrderLine(r) = lines[p][n]
      BY <2>2 DEF IInv, Types, OrderLine
    <3>2. OrderLine(r) \in LineRow
      BY <2>2, <3>1
    <3> QED
      BY <2>2, <3>1, <3>2 DEF IInv, Types, ItemRow, RunRow, LineRow
  <2>0. t \in Nat /\ OrderLine(r).qty > 0 /\ r.seen + t <= OrderLine(r).qty
    BY <2>2, <2>3, RoundedFits, RoundToType, POAssumption
  <2> HIDE DEF t
  <2>4. /\ received' \in [POs -> [LineNos -> Nat]]
        /\ received'[p][n] = received[p][n] + t
        /\ moved' \in [POs -> SUBSET LineNos] /\ n \in moved'[p]
        /\ \A o \in POs : moved[o] \subseteq moved'[o]
        /\ \A o \in POs \ {p} : moved'[o] = moved[o]
        /\ \A o \in POs, l \in LineNos : o # p \/ l # n => received'[o][l] = received[o][l]
        /\ \A o \in POs \ {p} : received'[o] = received[o]
    BY <2>0, <2>1, <2>2, <2>3, SMTT(20)
  <2>5. stock' \in [Products -> Nat]
    <3>1. \A y \in Products : stock[y] \in Nat /\ stock[y] + t \in Nat
      BY <2>0, <2>3
    <3>2. x \in Products => stock[x] + t \in Nat
      BY <3>1
    <3> QED
      BY <2>1, <2>3, <3>2
  <2>6. Advance(run[w]) \in RunRow
    BY <1>1, AdvanceFits
  <2>7. Types'
    BY <2>1, <2>4, <2>5, <2>6 DEF IInv, Types
  <2>8. Grows
    <3>1. \A o \in POs, l \in LineNos : received[o][l] <= received'[o][l]
      <4> SUFFICES ASSUME NEW o \in POs, NEW l \in LineNos
                   PROVE  received[o][l] <= received'[o][l]
        OBVIOUS
      <4>1. received[o][l] \in Nat /\ received[p][n] \in Nat
        BY <2>2, <2>3
      <4>2. CASE o = p /\ l = n
        BY <2>0, <2>3, <2>4, <4>1, <4>2
      <4>3. CASE o # p \/ l # n
        BY <2>4, <4>1, <4>3
      <4> QED
        BY <4>2, <4>3
    <3> QED
      BY <2>1, <2>3, <2>4, <3>1 DEF Grows
  <2>9. Receipted(p)'
    BY <2>4 DEF Receipted
  <2>10. /\ \A o \in POs : PaymentKey(o) \in posted' <=> PaymentKey(o) \in posted
         /\ \A o \in POs, l \in LineNos : ServiceKey(o, l) \in posted' <=> ServiceKey(o, l) \in posted
    BY <2>1, KeysDiffer
  <2>11. ASSUME NEW o \in POs, NEW l \in LineNos PROVE LineFits(o, l)'
    <3>1. CASE o # p \/ l # n
      <4>1. /\ received'[o][l] = received[o][l] /\ moved[o] \subseteq moved'[o]
            /\ posted \subseteq posted' /\ today <= today'
        BY <2>1, <2>3, <2>4, <3>1, SMTT(20)
      <4> QED
        BY <2>1, <2>7, <4>1, LineKept
    <3>2. CASE o = p /\ l = n
      <4>1. ReceiptOn(x, day)' /\ day \in Nat
        BY <2>1, <2>2, <2>3 DEF ReceiptOn, ReceiptKey
      <4>2. ~ReceiptOn(x, day)
        BY <1>3 DEF ReceiptOn
      <4>3. ASSUME NEW d \in Nat, ReceiptOn(x, d) PROVE ReceiptOn(x, d)' /\ d # day
        BY <2>1, <4>2, <4>3 DEF ReceiptOn, ReceiptKey
      <4>4. LineFits(p, n)
        BY <2>2 DEF IInv
      <4>5. /\ received[p][n] > 0 => \E d \in Nat : ReceiptOn(x, d)
            /\ lines[p][n] = OrderLine(r)
        BY <1>1, <2>2, <4>4 DEF LineFits, OrderLine
      <4>6. received'[p][n] > OrderLine(r).qty => received[p][n] > 0
        <5>1. received[p][n] \in Nat
          BY <2>2, <2>3
        <5> DEFINE m == OrderLine(r).qty
                   s == r.seen
        <5>2. m \in Int /\ s \in Nat /\ s + t <= m /\ s <= received[p][n]
          BY <2>0, <2>2, <2>3
        <5> HIDE DEF m, s
        <5>3. received[p][n] + t > m => received[p][n] > 0
          BY <2>0, <5>1, <5>2
        <5> QED
          BY <2>4, <5>3 DEF m
      <4>7. received'[p][n] > OrderLine(r).qty =>
               \E d, e \in Nat : d # e /\ ReceiptOn(x, d)' /\ ReceiptOn(x, e)'
        BY <4>1, <4>3, <4>5, <4>6
      <4>8. /\ \E d \in Nat : ReceiptOn(x, d)'
            /\ lines'[o][l] = OrderLine(r)
        BY <2>1, <3>2, <4>1, <4>5
      <4> QED
        BY <2>0, <2>4, <3>2, <4>7, <4>8 DEF LineFits
    <3> QED
      BY <3>1, <3>2
  <2>12. LineDone(p)
    BY <2>1, <2>4, <2>10 DEF LineDone
  <2> QED
    BY <1>1, <2>1, <2>2, <2>7, <2>8, <2>9, <2>11, <2>12, PostedLine
<1> QED
  BY <1>2, <1>3

LEMMA PostServiceKeeps ==
  ASSUME IInv, NEW w \in Workers, PostService(w)
  PROVE  IInv'
<1> DEFINE r == run[w]
<1> PICK p, n : p = r.po /\ n = Item(r).line
  OBVIOUS
<1> DEFINE k == ServiceKey(p, n)
<1>1. r.pc = "post" /\ OrderLine(r).kind = "service"
  BY DEF PostService
<1>2. CASE k \in posted
  BY <1>1, <1>2, FailKeeps DEF PostService, Untouched
<1>3. CASE k \notin posted
  <2>1. /\ posted' = posted \cup {k}
        /\ run' = [run EXCEPT ![w] = Advance(run[w])] /\ failed' = failed
        /\ status' = status /\ lines' = lines /\ docs' = docs /\ paid' = paid /\ today' = today
        /\ moved' = moved /\ received' = received /\ stock' = stock
    BY <1>3 DEF PostService, GoOn
  <2>2. p \in POs /\ n \in LineNos
    <3>1. RunFits(r) /\ p \in POs
      BY <1>1, AtItem
    <3>2. n \in DOMAIN lines[p]
      BY <1>1, <3>1 DEF RunFits
    <3> QED
      BY <3>1, <3>2, LineNumbers
  <2>3. Advance(run[w]) \in RunRow
    BY <1>1, AdvanceFits
  <2>4. Types'
    BY <2>1, <2>3 DEF IInv, Types
  <2>5. Grows
    BY <2>1 DEF Grows, IInv, Types
  <2>6. Receipted(p)'
    BY <2>1, <2>2 DEF Receipted, ServiceKey
  <2>7. /\ \A o \in POs : PaymentKey(o) \in posted' <=> PaymentKey(o) \in posted
        /\ \A o \in POs \ {p} : \A l \in LineNos :
              ServiceKey(o, l) \in posted' <=> ServiceKey(o, l) \in posted
    BY <2>1, KeysDiffer DEF ServiceKey
  <2>8. ASSUME NEW o \in POs, NEW l \in LineNos PROVE LineFits(o, l)'
    <3>1. posted \subseteq posted' /\ today <= today'
      BY <2>5 DEF Grows
    <3> QED
      BY <2>1, <2>4, <3>1, LineKept
  <2>9. LineDone(p)
    BY <2>1, <2>7 DEF LineDone
  <2> QED
    BY <1>1, <2>1, <2>2, <2>4, <2>5, <2>6, <2>8, <2>9, PostedLine
<1> QED
  BY <1>2, <1>3

\* The order of a call that finishes has a receipt, whatever its status is now.
LEMMA FinishReceiveKeeps ==
  ASSUME IInv, NEW w \in Workers, FinishReceive(w)
  PROVE  IInv'
<1> PICK p : p = run[w].po
  OBVIOUS
<1>1. /\ run[w].pc = "finish" /\ status' = [status EXCEPT ![p] = "RECEIVED"]
      /\ run' = [run EXCEPT ![w] = IdleRun] /\ failed' = failed
      /\ UNCHANGED <<lines, moved, received, stock, posted, docs, paid, today>>
      /\ run \in [Workers -> RunRow] /\ status \in [POs -> DOMAIN Rank]
  BY DEF FinishReceive, GoOn, IInv, Types
<1>2. p \in POs /\ status[p] \notin Before /\ Receipted(p) /\ OrderFits(p)
  BY <1>1, AtItem DEF RunFits, IInv
<1>3. /\ status'[p] = "RECEIVED" /\ \A q \in POs \ {p} : status'[q] = status[q]
      /\ run' \in [Workers -> RunRow] /\ run'[w] = IdleRun
      /\ \A v \in Workers \ {w} : run'[v] = run[v]
  BY <1>1, <1>2, IdleRunTyped
<1>4. Types'
  <2>1. "RECEIVED" \in DOMAIN Rank
    BY RankFacts
  <2> QED
    BY <1>1, <1>3, <2>1 DEF IInv, Types
<1>5. Grows
  BY <1>1, <1>3 DEF Grows, Before, IInv, Types
<1>6. RunFits(run[w])'
  BY <1>3, IdleRunTyped DEF RunFits, IdleRun
<1>7. /\ \A v \in Workers \ {w} : RunFits(run[v])'
      /\ \A q \in POs \ {p} : InHand(q) => InHand(q)'
  BY <1>3, <1>4, <1>5, OtherCalls
<1>8. OrderFits(p)'
  <2>1. Receipted(p)'
    BY <1>2, <1>5, ReceiptedGrows
  <2> QED
    BY <1>1, <1>2, <1>3, <2>1 DEF OrderFits, PaymentKey, Before, Done
<1>9. \A q \in POs \ {p} : OrderFits(q)'
  BY <1>1, <1>3, <1>7, OrderKept
<1>10. \A q \in POs, l \in LineNos : LineFits(q, l)'
  <2>1. posted \subseteq posted' /\ today <= today'
    BY <1>5 DEF Grows
  <2> QED
    BY <1>1, <1>4, <2>1, LineKept
<1> QED
  BY <1>4, <1>6, <1>7, <1>8, <1>9, <1>10 DEF IInv
-----------------------------------------------------------------------------
(* The invariant *)

LEMMA InitHolds == Init => IInv
<1> SUFFICES ASSUME Init PROVE IInv
  OBVIOUS
<1> USE DEF Init
<1>1. Types
  <2>1. "NONE" \in DOMAIN Rank /\ <<>> \in Seq(LineRow)
    BY RankFacts
  <2> QED
    BY <2>1, IdleRunTyped DEF Types
<1>2. \A p \in POs : ~Receipted(p)
  BY DEF Receipted
<1>3. \A p \in POs : OrderFits(p)
  BY <1>2 DEF OrderFits, Before, Done
<1>4. \A p \in POs, l \in LineNos : LineFits(p, l)
  BY DEF LineFits
<1>5. \A w \in Workers : RunFits(run[w])
  BY IdleRunTyped DEF RunFits
<1> QED
  BY <1>1, <1>3, <1>4, <1>5 DEF IInv

LEMMA StutterKeeps ==
  ASSUME IInv, UNCHANGED vars
  PROVE  IInv'
<1>1. Untouched /\ run' = run /\ failed' = failed
  BY DEF vars, Untouched
<1>2. Grows /\ Types'
  BY <1>1, UntouchedGrows DEF IInv, Types
<1>3. OnlyOrders({})
  BY <1>1 DEF OnlyOrders, Untouched
<1> QED
  BY <1>2, <1>3, OrderStep

LEMMA NextKeeps ==
  ASSUME IInv, [Next]_vars
  PROVE  IInv'
<1>1. ASSUME NEW x \in Products, NEW r \in Requests, NEW i \in DOMAIN r,
             ReceiveStock(x, r[i].qty)
      PROVE  IInv'
  <2>1. r[i] \in ItemRow
    BY LinesTyped
  <2>2. r[i].qty \in Int
    BY <2>1 DEF ItemRow
  <2> QED
    BY <1>1, <2>2, ReceiveStockKeeps
<1>2. ASSUME NEW p \in POs,
             \/ \E ls \in LineSets : CreatePO(p, ls)
             \/ ApprovePO(p) \/ RecordVendorInvoice(p) \/ PayVendor(p)
      PROVE  IInv'
  BY <1>2, CreatePOKeeps, ApprovePOKeeps, RecordVendorInvoiceKeeps, PayVendorKeeps
<1>3. ASSUME NEW w \in Workers, NEW p \in POs, NEW req \in Requests, BeginReceive(w, p, req)
      PROVE  IInv'
  BY <1>3, BeginReceiveKeeps
<1>4. ASSUME NEW w \in Workers, NEW p \in POs, RefuseReceive(w, p) PROVE IInv'
  BY <1>4, StutterKeeps DEF RefuseReceive
<1>5. ASSUME NEW w \in Workers, Step(w) PROVE IInv'
  BY <1>5, CheckLineKeeps, PostGoodsKeeps, PostServiceKeeps, FinishReceiveKeeps DEF Step
<1>6. ASSUME NEW w \in Workers, AbandonReceive(w) PROVE IInv'
  BY <1>6, AbandonReceiveKeeps
<1> QED
  BY <1>1, <1>2, <1>3, <1>4, <1>5, <1>6, NextDayKeeps, StutterKeeps DEF Next

LEMMA Invariance == Spec => []IInv
BY InitHolds, NextKeeps, PTL DEF Spec

-----------------------------------------------------------------------------
(* Theorems *)

\* Statuses, received quantities, stock and payments stay of their types, and a
\* running ReceivePO is at a line of its request.
THEOREM TypeCorrect == Spec => []TypeOK
<1>1. IInv => TypeOK
  <2> SUFFICES ASSUME IInv, NEW w \in Workers, run[w].pc # "idle"
               PROVE  run[w].i \in DOMAIN run[w].req
    BY DEF TypeOK, IInv, Types
  <2> QED
    BY AtItem
<1> QED
  BY <1>1, Invariance, PTL

\* PayVendor (purchase_order_service.go): a vendor is paid at most once for an
\* order and ApprovePO numbers it once, although the unconditional UPDATE of a
\* late ReceivePO can bring the order back to RECEIVED.
THEOREM VendorPaidOnce == Spec => []PaidOnce
<1>1. IInv => PaidOnce
  BY DEF IInv, OrderFits, PaidOnce, Before
<1> QED
  BY <1>1, Invariance, PTL

\* No order counts as received, invoiced or paid without a receipt in the
\* books, whichever calls failed half-way or finished late.
THEOREM ReceivedMeansReceipt == Spec => []ReceivedHasReceipt
<1>1. IInv => ReceivedHasReceipt
  <2> SUFFICES ASSUME IInv, NEW p \in POs, Rank[status[p]] >= 3 PROVE Receipted(p)
    BY DEF ReceivedHasReceipt
  <2>1. status[p] \in Done
    BY RankFacts DEF IInv, Types
  <2> QED
    BY <2>1 DEF IInv, OrderFits
<1> QED
  BY <1>1, Invariance, PTL

\* A line is over-received only across days, and only a line that orders
\* something: the receipt key of the product and the day is checked inside the
\* transaction, the ordered quantity is not; and a line of zero or less, which
\* CreatePO stores, has no receipt.
THEOREM OverReceiptNeedsTwoDays == Spec => []OverReceiptSpansDays
<1>1. IInv => OverReceiptSpansDays
  <2> SUFFICES ASSUME IInv, NEW p \in POs, NEW l \in LineNos, OverReceived(p, l)
               PROVE  /\ lines[p][l].qty > 0
                      /\ \E d, e \in 1 .. today :
                            d # e /\ ReceiptKey(lines[p][l].prod, d) \in posted
                                  /\ ReceiptKey(lines[p][l].prod, e) \in posted
    BY DEF OverReceiptSpansDays
  <2>1. LineFits(p, l)
    BY DEF IInv
  <2> QED
    BY <2>1 DEF LineFits, OverReceived, ReceiptOn
<1> QED
  BY <1>1, Invariance, PTL

\* An order of which something is received is left APPROVED, with nobody working
\* on it, only by a call that failed after it had committed a line.
THEOREM StrandedMeansFailure == Spec => []StrandedOnlyByFailure
<1>1. IInv => StrandedOnlyByFailure
  BY DEF IInv, OrderFits, InHand, StrandedOnlyByFailure
<1> QED
  BY <1>1, Invariance, PTL

\* A receipt takes a line over its ordered quantity only if another receipt of
\* the line was committed between this call's check and its own commit.
THEOREM OverReceiptMeansStale == Spec => OverReceiptOnlyStale
<1> DEFINE Stale(p, l) == \E w \in Workers :
                            /\ run[w].pc = "post" /\ run[w].po = p /\ Item(run[w]).line = l
                            /\ run[w].seen # received[p][l]
           Fair == \A p \in POs, l \in LineNos :
                     received'[p][l] > received[p][l] /\ OverReceived(p, l)' => Stale(p, l)
<1>1. ASSUME IInv, [Next]_vars PROVE Fair
  <2> SUFFICES ASSUME NEW p \in POs, NEW l \in LineNos,
                      received'[p][l] > received[p][l], OverReceived(p, l)'
               PROVE  Stale(p, l)
    OBVIOUS
  <2>1. received[p][l] \in Nat /\ received' # received
    BY <1>1 DEF IInv, Types
  <2>2. PICK w \in Workers : PostGoods(w)
    BY <1>1, <2>1 DEF Next, vars, NextDay, ReceiveStock, CreatePO, ApprovePO, RecordVendorInvoice,
       PayVendor, BeginReceive, RefuseReceive, Step, CheckLine, PostService, FinishReceive,
       AbandonReceive
  <2> DEFINE r == run[w]
  <2> DEFINE t == RoundTo(Item(r).qty, QtyUnit)
  <2>3. /\ r.pc = "post" /\ OrderLine(r).kind = "goods" /\ lines' = lines
        /\ received' = [received EXCEPT ![r.po][Item(r).line] = @ + t]
    BY <2>1, <2>2 DEF PostGoods, Move
  <2> HIDE DEF t
  <2>4. /\ RunFits(r) /\ r.po \in POs /\ Item(r) \in ItemRow /\ r \in RunRow
    BY <1>1, <2>3, AtItem
  <2>5. r.po = p /\ Item(r).line = l
    BY <1>1, <2>1, <2>3, <2>4 DEF IInv, Types
  <2>6. /\ Item(r).qty > 0 /\ r.seen * QtyUnit + Item(r).qty <= lines[p][l].qty * QtyUnit
        /\ received'[p][l] = received[p][l] + t
        /\ received'[p][l] > lines[p][l].qty
    BY <1>1, <2>3, <2>4, <2>5 DEF RunFits, OrderLine, OverReceived, IInv, Types
  <2>7. r.seen # received[p][l]
    <3>1. Item(r).qty \in Nat \ {0} /\ lines[p][l].qty \in Int /\ r.seen \in Nat
      <4>1. l \in DOMAIN lines[p] /\ lines[p] \in Seq(LineRow)
        BY <1>1, <2>3 DEF OverReceived, IInv, Types
      <4>2. lines[p][l] \in LineRow
        BY <4>1
      <4> QED
        BY <2>4, <2>6, <4>2 DEF ItemRow, LineRow, RunRow
    <3>2. t \in Nat /\ r.seen + t <= lines[p][l].qty
      BY <2>6, <3>1, RoundToType, RoundedFits, POAssumption DEF t
    <3> HIDE DEF r
    <3> QED
      BY <2>1, <2>6, <3>1, <3>2
  <2> QED
    BY <2>3, <2>5, <2>7
<1>2. IInv /\ [Next]_vars => [Fair]_vars
  BY <1>1
<1> QED
  BY <1>2, Invariance, PTL DEF Spec, OverReceiptOnlyStale
=============================================================================
