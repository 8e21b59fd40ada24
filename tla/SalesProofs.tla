----------------------------- MODULE SalesProofs -----------------------------
(***************************************************************************)
(* Proofs about SalesOrders, for every set of handlers, orders, products,  *)
(* baskets, quantities and days.                                           *)
(*                                                                         *)
(* The inductive invariant IInv adds to the properties what an open        *)
(* transaction knows (TxFits) and has changed (DeltaFits), that no two     *)
(* transactions hold the same row (Locks), which keys each status implies  *)
(* (KeysFollowStatus) and what an order can have reserved (MovesFit).      *)
(***************************************************************************)
EXTENDS SalesOrders, Totals

-----------------------------------------------------------------------------
(* The inductive invariant *)

\* The statements an operation goes through, in no particular order.
Stages == [none    |-> {"idle"},
           confirm |-> {"lock", "series", "lines", "commit"},
           ship    |-> {"lock", "lines", "cogs", "series", "entry", "commit"},
           cancel  |-> {"lock", "commit"},
           invoice |-> {"series", "entry", "mark", "commit"},
           payment |-> {"series", "entry", "mark", "commit"},
           receive |-> {"item", "series", "entry", "commit"}]

Ops == OrderOps \cup {"none", "receive"}
PCs == {"idle", "lock", "item", "series", "lines", "cogs", "entry", "mark", "commit"}
Keys == ({"goods-issue-order", "invoice-order", "payment-order"} \X Orders)
        \cup ({"goods-receipt"} \X (Products \X Days))
Rows == ({"order"} \X Orders) \cup ({"item"} \X Products)
        \cup ({"series"} \X {"SO", "GI", "SI", "JE", "GR"}) \cup ({"key"} \X Keys)
Change == [onHand : Int, reserved : Int]

TxRow == [op : Ops, pc : PCs, order : Orders \cup {None}, prod : Products \cup {None},
          day : Days \cup {None}, qty : Nat, i : Nat, held : SUBSET Rows,
          delta : [Products -> Change], key : Keys \cup {None}]

LineRow == [prod : Products, qty : Nat \ {0}]

\* How many units of p the first n lines of an order are about.
OfProduct(ls, p) == [j \in DOMAIN ls |-> IF ls[j].prod = p THEN ls[j].qty ELSE 0]
Ordered(ls, p, n) == SumFunctionOnSet(OfProduct(ls, p), 1 .. n)

\* The lines of its order that t is through with.
LinesDone(t) == IF t.pc = "lines" THEN t.i - 1 ELSE Len(lines[t.order])

Billed == {"INVOICED", "PAID"}
GoodsOut == {"SHIPPED", "INVOICED", "PAID"}

\* What holds of an open transaction wherever the others are.  Confirming,
\* shipping and cancelling read the status under the order's lock, so it
\* still is what they require; invoicing and paying read it before, so it may
\* have moved on.  A key that is written is not committed yet.
TxFits(t) ==
  /\ t.pc \in Stages[t.op]
  /\ t.pc = "idle" => t = IdleTx
  /\ t.op \in OrderOps => t.order \in Orders /\ t.prod = None
  /\ t.op = "receive" => t.prod \in Products /\ t.day \in Days
  /\ t.op \in OrderOps => status[t.order] # "NONE"
  /\ t.op \in {"confirm", "ship", "cancel"} /\ t.pc # "lock" =>
       <<"order", t.order>> \in t.held /\ status[t.order] = Required[t.op]
  /\ t.op = "invoice" => status[t.order] \in GoodsOut
  /\ t.op = "payment" => status[t.order] \in Billed
  /\ t.pc = "lines" => t.i \in 1 .. Len(lines[t.order])
  /\ t.key # None => /\ t.pc \in {"mark", "commit"}
                     /\ t.key = Key(t) /\ <<"key", t.key>> \in t.held /\ t.key \notin posted
  /\ t.op \in {"none", "confirm", "cancel"} => t.key = None
  /\ t.op \in {"invoice", "payment"} /\ t.pc \in {"mark", "commit"} => t.key # None

\* What a transaction has written to the stock rows: only to rows it holds,
\* leaving them within their bounds; a confirmation at most what the lines
\* ask for, of products that have a row; a shipment all of it, if the order
\* has reserved any, giving up as much of the reservations as there is.
DeltaFits(t) ==
  /\ t.op \in {"none", "cancel", "invoice", "payment"} => t.delta = NoChange
  /\ \A p \in Products :
       LET d == t.delta[p] IN
       /\ d.onHand # 0 \/ d.reserved # 0 => <<"item", p>> \in t.held
       /\ 0 <= item[p].reserved + d.reserved
       /\ item[p].reserved + d.reserved <= item[p].onHand + d.onHand
       /\ t.pc \in {"lock", "item"} => d.onHand = 0 /\ d.reserved = 0
       /\ t.op = "confirm" =>
            /\ d.onHand = 0
            /\ t.pc = "series" => d.reserved = 0
            /\ 0 <= d.reserved
            /\ d.reserved > 0 => item[p].exists
            /\ t.pc \in {"lines", "commit"} =>
                 d.reserved <= Ordered(lines[t.order], p, LinesDone(t))
       /\ t.op = "ship" =>
            /\ d.onHand <= 0
            /\ d.reserved = IF item[p].reserved < -d.onHand
                            THEN -item[p].reserved ELSE d.onHand
            /\ t.pc # "lock" /\ moves.reservation[t.order][p] > 0 =>
                 -d.onHand = Ordered(lines[t.order], p, LinesDone(t))
       /\ t.op = "receive" =>
            /\ d.reserved = 0
            /\ d.onHand = IF t.pc # "item" /\ p = t.prod THEN t.qty ELSE 0

AllFit == \A w \in Workers : TxFits(tx[w]) /\ DeltaFits(tx[w])

\* No two transactions hold the same row.
Locks == \A v, w \in Workers : v # w => tx[v].held \cap tx[w].held = {}

KeysFollowStatus ==
  \A o \in Orders :
    /\ <<"invoice-order", o>> \in posted <=> status[o] \in Billed
    /\ <<"payment-order", o>> \in posted <=> status[o] = "PAID"
    /\ <<"goods-issue-order", o>> \in posted => status[o] \in GoodsOut

MovesType ==
  moves \in [receipt : [Products -> Int], reservation : [Orders -> [Products -> Int]],
             shipment : [Orders -> [Products -> Int]]]

\* Only a confirmed order has reservations, at most what its lines ask for
\* and of products that have a stock row; only a shipped one has shipments.
MovesFit ==
  /\ MovesType
  /\ \A o \in Orders, p \in Products :
       /\ status[o] \in {"NONE", "DRAFT", "CANCELLED"} => moves.reservation[o][p] = 0
       /\ status[o] \notin GoodsOut => moves.shipment[o][p] = 0
       /\ 0 <= moves.reservation[o][p]
       /\ moves.reservation[o][p] <= Ordered(lines[o], p, Len(lines[o]))
       /\ moves.reservation[o][p] > 0 => item[p].exists

\* An order has lines as soon as it exists.
LinesFit ==
  /\ DOMAIN lines = Orders
  /\ \A o \in Orders : IF status[o] = "NONE" THEN lines[o] = <<>> ELSE lines[o] \in Baskets[o]

TxType == tx \in [Workers -> TxRow]

IInv ==
  /\ TypeOK
  /\ TxType
  /\ LinesFit
  /\ AllFit
  /\ Locks
  /\ KeysFollowStatus
  /\ MovesFit
  /\ StockBounds
  /\ StockMatchesMovements
  /\ ReservationLostOnlyLate

-----------------------------------------------------------------------------
(* Steps that change one transaction only *)

\* No other handler than w holds a row of t.
Uncontended(w, t) == \A v \in Workers \ {w} : t.held \cap tx[v].held = {}

\* What is invariant of the tables alone.
TablesOK ==
  /\ LinesFit /\ KeysFollowStatus /\ MovesFit
  /\ StockBounds /\ StockMatchesMovements /\ ReservationLostOnlyLate

LEMMA TablesKept ==
  ASSUME TablesOK, UNCHANGED Tables
  PROVE  TablesOK'
<1> USE DEF Tables
<1>1. LinesFit' /\ KeysFollowStatus'
  BY DEF TablesOK, LinesFit, KeysFollowStatus
<1>2. MovesFit'
  BY DEF TablesOK, MovesFit, MovesType
<1>3. StockBounds'
  BY DEF TablesOK, StockBounds
<1>4. StockMatchesMovements'
  BY DEF TablesOK, StockMatchesMovements
<1>5. ReservationLostOnlyLate'
  BY DEF TablesOK, ReservationLostOnlyLate
<1> QED
  BY <1>1, <1>2, <1>3, <1>4, <1>5 DEF TablesOK

\* A transaction that fits the tables and holds no row of another may replace
\* that of w.
LEMMA TxOnlyKeeps ==
  ASSUME NEW w \in Workers, NEW t \in TxRow, IInv,
         TxFits(t), DeltaFits(t), Uncontended(w, t),
         tx' = [tx EXCEPT ![w] = t], UNCHANGED Tables
  PROVE  IInv'
<1>1. tx'[w] = t /\ \A v \in Workers \ {w} : tx'[v] = tx[v]
  BY DEF IInv, TxType
<1>2. ASSUME NEW v \in Workers PROVE TxFits(tx[v])' /\ DeltaFits(tx[v])'
  <2>1. TxFits(tx'[v]) /\ DeltaFits(tx'[v])
    BY <1>1 DEF IInv, AllFit
  <2>2. TxFits(tx[v])'
    BY <2>1 DEF TxFits, Tables
  <2>3. DeltaFits(tx[v])'
    BY <2>1, SMTT(20) DEF DeltaFits, LinesDone, Tables
  <2> QED
    BY <2>2, <2>3
<1>3. TxType'
  BY DEF IInv, TxType
<1>4. TypeOK'
  <2>1. \A v \in Workers : tx'[v].pc = "idle" => tx'[v] = IdleTx
    BY <1>2 DEF TxFits
  <2> QED
    BY <2>1 DEF IInv, TypeOK, Tables
<1>5. Locks'
  <2> SUFFICES ASSUME NEW u \in Workers, NEW v \in Workers, u # v
               PROVE  tx'[u].held \cap tx'[v].held = {}
    BY DEF Locks
  <2>1. CASE u # w /\ v # w
    BY <1>1, <2>1 DEF IInv, Locks
  <2>2. CASE u = w
    BY <1>1, <2>2 DEF Uncontended
  <2>3. CASE v = w
    BY <1>1, <2>3 DEF Uncontended
  <2> QED
    BY <2>1, <2>2, <2>3
<1>6. TablesOK'
  <2>1. TablesOK
    BY DEF IInv, TablesOK
  <2> QED
    BY <2>1, TablesKept
<1> QED
  BY <1>2, <1>3, <1>4, <1>5, <1>6 DEF IInv, AllFit, TablesOK

\* The idle transaction fits any tables whose stock is within its bounds.
LEMMA IdleFits ==
  ASSUME item \in [Products -> [exists : BOOLEAN, onHand : Int, reserved : Int]],
         StockBounds
  PROVE  IdleTx \in TxRow /\ TxFits(IdleTx) /\ DeltaFits(IdleTx)
<1>1. NoChange \in [Products -> Change]
      /\ \A p \in Products : NoChange[p].onHand = 0 /\ NoChange[p].reserved = 0
  BY DEF NoChange, Change
<1>2. IdleTx \in TxRow
  BY <1>1 DEF IdleTx, TxRow, Ops, PCs
<1>3. TxFits(IdleTx)
  BY DEF TxFits, IdleTx, OrderOps, Stages
<1>4. DeltaFits(IdleTx)
  <2>1. IdleTx.delta = NoChange /\ IdleTx.op = "none"
    BY DEF IdleTx
  <2>2. \A p \in Products : 0 <= item[p].reserved /\ item[p].reserved <= item[p].onHand
                          /\ item[p].reserved \in Int /\ item[p].onHand \in Int
    BY DEF StockBounds
  <2> QED
    BY <1>1, <2>1, <2>2 DEF DeltaFits
<1> QED
  BY <1>2, <1>3, <1>4

\* A transaction that ends without a commit leaves nothing behind.
LEMMA AbortKeeps ==
  ASSUME NEW w \in Workers, IInv, Abort(w), UNCHANGED Tables
  PROVE  IInv'
<1>1. IdleTx \in TxRow /\ TxFits(IdleTx) /\ DeltaFits(IdleTx)
  BY IdleFits DEF IInv, TypeOK
<1>2. Uncontended(w, IdleTx)
  BY DEF Uncontended, IdleTx
<1> QED
  BY <1>1, <1>2, TxOnlyKeeps DEF Abort

\* A request begins with nothing held and nothing changed.
LEMMA FreshFits ==
  ASSUME NEW t \in TxRow, IInv, t.delta = NoChange, t.held = {},
         \/ t.op \in {"confirm", "ship", "cancel"} /\ t.pc = "lock"
         \/ t.op \in {"invoice", "payment"}
         \/ t.op = "receive" /\ t.pc = "item"
  PROVE  DeltaFits(t) /\ \A w \in Workers : Uncontended(w, t)
<1>1. \A p \in Products : NoChange[p].onHand = 0 /\ NoChange[p].reserved = 0
  BY DEF NoChange
<1>2. \A p \in Products : 0 <= item[p].reserved /\ item[p].reserved <= item[p].onHand
                          /\ item[p].reserved \in Int /\ item[p].onHand \in Int
  BY DEF IInv, StockBounds, TypeOK
<1>3. DeltaFits(t)
  BY <1>1, <1>2 DEF DeltaFits
<1> QED
  BY <1>3 DEF Uncontended

LEMMA BeginKeeps ==
  ASSUME NEW w \in Workers, NEW o \in Orders, NEW op \in {"confirm", "ship", "cancel"},
         IInv, Begin(w, o, op)
  PROVE  IInv'
<1> DEFINE t == [IdleTx EXCEPT !.op = op, !.pc = "lock", !.order = o]
<1>1. IdleTx \in TxRow
  BY IdleFits DEF IInv, TypeOK
<1>2. t \in TxRow
  BY <1>1 DEF TxRow, Ops, OrderOps, PCs
<1>3. /\ t.op = op /\ t.pc = "lock" /\ t.order = o /\ t.prod = None /\ t.key = None
      /\ t.delta = NoChange /\ t.held = {}
  BY DEF IdleTx
<1>4. tx' = [tx EXCEPT ![w] = t] /\ UNCHANGED Tables /\ status[o] # "NONE"
  BY DEF Begin
<1> HIDE DEF t
<1>5. TxFits(t)
  BY <1>3, <1>4 DEF TxFits, OrderOps, Stages
<1>6. DeltaFits(t) /\ Uncontended(w, t)
  BY <1>2, <1>3, FreshFits
<1> QED
  BY <1>2, <1>4, <1>5, <1>6, TxOnlyKeeps

LEMMA BeginBillingKeeps ==
  ASSUME NEW w \in Workers, NEW o \in Orders, NEW op \in {"invoice", "payment"},
         IInv, BeginBilling(w, o, op)
  PROVE  IInv'
<1> DEFINE t == [IdleTx EXCEPT !.op = op, !.pc = "series", !.order = o]
<1>1. IdleTx \in TxRow
  BY IdleFits DEF IInv, TypeOK
<1>2. t \in TxRow
  BY <1>1 DEF TxRow, Ops, OrderOps, PCs
<1>3. /\ t.op = op /\ t.pc = "series" /\ t.order = o /\ t.prod = None /\ t.key = None
      /\ t.delta = NoChange /\ t.held = {}
  BY DEF IdleTx
<1>4. tx' = [tx EXCEPT ![w] = t] /\ UNCHANGED Tables /\ status[o] = Required[op]
  BY DEF BeginBilling
<1> HIDE DEF t
<1>5. TxFits(t)
  BY <1>3, <1>4 DEF TxFits, OrderOps, Stages, Required, GoodsOut, Billed
<1>6. DeltaFits(t) /\ Uncontended(w, t)
  BY <1>2, <1>3, FreshFits
<1> QED
  BY <1>2, <1>4, <1>5, <1>6, TxOnlyKeeps

LEMMA BeginReceiveKeeps ==
  ASSUME NEW w \in Workers, NEW p \in Products, NEW q \in Qtys, NEW day \in Days,
         IInv, BeginReceive(w, p, q, day)
  PROVE  IInv'
<1> DEFINE t == [IdleTx EXCEPT !.op = "receive", !.pc = "item", !.prod = p, !.qty = q,
                               !.day = day]
<1>1. IdleTx \in TxRow
  BY IdleFits DEF IInv, TypeOK
<1>2. t \in TxRow
  <2>1. q \in Nat
    BY OrdersAssumption
  <2> QED
    BY <1>1, <2>1 DEF TxRow, Ops, PCs
<1>3. /\ t.op = "receive" /\ t.pc = "item" /\ t.prod = p /\ t.day = day /\ t.key = None
      /\ t.delta = NoChange /\ t.held = {}
  BY DEF IdleTx
<1>4. tx' = [tx EXCEPT ![w] = t] /\ UNCHANGED Tables
  BY DEF BeginReceive
<1> HIDE DEF t
<1>5. TxFits(t)
  BY <1>3, <1>4 DEF TxFits, OrderOps, Stages
<1>6. DeltaFits(t) /\ Uncontended(w, t)
  BY <1>2, <1>3, FreshFits
<1> QED
  BY <1>2, <1>4, <1>5, <1>6, TxOnlyKeeps
-----------------------------------------------------------------------------
(* Lines, keys and rows *)

\* What the first line adds, and every later one.
LEMMA OrderedSteps ==
  ASSUME NEW ls \in Seq(LineRow), NEW p \in Products
  PROVE  /\ Ordered(ls, p, 0) = 0
         /\ \A n \in 0 .. Len(ls) : Ordered(ls, p, n) \in Nat
         /\ \A n \in 1 .. Len(ls) :
              Ordered(ls, p, n) = Ordered(ls, p, n - 1)
                                  + IF ls[n].prod = p THEN ls[n].qty ELSE 0
<1> DEFINE f == OfProduct(ls, p)
           q(j) == IF ls[j].prod = p THEN ls[j].qty ELSE 0
<1>1. \A j \in 1 .. Len(ls) : f[j] = q(j) /\ f[j] \in Nat
  <2> SUFFICES ASSUME NEW j \in 1 .. Len(ls) PROVE f[j] = q(j) /\ f[j] \in Nat
    OBVIOUS
  <2>1. j \in DOMAIN ls /\ ls[j] \in LineRow
    OBVIOUS
  <2>2. f[j] = q(j)
    BY <2>1 DEF OfProduct
  <2>3. ls[j].qty \in Nat
    BY <2>1 DEF LineRow
  <2> QED
    BY <2>2, <2>3
<1>2. \A n \in 0 .. Len(ls) : IsFiniteSet(1 .. n) /\ 1 .. n \subseteq 1 .. Len(ls)
  BY FS_Interval
<1> HIDE DEF f, q
<1>3. SumFunctionOnSet(f, 1 .. 0) = 0
  <2>1. 1 .. 0 = {}
    OBVIOUS
  <2> QED
    BY <2>1, FS_EmptySet, SumEquation
<1>4. ASSUME NEW n \in 0 .. Len(ls) PROVE SumFunctionOnSet(f, 1 .. n) \in Nat
  BY <1>1, <1>2, SumNat
<1>5. ASSUME NEW n \in 1 .. Len(ls)
      PROVE  SumFunctionOnSet(f, 1 .. n) = SumFunctionOnSet(f, 1 .. (n - 1)) + q(n)
  <2> DEFINE S == 1 .. n
  <2>1. n \in 0 .. Len(ls) /\ n - 1 \in 0 .. Len(ls) /\ n \in S
    OBVIOUS
  <2>2. S \ {n} = 1 .. (n - 1)
    OBVIOUS
  <2>3. IsFiniteSet(S) /\ \A j \in S : f[j] \in Nat
    BY <1>1, <1>2, <2>1
  <2>4. SumFunctionOnSet(f, 1 .. (n - 1)) \in Int /\ f[n] \in Int /\ f[n] = q(n)
    BY <1>1, <1>4, <2>1
  <2>5. SumFunctionOnSet(f, S) = f[n] + SumFunctionOnSet(f, S \ {n})
    <3> HIDE DEF S
    <3>1. \A x \in S : SumFunctionOnSet(f, S) = f[x] + SumFunctionOnSet(f, S \ {x})
      BY <2>3, SumSplit
    <3> QED
      BY <2>1, <3>1
  <2> HIDE DEF S
  <2>6. SumFunctionOnSet(f, S) = q(n) + SumFunctionOnSet(f, 1 .. (n - 1))
    BY <2>2, <2>4, <2>5
  <2>7. SumFunctionOnSet(f, S) = SumFunctionOnSet(f, 1 .. (n - 1)) + q(n)
    BY <2>4, <2>6
  <2> QED
    BY <2>7 DEF S
<1>6. \A n \in Nat : Ordered(ls, p, n) = SumFunctionOnSet(f, 1 .. n)
  BY DEF Ordered, f
<1>7. ASSUME NEW n \in 1 .. Len(ls)
      PROVE  Ordered(ls, p, n) = Ordered(ls, p, n - 1)
                                 + IF ls[n].prod = p THEN ls[n].qty ELSE 0
  <2>1. n \in Nat /\ n - 1 \in Nat
    OBVIOUS
  <2> QED
    BY <1>5, <1>6, <2>1 DEF q
<1>8. Ordered(ls, p, 0) = 0 /\ \A n \in 0 .. Len(ls) : Ordered(ls, p, n) \in Nat
  BY <1>3, <1>4, <1>6
<1> QED
  BY <1>7, <1>8

\* The lines of an order that exists.
LEMMA LinesTyped ==
  ASSUME IInv, NEW o \in Orders
  PROVE  lines[o] \in Seq(LineRow)
<1>1. \A b \in Baskets[o] : b \in Seq(LineRow)
  BY OrdersAssumption DEF LineRow
<1>2. lines[o] = <<>> \/ lines[o] \in Baskets[o]
  BY DEF IInv, LinesFit
<1>3. <<>> \in Seq(LineRow)
  OBVIOUS
<1> QED
  BY <1>1, <1>2, <1>3

\* The line a transaction is at.
LEMMA AtLine ==
  ASSUME IInv, NEW w \in Workers, tx[w].pc = "lines"
  PROVE  /\ tx[w].op \in {"confirm", "ship"}
         /\ tx[w].order \in Orders
         /\ tx[w].i \in 1 .. Len(lines[tx[w].order])
         /\ lines[tx[w].order][tx[w].i] \in LineRow
<1>1. TxFits(tx[w]) /\ tx[w] \in TxRow
  BY DEF IInv, AllFit, TxType
<1>2. tx[w].op \in {"confirm", "ship"}
  BY <1>1 DEF TxFits, Stages, TxRow, Ops, OrderOps
<1>3. tx[w].order \in Orders /\ tx[w].i \in 1 .. Len(lines[tx[w].order])
  BY <1>1, <1>2 DEF TxFits, OrderOps
<1>4. lines[tx[w].order] \in Seq(LineRow)
  BY <1>3, LinesTyped
<1> QED
  BY <1>2, <1>3, <1>4

\* Every entry has a key of its own kind.
LEMMA KeyTyped ==
  ASSUME NEW t \in TxRow, TxFits(t), t.pc \in {"entry", "mark"} \/ t.key # None
  PROVE  Key(t) \in Keys /\ Key(t) # None
<1>1. t.op \in {"ship", "invoice", "payment", "receive"}
  BY DEF TxFits, Stages, TxRow, Ops, OrderOps
<1>2. CASE t.op = "ship"
  BY <1>2, OrdersAssumption DEF TxFits, OrderOps, Key, Keys
<1>3. CASE t.op = "invoice"
  BY <1>3, OrdersAssumption DEF TxFits, OrderOps, Key, Keys
<1>4. CASE t.op = "payment"
  BY <1>4, OrdersAssumption DEF TxFits, OrderOps, Key, Keys
<1>5. CASE t.op = "receive"
  BY <1>5, OrdersAssumption DEF TxFits, Key, Keys
<1> QED
  BY <1>1, <1>2, <1>3, <1>4, <1>5

\* What a statement locks is a row.
LEMMA WantsRows ==
  ASSUME IInv, NEW w \in Workers
  PROVE  Wants(w) \subseteq Rows
<1> DEFINE t == tx[w]
<1>1. TxFits(t) /\ t \in TxRow
  BY DEF IInv, AllFit, TxType
<1>2. CASE t.pc \in {"lock", "mark"}
  <2>1. t.order \in Orders
    BY <1>1, <1>2 DEF TxFits, Stages, TxRow, Ops, OrderOps
  <2> QED
    BY <1>2, <2>1, SMTT(20) DEF Wants, Rows
<1>3. CASE t.pc = "item"
  <2>1. t.prod \in Products
    BY <1>1, <1>3 DEF TxFits, Stages, TxRow, Ops, OrderOps
  <2> QED
    BY <1>3, <2>1 DEF Wants, Rows
<1>4. CASE t.pc = "lines"
  BY <1>4, AtLine, SMTT(20) DEF Wants, Rows, LineRow
<1>5. CASE t.pc = "series"
  <2>1. t.op \in {"confirm", "ship", "invoice", "payment", "receive"}
    BY <1>1, <1>5 DEF TxFits, Stages, TxRow, Ops, OrderOps
  <2>2. DocType[t.op] \in {"SO", "GI", "SI", "JE", "GR"}
    BY <2>1 DEF DocType
  <2> QED
    BY <1>5, <2>2 DEF Wants, Rows
<1>6. CASE t.pc = "entry"
  BY <1>1, <1>6, KeyTyped DEF Wants, Rows
<1>7. CASE t.pc \notin {"lock", "mark", "item", "lines", "series", "entry"}
  BY <1>7 DEF Wants
<1> QED
  BY <1>2, <1>3, <1>4, <1>5, <1>6, <1>7

\* Rows that were granted are held by nobody else.
LEMMA GrantedAlone ==
  ASSUME IInv, NEW w \in Workers, NEW t, Granted(w) \/ Wants(w) = {},
         t.held = tx[w].held \cup Wants(w)
  PROVE  Uncontended(w, t)
BY DEF IInv, Locks, Granted, WaitsFor, Uncontended

\* Changes already made stay fit while the transaction goes on to its entry.
LEMMA DeltaCarried ==
  ASSUME NEW t \in TxRow, NEW u \in TxRow, DeltaFits(t),
         u.op = t.op, u.order = t.order, u.prod = t.prod, u.qty = t.qty,
         u.delta = t.delta, t.held \subseteq u.held, t.op # "confirm",
         t.pc \notin {"lock", "item"}, u.pc \notin {"lock", "item"},
         LinesDone(u) = LinesDone(t)
  PROVE  DeltaFits(u)
BY DEF DeltaFits
-----------------------------------------------------------------------------
(* Statements *)

LEMMA OpenTx ==
  ASSUME IInv, NEW w \in Workers
  PROVE  TxFits(tx[w]) /\ DeltaFits(tx[w]) /\ tx[w] \in TxRow
BY DEF IInv, AllFit, TxType

\* The invariant's numbers.
LEMMA StockTyped ==
  ASSUME IInv
  PROVE  \A p \in Products : /\ item[p].onHand \in Int /\ item[p].reserved \in Int
                            /\ 0 <= item[p].reserved
                            /\ item[p].reserved <= item[p].onHand
BY DEF IInv, TypeOK, StockBounds

\* Where a status check under the lock leads.
LEMMA LockOrderKeeps ==
  ASSUME NEW w \in Workers, IInv, LockOrder(w)
  PROVE  IInv'
<1> DEFINE t == tx[w]
<1>1. TxFits(t) /\ DeltaFits(t) /\ t \in TxRow /\ Wants(w) \subseteq Rows
  BY OpenTx, WantsRows
<1>2. t.pc = "lock" /\ Granted(w) /\ UNCHANGED Tables
  BY DEF LockOrder
<1>3. t.op \in {"confirm", "ship", "cancel"} /\ t.order \in Orders /\ t.prod = None
  BY <1>1, <1>2 DEF TxFits, Stages, TxRow, Ops, OrderOps
<1>4. Wants(w) = {<<"order", t.order>>}
  BY <1>2 DEF Wants
<1>5. CASE status[t.order] # Required[t.op]
  BY <1>2, <1>5, AbortKeeps DEF LockOrder
<1>6. CASE status[t.order] = Required[t.op]
  <2> DEFINE pc == IF t.op = "confirm" THEN "series"
                   ELSE IF t.op = "ship" THEN "lines" ELSE "commit"
             i == IF t.op = "ship" THEN 1 ELSE t.i
             u == [t EXCEPT !.pc = pc, !.i = i, !.held = @ \cup Wants(w)]
  <2>1. tx' = [tx EXCEPT ![w] = u]
    <3>1. tx \in [Workers -> TxRow]
      BY DEF IInv, TxType
    <3>2. CASE t.op = "confirm"
      BY <1>2, <1>6, <3>1, <3>2 DEF LockOrder, Goto, TxRow
    <3>3. CASE t.op = "ship"
      BY <1>2, <1>6, <3>1, <3>3 DEF LockOrder, Goto, TxRow
    <3>4. CASE t.op = "cancel"
      BY <1>2, <1>6, <3>1, <3>4 DEF LockOrder, Goto, TxRow
    <3> QED
      BY <1>3, <3>2, <3>3, <3>4
  <2>2. u \in TxRow
    BY <1>1, ZenonT(30) DEF TxRow, PCs
  <2>3. /\ u.op = t.op /\ u.pc = pc /\ u.order = t.order /\ u.prod = t.prod /\ u.key = t.key
        /\ u.i = i /\ u.delta = t.delta /\ u.held = t.held \cup Wants(w)
    BY <1>1 DEF TxRow
  <2>4. /\ lines[t.order] \in Seq(LineRow) /\ lines[t.order] # <<>>
    <3>1. \A b \in Baskets[t.order] : b # <<>>
      BY <1>3, OrdersAssumption
    <3>2. status[t.order] # "NONE"
      BY <1>1, <1>3 DEF TxFits, OrderOps
    <3> QED
      BY <1>3, <3>1, <3>2, LinesTyped DEF IInv, LinesFit
  <2>5. 1 \in 1 .. Len(lines[t.order])
    BY <2>4
  <2> HIDE DEF u, i
  <2>6. u.i = 1 \/ pc # "lines"
    BY <1>3, <2>3 DEF i
  <2>7. TxFits(u)
    BY <1>1, <1>2, <1>3, <1>4, <1>6, <2>3, <2>5, <2>6 DEF TxFits, Stages, OrderOps
  <2>8. DeltaFits(u)
    <3>1. ASSUME NEW p \in Products
          PROVE  t.delta[p].onHand = 0 /\ t.delta[p].reserved = 0
      BY <1>1, <1>2 DEF DeltaFits
    <3>2. \A p \in Products : Ordered(lines[t.order], p, 0) = 0
      BY <2>4, OrderedSteps
    <3>3. pc = "lines" => LinesDone(u) = 0
      BY <2>3, <2>6 DEF LinesDone
    <3>4. t.op = "cancel" => t.delta = NoChange
      BY <1>1 DEF DeltaFits
    <3>5. t.op = "confirm" => pc = "series"
      OBVIOUS
    <3>6. t.op = "ship" => pc = "lines"
      OBVIOUS
    <3> HIDE DEF pc
    <3> QED
      BY <1>3, <2>3, <3>1, <3>2, <3>3, <3>4, <3>5, <3>6, StockTyped DEF DeltaFits
  <2>9. Uncontended(w, u)
    BY <1>2, <2>3, GrantedAlone
  <2> QED
    BY <1>2, <2>1, <2>2, <2>7, <2>8, <2>9, TxOnlyKeeps
<1> QED
  BY <1>5, <1>6

\* The order of a transaction that has got past its lock has lines.
LEMMA HasLines ==
  ASSUME IInv, NEW w \in Workers, tx[w].op \in OrderOps
  PROVE  /\ tx[w].order \in Orders
         /\ lines[tx[w].order] \in Seq(LineRow)
         /\ 1 \in 1 .. Len(lines[tx[w].order])
<1>1. tx[w].order \in Orders /\ status[tx[w].order] # "NONE"
  BY OpenTx DEF TxFits
<1>2. \A b \in Baskets[tx[w].order] : b # <<>>
  BY <1>1, OrdersAssumption
<1>3. lines[tx[w].order] \in Seq(LineRow) /\ lines[tx[w].order] # <<>>
  BY <1>1, <1>2, LinesTyped DEF IInv, LinesFit
<1> QED
  BY <1>1, <1>3

LEMMA TakeSeriesKeeps ==
  ASSUME NEW w \in Workers, IInv, TakeSeries(w)
  PROVE  IInv'
<1> DEFINE t == tx[w]
           pc == IF t.op = "confirm" THEN "lines" ELSE "entry"
           u == [t EXCEPT !.pc = pc, !.i = 1, !.held = @ \cup Wants(w)]
<1>1. TxFits(t) /\ DeltaFits(t) /\ t \in TxRow /\ Wants(w) \subseteq Rows
  BY OpenTx, WantsRows
<1>2. t.pc = "series" /\ Granted(w) /\ UNCHANGED Tables
  BY DEF TakeSeries
<1>3. t.op \in {"confirm", "ship", "invoice", "payment", "receive"}
  BY <1>1, <1>2 DEF TxFits, Stages, TxRow, Ops, OrderOps
<1>4. tx' = [tx EXCEPT ![w] = u]
  BY DEF TakeSeries, IInv, TxType, TxRow
<1>5. u \in TxRow
  BY <1>1, ZenonT(30) DEF TxRow, PCs
<1>6. /\ u.op = t.op /\ u.pc = pc /\ u.order = t.order /\ u.prod = t.prod /\ u.key = t.key
      /\ u.i = 1 /\ u.delta = t.delta /\ u.held = t.held \cup Wants(w) /\ u.qty = t.qty
      /\ u.day = t.day
  BY <1>1 DEF TxRow
<1>7. t.op \in OrderOps => /\ lines[t.order] \in Seq(LineRow)
                           /\ 1 \in 1 .. Len(lines[t.order])
  BY HasLines
<1> HIDE DEF u
<1>8. TxFits(u)
  BY <1>1, <1>2, <1>3, <1>6, <1>7 DEF TxFits, Stages, OrderOps
<1>9. DeltaFits(u)
  <2>1. CASE t.op = "confirm"
    <3>1. LinesDone(u) = 0
      BY <1>6, <2>1 DEF LinesDone
    <3>2. \A p \in Products : Ordered(lines[t.order], p, 0) = 0
      BY <1>7, <2>1, OrderedSteps DEF OrderOps
    <3>3. \A p \in Products : t.delta[p].onHand = 0 /\ t.delta[p].reserved = 0
      BY <1>1, <1>2, <2>1 DEF DeltaFits
    <3> QED
      BY <1>6, <2>1, <3>1, <3>2, <3>3, StockTyped DEF DeltaFits
  <2>2. CASE t.op # "confirm"
    <3>1. LinesDone(u) = LinesDone(t)
      BY <1>2, <1>6, <2>2 DEF LinesDone
    <3> QED
      BY <1>1, <1>2, <1>5, <1>6, <2>2, <3>1, DeltaCarried
  <2> QED
    BY <2>1, <2>2
<1>10. Uncontended(w, u)
  BY <1>2, <1>6, GrantedAlone
<1> QED
  BY <1>2, <1>4, <1>5, <1>8, <1>9, <1>10, TxOnlyKeeps

LEMMA BookCOGSKeeps ==
  ASSUME NEW w \in Workers, IInv, BookCOGS(w)
  PROVE  IInv'
<1> DEFINE t == tx[w]
           pc == IF t.delta # NoChange THEN "series" ELSE "commit"
           u == [t EXCEPT !.pc = pc, !.held = @ \cup Wants(w)]
<1>1. TxFits(t) /\ DeltaFits(t) /\ t \in TxRow
  BY OpenTx
<1>2. t.pc = "cogs" /\ Wants(w) = {} /\ UNCHANGED Tables
  BY DEF BookCOGS, Wants
<1>3. t.op = "ship"
  BY <1>1, <1>2 DEF TxFits, Stages, TxRow, Ops, OrderOps
<1>4. tx' = [tx EXCEPT ![w] = u]
  BY DEF BookCOGS, Goto, IInv, TxType, TxRow
<1>5. u \in TxRow
  BY <1>1, <1>2 DEF TxRow, PCs
<1>6. /\ u.op = t.op /\ u.pc = pc /\ u.order = t.order /\ u.prod = t.prod /\ u.key = t.key
      /\ u.i = t.i /\ u.delta = t.delta /\ u.held = t.held \cup Wants(w) /\ u.qty = t.qty
      /\ u.day = t.day
  BY <1>1 DEF TxRow
<1> HIDE DEF u
<1>7. TxFits(u)
  BY <1>1, <1>2, <1>3, <1>6 DEF TxFits, Stages, OrderOps
<1>8. DeltaFits(u)
  <2>1. LinesDone(u) = LinesDone(t)
    BY <1>2, <1>6 DEF LinesDone
  <2> QED
    BY <1>1, <1>2, <1>3, <1>5, <1>6, <2>1, DeltaCarried
<1>9. Uncontended(w, u)
  BY <1>2, <1>6, GrantedAlone
<1> QED
  BY <1>2, <1>4, <1>5, <1>7, <1>8, <1>9, TxOnlyKeeps

LEMMA PostEntryKeeps ==
  ASSUME NEW w \in Workers, IInv, PostEntry(w)
  PROVE  IInv'
<1> DEFINE t == tx[w]
           pc == IF t.op \in {"invoice", "payment"} THEN "mark" ELSE "commit"
           u == [t EXCEPT !.pc = pc, !.key = Key(t), !.held = @ \cup Wants(w)]
<1>1. TxFits(t) /\ DeltaFits(t) /\ t \in TxRow /\ Wants(w) \subseteq Rows
  BY OpenTx, WantsRows
<1>2. t.pc = "entry" /\ Granted(w) /\ UNCHANGED Tables
  BY DEF PostEntry
<1>3. t.op \in {"ship", "invoice", "payment", "receive"}
  BY <1>1, <1>2 DEF TxFits, Stages, TxRow, Ops, OrderOps
<1>4. Key(t) \in Keys /\ Key(t) # None
  BY <1>1, <1>2, KeyTyped
<1>5. CASE Key(t) \in posted
  BY <1>2, <1>5, AbortKeeps DEF PostEntry
<1>6. CASE Key(t) \notin posted
  <2>1. tx' = [tx EXCEPT ![w] = u]
    BY <1>6 DEF PostEntry, IInv, TxType, TxRow
  <2>2. u \in TxRow
    BY <1>1, <1>4, ZenonT(30) DEF TxRow, PCs
  <2>3. /\ u.op = t.op /\ u.pc = pc /\ u.order = t.order /\ u.prod = t.prod
        /\ u.key = Key(t) /\ u.i = t.i /\ u.delta = t.delta /\ u.qty = t.qty
        /\ u.held = t.held \cup Wants(w) /\ u.day = t.day
    BY <1>1 DEF TxRow
  <2>4. <<"key", Key(t)>> \in u.held
    BY <1>2, <2>3 DEF Wants
  <2> HIDE DEF u
  <2>5. Key(u) = Key(t)
    BY <2>3 DEF Key
  <2>6. TxFits(u)
    BY <1>1, <1>2, <1>3, <1>4, <1>6, <2>3, <2>4, <2>5 DEF TxFits, Stages, OrderOps
  <2>7. DeltaFits(u)
    <3>1. LinesDone(u) = LinesDone(t)
      BY <1>2, <2>3 DEF LinesDone
    <3> QED
      BY <1>1, <1>2, <1>3, <2>2, <2>3, <3>1, DeltaCarried
  <2>8. Uncontended(w, u)
    BY <1>2, <2>3, GrantedAlone
  <2> QED
    BY <1>2, <2>1, <2>2, <2>6, <2>7, <2>8, TxOnlyKeeps
<1> QED
  BY <1>5, <1>6

LEMMA MarkOrderKeeps ==
  ASSUME NEW w \in Workers, IInv, MarkOrder(w)
  PROVE  IInv'
<1> DEFINE t == tx[w]
           u == [t EXCEPT !.pc = "commit", !.held = @ \cup Wants(w)]
<1>1. TxFits(t) /\ DeltaFits(t) /\ t \in TxRow /\ Wants(w) \subseteq Rows
  BY OpenTx, WantsRows
<1>2. t.pc = "mark" /\ Granted(w) /\ UNCHANGED Tables
  BY DEF MarkOrder
<1>3. t.op \in {"invoice", "payment"}
  BY <1>1, <1>2 DEF TxFits, Stages, TxRow, Ops, OrderOps
<1>4. tx' = [tx EXCEPT ![w] = u]
  BY DEF MarkOrder, Goto, IInv, TxType, TxRow
<1>5. u \in TxRow
  BY <1>1 DEF TxRow, PCs
<1>6. /\ u.op = t.op /\ u.pc = "commit" /\ u.order = t.order /\ u.prod = t.prod
      /\ u.key = t.key /\ u.i = t.i /\ u.delta = t.delta /\ u.qty = t.qty
      /\ u.held = t.held \cup Wants(w) /\ u.day = t.day
  BY <1>1 DEF TxRow
<1> HIDE DEF u
<1>7. Key(u) = Key(t)
  BY <1>6 DEF Key
<1>8. TxFits(u)
  BY <1>1, <1>2, <1>3, <1>6, <1>7 DEF TxFits, Stages, OrderOps
<1>9. DeltaFits(u)
  <2>1. LinesDone(u) = LinesDone(t)
    BY <1>2, <1>6 DEF LinesDone
  <2> QED
    BY <1>1, <1>2, <1>3, <1>5, <1>6, <2>1, DeltaCarried
<1>10. Uncontended(w, u)
  BY <1>2, <1>6, GrantedAlone
<1> QED
  BY <1>2, <1>4, <1>5, <1>8, <1>9, <1>10, TxOnlyKeeps

LEMMA ReceiveItemKeeps ==
  ASSUME NEW w \in Workers, IInv, ReceiveItem(w)
  PROVE  IInv'
<1> DEFINE t == tx[w]
           p == t.prod
           d == [t.delta EXCEPT ![p].onHand = @ + t.qty]
           u == [t EXCEPT !.pc = "series", !.delta = d, !.held = @ \cup Wants(w)]
<1>1. TxFits(t) /\ DeltaFits(t) /\ t \in TxRow /\ Wants(w) \subseteq Rows
  BY OpenTx, WantsRows
<1>2. t.pc = "item" /\ Granted(w) /\ UNCHANGED Tables
  BY DEF ReceiveItem
<1>3. t.op = "receive"
  BY <1>1, <1>2 DEF TxFits, Stages, TxRow, Ops, OrderOps
<1>4. p \in Products /\ t.qty \in Nat /\ t.delta \in [Products -> Change]
  BY <1>1, <1>3 DEF TxFits, TxRow
<1>5. \A x \in Products : t.delta[x].onHand = 0 /\ t.delta[x].reserved = 0
  BY <1>1, <1>2 DEF DeltaFits
<1>6. /\ d \in [Products -> Change]
      /\ d[p].onHand = t.qty /\ d[p].reserved = 0
      /\ \A x \in Products \ {p} : d[x].onHand = 0 /\ d[x].reserved = 0
  BY <1>4, <1>5 DEF Change
<1>7. tx' = [tx EXCEPT ![w] = u]
  BY DEF ReceiveItem, IInv, TxType, TxRow
<1> HIDE DEF d
<1>8. u \in TxRow
  BY <1>1, <1>6 DEF TxRow, PCs
<1>9. /\ u.op = t.op /\ u.pc = "series" /\ u.order = t.order /\ u.prod = t.prod
      /\ u.key = t.key /\ u.i = t.i /\ u.delta = d /\ u.qty = t.qty
      /\ u.held = t.held \cup Wants(w) /\ u.day = t.day
  BY <1>1 DEF TxRow
<1>10. <<"item", p>> \in u.held
  BY <1>2, <1>9 DEF Wants
<1> HIDE DEF u, p
<1>11. TxFits(u)
  BY <1>1, <1>2, <1>3, <1>9 DEF TxFits, Stages, OrderOps
<1>12. DeltaFits(u)
  <2> SUFFICES ASSUME NEW x \in Products
               PROVE  /\ d[x].onHand # 0 \/ d[x].reserved # 0 => <<"item", x>> \in u.held
                      /\ 0 <= item[x].reserved + d[x].reserved
                      /\ item[x].reserved + d[x].reserved <= item[x].onHand + d[x].onHand
                      /\ d[x].reserved = 0
                      /\ d[x].onHand = IF x = t.prod THEN t.qty ELSE 0
    BY <1>3, <1>9 DEF DeltaFits
  <2>1. CASE x = p
    BY <1>4, <1>6, <1>10, <2>1, StockTyped DEF p
  <2>2. CASE x # p
    BY <1>6, <2>2, StockTyped DEF p
  <2> QED
    BY <2>1, <2>2
<1>13. Uncontended(w, u)
  BY <1>2, <1>9, GrantedAlone
<1> QED
  BY <1>2, <1>7, <1>8, <1>11, <1>12, <1>13, TxOnlyKeeps

\* A transaction that is through with a line is at the next one or past them
\* all, and has done one line more.
LEMMA NextLine ==
  ASSUME IInv, NEW w \in Workers, tx[w].pc = "lines",
         NEW u, u.pc = AfterLine(tx[w]), u.i = tx[w].i + 1, u.order = tx[w].order
  PROVE  /\ LinesDone(tx[w]) = tx[w].i - 1 /\ LinesDone(u) = tx[w].i
         /\ u.pc = "lines" => u.i \in 1 .. Len(lines[u.order])
         /\ AfterLine(tx[w]) \in {"lines", IF tx[w].op = "ship" THEN "cogs" ELSE "commit"}
<1>1. tx[w].i \in 1 .. Len(lines[tx[w].order]) /\ tx[w].order \in Orders
  BY AtLine
<1>2. Len(lines[tx[w].order]) \in Nat
  BY <1>1, LinesTyped
<1>3. CASE tx[w].i < Len(lines[tx[w].order])
  BY <1>1, <1>2, <1>3 DEF AfterLine, LinesDone
<1>4. CASE ~(tx[w].i < Len(lines[tx[w].order]))
  <2>1. tx[w].i = Len(lines[tx[w].order])
    BY <1>1, <1>2, <1>4
  <2>2. AfterLine(tx[w]) = IF tx[w].op = "ship" THEN "cogs" ELSE "commit"
    BY <1>4 DEF AfterLine
  <2> QED
    BY <2>1, <2>2 DEF LinesDone
<1> QED
  BY <1>3, <1>4

\* Changing the change of one product's row, and nothing else of it.
LEMMA DeltaAdd ==
  ASSUME NEW f \in [Products -> Change], NEW p \in Products, NEW h \in Int, NEW r \in Int,
         NEW d, d = [f EXCEPT ![p] = [onHand |-> h, reserved |-> r]]
  PROVE  /\ d \in [Products -> Change]
         /\ d[p].onHand = h /\ d[p].reserved = r
         /\ \A x \in Products \ {p} : d[x] = f[x]
BY DEF Change

LEMMA ReserveLineKeeps ==
  ASSUME NEW w \in Workers, IInv, ReserveLine(w)
  PROVE  IInv'
<1> DEFINE t == tx[w]
           l == lines[t.order][t.i]
           p == l.prod
           q == IF item[p].exists THEN l.qty ELSE 0
           d == [t.delta EXCEPT ![p].reserved = @ + q]
           pc == AfterLine(t)
           u == [t EXCEPT !.pc = pc, !.i = t.i + 1, !.held = @ \cup Wants(w), !.delta = d]
<1>1. TxFits(t) /\ DeltaFits(t) /\ t \in TxRow /\ Wants(w) \subseteq Rows
  BY OpenTx, WantsRows
<1>2. t.pc = "lines" /\ t.op = "confirm" /\ Granted(w) /\ UNCHANGED Tables
  BY DEF ReserveLine
<1>3. /\ t.order \in Orders /\ t.i \in 1 .. Len(lines[t.order])
      /\ p \in Products /\ l.qty \in Nat \ {0} /\ lines[t.order] \in Seq(LineRow)
  BY <1>2, AtLine, LinesTyped DEF LineRow
<1>4. CASE item[p].exists /\ Seen(w, p).onHand - Seen(w, p).reserved < l.qty
  BY <1>2, <1>4, AbortKeeps DEF ReserveLine
<1>5. CASE ~(item[p].exists /\ Seen(w, p).onHand - Seen(w, p).reserved < l.qty)
  <2>1. tx' = [tx EXCEPT ![w] = u]
    <3>1. tx \in [Workers -> TxRow]
      BY DEF IInv, TxType
    <3>2. tx' = [tx EXCEPT ![w].held = @ \cup Wants(w), ![w].i = @ + 1, ![w].pc = AfterLine(t),
                           ![w].delta[p].reserved = @ + q]
      BY <1>5 DEF ReserveLine
    <3> HIDE DEF q, p, pc
    <3> QED
      BY <3>1, <3>2 DEF TxRow
  <2>2. /\ t.delta \in [Products -> Change]
        /\ \A x \in Products : t.delta[x].onHand \in Int /\ t.delta[x].reserved \in Int
    BY <1>1 DEF TxRow, Change
  <2>3. q \in Nat /\ (q > 0 => item[p].exists)
    BY <1>3, SMTT(20)
  <2>4. /\ d \in [Products -> Change]
        /\ d[p].onHand = t.delta[p].onHand /\ d[p].reserved = t.delta[p].reserved + q
        /\ \A x \in Products \ {p} : d[x] = t.delta[x]
    <3> HIDE DEF q, p, pc, t
    <3>1. t.delta[p].onHand \in Int /\ t.delta[p].reserved + q \in Int /\ t.delta[p] \in Change
      BY <1>3, <2>2, <2>3
    <3>2. [t.delta[p] EXCEPT !.reserved = @ + q]
            = [onHand |-> t.delta[p].onHand, reserved |-> t.delta[p].reserved + q]
      BY <3>1 DEF Change
    <3>3. d = [t.delta EXCEPT ![p] = [onHand |-> t.delta[p].onHand,
                                      reserved |-> t.delta[p].reserved + q]]
      BY <3>2
    <3> HIDE DEF d
    <3> QED
      BY <1>3, <2>2, <3>1, <3>3, DeltaAdd, SMTT(20)
  <2> HIDE DEF d
  <2>5. pc \in {"lines", "commit"}
    BY <1>2 DEF AfterLine
  <2>6. u \in TxRow
    <3>1. t.i + 1 \in Nat /\ pc \in PCs
      BY <1>1, <2>5 DEF TxRow, PCs
    <3> HIDE DEF t, pc
    <3> QED
      BY <1>1, <2>4, <3>1 DEF TxRow
  <2>7. /\ u.op = t.op /\ u.pc = pc /\ u.order = t.order /\ u.prod = t.prod
        /\ u.key = t.key /\ u.i = t.i + 1 /\ u.delta = d
        /\ u.held = t.held \cup Wants(w)
    BY <1>1 DEF TxRow
  <2> HIDE DEF u
  <2>8. /\ LinesDone(t) = t.i - 1 /\ LinesDone(u) = t.i
        /\ u.pc = "lines" => u.i \in 1 .. Len(lines[u.order])
    BY <1>2, <2>7, NextLine
  <2> HIDE DEF pc
  <2>9. item[p].exists => <<"item", p>> \in u.held
    BY <1>2, <2>7 DEF Wants
  <2>10. TxFits(u)
    BY <1>1, <1>2, <1>3, <2>5, <2>7, <2>8 DEF TxFits, Stages, OrderOps
  <2>11. DeltaFits(u)
    <3> DEFINE before(x) == Ordered(lines[t.order], x, t.i - 1)
               after(x) == Ordered(lines[t.order], x, t.i)
    <3>1. \A x \in Products : /\ before(x) \in Nat
                             /\ after(x) = before(x) + IF p = x THEN l.qty ELSE 0
      <4>1. t.i - 1 \in 0 .. Len(lines[t.order])
        BY <1>3
      <4> QED
        BY <1>3, <4>1, OrderedSteps
    <3> HIDE DEF before, after
    <3> SUFFICES ASSUME NEW x \in Products
                 PROVE  /\ d[x].onHand # 0 \/ d[x].reserved # 0 => <<"item", x>> \in u.held
                        /\ 0 <= item[x].reserved + d[x].reserved
                        /\ item[x].reserved + d[x].reserved <= item[x].onHand + d[x].onHand
                        /\ d[x].onHand = 0
                        /\ 0 <= d[x].reserved
                        /\ d[x].reserved > 0 => item[x].exists
                        /\ d[x].reserved <= after(x)
      BY <1>2, <2>5, <2>7, <2>8 DEF DeltaFits, after
    <3>2. /\ t.delta[x].onHand # 0 \/ t.delta[x].reserved # 0 => <<"item", x>> \in t.held
          /\ 0 <= item[x].reserved + t.delta[x].reserved
          /\ item[x].reserved + t.delta[x].reserved <= item[x].onHand + t.delta[x].onHand
          /\ t.delta[x].onHand = 0
          /\ 0 <= t.delta[x].reserved
          /\ t.delta[x].reserved > 0 => item[x].exists
          /\ t.delta[x].reserved <= before(x)
      BY <1>1, <1>2, <2>8 DEF DeltaFits, before
    <3>3. item[x].onHand \in Int /\ item[x].reserved \in Int
      BY StockTyped
    <3>4. CASE x # p
      <4>1. d[x] = t.delta[x]
        BY <2>4, <3>4
      <4> HIDE DEF p
      <4>2. after(x) = before(x) /\ before(x) \in Nat
        BY <3>1, <3>4
      <4> QED
        BY <2>7, <3>2, <4>1, <4>2
    <3>5. CASE x = p
      <4>1. d[x].onHand = t.delta[x].onHand /\ d[x].reserved = t.delta[x].reserved + q
        BY <2>4, <3>5
      <4>2. after(x) = before(x) + l.qty /\ before(x) \in Nat
        BY <3>1, <3>5
      <4>3. t.delta[x].reserved \in Int
        BY <2>2
      <4>4. CASE item[p].exists
        <5>1. q = l.qty /\ l.qty \in Nat \ {0}
          BY <1>3, <4>4
        <5>2. item[x].onHand + t.delta[x].onHand - (item[x].reserved + t.delta[x].reserved)
                >= l.qty
          <6>1. ~(Seen(w, p).onHand - Seen(w, p).reserved < l.qty)
            BY <1>5, <4>4
          <6>2. /\ Seen(w, p).onHand = item[x].onHand + t.delta[x].onHand
                /\ Seen(w, p).reserved = item[x].reserved + t.delta[x].reserved
            BY <3>5 DEF Seen
          <6>3. t.delta[x].onHand \in Int /\ t.delta[x].reserved \in Int
            BY <2>2
          <6> HIDE DEF p, l, q, t
          <6> QED
            BY <3>3, <5>1, <6>1, <6>2, <6>3
        <5> HIDE DEF q, l, p
        <5> QED
          BY <2>9, <3>2, <3>3, <3>5, <4>1, <4>2, <4>3, <4>4, <5>1, <5>2
      <4>5. CASE ~item[p].exists
        <5>1. q = 0 /\ l.qty \in Nat \ {0} /\ ~item[x].exists
          BY <1>3, <3>5, <4>5
        <5> HIDE DEF q, l, p
        <5> QED
          BY <3>2, <3>3, <4>1, <4>2, <4>3, <5>1
      <4> QED
        BY <4>4, <4>5
    <3> QED
      BY <3>4, <3>5
  <2>12. Uncontended(w, u)
    BY <1>2, <2>7, GrantedAlone
  <2> QED
    BY <1>2, <2>1, <2>6, <2>10, <2>11, <2>12, TxOnlyKeeps
<1> QED
  BY <1>4, <1>5

\* Giving up as much of the reservations as there is, line after line, is
\* giving up as much as there is for all of them.
LEMMA GiveUp ==
  ASSUME NEW R \in Int, NEW h \in Int, NEW H \in Int, NEW r \in Int, NEW q \in Nat, NEW g,
         0 <= R, h <= 0, r = IF R < -h THEN -R ELSE h,
         g = IF R + r < q THEN R + r ELSE q,
         R + r <= H + h, H + h >= q
  PROVE  /\ g \in Int
         /\ r - g = IF R < -(h - q) THEN -R ELSE h - q
         /\ 0 <= R + (r - g) /\ R + (r - g) <= H + (h - q)
         /\ h - q <= 0
OBVIOUS

LEMMA ShipLineKeeps ==
  ASSUME NEW w \in Workers, IInv, ShipLine(w)
  PROVE  IInv'
<1> DEFINE t == tx[w]
           l == lines[t.order][t.i]
           p == l.prod
           q == l.qty
           pc == AfterLine(t)
           before(x) == Ordered(lines[t.order], x, t.i - 1)
           after(x) == Ordered(lines[t.order], x, t.i)
<1>1. TxFits(t) /\ DeltaFits(t) /\ t \in TxRow /\ Wants(w) \subseteq Rows
  BY OpenTx, WantsRows
<1>2. t.pc = "lines" /\ t.op = "ship" /\ Granted(w) /\ UNCHANGED Tables
  BY DEF ShipLine
<1>3. /\ t.order \in Orders /\ t.i \in 1 .. Len(lines[t.order])
      /\ p \in Products /\ q \in Nat \ {0} /\ lines[t.order] \in Seq(LineRow)
  BY <1>2, AtLine, LinesTyped DEF LineRow
<1>4. pc \in {"lines", "cogs"} /\ pc \in PCs /\ t.i + 1 \in Nat
  BY <1>2, <1>3 DEF AfterLine, PCs
<1>5. \A x \in Products : /\ before(x) \in Nat
                         /\ after(x) = before(x) + IF p = x THEN q ELSE 0
  <2>1. t.i - 1 \in 0 .. Len(lines[t.order])
    BY <1>3
  <2> QED
    BY <1>3, <2>1, OrderedSteps
<1>6. LinesDone(t) = t.i - 1
  BY <1>2 DEF LinesDone
<1>7. ASSUME NEW x \in Products
      PROVE  /\ t.delta[x].onHand # 0 \/ t.delta[x].reserved # 0 => <<"item", x>> \in t.held
             /\ 0 <= item[x].reserved + t.delta[x].reserved
             /\ item[x].reserved + t.delta[x].reserved <= item[x].onHand + t.delta[x].onHand
             /\ t.delta[x].onHand <= 0
             /\ t.delta[x].reserved = IF item[x].reserved < -t.delta[x].onHand
                                      THEN -item[x].reserved ELSE t.delta[x].onHand
             /\ moves.reservation[t.order][x] > 0 => -t.delta[x].onHand = before(x)
  BY <1>1, <1>2, <1>6 DEF DeltaFits
<1>8. /\ t.delta \in [Products -> Change]
      /\ \A x \in Products : t.delta[x].onHand \in Int /\ t.delta[x].reserved \in Int
  BY <1>1 DEF TxRow, Change
<1>9. CASE ~item[p].exists
  <2> DEFINE u == [t EXCEPT !.i = @ + 1, !.pc = pc]
  <2>1. tx' = [tx EXCEPT ![w] = u]
    BY <1>9 DEF ShipLine, IInv, TxType, TxRow
  <2>2. u \in TxRow
    <3> HIDE DEF pc, t
    <3> QED
      BY <1>1, <1>4 DEF TxRow
  <2>3. /\ u.op = t.op /\ u.pc = pc /\ u.order = t.order /\ u.prod = t.prod
        /\ u.key = t.key /\ u.i = t.i + 1 /\ u.delta = t.delta /\ u.held = t.held
    BY <1>1 DEF TxRow
  <2> HIDE DEF u
  <2>4. LinesDone(u) = t.i /\ (u.pc = "lines" => u.i \in 1 .. Len(lines[u.order]))
    BY <1>2, <2>3, NextLine
  <2>5. TxFits(u)
    BY <1>1, <1>2, <1>3, <1>4, <2>3, <2>4 DEF TxFits, Stages, OrderOps
  <2>6. DeltaFits(u)
    <3>1. ASSUME NEW x \in Products, moves.reservation[t.order][x] > 0
          PROVE  -t.delta[x].onHand = after(x)
      <4>1. x # p
        BY <1>3, <1>9, <3>1 DEF IInv, MovesFit
      <4>2. after(x) = before(x)
        <5> HIDE DEF p, before, after
        <5> QED
          BY <1>5, <4>1
      <4> QED
        BY <1>7, <3>1, <4>2
    <3> HIDE DEF p, before, pc
    <3> QED
      BY <1>2, <1>4, <1>7, <2>3, <2>4, <3>1 DEF DeltaFits
  <2>7. Uncontended(w, u)
    <3>1. Wants(w) = {}
      BY <1>2, <1>9 DEF Wants
    <3> QED
      BY <2>3, <3>1, GrantedAlone
  <2> QED
    BY <1>2, <2>1, <2>2, <2>5, <2>6, <2>7, TxOnlyKeeps
<1>10. CASE item[p].exists /\ Seen(w, p).onHand < q
  BY <1>2, <1>10, AbortKeeps DEF ShipLine
<1>11. CASE item[p].exists /\ ~(Seen(w, p).onHand < q)
  <2> DEFINE given == IF Seen(w, p).reserved < q THEN Seen(w, p).reserved ELSE q
             d == [t.delta EXCEPT ![p] = [onHand |-> @.onHand - q,
                                          reserved |-> @.reserved - given]]
             u == [t EXCEPT !.pc = pc, !.i = t.i + 1, !.held = @ \cup Wants(w), !.delta = d]
  <2>1. tx' = [tx EXCEPT ![w] = u]
    <3>1. tx \in [Workers -> TxRow]
      BY DEF IInv, TxType
    <3>2. tx' = [tx EXCEPT ![w].held = @ \cup Wants(w), ![w].i = @ + 1, ![w].pc = AfterLine(t),
                           ![w].delta[p] = [onHand |-> @.onHand - q,
                                            reserved |-> @.reserved - given]]
      BY <1>11 DEF ShipLine
    <3> HIDE DEF q, p, pc, given
    <3> QED
      BY <3>1, <3>2 DEF TxRow
  <2> DEFINE H == item[p].onHand
             R == item[p].reserved
             h == t.delta[p].onHand
             r == t.delta[p].reserved
  <2>2. H \in Int /\ R \in Int /\ h \in Int /\ r \in Int /\ 0 <= R
    BY <1>3, <1>8, StockTyped
  <2>3. Seen(w, p).onHand = H + h /\ Seen(w, p).reserved = R + r
    BY DEF Seen
  <2>4. /\ given \in Int
        /\ r - given = IF R < -(h - q) THEN -R ELSE h - q
        /\ 0 <= R + (r - given) /\ R + (r - given) <= H + (h - q)
        /\ h - q <= 0
    <3>1. h <= 0 /\ r = (IF R < -h THEN -R ELSE h) /\ R + r <= H + h
      BY <1>3, <1>7
    <3>2. H + h >= q /\ q \in Nat
      <4> HIDE DEF H, R, h, r, q, p
      <4> QED
        BY <1>3, <1>11, <2>2, <2>3
    <3>3. given = IF R + r < q THEN R + r ELSE q
      BY <2>3
    <3> HIDE DEF given, H, R, h, r, q, p
    <3> QED
      BY <2>2, <3>1, <3>2, <3>3, GiveUp
  <2>5. /\ d \in [Products -> Change]
        /\ d[p].onHand = h - q /\ d[p].reserved = r - given
        /\ \A x \in Products \ {p} : d[x] = t.delta[x]
    <3>1. h - q \in Int /\ r - given \in Int
      <4>1. q \in Nat
        BY <1>3
      <4>2. given \in Int
        BY <2>4
      <4> HIDE DEF H, R, h, r, given, q, p
      <4> QED
        BY <2>2, <4>1, <4>2
    <3>2. d = [t.delta EXCEPT ![p] = [onHand |-> h - q, reserved |-> r - given]]
      OBVIOUS
    <3> HIDE DEF d, h, r, given, q, p, t
    <3> QED
      BY <1>3, <1>8, <3>1, <3>2, DeltaAdd, SMTT(20)
  <2> HIDE DEF d, given
  <2>6. u \in TxRow
    <3> HIDE DEF t, pc
    <3> QED
      BY <1>1, <1>4, <2>5 DEF TxRow
  <2>7. /\ u.op = t.op /\ u.pc = pc /\ u.order = t.order /\ u.prod = t.prod
        /\ u.key = t.key /\ u.i = t.i + 1 /\ u.delta = d
        /\ u.held = t.held \cup Wants(w)
    BY <1>1 DEF TxRow
  <2> HIDE DEF u
  <2>8. LinesDone(u) = t.i /\ (u.pc = "lines" => u.i \in 1 .. Len(lines[u.order]))
    BY <1>2, <2>7, NextLine
  <2>9. <<"item", p>> \in u.held
    BY <1>2, <1>11, <2>7 DEF Wants
  <2> HIDE DEF pc
  <2>10. TxFits(u)
    BY <1>1, <1>2, <1>3, <1>4, <2>7, <2>8 DEF TxFits, Stages, OrderOps
  <2>11. DeltaFits(u)
    <3> SUFFICES ASSUME NEW x \in Products
                 PROVE  /\ d[x].onHand # 0 \/ d[x].reserved # 0 => <<"item", x>> \in u.held
                        /\ 0 <= item[x].reserved + d[x].reserved
                        /\ item[x].reserved + d[x].reserved <= item[x].onHand + d[x].onHand
                        /\ d[x].onHand <= 0
                        /\ d[x].reserved = IF item[x].reserved < -d[x].onHand
                                           THEN -item[x].reserved ELSE d[x].onHand
                        /\ moves.reservation[t.order][x] > 0 => -d[x].onHand = after(x)
      BY <1>2, <1>4, <2>7, <2>8 DEF DeltaFits
    <3>1. CASE x # p
      <4>1. d[x] = t.delta[x]
        BY <2>5, <3>1
      <4> HIDE DEF p, before, after
      <4>2. after(x) = before(x)
        BY <1>5, <3>1
      <4> QED
        BY <1>7, <2>7, <4>1, <4>2
    <3>2. CASE x = p
      <4>1. d[x].onHand = h - q /\ d[x].reserved = r - given
        BY <2>5, <3>2
      <4>2. item[x].onHand = H /\ item[x].reserved = R
        BY <3>2
      <4>3. moves.reservation[t.order][x] > 0 => -h = before(x)
        BY <1>7, <3>2
      <4>4. after(x) = before(x) + q /\ before(x) \in Nat
        BY <1>5, <3>2
      <4>5. moves.reservation[t.order][x] > 0 => -(h - q) = after(x)
        <5> HIDE DEF h, q, before, after, p
        <5> QED
          BY <1>3, <2>2, <4>3, <4>4
      <4>6. <<"item", x>> \in u.held
        BY <2>9, <3>2
      <4> HIDE DEF h, r, q, H, R, before, after, p, t
      <4> QED
        BY <2>4, <4>1, <4>2, <4>5, <4>6
    <3> QED
      BY <3>1, <3>2
  <2>12. Uncontended(w, u)
    BY <1>2, <2>7, GrantedAlone
  <2> QED
    BY <1>2, <2>1, <2>6, <2>10, <2>11, <2>12, TxOnlyKeeps
<1> QED
  BY <1>9, <1>10, <1>11
-----------------------------------------------------------------------------
(* Steps that change the tables *)

\* The functions the properties sum up.
Shipments(p) == [o \in Orders |-> moves.shipment[o][p]]
Reservations(p) ==
  [o \in Orders |-> IF status[o] = "CONFIRMED" THEN moves.reservation[o][p] ELSE 0]

\* An order that is created takes nothing from anybody: no transaction is
\* about it yet.
LEMMA CreateOrderKeeps ==
  ASSUME NEW o \in Orders, NEW b \in Baskets[o], IInv, CreateOrder(o, b)
  PROVE  IInv'
<1>1. /\ status \in [Orders -> Statuses] /\ DOMAIN lines = Orders
      /\ status[o] = "NONE"
      /\ status'[o] = "DRAFT" /\ \A x \in Orders \ {o} : status'[x] = status[x]
      /\ UNCHANGED <<item, moves, posted, tx>>
  BY DEF CreateOrder, IInv, TypeOK, LinesFit
<1>2. /\ lines' = [lines EXCEPT ![o] = b]
      /\ lines'[o] = b /\ \A x \in Orders \ {o} : lines'[x] = lines[x]
  BY <1>1 DEF CreateOrder
<1>3. TypeOK' /\ TxType'
  <2>1. status' \in [Orders -> Statuses]
    BY DEF CreateOrder, IInv, TypeOK, Statuses
  <2>2. \A x \in Orders : lines'[x] \in Baskets[x] \cup {<<>>}
    BY <1>2 DEF IInv, TypeOK
  <2> QED
    BY <1>1, <2>1, <2>2 DEF IInv, TypeOK, TxType
<1>4. LinesFit'
  BY <1>1, <1>2 DEF IInv, LinesFit
<1>5. ASSUME NEW w \in Workers PROVE TxFits(tx[w])' /\ DeltaFits(tx[w])'
  <2> DEFINE t == tx[w]
  <2>1. TxFits(t) /\ DeltaFits(t) /\ t \in TxRow
    BY OpenTx
  <2>2. t.op \in OrderOps => status'[t.order] = status[t.order] /\ lines'[t.order] = lines[t.order]
    BY <1>1, <1>2, <2>1 DEF TxFits
  <2>3. t.pc = "lines" => t.op \in OrderOps
    BY <2>1 DEF TxFits, Stages, TxRow, Ops, OrderOps
  <2>4. TxFits(tx[w])'
    BY <1>1, <2>1, <2>2, <2>3 DEF TxFits, OrderOps
  <2>5. t.op \in OrderOps => LinesDone(tx[w])' = LinesDone(t)
    BY <1>1, <2>2 DEF LinesDone
  <2>6. DeltaFits(tx[w])'
    BY <1>1, <2>1, <2>2, <2>5, SMTT(20) DEF DeltaFits, OrderOps
  <2> QED
    BY <2>4, <2>6
<1>6. Locks'
  BY <1>1 DEF IInv, Locks
<1>7. KeysFollowStatus'
  BY <1>1 DEF IInv, KeysFollowStatus, Billed, GoodsOut
<1>8. MovesFit'
  <2>1. MovesType'
    BY <1>1 DEF IInv, MovesFit, MovesType
  <2>2. b \in Seq(LineRow)
    BY OrdersAssumption DEF LineRow
  <2>3. ASSUME NEW x \in Orders, NEW p \in Products
        PROVE  /\ status'[x] \in {"NONE", "DRAFT", "CANCELLED"} => moves'.reservation[x][p] = 0
               /\ status'[x] \notin GoodsOut => moves'.shipment[x][p] = 0
               /\ 0 <= moves'.reservation[x][p]
               /\ moves'.reservation[x][p] <= Ordered(lines'[x], p, Len(lines'[x]))
               /\ moves'.reservation[x][p] > 0 => item'[p].exists
    <3>1. /\ status[x] \in {"NONE", "DRAFT", "CANCELLED"} => moves.reservation[x][p] = 0
          /\ status[x] \notin GoodsOut => moves.shipment[x][p] = 0
          /\ 0 <= moves.reservation[x][p]
          /\ moves.reservation[x][p] <= Ordered(lines[x], p, Len(lines[x]))
          /\ moves.reservation[x][p] > 0 => item[p].exists
      BY DEF IInv, MovesFit
    <3>2. CASE x = o
      <4>1. Ordered(b, p, Len(b)) \in Nat
        BY <2>2, OrderedSteps
      <4> QED
        BY <1>1, <1>2, <3>1, <3>2, <4>1 DEF GoodsOut
    <3>3. CASE x # o
      BY <1>1, <1>2, <3>1, <3>3
    <3> QED
      BY <3>2, <3>3
  <2> QED
    BY <2>1, <2>3 DEF MovesFit, GoodsOut
<1>9. StockBounds' /\ StockMatchesMovements'
  BY <1>1 DEF IInv, StockBounds, StockMatchesMovements
<1>10. ReservationLostOnlyLate'
  <2>1. ASSUME NEW p \in Products PROVE Reservations(p)' = Reservations(p)
    BY <1>1 DEF Reservations
  <2>2. \A p \in Products : SumFunction(Reservations(p))' = SumFunction(Reservations(p))
    BY <2>1
  <2> QED
    BY <1>1, <2>2 DEF IInv, ReservationLostOnlyLate, Reservations
<1> QED
  BY <1>3, <1>4, <1>5, <1>6, <1>7, <1>8, <1>9, <1>10 DEF IInv, AllFit

\* What a transaction that is about to commit knows: its order is still where
\* the operation requires it (for an invoice or a payment because its key is
\* not committed), and nobody else's key, order or stock row is concerned.
LEMMA CommitFacts ==
  ASSUME NEW w \in Workers, IInv, Commit(w)
  PROVE  LET t == tx[w] IN
         /\ t.op \in OrderOps => /\ t.order \in Orders /\ t.prod = None
                                 /\ status[t.order] = Required[t.op]
         /\ t.op \notin OrderOps => t.op = "receive" /\ t.prod \in Products
         /\ t.key # None => t.key = Key(t) /\ t.key \notin posted
         /\ t.op \in {"confirm", "cancel"} => t.key = None
         /\ t.op \in {"invoice", "payment"} => t.key # None
<1> DEFINE t == tx[w]
<1>1. TxFits(t) /\ t \in TxRow /\ t.pc = "commit"
  BY OpenTx DEF Commit
<1>2. t.op \in {"confirm", "ship", "cancel", "invoice", "payment", "receive"}
  BY <1>1 DEF TxFits, Stages, TxRow, Ops, OrderOps
<1>3. t.op \in OrderOps => t.order \in Orders /\ t.prod = None
  BY <1>1 DEF TxFits
<1>4. t.op \in {"invoice", "payment"} => t.key # None /\ t.key = Key(t) /\ t.key \notin posted
  BY <1>1 DEF TxFits
<1>5. t.op = "invoice" => status[t.order] = "SHIPPED"
  BY <1>1, <1>3, <1>4 DEF TxFits, Key, IInv, KeysFollowStatus, Billed, GoodsOut, OrderOps
<1>6. t.op = "payment" => status[t.order] = "INVOICED"
  BY <1>1, <1>3, <1>4 DEF TxFits, Key, IInv, KeysFollowStatus, Billed, GoodsOut, OrderOps
<1>7. t.op \in OrderOps => status[t.order] = Required[t.op]
  BY <1>1, <1>2, <1>5, <1>6 DEF TxFits, Required, OrderOps
<1> QED
  BY <1>1, <1>2, <1>3, <1>4, <1>7 DEF TxFits, OrderOps

\* What it leaves behind.
LEMMA CommitTables ==
  ASSUME NEW w \in Workers, IInv, Commit(w)
  PROVE  LET t == tx[w] IN
         /\ t.op \in OrderOps => /\ status'[t.order] = Target[t.op]
                                 /\ \A x \in Orders \ {t.order} : status'[x] = status[x]
         /\ t.op \notin OrderOps => status' = status
         /\ \A p \in Products :
              /\ item'[p].onHand = item[p].onHand + t.delta[p].onHand
              /\ item'[p].reserved = item[p].reserved + t.delta[p].reserved
              /\ item[p].exists => item'[p].exists
         /\ TypeOK' /\ TxType' /\ LinesFit' /\ StockBounds'
         /\ \A v \in Workers \ {w} : tx'[v] = tx[v]
         /\ tx'[w] = IdleTx
<1> DEFINE t == tx[w]
<1>1. TxFits(t) /\ DeltaFits(t) /\ t \in TxRow
  BY OpenTx
<1>2. /\ status \in [Orders -> Statuses]
      /\ item \in [Products -> [exists : BOOLEAN, onHand : Int, reserved : Int]]
      /\ tx \in [Workers -> TxRow] /\ t.delta \in [Products -> Change]
  BY <1>1 DEF IInv, TypeOK, TxType, TxRow
<1>3. /\ t.op \in OrderOps => t.order \in Orders
      /\ t.op \in OrderOps => status' = [status EXCEPT ![t.order] = Target[t.op]]
      /\ t.op \notin OrderOps => status' = status
  BY CommitFacts DEF Commit
<1>4. t.op \in OrderOps => Target[t.op] \in Statuses \ {"NONE"}
  BY DEF OrderOps, Target, Statuses
<1>5. /\ status' \in [Orders -> Statuses]
      /\ t.op \in OrderOps => /\ status'[t.order] = Target[t.op]
                              /\ \A x \in Orders \ {t.order} : status'[x] = status[x]
  BY <1>2, <1>3, <1>4
<1>6. item' = [p \in Products |-> [exists |-> item[p].exists \/ p = t.prod,
                                   onHand |-> Seen(w, p).onHand,
                                   reserved |-> Seen(w, p).reserved]]
  BY DEF Commit
<1>7. ASSUME NEW p \in Products
      PROVE  /\ item'[p].onHand = item[p].onHand + t.delta[p].onHand
             /\ item'[p].reserved = item[p].reserved + t.delta[p].reserved
             /\ item[p].exists => item'[p].exists
             /\ item'[p].exists \in BOOLEAN
             /\ item'[p].onHand \in Int /\ item'[p].reserved \in Int
             /\ item'[p] \in [exists : BOOLEAN, onHand : Int, reserved : Int]
  <2>1. /\ item'[p] = [exists |-> item[p].exists \/ p = t.prod,
                       onHand |-> Seen(w, p).onHand, reserved |-> Seen(w, p).reserved]
    BY <1>6
  <2>2. /\ Seen(w, p).onHand = item[p].onHand + t.delta[p].onHand
        /\ Seen(w, p).reserved = item[p].reserved + t.delta[p].reserved
    BY DEF Seen
  <2>3. /\ item[p].onHand \in Int /\ item[p].reserved \in Int
        /\ t.delta[p].onHand \in Int /\ t.delta[p].reserved \in Int
    BY <1>2 DEF Change
  <2>4. (item[p].exists \/ p = t.prod) \in BOOLEAN
    OBVIOUS
  <2> HIDE DEF t
  <2>5. Seen(w, p).onHand \in Int /\ Seen(w, p).reserved \in Int
    BY <2>2, <2>3
  <2>6. item'[p] \in [exists : BOOLEAN, onHand : Int, reserved : Int]
    BY <2>1, <2>4, <2>5
  <2>7. /\ item'[p].onHand = Seen(w, p).onHand
        /\ item'[p].reserved = Seen(w, p).reserved
    BY <2>1
  <2>8. item[p].exists => item'[p].exists
    <3>1. item'[p].exists = (item[p].exists \/ p = t.prod)
      BY <2>1
    <3> QED
      BY <3>1
  <2>9. item'[p].exists \in BOOLEAN
    BY <2>6
  <2> QED
    BY <2>2, <2>5, <2>6, <2>7, <2>8, <2>9
<1>8. item' \in [Products -> [exists : BOOLEAN, onHand : Int, reserved : Int]]
  <2>1. item' = [p \in Products |-> item'[p]]
    BY <1>6
  <2> QED
    BY <1>7, <2>1
<1>9. StockBounds'
  <2>1. \A p \in Products : /\ 0 <= item[p].reserved + t.delta[p].reserved
                           /\ item[p].reserved + t.delta[p].reserved
                                <= item[p].onHand + t.delta[p].onHand
    BY <1>1 DEF DeltaFits
  <2> QED
    BY <1>7, <2>1 DEF StockBounds
<1>10. tx' = [tx EXCEPT ![w] = IdleTx] /\ lines' = lines
  BY DEF Commit
<1>11. /\ tx'[w] = IdleTx /\ \A v \in Workers \ {w} : tx'[v] = tx[v]
       /\ TxType'
  <2>1. IdleTx \in TxRow
    BY IdleFits DEF IInv, TypeOK
  <2> QED
    BY <1>2, <1>10, <2>1 DEF TxType
<1>12. TypeOK'
  BY <1>5, <1>8, <1>10, <1>11 DEF IInv, TypeOK
<1>13. LinesFit'
  <2>1. \A x \in Orders : status'[x] = "NONE" <=> status[x] = "NONE"
    <3>1. t.op \in OrderOps => status[t.order] # "NONE"
      BY <1>1 DEF TxFits
    <3> QED
      BY <1>3, <1>4, <1>5, <3>1
  <2> QED
    BY <1>10, <2>1 DEF IInv, LinesFit
<1> QED
  BY <1>3, <1>5, <1>7, <1>9, <1>11, <1>12, <1>13

\* An order's status only moves from what the operation requires to its target.
LEMMA CommitStatus ==
  ASSUME NEW w \in Workers, IInv, Commit(w), NEW o \in Orders
  PROVE  /\ \/ status'[o] = status[o]
            \/ /\ tx[w].op \in OrderOps /\ tx[w].order = o
               /\ status[o] = Required[tx[w].op] /\ status'[o] = Target[tx[w].op]
         /\ status[o] # "NONE" => status'[o] # "NONE"
         /\ status[o] \in GoodsOut => status'[o] \in GoodsOut
         /\ status[o] \in Billed => status'[o] \in Billed
<1>1. \/ status'[o] = status[o]
      \/ /\ tx[w].op \in OrderOps /\ tx[w].order = o
         /\ status[o] = Required[tx[w].op] /\ status'[o] = Target[tx[w].op]
  BY CommitFacts, CommitTables
<1>2. \A op \in OrderOps : /\ Target[op] # "NONE"
                           /\ Required[op] \in GoodsOut => Target[op] \in GoodsOut
                           /\ Required[op] \in Billed => Target[op] \in Billed
  BY DEF OrderOps, Required, Target, GoodsOut, Billed
<1> QED
  BY <1>1, <1>2

\* The movements it logs.
LEMMA CommitMoves ==
  ASSUME NEW w \in Workers, IInv, Commit(w)
  PROVE  LET t == tx[w] IN
         /\ MovesType'
         /\ \A p \in Products :
              moves'.receipt[p] = moves.receipt[p]
                                  + IF t.op = "receive" /\ p = t.prod THEN t.qty ELSE 0
         /\ \A o \in Orders, p \in Products :
              /\ moves'.reservation[o][p] = IF t.op = "confirm" /\ o = t.order
                                            THEN t.delta[p].reserved
                                            ELSE moves.reservation[o][p]
              /\ moves'.shipment[o][p] = IF t.op = "ship" /\ o = t.order
                                         THEN -t.delta[p].onHand
                                         ELSE moves.shipment[o][p]
<1> DEFINE t == tx[w]
<1>1. t \in TxRow /\ moves' = Movements(t)
  BY OpenTx DEF Commit
<1>2. /\ t.op \in OrderOps => t.order \in Orders
      /\ t.op \notin OrderOps => t.op = "receive" /\ t.prod \in Products
  BY CommitFacts
<1>3. \A p \in Products : t.delta[p].onHand \in Int /\ t.delta[p].reserved \in Int
  BY <1>1 DEF TxRow, Change
<1>4. t.qty \in Nat
  BY <1>1 DEF TxRow
<1>5. MovesType
  BY DEF IInv, MovesFit
<1>6. \A p \in Products : moves.receipt[p] \in Int
  BY <1>5 DEF MovesType
<1> HIDE DEF t
<1>7. CASE t.op = "receive"
  <2>1. moves' = [moves EXCEPT !.receipt[t.prod] = @ + t.qty] /\ t.prod \in Products
    BY <1>1, <1>2, <1>7 DEF Movements, OrderOps
  <2>2. MovesType'
    BY <1>4, <1>5, <2>1, SMTT(20) DEF MovesType
  <2>3. \A p \in Products :
           moves'.receipt[p] = IF p = t.prod THEN moves.receipt[p] + t.qty ELSE moves.receipt[p]
    BY <1>5, <2>1 DEF MovesType
  <2>4. moves'.reservation = moves.reservation /\ moves'.shipment = moves.shipment
    BY <1>5, <2>1 DEF MovesType
  <2>5. \A p \in Products :
           moves'.receipt[p] = moves.receipt[p] + IF p = t.prod THEN t.qty ELSE 0
    BY <1>6, <2>3
  <2> QED
    BY <1>7, <2>2, <2>4, <2>5 DEF t
<1>8. CASE t.op = "confirm"
  <2>1. /\ moves' = [moves EXCEPT !.reservation[t.order] =
                       [p \in Products |-> t.delta[p].reserved]]
        /\ t.order \in Orders
    BY <1>1, <1>2, <1>8 DEF Movements, OrderOps
  <2>2. MovesType'
    BY <1>3, <1>5, <2>1 DEF MovesType
  <2>3. \A o \in Orders, p \in Products :
           moves'.reservation[o][p] = IF o = t.order THEN t.delta[p].reserved
                                      ELSE moves.reservation[o][p]
    BY <1>5, <2>1 DEF MovesType
  <2>4. moves'.receipt = moves.receipt /\ moves'.shipment = moves.shipment
    BY <1>5, <2>1 DEF MovesType
  <2> QED
    BY <1>6, <1>8, <2>2, <2>3, <2>4 DEF t
<1>9. CASE t.op = "ship"
  <2>1. /\ moves' = [moves EXCEPT !.shipment[t.order] =
                       [p \in Products |-> -t.delta[p].onHand]]
        /\ t.order \in Orders
    BY <1>1, <1>2, <1>9 DEF Movements, OrderOps
  <2>2. MovesType'
    <3> DEFINE shipped == [p \in Products |-> -t.delta[p].onHand]
    <3>1. \A p \in Products : -t.delta[p].onHand \in Int
      BY <1>3
    <3>2. shipped \in [Products -> Int]
      BY <3>1
    <3>3. moves' = [moves EXCEPT !.shipment[t.order] = shipped] /\ t.order \in Orders
      BY <2>1
    <3> HIDE DEF shipped
    <3> QED
      BY <1>5, <3>2, <3>3 DEF MovesType
  <2>3. \A o \in Orders, p \in Products :
           moves'.shipment[o][p] = IF o = t.order THEN -t.delta[p].onHand
                                   ELSE moves.shipment[o][p]
    BY <1>5, <2>1 DEF MovesType
  <2>4. moves'.receipt = moves.receipt /\ moves'.reservation = moves.reservation
    BY <1>5, <2>1 DEF MovesType
  <2> QED
    BY <1>6, <1>9, <2>2, <2>3, <2>4 DEF t
<1>10. CASE t.op \notin {"receive", "confirm", "ship"}
  <2>1. moves' = moves
    BY <1>1, <1>10 DEF Movements
  <2>2. MovesType'
    BY <1>5, <2>1 DEF MovesType
  <2> QED
    BY <1>6, <1>10, <2>1, <2>2 DEF t
<1> QED
  BY <1>7, <1>8, <1>9, <1>10

\* What the other open transactions know and have changed is still right.
LEMMA CommitOthers ==
  ASSUME NEW w \in Workers, IInv, Commit(w), NEW v \in Workers, v # w
  PROVE  TxFits(tx[v])' /\ DeltaFits(tx[v])'
<1> DEFINE t == tx[w]
           u == tx[v]
<1>1. /\ TxFits(t) /\ DeltaFits(t) /\ t \in TxRow /\ t.pc = "commit"
      /\ TxFits(u) /\ DeltaFits(u) /\ u \in TxRow
  BY OpenTx DEF Commit
<1>2. t.held \cap u.held = {}
  BY DEF IInv, Locks
<1>3. tx'[v] = u /\ lines' = lines /\ posted' = posted \cup ({t.key} \ {None})
  BY CommitTables DEF Commit
<1>4. \A o \in Orders :
        /\ \/ status'[o] = status[o]
           \/ t.op \in OrderOps /\ t.order = o /\ status[o] = Required[t.op]
        /\ status[o] # "NONE" => status'[o] # "NONE"
        /\ status[o] \in GoodsOut => status'[o] \in GoodsOut
        /\ status[o] \in Billed => status'[o] \in Billed
  BY CommitStatus
<1>5. ASSUME u.op \in {"confirm", "ship", "cancel"}, u.pc # "lock"
      PROVE  /\ status'[u.order] = status[u.order] /\ status[u.order] = Required[u.op]
             /\ u.order \in Orders
             /\ t.op = "confirm" => t.order # u.order
  <2>1. u.order \in Orders /\ <<"order", u.order>> \in u.held /\ status[u.order] = Required[u.op]
    BY <1>1, <1>5 DEF TxFits, OrderOps
  <2>2. ASSUME t.op \in {"confirm", "ship", "cancel"} PROVE t.order # u.order
    <3>1. <<"order", t.order>> \in t.held
      BY <1>1, <2>2 DEF TxFits
    <3> QED
      BY <1>2, <2>1, <3>1
  <2>3. ASSUME t.op \in {"invoice", "payment"} PROVE Required[t.op] # Required[u.op]
    BY <1>5, <2>3 DEF Required
  <2>4. \/ status'[u.order] = status[u.order]
        \/ t.op \in OrderOps /\ t.order = u.order /\ status[u.order] = Required[t.op]
    BY <1>4, <2>1
  <2>5. status'[u.order] = status[u.order]
    BY <2>1, <2>2, <2>3, <2>4 DEF OrderOps
  <2> QED
    BY <2>1, <2>2, <2>5
<1>6. u.key # None => u.key \notin posted'
  <2>1. t.key # None => <<"key", t.key>> \in t.held
    BY <1>1 DEF TxFits
  <2>2. u.key # None => <<"key", u.key>> \in u.held /\ u.key \notin posted
    BY <1>1 DEF TxFits
  <2> QED
    BY <1>2, <1>3, <2>1, <2>2
<1>7. TxFits(tx[v])'
  <2> HIDE DEF u, t
  <2>1. u.op \in OrderOps => u.order \in Orders /\ status'[u.order] # "NONE"
    BY <1>1, <1>4 DEF TxFits
  <2>2. u.op = "invoice" => status'[u.order] \in GoodsOut
    BY <1>1, <1>4 DEF TxFits, OrderOps
  <2>3. u.op = "payment" => status'[u.order] \in Billed
    BY <1>1, <1>4 DEF TxFits, OrderOps
  <2> QED
    BY <1>1, <1>3, <1>5, <1>6, <2>1, <2>2, <2>3 DEF TxFits
<1>8. DeltaFits(tx[v])'
  <2>1. LinesDone(tx[v])' = LinesDone(u)
    BY <1>3 DEF LinesDone
  <2>2. ASSUME NEW p \in Products
        PROVE  /\ item[p].exists => item'[p].exists
               /\ 0 <= item'[p].reserved /\ item'[p].reserved <= item'[p].onHand
               /\ item'[p].reserved \in Int /\ item'[p].onHand \in Int
               /\ u.delta[p].onHand \in Int /\ u.delta[p].reserved \in Int
               /\ \/ /\ item'[p].reserved = item[p].reserved
                     /\ item'[p].onHand = item[p].onHand
                  \/ u.delta[p].onHand = 0 /\ u.delta[p].reserved = 0
    <3>1. StockBounds' /\ TypeOK'
      BY CommitTables
    <3>2. u.delta[p].onHand \in Int /\ u.delta[p].reserved \in Int
      BY <1>1 DEF TxRow, Change
    <3>3. /\ item'[p].onHand = item[p].onHand + t.delta[p].onHand
          /\ item'[p].reserved = item[p].reserved + t.delta[p].reserved
          /\ item[p].exists => item'[p].exists
      BY CommitTables
    <3>4. /\ t.delta[p].onHand # 0 \/ t.delta[p].reserved # 0 => <<"item", p>> \in t.held
          /\ u.delta[p].onHand # 0 \/ u.delta[p].reserved # 0 => <<"item", p>> \in u.held
      BY <1>1 DEF DeltaFits
    <3>5. item[p].onHand \in Int /\ item[p].reserved \in Int
      BY StockTyped
    <3>6. \/ t.delta[p].onHand = 0 /\ t.delta[p].reserved = 0
          \/ u.delta[p].onHand = 0 /\ u.delta[p].reserved = 0
      BY <1>2, <3>4
    <3>7. /\ 0 <= item'[p].reserved /\ item'[p].reserved <= item'[p].onHand
          /\ item'[p].reserved \in Int /\ item'[p].onHand \in Int
      BY <3>1 DEF StockBounds, TypeOK
    <3> HIDE DEF t, u
    <3> QED
      BY <3>2, <3>3, <3>5, <3>6, <3>7
  <2>3. ASSUME u.op = "ship", u.pc # "lock", NEW p \in Products
        PROVE  moves'.reservation[u.order][p] = moves.reservation[u.order][p]
    BY <1>5, <2>3, CommitMoves
  <2>4. ASSUME NEW p \in Products
        PROVE  LET d == u.delta[p] IN
               /\ d.onHand # 0 \/ d.reserved # 0 => <<"item", p>> \in u.held
               /\ 0 <= item'[p].reserved + d.reserved
               /\ item'[p].reserved + d.reserved <= item'[p].onHand + d.onHand
               /\ u.pc \in {"lock", "item"} => d.onHand = 0 /\ d.reserved = 0
               /\ u.op = "confirm" =>
                    /\ d.onHand = 0
                    /\ u.pc = "series" => d.reserved = 0
                    /\ 0 <= d.reserved
                    /\ d.reserved > 0 => item'[p].exists
                    /\ u.pc \in {"lines", "commit"} =>
                         d.reserved <= Ordered(lines[u.order], p, LinesDone(u))
               /\ u.op = "ship" =>
                    /\ d.onHand <= 0
                    /\ d.reserved = IF item'[p].reserved < -d.onHand
                                    THEN -item'[p].reserved ELSE d.onHand
                    /\ u.pc # "lock" /\ moves'.reservation[u.order][p] > 0 =>
                         -d.onHand = Ordered(lines[u.order], p, LinesDone(u))
               /\ u.op = "receive" =>
                    /\ d.reserved = 0
                    /\ d.onHand = IF u.pc # "item" /\ p = u.prod THEN u.qty ELSE 0
    <3> DEFINE d == u.delta[p]
    <3>1. /\ d.onHand # 0 \/ d.reserved # 0 => <<"item", p>> \in u.held
          /\ 0 <= item[p].reserved + d.reserved
          /\ item[p].reserved + d.reserved <= item[p].onHand + d.onHand
          /\ u.pc \in {"lock", "item"} => d.onHand = 0 /\ d.reserved = 0
          /\ u.op = "confirm" =>
               /\ d.onHand = 0
               /\ u.pc = "series" => d.reserved = 0
               /\ 0 <= d.reserved
               /\ d.reserved > 0 => item[p].exists
               /\ u.pc \in {"lines", "commit"} =>
                    d.reserved <= Ordered(lines[u.order], p, LinesDone(u))
          /\ u.op = "ship" =>
               /\ d.onHand <= 0
               /\ d.reserved = IF item[p].reserved < -d.onHand
                               THEN -item[p].reserved ELSE d.onHand
               /\ u.pc # "lock" /\ moves.reservation[u.order][p] > 0 =>
                    -d.onHand = Ordered(lines[u.order], p, LinesDone(u))
          /\ u.op = "receive" =>
               /\ d.reserved = 0
               /\ d.onHand = IF u.pc # "item" /\ p = u.prod THEN u.qty ELSE 0
      BY <1>1 DEF DeltaFits
    <3>2. /\ 0 <= item'[p].reserved + d.reserved
          /\ item'[p].reserved + d.reserved <= item'[p].onHand + d.onHand
      <4> HIDE DEF u
      <4> QED
        BY <2>2, <3>1
    <3>3. u.op = "ship" => d.reserved = IF item'[p].reserved < -d.onHand
                                        THEN -item'[p].reserved ELSE d.onHand
      <4> HIDE DEF u
      <4> QED
        BY <2>2, <3>1
    <3>4. d.reserved > 0 /\ u.op = "confirm" => item'[p].exists
      BY <2>2, <3>1
    <3>5. u.op = "ship" /\ u.pc # "lock" /\ moves'.reservation[u.order][p] > 0 =>
             -d.onHand = Ordered(lines[u.order], p, LinesDone(u))
      BY <2>3, <3>1
    <3> HIDE DEF u
    <3> QED
      BY <3>1, <3>2, <3>3, <3>4, <3>5
  <2>5. u.op \in {"none", "cancel", "invoice", "payment"} => u.delta = NoChange
    BY <1>1 DEF DeltaFits
  <2> HIDE DEF u, t
  <2> QED
    BY <1>3, <2>1, <2>4, <2>5 DEF DeltaFits
<1> QED
  BY <1>7, <1>8

\* The keys of the entries follow the status.
LEMMA CommitKeys ==
  ASSUME NEW w \in Workers, IInv, Commit(w)
  PROVE  KeysFollowStatus'
<1> DEFINE t == tx[w]
<1>1. TxFits(t) /\ t \in TxRow /\ t.pc = "commit"
  BY OpenTx DEF Commit
<1>2. posted' = posted \cup ({t.key} \ {None})
  BY DEF Commit
<1>3. /\ t.op \in OrderOps => t.order \in Orders /\ status[t.order] = Required[t.op]
      /\ t.op \notin OrderOps => t.op = "receive" /\ status' = status
      /\ t.key # None => t.key = Key(t)
      /\ t.op \in {"confirm", "cancel"} => t.key = None
      /\ t.op \in {"invoice", "payment"} => t.key # None
  BY CommitFacts, CommitTables
<1> SUFFICES ASSUME NEW o \in Orders
             PROVE  /\ <<"invoice-order", o>> \in posted' <=> status'[o] \in Billed
                    /\ <<"payment-order", o>> \in posted' <=> status'[o] = "PAID"
                    /\ <<"goods-issue-order", o>> \in posted' => status'[o] \in GoodsOut
  BY DEF KeysFollowStatus
<1>4. /\ <<"invoice-order", o>> \in posted <=> status[o] \in Billed
      /\ <<"payment-order", o>> \in posted <=> status[o] = "PAID"
      /\ <<"goods-issue-order", o>> \in posted => status[o] \in GoodsOut
  BY DEF IInv, KeysFollowStatus
<1>5. \A k \in {"invoice-order", "payment-order", "goods-issue-order"} : <<k, o>> # None
  BY OrdersAssumption
<1>6. \A k \in {"invoice-order", "payment-order", "goods-issue-order"} :
         <<k, o>> \in posted' <=> <<k, o>> \in posted \/ <<k, o>> = t.key
  BY <1>2, <1>5
<1>7. \/ status'[o] = status[o]
      \/ t.op \in OrderOps /\ t.order = o /\ status'[o] = Target[t.op]
  BY CommitStatus
<1>8. t.op \in OrderOps /\ t.order = o => status'[o] = Target[t.op]
  BY CommitTables
<1>9. t.op = "receive" => \A k \in {"invoice-order", "payment-order", "goods-issue-order"} :
                              <<k, o>> # t.key
  BY <1>1, <1>3, <1>5 DEF Key
<1> HIDE DEF t
<1>10. CASE t.op \in OrderOps /\ t.order = o
  <2>1. status[o] = Required[t.op] /\ status'[o] = Target[t.op]
    BY <1>3, <1>8, <1>10
  <2>2. CASE t.op = "confirm"
    BY <1>3, <1>4, <1>5, <1>6, <2>1, <2>2 DEF Required, Target, Billed, GoodsOut
  <2>3. CASE t.op = "cancel"
    BY <1>3, <1>4, <1>5, <1>6, <2>1, <2>3 DEF Required, Target, Billed, GoodsOut
  <2>4. CASE t.op = "ship"
    <3>1. t.key # None => t.key = <<"goods-issue-order", o>>
      BY <1>3, <1>10, <2>4 DEF Key
    <3> QED
      BY <1>4, <1>5, <1>6, <2>1, <2>4, <3>1 DEF Required, Target, Billed, GoodsOut
  <2>5. CASE t.op = "invoice"
    <3>1. t.key = <<"invoice-order", o>>
      BY <1>3, <1>10, <2>5 DEF Key
    <3> QED
      BY <1>4, <1>6, <2>1, <2>5, <3>1 DEF Required, Target, Billed, GoodsOut
  <2>6. CASE t.op = "payment"
    <3>1. t.key = <<"payment-order", o>>
      BY <1>3, <1>10, <2>6 DEF Key
    <3> QED
      BY <1>4, <1>6, <2>1, <2>6, <3>1 DEF Required, Target, Billed, GoodsOut
  <2> QED
    BY <1>10, <2>2, <2>3, <2>4, <2>5, <2>6 DEF OrderOps
<1>11. CASE ~(t.op \in OrderOps /\ t.order = o)
  <2>1. status'[o] = status[o]
    BY <1>7, <1>11
  <2>2. \A k \in {"invoice-order", "payment-order", "goods-issue-order"} : <<k, o>> # t.key
    BY <1>3, <1>5, <1>9, <1>11 DEF Key, OrderOps
  <2> QED
    BY <1>4, <1>6, <2>1, <2>2
<1> QED
  BY <1>10, <1>11

\* What an order has reserved and shipped still fits its status and its lines.
LEMMA CommitMovesFit ==
  ASSUME NEW w \in Workers, IInv, Commit(w)
  PROVE  MovesFit'
<1> DEFINE t == tx[w]
<1>1. /\ DeltaFits(t) /\ t \in TxRow /\ t.pc = "commit" /\ MovesType' /\ lines' = lines
  BY OpenTx, CommitMoves DEF Commit
<1> SUFFICES ASSUME NEW o \in Orders, NEW p \in Products
             PROVE  /\ status'[o] \in {"NONE", "DRAFT", "CANCELLED"} => moves'.reservation[o][p] = 0
                    /\ status'[o] \notin GoodsOut => moves'.shipment[o][p] = 0
                    /\ 0 <= moves'.reservation[o][p]
                    /\ moves'.reservation[o][p] <= Ordered(lines[o], p, Len(lines[o]))
                    /\ moves'.reservation[o][p] > 0 => item'[p].exists
  BY <1>1 DEF MovesFit, GoodsOut
<1>2. /\ status[o] \in {"NONE", "DRAFT", "CANCELLED"} => moves.reservation[o][p] = 0
      /\ status[o] \notin GoodsOut => moves.shipment[o][p] = 0
      /\ 0 <= moves.reservation[o][p]
      /\ moves.reservation[o][p] <= Ordered(lines[o], p, Len(lines[o]))
      /\ moves.reservation[o][p] > 0 => item[p].exists
  BY DEF IInv, MovesFit
<1>3. item[p].exists => item'[p].exists
  BY CommitTables
<1>4. \/ status'[o] = status[o]
      \/ /\ t.op \in OrderOps /\ t.order = o
         /\ status[o] = Required[t.op] /\ status'[o] = Target[t.op]
  BY CommitStatus
<1>5. /\ moves'.reservation[o][p] = IF t.op = "confirm" /\ o = t.order
                                    THEN t.delta[p].reserved ELSE moves.reservation[o][p]
      /\ moves'.shipment[o][p] = IF t.op = "ship" /\ o = t.order
                                 THEN -t.delta[p].onHand ELSE moves.shipment[o][p]
  BY CommitMoves
<1>6. t.op \in OrderOps /\ t.order = o => status'[o] = Target[t.op]
  BY CommitTables
<1>7. t.op = "confirm" => /\ 0 <= t.delta[p].reserved
                          /\ t.delta[p].reserved > 0 => item[p].exists
                          /\ t.delta[p].reserved <= Ordered(lines[t.order], p, Len(lines[t.order]))
  BY <1>1 DEF DeltaFits, LinesDone
<1> HIDE DEF t
<1>8. CASE t.op = "confirm" /\ o = t.order
  <2>1. status'[o] = "CONFIRMED" /\ status[o] = "DRAFT"
    BY <1>6, <1>8, CommitFacts DEF Target, Required, OrderOps, t
  <2> QED
    BY <1>2, <1>3, <1>5, <1>7, <1>8, <2>1 DEF GoodsOut
<1>9. CASE t.op = "ship" /\ o = t.order
  <2>1. status'[o] = "SHIPPED"
    BY <1>6, <1>9 DEF Target, OrderOps
  <2> QED
    BY <1>2, <1>3, <1>5, <1>9, <2>1 DEF GoodsOut
<1>10. CASE ~(t.op \in {"confirm", "ship"} /\ o = t.order)
  <2>1. status'[o] \in {"NONE", "DRAFT", "CANCELLED"} => status[o] \in {"NONE", "DRAFT", "CANCELLED"}
    BY <1>4, <1>10 DEF OrderOps, Required, Target
  <2>2. status'[o] \notin GoodsOut => status[o] \notin GoodsOut
    BY CommitStatus
  <2> QED
    BY <1>2, <1>3, <1>5, <1>10, <2>1, <2>2
<1> QED
  BY <1>8, <1>9, <1>10

\* The changes of the operations that touch no stock, and of a receipt.
LEMMA CommitDelta ==
  ASSUME NEW w \in Workers, IInv, Commit(w), NEW p \in Products
  PROVE  LET t == tx[w]
             d == t.delta[p] IN
         /\ d.onHand \in Int /\ d.reserved \in Int /\ t.qty \in Nat
         /\ t.op \in {"cancel", "invoice", "payment"} => d.onHand = 0 /\ d.reserved = 0
         /\ t.op = "receive" => /\ d.reserved = 0
                                /\ d.onHand = IF p = t.prod THEN t.qty ELSE 0
         /\ t.op = "confirm" => d.onHand = 0 /\ 0 <= d.reserved
         /\ t.op = "ship" =>
              /\ d.onHand <= 0
              /\ d.reserved = IF item[p].reserved < -d.onHand THEN -item[p].reserved
                              ELSE d.onHand
              /\ moves.reservation[t.order][p] <= -d.onHand
<1> DEFINE t == tx[w]
<1>1. /\ DeltaFits(t) /\ t \in TxRow /\ t.pc = "commit"
  BY OpenTx DEF Commit
<1>2. t.delta[p].onHand \in Int /\ t.delta[p].reserved \in Int /\ t.qty \in Nat
  BY <1>1 DEF TxRow, Change
<1>3. t.op \in {"cancel", "invoice", "payment"} =>
         t.delta[p].onHand = 0 /\ t.delta[p].reserved = 0
  BY <1>1 DEF DeltaFits, NoChange
<1>4. t.op = "ship" => moves.reservation[t.order][p] <= -t.delta[p].onHand
  <2> SUFFICES ASSUME t.op = "ship" PROVE moves.reservation[t.order][p] <= -t.delta[p].onHand
    OBVIOUS
  <2>1. t.order \in Orders
    BY CommitFacts DEF OrderOps
  <2>2. /\ 0 <= moves.reservation[t.order][p] /\ moves.reservation[t.order][p] \in Int
        /\ moves.reservation[t.order][p] <= Ordered(lines[t.order], p, Len(lines[t.order]))
    BY <2>1 DEF IInv, MovesFit, MovesType
  <2>3. /\ t.delta[p].onHand <= 0
        /\ moves.reservation[t.order][p] > 0 =>
             -t.delta[p].onHand = Ordered(lines[t.order], p, Len(lines[t.order]))
    BY <1>1 DEF DeltaFits, LinesDone
  <2> HIDE DEF t
  <2> QED
    BY <1>2, <2>2, <2>3
<1> QED
  BY <1>1, <1>2, <1>3, <1>4 DEF DeltaFits

\* The stock rows and the movement log agree after a commit.
LEMMA CommitStock ==
  ASSUME NEW w \in Workers, IInv, Commit(w)
  PROVE  StockMatchesMovements'
<1> DEFINE t == tx[w]
<1> SUFFICES ASSUME NEW p \in Products
             PROVE  item'[p].onHand = moves'.receipt[p] - SumFunction(Shipments(p)')
  BY DEF StockMatchesMovements, Shipments
<1> DEFINE d == t.delta[p]
           f == Shipments(p)
           g == Shipments(p)'
           gain == IF t.op = "receive" /\ p = t.prod THEN t.qty ELSE 0
<1> SUFFICES item'[p].onHand = moves'.receipt[p] - SumFunction(g)
  OBVIOUS
<1>1. item[p].onHand = moves.receipt[p] - SumFunction(f)
  BY DEF IInv, StockMatchesMovements, Shipments
<1>2. item'[p].onHand = item[p].onHand + d.onHand
  BY CommitTables
<1>3. moves'.receipt[p] = moves.receipt[p] + gain
  BY CommitMoves
<1>4. /\ f \in [Orders -> Int] /\ g \in [Orders -> Int]
      /\ \A o \in Orders : f[o] = moves.shipment[o][p] /\ g[o] = moves'.shipment[o][p]
      /\ moves.receipt[p] \in Int
  <2>1. /\ moves.shipment \in [Orders -> [Products -> Int]] /\ moves.receipt \in [Products -> Int]
        /\ moves'.shipment \in [Orders -> [Products -> Int]]
    BY CommitMoves DEF IInv, MovesFit, MovesType
  <2> QED
    BY <2>1 DEF Shipments
<1>5. \A o \in Orders : g[o] = IF t.op = "ship" /\ o = t.order THEN -d.onHand ELSE f[o]
  BY <1>4, CommitMoves
<1>6. /\ d.onHand \in Int /\ t.qty \in Nat
      /\ gain \in Int
      /\ t.op \in {"cancel", "invoice", "payment", "confirm"} => d.onHand = 0
      /\ t.op = "receive" => d.onHand = gain
      /\ t.op # "receive" => gain = 0
  <2>1. /\ d.onHand \in Int /\ t.qty \in Nat
        /\ t.op \in {"cancel", "invoice", "payment", "confirm"} => d.onHand = 0
        /\ t.op = "receive" => d.onHand = IF p = t.prod THEN t.qty ELSE 0
    BY CommitDelta
  <2> HIDE DEF t
  <2> QED
    BY <2>1
<1>7. IsFiniteSet(Orders) /\ SumFunction(f) \in Int /\ item[p].onHand \in Int
  <2>1. IsFiniteSet(Orders)
    BY OrdersAssumption
  <2>2. \A o \in Orders : f[o] \in Int
    BY <1>4
  <2>3. DOMAIN f = Orders
    BY <1>4
  <2> HIDE DEF f
  <2> QED
    BY <2>1, <2>2, <2>3, SumType, StockTyped DEF SumFunction
<1>8. t.op \in OrderOps \cup {"receive"} /\ (t.op = "ship" => /\ t.order \in Orders
                                                           /\ status[t.order] = "CONFIRMED")
  BY CommitFacts DEF OrderOps, Required
<1>9. t.op = "ship" => f[t.order] = 0
  <2> SUFFICES ASSUME t.op = "ship" PROVE f[t.order] = 0
    OBVIOUS
  <2>1. t.order \in Orders /\ status[t.order] \notin GoodsOut
    BY <1>8 DEF GoodsOut
  <2>2. moves.shipment[t.order][p] = 0
    BY <2>1 DEF IInv, MovesFit
  <2> HIDE DEF f, t
  <2> QED
    BY <1>4, <2>1, <2>2
<1> HIDE DEF t, d, f, g, gain
<1>10. CASE t.op = "ship"
  <2>1. SumFunction(g) = SumFunction(f) - f[t.order] + g[t.order]
    BY <1>4, <1>5, <1>7, <1>8, <1>10, SumChange
  <2>2. g[t.order] = -d.onHand
    BY <1>5, <1>8, <1>10
  <2> QED
    BY <1>1, <1>2, <1>3, <1>4, <1>6, <1>7, <1>9, <1>10, <2>1, <2>2
<1>11. CASE t.op # "ship"
  <2>1. g = f
    BY <1>4, <1>5, <1>11
  <2>2. d.onHand = gain
    <3>1. CASE t.op = "receive"
      BY <1>6, <3>1
    <3>2. CASE t.op # "receive"
      <4>1. t.op \in {"cancel", "invoice", "payment", "confirm"}
        BY <1>8, <1>11, <3>2 DEF OrderOps
      <4> QED
        BY <1>6, <3>2, <4>1
    <3> QED
      BY <3>1, <3>2
  <2> QED
    BY <1>1, <1>2, <1>3, <1>4, <1>6, <1>7, <2>1, <2>2
<1> QED
  BY <1>10, <1>11

\* A shipment takes from the reserved quantity what its own order reserved, or
\* more if it reserved less than it ships.
LEMMA ReservedAfterShipping ==
  ASSUME NEW R \in Int, NEW s \in Int, NEW s0 \in Int, NEW locked \in Int,
         0 <= R, 0 <= s0, s0 <= s, R <= locked, 0 <= locked - s0,
         NEW dr, dr = IF R < s THEN -R ELSE -s
  PROVE  /\ R + dr <= locked - s0
         /\ s = s0 /\ R = locked => R + dr = locked - s0
OBVIOUS

\* What is reserved is what confirmed orders reserved, but for late goods.
LEMMA CommitReserved ==
  ASSUME NEW w \in Workers, IInv, Commit(w)
  PROVE  ReservationLostOnlyLate'
<1> DEFINE t == tx[w]
           Late(p) == \E o \in Orders : moves.shipment[o][p] > moves.reservation[o][p]
<1> SUFFICES ASSUME NEW p \in Products
             PROVE  /\ item'[p].reserved <= SumFunction(Reservations(p)')
                    /\ item'[p].reserved = SumFunction(Reservations(p)') \/ Late(p)'
  BY DEF ReservationLostOnlyLate, Reservations
<1> DEFINE d == t.delta[p]
           f == Reservations(p)
           g == Reservations(p)'
           o0 == t.order
           s0 == moves.reservation[o0][p]
<1> SUFFICES /\ item'[p].reserved <= SumFunction(g)
             /\ item'[p].reserved = SumFunction(g) \/ Late(p)'
  OBVIOUS
<1>1. item[p].reserved <= SumFunction(f) /\ (item[p].reserved = SumFunction(f) \/ Late(p))
  BY DEF IInv, ReservationLostOnlyLate, Reservations
<1>2. item'[p].reserved = item[p].reserved + d.reserved
  BY CommitTables
<1>3. \A o \in Orders :
        /\ moves'.reservation[o][p] = IF t.op = "confirm" /\ o = o0 THEN d.reserved
                                      ELSE moves.reservation[o][p]
        /\ moves'.shipment[o][p] = IF t.op = "ship" /\ o = o0 THEN -d.onHand
                                   ELSE moves.shipment[o][p]
  BY CommitMoves
<1>4. \A o \in Orders :
        /\ moves.reservation[o][p] \in Int /\ moves.shipment[o][p] \in Int
        /\ moves'.reservation[o][p] \in Int
        /\ 0 <= moves.reservation[o][p] /\ 0 <= moves'.reservation[o][p]
  <2>1. MovesFit /\ MovesFit'
    BY CommitMovesFit DEF IInv
  <2> QED
    BY <2>1 DEF MovesFit, MovesType
<1>5. \A o \in Orders :
        /\ f[o] = IF status[o] = "CONFIRMED" THEN moves.reservation[o][p] ELSE 0
        /\ g[o] = IF status'[o] = "CONFIRMED" THEN moves'.reservation[o][p] ELSE 0
  BY DEF Reservations
<1>6. \A o \in Orders : f[o] \in Nat /\ g[o] \in Nat
  <2> HIDE DEF f, g
  <2> QED
    BY <1>4, <1>5
<1>7. /\ f \in [Orders -> Int] /\ g \in [Orders -> Int] /\ IsFiniteSet(Orders)
      /\ SumFunction(f) \in Nat /\ SumFunction(g) \in Nat
  <2>1. IsFiniteSet(Orders)
    BY OrdersAssumption
  <2>2. DOMAIN f = Orders /\ DOMAIN g = Orders
    BY DEF Reservations
  <2>3. f \in [Orders -> Int] /\ g \in [Orders -> Int]
    BY <1>6 DEF Reservations
  <2> HIDE DEF f, g
  <2> QED
    BY <1>6, <2>1, <2>2, <2>3, SumNat DEF SumFunction
<1>8. /\ t.op \in OrderOps => o0 \in Orders /\ status[o0] = Required[t.op]
                              /\ status'[o0] = Target[t.op]
      /\ t.op \notin OrderOps => t.op = "receive" /\ status' = status
      /\ \A o \in Orders : t.op \in OrderOps /\ o # o0 => status'[o] = status[o]
  BY CommitFacts, CommitTables
<1>9. /\ d.onHand \in Int /\ d.reserved \in Int
      /\ t.op \in {"cancel", "invoice", "payment", "receive"} => d.reserved = 0
      /\ t.op = "ship" => /\ d.onHand <= 0
                          /\ d.reserved = IF item[p].reserved < -d.onHand
                                          THEN -item[p].reserved ELSE d.onHand
                          /\ s0 <= -d.onHand
  BY CommitDelta
<1>10. \A o \in Orders : status[o] \notin GoodsOut => moves.shipment[o][p] = 0
  BY DEF IInv, MovesFit
<1>11. item[p].reserved \in Int /\ 0 <= item[p].reserved
  BY StockTyped
<1> HIDE DEF d, t, o0, s0, f, g
<1>12. CASE t.op = "confirm"
  <2>1. o0 \in Orders /\ status[o0] = "DRAFT" /\ status'[o0] = "CONFIRMED"
    BY <1>8, <1>12 DEF OrderOps, Required, Target
  <2>2. f[o0] = 0 /\ g[o0] = d.reserved
    BY <1>3, <1>5, <1>12, <2>1
  <2>3. \A o \in Orders \ {o0} : g[o] = f[o]
    BY <1>3, <1>5, <1>8, <1>12 DEF OrderOps
  <2>4. SumFunction(g) = SumFunction(f) - f[o0] + g[o0]
    BY <1>7, <2>1, <2>3, SumChange
  <2>5. Late(p) => Late(p)'
    <3> SUFFICES ASSUME NEW o \in Orders, moves.shipment[o][p] > moves.reservation[o][p]
                 PROVE  moves'.shipment[o][p] > moves'.reservation[o][p]
      OBVIOUS
    <3>1. o # o0
      BY <1>4, <1>10, <2>1 DEF GoodsOut
    <3> QED
      BY <1>3, <1>12, <3>1
  <2> QED
    BY <1>1, <1>2, <1>7, <1>9, <1>11, <2>2, <2>4, <2>5
<1>13. CASE t.op = "ship"
  <2>1. o0 \in Orders /\ status[o0] = "CONFIRMED" /\ status'[o0] = "SHIPPED"
    BY <1>8, <1>13 DEF OrderOps, Required, Target
  <2>2. f[o0] = s0 /\ g[o0] = 0 /\ s0 \in Int /\ 0 <= s0
    BY <1>4, <1>5, <2>1 DEF s0
  <2>3. \A o \in Orders \ {o0} : g[o] = f[o]
    BY <1>3, <1>5, <1>8, <1>13 DEF OrderOps
  <2>4. SumFunction(g) = SumFunction(f) - s0
    <3>1. SumFunction(g) = SumFunction(f) - f[o0] + g[o0]
      BY <1>7, <2>1, <2>3, SumChange
    <3> QED
      BY <1>7, <2>2, <3>1
  <2>5. Late(p) => Late(p)'
    <3> SUFFICES ASSUME NEW o \in Orders, moves.shipment[o][p] > moves.reservation[o][p]
                 PROVE  moves'.shipment[o][p] > moves'.reservation[o][p]
      OBVIOUS
    <3>1. o # o0
      BY <1>4, <1>10, <2>1 DEF GoodsOut
    <3> QED
      BY <1>3, <1>13, <3>1
  <2>6. -d.onHand > s0 => Late(p)'
    <3>1. moves'.shipment[o0][p] = -d.onHand /\ moves'.reservation[o0][p] = s0
      BY <1>3, <1>13, <2>1 DEF s0
    <3> QED
      BY <2>1, <3>1
  <2>7. /\ item[p].reserved + d.reserved <= SumFunction(f) - s0
        /\ -d.onHand = s0 /\ item[p].reserved = SumFunction(f) =>
             item[p].reserved + d.reserved = SumFunction(f) - s0
    <3>1. d.reserved = IF item[p].reserved < -d.onHand THEN -item[p].reserved
                       ELSE -(-d.onHand)
      BY <1>9, <1>13
    <3>2. -d.onHand \in Int /\ s0 <= -d.onHand
      BY <1>9, <1>13
    <3>3. 0 <= SumFunction(f) - s0
      BY <1>7, <2>2, <2>4
    <3> QED
      BY <1>1, <1>7, <1>11, <2>2, <3>1, <3>2, <3>3, ReservedAfterShipping
  <2>8. s0 <= -d.onHand /\ d.onHand \in Int
    BY <1>9, <1>13
  <2>9. item'[p].reserved <= SumFunction(g)
    BY <1>2, <2>4, <2>7
  <2>10. CASE -d.onHand = s0 /\ item[p].reserved = SumFunction(f)
    BY <1>2, <2>4, <2>7, <2>9, <2>10
  <2>11. CASE -d.onHand # s0
    <3>1. -d.onHand > s0
      BY <2>2, <2>8, <2>11
    <3> QED
      BY <2>6, <2>9, <3>1
  <2>12. CASE item[p].reserved # SumFunction(f)
    BY <1>1, <2>5, <2>9, <2>12
  <2> QED
    BY <2>10, <2>11, <2>12
<1>14. CASE t.op \notin {"confirm", "ship"}
  <2>1. \A o \in Orders : g[o] = f[o]
    <3> SUFFICES ASSUME NEW o \in Orders PROVE g[o] = f[o]
      OBVIOUS
    <3>1. CASE t.op \in OrderOps /\ o = o0
      BY <1>3, <1>5, <1>8, <1>14, <3>1 DEF OrderOps, Required, Target
    <3>2. CASE ~(t.op \in OrderOps /\ o = o0)
      BY <1>3, <1>5, <1>8, <1>14, <3>2
    <3> QED
      BY <3>1, <3>2
  <2>2. g = f
    BY <1>7, <2>1
  <2>3. d.reserved = 0
    BY <1>8, <1>9, <1>14 DEF OrderOps
  <2>4. Late(p) => Late(p)'
    BY <1>3, <1>14
  <2> QED
    BY <1>1, <1>2, <1>11, <2>2, <2>3, <2>4
<1> QED
  BY <1>12, <1>13, <1>14

LEMMA CommitKeeps ==
  ASSUME NEW w \in Workers, IInv, Commit(w)
  PROVE  IInv'
<1>1. AllFit'
  <2> SUFFICES ASSUME NEW v \in Workers PROVE TxFits(tx[v])' /\ DeltaFits(tx[v])'
    BY DEF AllFit
  <2>1. CASE v # w
    BY <2>1, CommitOthers
  <2>2. CASE v = w
    <3>1. tx'[v] = IdleTx /\ StockBounds' /\ TypeOK'
      BY <2>2, CommitTables
    <3>2. /\ item' \in [Products -> [exists : BOOLEAN, onHand : Int, reserved : Int]]
          /\ \A p \in Products : 0 <= item'[p].reserved /\ item'[p].reserved <= item'[p].onHand
      BY <3>1 DEF TypeOK, StockBounds
    <3>3. TxFits(tx[v])'
      BY <3>1 DEF TxFits, IdleTx, OrderOps, Stages
    <3>4. DeltaFits(tx[v])'
      <4>1. IdleTx.delta = NoChange /\ IdleTx.op = "none"
            /\ \A p \in Products : NoChange[p].onHand = 0 /\ NoChange[p].reserved = 0
        BY DEF IdleTx, NoChange
      <4> QED
        BY <3>1, <3>2, <4>1 DEF DeltaFits
    <3> QED
      BY <3>3, <3>4
  <2> QED
    BY <2>1, <2>2
<1>2. Locks'
  <2>1. tx'[w].held = {} /\ \A v \in Workers \ {w} : tx'[v] = tx[v]
    BY CommitTables DEF IdleTx
  <2> QED
    BY <2>1 DEF IInv, Locks
<1> QED
  BY <1>1, <1>2, CommitTables, CommitKeys, CommitMovesFit, CommitStock, CommitReserved DEF IInv
-----------------------------------------------------------------------------
(* The invariant *)

LEMMA InitHolds == Init => IInv
<1> SUFFICES ASSUME Init PROVE IInv
  OBVIOUS
<1>1. /\ status = [o \in Orders |-> "NONE"] /\ lines = [o \in Orders |-> <<>>]
      /\ item = [p \in Products |-> [exists |-> p \in Stocked, reserved |-> 0,
                                     onHand |-> IF p \in Stocked THEN Seed ELSE 0]]
      /\ posted = {} /\ tx = [w \in Workers |-> IdleTx]
  BY DEF Init
<1>2. \A p \in Products : /\ item[p].reserved = 0 /\ item[p].onHand \in Int
                          /\ 0 <= item[p].onHand
                          /\ item[p] \in [exists : BOOLEAN, onHand : Int, reserved : Int]
  <2> SUFFICES ASSUME NEW p \in Products
               PROVE  /\ item[p].reserved = 0 /\ item[p].onHand \in Int
                      /\ 0 <= item[p].onHand
                      /\ item[p] \in [exists : BOOLEAN, onHand : Int, reserved : Int]
    OBVIOUS
  <2> DEFINE n == IF p \in Stocked THEN Seed ELSE 0
  <2>1. item[p] = [exists |-> p \in Stocked, reserved |-> 0, onHand |-> n]
    BY <1>1
  <2>2. n \in Int /\ 0 <= n
    BY OrdersAssumption
  <2>3. (p \in Stocked) \in BOOLEAN
    OBVIOUS
  <2> HIDE DEF n
  <2> QED
    BY <2>1, <2>2, <2>3
<1>3. /\ moves.receipt = [p \in Products |-> item[p].onHand]
      /\ moves.reservation = [o \in Orders |-> [p \in Products |-> 0]]
      /\ moves.shipment = [o \in Orders |-> [p \in Products |-> 0]]
  BY DEF Init
<1>4. item \in [Products -> [exists : BOOLEAN, onHand : Int, reserved : Int]]
  BY <1>1, <1>2
<1>5. TypeOK
  BY <1>1, <1>4 DEF TypeOK, Statuses
<1>6. StockBounds
  BY <1>2 DEF StockBounds
<1>7. TxType /\ AllFit
  BY <1>1, <1>4, <1>6, IdleFits DEF TxType, AllFit
<1>8. LinesFit /\ KeysFollowStatus /\ Locks
  BY <1>1 DEF LinesFit, KeysFollowStatus, Locks, Billed, GoodsOut, IdleTx
<1>9. MovesFit
  <2>1. MovesType
    <3>1. moves = [receipt |-> moves.receipt, reservation |-> moves.reservation,
                   shipment |-> moves.shipment]
      BY DEF Init
    <3>2. moves.receipt \in [Products -> Int]
      BY <1>2, <1>3
    <3>3. /\ moves.reservation \in [Orders -> [Products -> Int]]
          /\ moves.shipment \in [Orders -> [Products -> Int]]
      BY <1>3
    <3> QED
      BY <3>1, <3>2, <3>3 DEF MovesType
  <2>2. ASSUME NEW o \in Orders, NEW p \in Products
        PROVE  0 <= Ordered(lines[o], p, Len(lines[o]))
    <3>1. <<>> \in Seq(LineRow) /\ Len(<<>>) = 0 /\ lines[o] = <<>>
      BY <1>1
    <3>2. Ordered(<<>>, p, 0) = 0
      BY <3>1, OrderedSteps
    <3> QED
      BY <3>1, <3>2
  <2> QED
    BY <1>3, <2>1, <2>2 DEF MovesFit
<1>10. IsFiniteSet(Orders)
  BY OrdersAssumption
<1>11. StockMatchesMovements
  <2> SUFFICES ASSUME NEW p \in Products
               PROVE  item[p].onHand = moves.receipt[p] - SumFunction(Shipments(p))
    BY DEF StockMatchesMovements, Shipments
  <2>1. SumFunction(Shipments(p)) = 0
    BY <1>3, <1>10, SumZero DEF SumFunction, Shipments
  <2> QED
    BY <1>2, <1>3, <2>1
<1>12. ReservationLostOnlyLate
  <2> SUFFICES ASSUME NEW p \in Products
               PROVE  item[p].reserved = SumFunction(Reservations(p))
    BY <1>2 DEF ReservationLostOnlyLate, Reservations
  <2>1. SumFunction(Reservations(p)) = 0
    BY <1>3, <1>10, SumZero DEF SumFunction, Reservations
  <2> QED
    BY <1>2, <2>1
<1> QED
  BY <1>5, <1>6, <1>7, <1>8, <1>9, <1>11, <1>12 DEF IInv

\* What a step of the system is: an order, a commit, or a step of one
\* transaction that leaves the tables alone.
LEMMA NextKeeps ==
  ASSUME IInv, Next
  PROVE  IInv'
<1>1. ASSUME NEW o \in Orders, NEW b \in Baskets[o], CreateOrder(o, b) PROVE IInv'
  BY <1>1, CreateOrderKeeps
<1>2. ASSUME NEW w \in Workers, Request(w) PROVE IInv'
  BY <1>2, BeginKeeps, BeginBillingKeeps, BeginReceiveKeeps DEF Request
<1>3. ASSUME NEW w \in Workers, Step(w) PROVE IInv'
  BY <1>3, LockOrderKeeps, TakeSeriesKeeps, ReserveLineKeeps, ShipLineKeeps, BookCOGSKeeps,
     ReceiveItemKeeps, PostEntryKeeps, MarkOrderKeeps, CommitKeeps DEF Step
<1>4. ASSUME NEW w \in Workers, Rollback(w) \/ BreakDeadlock(w) PROVE IInv'
  BY <1>4, AbortKeeps DEF Rollback, BreakDeadlock
<1> QED
  BY <1>1, <1>2, <1>3, <1>4 DEF Next

LEMMA StutterKeeps ==
  ASSUME IInv, UNCHANGED vars
  PROVE  IInv'
<1>1. TablesOK'
  BY TablesKept DEF TablesOK, IInv, vars, Tables
<1>2. TypeOK' /\ TxType' /\ Locks'
  BY DEF IInv, TypeOK, TxType, Locks, vars
<1>3. AllFit'
  <2> SUFFICES ASSUME NEW w \in Workers PROVE TxFits(tx[w])' /\ DeltaFits(tx[w])'
    BY DEF AllFit
  <2>1. TxFits(tx[w]) /\ DeltaFits(tx[w])
    BY DEF IInv, AllFit
  <2>2. TxFits(tx[w])'
    BY <2>1 DEF TxFits, vars
  <2>3. DeltaFits(tx[w])'
    BY <2>1, SMTT(20) DEF DeltaFits, LinesDone, vars
  <2> QED
    BY <2>2, <2>3
<1> QED
  BY <1>1, <1>2, <1>3 DEF IInv, TablesOK

LEMMA Invariance == Spec => []IInv
<1>1. IInv /\ [Next]_vars => IInv'
  BY NextKeeps, StutterKeeps
<1> QED
  BY InitHolds, <1>1, PTL DEF Spec

-----------------------------------------------------------------------------
(* Theorems *)

\* Orders, lines and stock rows stay of their types, and a handler whose
\* request ended, however it ended, holds no lock and has no change pending.
THEOREM TypeCorrect == Spec => []TypeOK
BY Invariance, PTL DEF IInv

\* Stock is never oversold (inventory_service.go, ReserveStockTx and
\* ShipStockTx): 0 <= qty_reserved <= qty_on_hand for every product, whatever
\* number of requests confirm, ship and receive at the same time.
THEOREM NeverOversold == Spec => []StockBounds
BY Invariance, PTL DEF IInv

\* The stock rows and the log of movements agree: quantity on hand is what
\* was received less what all orders shipped, however transactions interleave
\* or roll back.
THEOREM StockIsItsMovements == Spec => []StockMatchesMovements
BY Invariance, PTL DEF IInv

\* qty_reserved is what confirmed orders hold, and is only ever less after an
\* order shipped goods it could not reserve when it was confirmed.
THEOREM ReservationsKept == Spec => []ReservationLostOnlyLate
BY Invariance, PTL DEF IInv

\* A commit moves its order along the state machine and posts its entry with
\* it, or (a receipt) is an entry of no order.
LEMMA CommitIsMove ==
  ASSUME NEW w \in Workers, IInv, Commit(w)
  PROVE  Lifecycle!LifecycleNext \/ UNCHANGED <<status, posted>>
<1> DEFINE t == tx[w]
           o == t.order
<1>1. /\ t.op \in OrderOps => /\ o \in Orders /\ status[o] = Required[t.op]
                              /\ status' = [status EXCEPT ![o] = Target[t.op]]
      /\ t.op \notin OrderOps => t.op = "receive" /\ status' = status
      /\ posted' = posted \cup ({t.key} \ {None})
      /\ t.key # None => t.key = Key(t) /\ t.key \notin posted
      /\ t.op \in {"confirm", "cancel"} => t.key = None
      /\ t.op \in {"invoice", "payment"} => t.key # None
  BY CommitFacts DEF Commit
<1>2. t.key = None => posted' = posted
  BY <1>1
<1>3. t.key # None => posted' = posted \cup {t.key} /\ t.key \notin posted
  BY <1>1
<1>4. CASE t.op = "confirm"
  <2>1. Lifecycle!Confirm(o) /\ o \in Orders
    BY <1>1, <1>2, <1>4 DEF Lifecycle!Confirm, Lifecycle!Move, OrderOps, Required, Target
  <2> QED
    BY <2>1 DEF Lifecycle!LifecycleNext
<1>5. CASE t.op = "cancel"
  <2>1. Lifecycle!Cancel(o) /\ o \in Orders
    BY <1>1, <1>2, <1>5 DEF Lifecycle!Cancel, Lifecycle!Move, OrderOps, Required, Target
  <2> QED
    BY <2>1 DEF Lifecycle!LifecycleNext
<1>6. CASE t.op = "ship"
  <2>1. t.key # None => t.key = Lifecycle!IssueKey(o)
    BY <1>1, <1>6 DEF Key, Lifecycle!IssueKey
  <2>2. Lifecycle!PostOnce(Lifecycle!IssueKey(o)) \/ UNCHANGED posted
    BY <1>2, <1>3, <2>1 DEF Lifecycle!PostOnce
  <2>3. Lifecycle!Ship(o) /\ o \in Orders
    BY <1>1, <1>6, <2>2 DEF Lifecycle!Ship, Lifecycle!Move, OrderOps, Required, Target
  <2> QED
    BY <2>3 DEF Lifecycle!LifecycleNext
<1>7. CASE t.op = "invoice"
  <2>1. t.key = Lifecycle!InvoiceKey(o)
    BY <1>1, <1>7 DEF Key, Lifecycle!InvoiceKey
  <2>2. Lifecycle!PostOnce(Lifecycle!InvoiceKey(o))
    BY <1>1, <1>3, <1>7, <2>1 DEF Lifecycle!PostOnce
  <2>3. Lifecycle!Invoice(o) /\ o \in Orders
    BY <1>1, <1>7, <2>2 DEF Lifecycle!Invoice, Lifecycle!Move, OrderOps, Required, Target
  <2> QED
    BY <2>3 DEF Lifecycle!LifecycleNext
<1>8. CASE t.op = "payment"
  <2>1. t.key = Lifecycle!PaymentKey(o)
    BY <1>1, <1>8 DEF Key, Lifecycle!PaymentKey
  <2>2. Lifecycle!PostOnce(Lifecycle!PaymentKey(o))
    BY <1>1, <1>3, <1>8, <2>1 DEF Lifecycle!PostOnce
  <2>3. Lifecycle!Pay(o) /\ o \in Orders
    BY <1>1, <1>8, <2>2 DEF Lifecycle!Pay, Lifecycle!Move, OrderOps, Required, Target
  <2> QED
    BY <2>3 DEF Lifecycle!LifecycleNext
<1>9. CASE t.op = "receive"
  <2>1. t.key # None => t.key \notin Lifecycle!OrderKeys
    <3>1. t.key # None => t.key = <<"goods-receipt", <<t.prod, t.day>>>>
      BY <1>1, <1>9 DEF Key
    <3> QED
      BY <3>1 DEF Lifecycle!OrderKeys, Lifecycle!IssueKey, Lifecycle!InvoiceKey,
                  Lifecycle!PaymentKey
  <2>2. Lifecycle!OtherEntry
    BY <1>1, <1>9, <2>1 DEF Lifecycle!OtherEntry, OrderOps
  <2> QED
    BY <2>2 DEF Lifecycle!LifecycleNext
<1> QED
  BY <1>1, <1>4, <1>5, <1>6, <1>7, <1>8, <1>9 DEF OrderOps

\* README "Full DRAFT -> CONFIRMED -> SHIPPED -> INVOICED -> PAID state
\* machine": the concurrent transactions, with the unlocked status checks of
\* InvoiceOrder and RecordPayment, implement the atomic life cycle, so no order
\* moves back or twice and each move is booked at most once.
THEOREM RefinesLifecycle == Spec => ImplementsLifecycle
<1>1. Init => Lifecycle!LifecycleInit
  BY DEF Init, Lifecycle!LifecycleInit
<1>2. IInv /\ [Next]_vars => [Lifecycle!LifecycleNext]_<<status, posted>>
  <2> SUFFICES ASSUME IInv, [Next]_vars
               PROVE  Lifecycle!LifecycleNext \/ UNCHANGED <<status, posted>>
    OBVIOUS
  <2>1. ASSUME NEW o \in Orders, NEW b \in Baskets[o], CreateOrder(o, b)
        PROVE  Lifecycle!LifecycleNext
    BY <2>1 DEF CreateOrder, Lifecycle!LifecycleNext, Lifecycle!Create, Lifecycle!Move
  <2>2. ASSUME NEW w \in Workers, Request(w) PROVE UNCHANGED <<status, posted>>
    BY <2>2 DEF Request, Begin, BeginBilling, BeginReceive, Tables
  <2>3. ASSUME NEW w \in Workers, Step(w), ~Commit(w) PROVE UNCHANGED <<status, posted>>
    BY <2>3 DEF Step, LockOrder, TakeSeries, ReserveLine, ShipLine, BookCOGS, ReceiveItem,
                PostEntry, MarkOrder, Tables
  <2>4. ASSUME NEW w \in Workers, Commit(w)
        PROVE  Lifecycle!LifecycleNext \/ UNCHANGED <<status, posted>>
    BY <2>4, CommitIsMove
  <2>5. ASSUME NEW w \in Workers, Rollback(w) \/ BreakDeadlock(w)
        PROVE  UNCHANGED <<status, posted>>
    BY <2>5 DEF Rollback, BreakDeadlock, Tables
  <2>6. CASE UNCHANGED vars
    BY <2>6 DEF vars
  <2> QED
    BY <2>1, <2>2, <2>3, <2>4, <2>5, <2>6 DEF Next
<1> QED
  BY <1>1, <1>2, Invariance, PTL DEF Spec, ImplementsLifecycle, Lifecycle!LifecycleSpec
=============================================================================
