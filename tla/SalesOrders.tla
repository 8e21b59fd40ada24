----------------------------- MODULE SalesOrders -----------------------------
(***************************************************************************)
(* Sales orders (internal/core/order_service.go) and the stock they        *)
(* reserve and ship (internal/core/inventory_service.go), for one company, *)
(* as concurrent PostgreSQL transactions.                                  *)
(*                                                                         *)
(* status, item, moves and posted are committed rows.  tx[w] is the        *)
(* transaction of request handler w: the operation and its arguments, the  *)
(* rows it has locked (held) and what it has written so far (delta, key),  *)
(* which becomes visible when it commits.  A row somebody else holds is    *)
(* waited for; PostgreSQL ends a cycle of waits by aborting a transaction  *)
(* in it.  InvoiceOrder and RecordPayment read the status before they      *)
(* begin their transaction and lock the order only when they update it.    *)
(*                                                                         *)
(* The ledger is used as module Books promises it: an entry takes the next *)
(* number of its series, whose row stays locked, and its key must be new.  *)
(***************************************************************************)
EXTENDS Integers, Sequences, FiniteSets, Functions

CONSTANTS
  Workers,   \* request handlers that run concurrently
  Orders,    \* ids of sales_orders
  Products,
  Baskets,   \* the lines each order may be created with: sequences of product and qty
  Qtys,      \* quantities received
  Days,      \* movement dates of receipts
  Stocked,   \* the products that have an inventory item from the start
  Seed,      \* its quantity on hand
  None

VARIABLES status, lines, item, moves, posted, tx

vars == <<status, lines, item, moves, posted, tx>>

ASSUME OrdersAssumption ==
  /\ \A o \in Orders : \A b \in Baskets[o] :
        b \in Seq([prod : Products, qty : Nat \ {0}]) /\ b # <<>>
  /\ Qtys \subseteq Nat \ {0}
  /\ Stocked \subseteq Products
  /\ Seed \in Nat
  /\ IsFiniteSet(Orders)
  /\ None \notin {"goods-issue-order", "invoice-order", "payment-order"} \X Orders
  /\ None \notin {"goods-receipt"} \X (Products \X Days)
-----------------------------------------------------------------------------
(* Operations and rows *)

OrderOps == {"confirm", "ship", "cancel", "invoice", "payment"}
Required == [confirm |-> "DRAFT", ship |-> "CONFIRMED", cancel |-> "DRAFT",
             invoice |-> "SHIPPED", payment |-> "INVOICED"]
Target == [confirm |-> "CONFIRMED", ship |-> "SHIPPED", cancel |-> "CANCELLED",
           invoice |-> "INVOICED", payment |-> "PAID"]
DocType == [confirm |-> "SO", ship |-> "GI", invoice |-> "SI", payment |-> "JE",
            receive |-> "GR"]

\* The idempotency key of an operation's journal entry.
Key(t) == CASE t.op = "ship"    -> <<"goods-issue-order", t.order>>
            [] t.op = "invoice" -> <<"invoice-order", t.order>>
            [] t.op = "payment" -> <<"payment-order", t.order>>
            [] t.op = "receive" -> <<"goods-receipt", <<t.prod, t.day>>>>

NoChange == [p \in Products |-> [onHand |-> 0, reserved |-> 0]]
IdleTx == [op |-> "none", pc |-> "idle", order |-> None, prod |-> None,
           day |-> None, qty |-> 0, i |-> 0, held |-> {}, delta |-> NoChange,
           key |-> None]

\* The row the next statement of w locks.
Wants(w) ==
  LET t == tx[w] IN
  CASE t.pc \in {"lock", "mark"} -> {<<"order", t.order>>}
    [] t.pc = "item"   -> {<<"item", t.prod>>}
    [] t.pc = "lines"  -> LET p == lines[t.order][t.i].prod
                          IN  IF item[p].exists THEN {<<"item", p>>} ELSE {}
    [] t.pc = "series" -> {<<"series", DocType[t.op]>>}
    [] t.pc = "entry"  -> {<<"key", Key(t)>>}
    [] OTHER           -> {}

WaitsFor(w, v) == w # v /\ Wants(w) \cap tx[v].held # {}
Granted(w) == \A v \in Workers : ~WaitsFor(w, v)

\* What w reads of a row it has locked: its own updates included.
Seen(w, p) == [onHand   |-> item[p].onHand + tx[w].delta[p].onHand,
               reserved |-> item[p].reserved + tx[w].delta[p].reserved]

Goto(w, pc) == tx' = [tx EXCEPT ![w].pc = pc, ![w].held = @ \cup Wants(w)]
\* Mutant of Abort: the transaction is left open, with its locks.
AbortLeaks(w) == tx' = [tx EXCEPT ![w].pc = "idle"]

Abort(w) == tx' = [tx EXCEPT ![w] = IdleTx]
Tables == <<status, lines, item, moves, posted>>

Init ==
  /\ status = [o \in Orders |-> "NONE"]
  /\ lines = [o \in Orders |-> <<>>]
  /\ item = [p \in Products |-> [exists |-> p \in Stocked, reserved |-> 0,
                                 onHand |-> IF p \in Stocked THEN Seed ELSE 0]]
  /\ moves = [receipt |-> [p \in Products |-> item[p].onHand],
              reservation |-> [o \in Orders |-> [p \in Products |-> 0]],
              shipment |-> [o \in Orders |-> [p \in Products |-> 0]]]
  /\ posted = {}
  /\ tx = [w \in Workers |-> IdleTx]
-----------------------------------------------------------------------------
(* Requests *)

\* CreateOrder inserts new rows only: nobody can wait for it.
CreateOrder(o, b) ==
  /\ status[o] = "NONE"
  /\ status' = [status EXCEPT ![o] = "DRAFT"]
  /\ lines' = [lines EXCEPT ![o] = b]
  /\ UNCHANGED <<item, moves, posted, tx>>

\* ConfirmOrder, ShipOrder and CancelOrder begin by locking the order.
Begin(w, o, op) ==
  /\ tx[w].pc = "idle" /\ status[o] # "NONE"
  /\ tx' = [tx EXCEPT ![w] = [IdleTx EXCEPT !.op = op, !.pc = "lock", !.order = o]]
  /\ UNCHANGED Tables

\* InvoiceOrder and RecordPayment: GetOrder and the status check come first,
\* on the pool; the transaction begins with the ledger's CommitInTx.
BeginBilling(w, o, op) ==
  /\ tx[w].pc = "idle"
  /\ status[o] = Required[op]
  /\ tx' = [tx EXCEPT ![w] = [IdleTx EXCEPT !.op = op, !.pc = "series", !.order = o]]
  /\ UNCHANGED Tables

\* ReceiveStock begins by upserting the item row.
BeginReceive(w, p, q, day) ==
  /\ tx[w].pc = "idle"
  /\ tx' = [tx EXCEPT ![w] = [IdleTx EXCEPT !.op = "receive", !.pc = "item",
                                !.prod = p, !.qty = q, !.day = day]]
  /\ UNCHANGED Tables
-----------------------------------------------------------------------------
(* Statements *)

\* Mutant of LockOrder: the status is not checked under the lock.
LockOrderOnly(w) ==
  LET t == tx[w] IN
  /\ t.pc = "lock" /\ Granted(w)
  /\ CASE t.op = "confirm" -> Goto(w, "series")
       [] t.op = "ship"    -> tx' = [tx EXCEPT ![w].pc = "lines", ![w].i = 1,
                                               ![w].held = @ \cup Wants(w)]
       [] t.op = "cancel"  -> Goto(w, "commit")
  /\ UNCHANGED Tables

\* SELECT status ... FOR UPDATE, then the status check.  CancelOrder has no
\* reservation to release: only a DRAFT order gets this far.
LockOrder(w) ==
  LET t == tx[w] IN
  /\ t.pc = "lock" /\ Granted(w)
  /\ IF status[t.order] # Required[t.op] THEN Abort(w)
     ELSE CASE t.op = "confirm" -> Goto(w, "series")
            [] t.op = "ship"    -> tx' = [tx EXCEPT ![w].pc = "lines", ![w].i = 1,
                                                    ![w].held = @ \cup Wants(w)]
            [] t.op = "cancel"  -> Goto(w, "commit")
  /\ UNCHANGED Tables

\* PostDocumentTx takes the next number of the series.  ConfirmOrder goes on
\* to its lines, the others to the journal entry.
TakeSeries(w) ==
  LET t == tx[w] IN
  /\ t.pc = "series" /\ Granted(w)
  /\ tx' = [tx EXCEPT ![w].held = @ \cup Wants(w),
                      ![w].pc = IF t.op = "confirm" THEN "lines" ELSE "entry",
                      ![w].i = 1]
  /\ UNCHANGED Tables

\* Where w goes after line i: the next line, or what follows the loop.
AfterLine(t) == IF t.i < Len(lines[t.order]) THEN "lines"
                ELSE IF t.op = "ship" THEN "cogs" ELSE "commit"

\* Mutant of ReserveLine: what others have reserved counts as available.
ReserveLineOfOnHand(w) ==
  LET t == tx[w]
      l == lines[t.order][t.i] IN
  /\ t.pc = "lines" /\ t.op = "confirm" /\ Granted(w)
  /\ IF item[l.prod].exists /\ Seen(w, l.prod).onHand < l.qty THEN Abort(w)
     ELSE tx' = [tx EXCEPT ![w].held = @ \cup Wants(w), ![w].i = @ + 1,
                           ![w].pc = AfterLine(t),
                           ![w].delta[l.prod].reserved =
                              @ + IF item[l.prod].exists THEN l.qty ELSE 0]
  /\ UNCHANGED Tables

\* ReserveStockTx, one line.  A product without an item is a service: skipped.
ReserveLine(w) ==
  LET t == tx[w]
      l == lines[t.order][t.i]
      s == Seen(w, l.prod) IN
  /\ t.pc = "lines" /\ t.op = "confirm" /\ Granted(w)
  /\ IF item[l.prod].exists /\ s.onHand - s.reserved < l.qty THEN Abort(w)
     ELSE tx' = [tx EXCEPT ![w].held = @ \cup Wants(w), ![w].i = @ + 1,
                           ![w].pc = AfterLine(t),
                           ![w].delta[l.prod].reserved =
                              @ + IF item[l.prod].exists THEN l.qty ELSE 0]
  /\ UNCHANGED Tables

\* Mutant of ShipLine: the reservation is not given up.
ShipLineReserved(w) ==
  LET t == tx[w]
      l == lines[t.order][t.i] IN
  /\ t.pc = "lines" /\ t.op = "ship" /\ Granted(w)
  /\ IF ~item[l.prod].exists
     THEN tx' = [tx EXCEPT ![w].i = @ + 1, ![w].pc = AfterLine(t)]
     ELSE IF Seen(w, l.prod).onHand < l.qty THEN Abort(w)
     ELSE tx' = [tx EXCEPT ![w].held = @ \cup Wants(w), ![w].i = @ + 1,
                           ![w].pc = AfterLine(t),
                           ![w].delta[l.prod].onHand = @ - l.qty]
  /\ UNCHANGED Tables

\* ShipStockTx, one line: the reservation given up is the order's quantity, or
\* what is reserved if that is less.
ShipLine(w) ==
  LET t == tx[w]
      l == lines[t.order][t.i]
      s == Seen(w, l.prod)
      given == IF s.reserved < l.qty THEN s.reserved ELSE l.qty IN
  /\ t.pc = "lines" /\ t.op = "ship" /\ Granted(w)
  /\ IF ~item[l.prod].exists
     THEN tx' = [tx EXCEPT ![w].i = @ + 1, ![w].pc = AfterLine(t)]
     ELSE IF s.onHand < l.qty THEN Abort(w)
     ELSE tx' = [tx EXCEPT ![w].held = @ \cup Wants(w), ![w].i = @ + 1,
                           ![w].pc = AfterLine(t),
                           ![w].delta[l.prod] = [onHand |-> @.onHand - l.qty,
                                                 reserved |-> @.reserved - given]]
  /\ UNCHANGED Tables

\* The goods issue is booked if anything physical was shipped.  (Stock that was
\* received has a cost: the receipt's own entry is refused otherwise.)
BookCOGS(w) ==
  /\ tx[w].pc = "cogs"
  /\ Goto(w, IF tx[w].delta # NoChange THEN "series" ELSE "commit")
  /\ UNCHANGED Tables

\* ReceiveStock's item row, locked and increased.
ReceiveItem(w) ==
  /\ tx[w].pc = "item" /\ Granted(w)
  /\ tx' = [tx EXCEPT ![w].held = @ \cup Wants(w), ![w].pc = "series",
                      ![w].delta[tx[w].prod].onHand = @ + tx[w].qty]
  /\ UNCHANGED Tables

\* Mutant of PostEntry: a duplicate waits for the key to become free.
PostEntryWaits(w) ==
  LET t == tx[w] IN
  /\ t.pc = "entry" /\ Granted(w) /\ Key(t) \notin posted
  /\ tx' = [tx EXCEPT ![w].held = @ \cup Wants(w), ![w].key = Key(t),
                      ![w].pc = IF t.op \in {"invoice", "payment"}
                                THEN "mark" ELSE "commit"]
  /\ UNCHANGED Tables

\* CommitInTx's journal entry: a committed key is a duplicate proposal and
\* rolls everything back.
PostEntry(w) ==
  LET t == tx[w] IN
  /\ t.pc = "entry" /\ Granted(w)
  /\ IF Key(t) \in posted THEN Abort(w)
     ELSE tx' = [tx EXCEPT ![w].held = @ \cup Wants(w), ![w].key = Key(t),
                           ![w].pc = IF t.op \in {"invoice", "payment"}
                                     THEN "mark" ELSE "commit"]
  /\ UNCHANGED Tables

\* UPDATE sales_orders ... WHERE id = $1, with no condition on the status.
MarkOrder(w) ==
  /\ tx[w].pc = "mark" /\ Granted(w)
  /\ Goto(w, "commit")
  /\ UNCHANGED Tables

\* Mutant of Movements: shipments are not logged.
MovementsInbound(t) ==
  CASE t.op = "receive" -> [moves EXCEPT !.receipt[t.prod] = @ + t.qty]
    [] t.op = "confirm" -> [moves EXCEPT !.reservation[t.order] =
                              [p \in Products |-> t.delta[p].reserved]]
    [] OTHER            -> moves

\* The rows the transaction inserted into inventory_movements.
Movements(t) ==
  CASE t.op = "receive" -> [moves EXCEPT !.receipt[t.prod] = @ + t.qty]
    [] t.op = "confirm" -> [moves EXCEPT !.reservation[t.order] =
                              [p \in Products |-> t.delta[p].reserved]]
    [] t.op = "ship"    -> [moves EXCEPT !.shipment[t.order] =
                              [p \in Products |-> -t.delta[p].onHand]]
    [] OTHER            -> moves

Commit(w) ==
  LET t == tx[w] IN
  /\ t.pc = "commit"
  /\ status' = IF t.op \in OrderOps THEN [status EXCEPT ![t.order] = Target[t.op]]
               ELSE status
  /\ item' = [p \in Products |->
                [exists   |-> item[p].exists \/ p = t.prod,
                 onHand   |-> Seen(w, p).onHand,
                 reserved |-> Seen(w, p).reserved]]
  /\ moves' = Movements(t)
  /\ posted' = posted \cup ({t.key} \ {None})
  /\ tx' = [tx EXCEPT ![w] = IdleTx]
  /\ UNCHANGED lines

\* An error, a cancelled request, a lost connection or a crash.
Rollback(w) == tx[w].pc # "idle" /\ Abort(w) /\ UNCHANGED Tables

\* PostgreSQL's deadlock detector: w is on a cycle of waiting transactions.
Deadlocked(w) ==
  \E C \in SUBSET Workers :
     w \in C /\ \A v \in C : (\E u \in C : WaitsFor(v, u)) /\ (\E u \in C : WaitsFor(u, v))

BreakDeadlock(w) == Deadlocked(w) /\ Abort(w) /\ UNCHANGED Tables
-----------------------------------------------------------------------------
Request(w) ==
  \/ \E o \in Orders, op \in {"confirm", "ship", "cancel"} : Begin(w, o, op)
  \/ \E o \in Orders, op \in {"invoice", "payment"} : BeginBilling(w, o, op)
  \/ \E p \in Products, q \in Qtys, day \in Days : BeginReceive(w, p, q, day)

Step(w) ==
  \/ LockOrder(w) \/ TakeSeries(w) \/ ReserveLine(w) \/ ShipLine(w) \/ BookCOGS(w)
  \/ ReceiveItem(w) \/ PostEntry(w) \/ MarkOrder(w) \/ Commit(w)

Next ==
  \/ \E o \in Orders : \E b \in Baskets[o] : CreateOrder(o, b)
  \/ \E w \in Workers : Request(w) \/ Step(w) \/ Rollback(w) \/ BreakDeadlock(w)

Spec == Init /\ [][Next]_vars

\* A statement ends: its lock is granted (in the order of the requests), or the
\* deadlock detector, which every waiting statement runs, ends it.
Fairness == \A w \in Workers : SF_vars(Step(w) \/ BreakDeadlock(w))
FairSpec == Spec /\ Fairness
-----------------------------------------------------------------------------
(* Properties *)

Statuses == {"NONE", "DRAFT", "CONFIRMED", "SHIPPED", "INVOICED", "PAID", "CANCELLED"}

\* Orders have a status of the table's CHECK constraint, stock rows hold
\* numbers, and a handler without a transaction holds no lock.
TypeOK ==
  /\ status \in [Orders -> Statuses]
  /\ \A o \in Orders : lines[o] \in Baskets[o] \cup {<<>>}
  /\ item \in [Products -> [exists : BOOLEAN, onHand : Int, reserved : Int]]
  /\ \A w \in Workers : tx[w].pc = "idle" => tx[w] = IdleTx

\* Stock is never oversold: however confirmations, shipments and receipts
\* interleave, 0 <= qty_reserved <= qty_on_hand.
StockBounds == \A p \in Products : 0 <= item[p].reserved /\ item[p].reserved <= item[p].onHand

\* inventory_items and the movement log agree: on hand is what was received
\* less what was shipped.
StockMatchesMovements ==
  \A p \in Products :
     item[p].onHand = moves.receipt[p]
                      - SumFunction([o \in Orders |-> moves.shipment[o][p]])

\* Migration 009: "qty_reserved: soft-locked by CONFIRMED orders (not yet
\* shipped)".  It is never more than those orders reserved, and less only when
\* an order shipped goods it had not reserved, because its product had no item
\* yet when it was confirmed: that shipment gave up what others had reserved.
ReservationLostOnlyLate ==
  \A p \in Products :
     LET locked == SumFunction([o \in Orders |->
                     IF status[o] = "CONFIRMED" THEN moves.reservation[o][p] ELSE 0])
     IN /\ item[p].reserved <= locked
        /\ \/ item[p].reserved = locked
           \/ \E o \in Orders : moves.shipment[o][p] > moves.reservation[o][p]

\* README "Full DRAFT -> CONFIRMED -> SHIPPED -> INVOICED -> PAID state
\* machine": stale status checks never move an order back or twice, and the
\* entry of a move is posted with it.
Lifecycle == INSTANCE OrderLifecycle
ImplementsLifecycle == Lifecycle!LifecycleSpec

\* Every request ends, deadlocks between line loops included.
EveryRequestEnds == \A w \in Workers : (tx[w].pc # "idle") ~> (tx[w].pc = "idle")
=============================================================================
