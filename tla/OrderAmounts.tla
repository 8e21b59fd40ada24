---------------------------- MODULE OrderAmounts ----------------------------
(***************************************************************************)
(* What the sales and stock operations are worth: the amounts of orders,    *)
(* the weighted average cost of stock, and the journal entries they make    *)
(* (internal/core/order_service.go and inventory_service.go).              *)
(*                                                                         *)
(* Each operation is one transaction, taken whole: SalesOrders.tla shows    *)
(* what their interleavings do.  A quantity counts QtyUnit-ths, a price or  *)
(* a cost counts CostUnit-ths of a cent; their product is exact in          *)
(* AmtUnit-ths of a cent, and every column that stores a quantity, money    *)
(* or a cost rounds.  The entries go through Validate and StoredLines of    *)
(* ProposalLogic; only the accounts in Tracked are added up.               *)
(***************************************************************************)
EXTENDS ProposalLogic, FiniteSetsExt

CONSTANTS
  Companies, Orders, Products,
  Goods,              \* the products that are received
  QtyUnit, CostUnit,  \* units of a quantity, and of a cent in prices and costs
  QtyStep, LineStep,  \* what a stock and an order line store: 0.0001 and 0.001
  CostStep,           \* what an item stores: 0.000001; a division is exact to 1
  CompanyOf,          \* the company of each order and product
  RevenueOf,          \* the revenue account of each product
  ListPrice,          \* the price of each product
  BasketsOf,          \* what may be ordered: [lines, rate], lines of [product, qty, price]
  ReceivedQtys, Costs, Days,  \* what may be received, at what cost, when
  AR, Inventory,      \* the accounts that are added up
  Others,             \* what stands for the accounts that are not
  Null                \* no invoice document

\* CreateOrder wants a line and looks the products up in the order's company;
\* it is called with the rate 1.0 wherever the request holds none.
BasketFits(o, b) ==
  /\ b.rate \in Nat \ {0}
  /\ b.lines \in Seq([product : Products, qty : Int, price : Int]) /\ b.lines # <<>>
  /\ \A i \in DOMAIN b.lines : CompanyOf[b.lines[i].product] = CompanyOf[o]

\* What a product earns is booked to an account that is not added up, and a
\* missing or malformed field is told apart from the others.
ASSUME AmountsAssumption ==
  /\ QtyUnit \in Nat \ {0} /\ CostUnit \in Nat \ {0}
  /\ AmtUnit = QtyUnit * CostUnit
  /\ QtyStep \in Nat \ {0} /\ CostStep \in Nat \ {0}
  /\ LineStep \in Nat \ {0} /\ LineStep % QtyStep = 0
  /\ IsFiniteSet(Orders) /\ IsFiniteSet(Products) /\ Goods \subseteq Products
  /\ ReceivedQtys \subseteq Nat \ {0} /\ Costs \subseteq Nat
  /\ \A x \in Orders \cup Products : CompanyOf[x] \in Companies
  /\ \A p \in Products : RevenueOf[p] \notin {AR, Inventory} /\ ListPrice[p] \in Int
  /\ AR # Inventory /\ Others \notin {AR, Inventory}
  /\ \A o \in Orders : \A b \in BasketsOf[o] : BasketFits(o, b)
  /\ {Blank, Malformed, OtherZero} \cap Int = {}
  /\ Blank \notin Companies
  /\ {Blank, Malformed} \cap {"GR", "GI", "SI", "JE", "currency", "day"} = {}

VARIABLES
  order,     \* sales_orders with their lines
  item,      \* inventory_items: [exists, onHand, reserved, cost]
  gl,        \* balance of each tracked account of each company, in cents
  keys,      \* products and days that have a goods receipt entry
  siDocs,    \* posted sales invoice documents: [company, number]
  receipts,  \* ghost: goods receipts of each product, what stock they averaged
             \* and at what costs they rounded a quantity
  issues     \* ghost: shipments of each company

vars == <<order, item, gl, keys, siDocs, receipts, issues>>

Tracked == {AR, Inventory}

NoOrder == [status |-> "NONE", lines |-> <<>>, total |-> 0, rate |-> RateUnit,
            doc |-> Null, whole |-> TRUE]

Init ==
  /\ order = [o \in Orders |-> NoOrder]
  /\ item = [p \in Products |-> [exists |-> FALSE, onHand |-> 0, reserved |-> 0, cost |-> 0]]
  /\ gl = [c \in Companies |-> [a \in Tracked |-> 0]]
  /\ keys = {}
  /\ siDocs = {}
  /\ receipts = [p \in Products |-> [count |-> 0, averaged |-> 0, rounded |-> 0]]
  /\ issues = [c \in Companies |-> 0]
-----------------------------------------------------------------------------
(***************************************************************************)
(* Rounding and entries.                                                   *)
(***************************************************************************)
LeastOf(a, b) == IF a < b THEN a ELSE b

Debit(a, cents)  == [acct |-> a, debit |-> TRUE,  amt |-> cents * AmtUnit]
Credit(a, cents) == [acct |-> a, debit |-> FALSE, amt |-> cents * AmtUnit]

Entry(c, type, rate, lines) ==
  [company |-> c, type |-> type, currency |-> "currency", postDate |-> "day",
   docDate |-> "day", rate |-> rate, lines |-> lines]

\* What an account gains from the rows of an entry.
Movement(rows, a) ==
  SumFunction([i \in DOMAIN rows |->
                 IF rows[i].acct = a THEN rows[i].debit - rows[i].credit ELSE 0])

\* CommitInTx: an entry is validated and its rows are stored.
Book(c, entry) ==
  /\ Validate(entry)
  /\ gl' = [gl EXCEPT ![c] = [a \in Tracked |-> @[a] + Movement(StoredLines(entry), a)]]
-----------------------------------------------------------------------------
(***************************************************************************)
(* Stock.                                                                  *)
(***************************************************************************)
\* Mutant of AverageCost: the stock on hand is taken at the new cost.
LastCost(i, qty, cost) == cost

\* Weighted average of the stock on hand and the goods received, by their exact
\* quantity: the division rounds, and the column again.
AverageCost(i, qty, cost) ==
  LET newQty == i.onHand + qty IN
  Column(IF newQty = 0 THEN cost ELSE Rounded(i.onHand * i.cost + qty * cost, newQty), CostStep)

\* A receipt books its exact cost and stores its rounded quantity; one key per
\* product and day.
ReceiveStock(p, qty, cost, day) ==
  LET c == CompanyOf[p]
      i == item[p]
      average == AverageCost(i, qty, cost)
      \* exact, in AmtUnit-ths: totalCost.String() keeps every decimal
      Line(a, debit) == [acct |-> a, debit |-> debit, amt |-> qty * cost]
  IN /\ <<p, day>> \notin keys
     /\ Book(c, Entry(c, "GR", RateUnit, <<Line(Inventory, TRUE), Line(Others, FALSE)>>))
     /\ item' = [item EXCEPT ![p] =
                   [i EXCEPT !.exists = TRUE, !.cost = average,
                             !.onHand = Column(i.onHand + qty, QtyStep)]]
     /\ keys' = keys \cup {<<p, day>>}
     /\ receipts' = [receipts EXCEPT ![p] =
                       [count |-> @.count + 1, averaged |-> @.averaged + i.onHand + qty,
                        rounded |-> @.rounded + IF qty % QtyStep = 0 THEN 0 ELSE average]]
     /\ UNCHANGED <<order, siDocs, issues>>

\* Mutant of ReserveLine: a line may reserve what is on hand.
ReserveLineOfOnHand(s, l) ==
  IF ~s.item[l.product].exists THEN s
  ELSE [ok |-> s.ok /\ s.item[l.product].onHand >= l.qty,
        item |-> [s.item EXCEPT ![l.product].reserved = @ + l.qty]]

\* ReserveStockTx, line by line; a product without an item is a service.
ReserveLine(s, l) ==
  IF ~s.item[l.product].exists THEN s
  ELSE [ok |-> s.ok /\ s.item[l.product].onHand - s.item[l.product].reserved >= l.qty,
        item |-> [s.item EXCEPT ![l.product].reserved = @ + l.qty]]

ReserveLines(lines) == FoldLeft(ReserveLine, [ok |-> TRUE, item |-> item], lines)

\* ShipStockTx, line by line, with the cost of the goods.
ShipLine(s, l) ==
  LET i == s.item[l.product]
  IN IF ~i.exists THEN s
     ELSE [ok |-> s.ok /\ i.onHand >= l.qty,
           cogs |-> s.cogs + l.qty * i.cost,
           item |-> [s.item EXCEPT ![l.product] =
              [i EXCEPT !.onHand = i.onHand - l.qty,
                        !.reserved = Max({i.reserved - LeastOf(l.qty, i.reserved), 0})]]]

ShipLines(lines) == FoldLeft(ShipLine, [ok |-> TRUE, cogs |-> 0, item |-> item], lines)

\* The entry of a shipment: StringFixed(2) rounds the cost to cents.
GoodsIssue(c, cogs) ==
  LET cents == Rounded(cogs, AmtUnit)
  IN Entry(c, "GI", RateUnit, <<Debit(Others, cents), Credit(Inventory, cents)>>)
-----------------------------------------------------------------------------
(***************************************************************************)
(* Orders.                                                                 *)
(***************************************************************************)
\* The exact total of a line; a price of zero means the list price.
LineTotal(l) == l.qty * (IF l.price = 0 THEN ListPrice[l.product] ELSE l.price)

\* Mutant of TotalOf: every line is rounded up.
TotalUp(lines) ==
  FoldSeq(LAMBDA l, sum : sum + (LineTotal(l) + AmtUnit - 1) \div AmtUnit, 0, lines)

\* The order's total is summed exactly and rounded once.
TotalOf(lines) ==
  Rounded(SumFunction([i \in DOMAIN lines |-> LineTotal(lines[i])]), AmtUnit)

\* Totals are of the quantities sent, which the lines store rounded.  (whole is
\* a ghost: no line's total was rounded.)  No request sends a rate, which would
\* be rounded too.
CreateOrder(o, lines, rate) ==
  /\ order[o].status = "NONE"
  /\ order' = [order EXCEPT ![o] =
       [status |-> "DRAFT", rate |-> rate, total |-> TotalOf(lines), doc |-> Null,
        whole |-> \A i \in DOMAIN lines : LineTotal(lines[i]) % AmtUnit = 0,
        lines |-> [i \in DOMAIN lines |->
                     [product |-> lines[i].product, qty |-> Column(lines[i].qty, LineStep),
                      total |-> Rounded(LineTotal(lines[i]), AmtUnit)]]]]
  /\ UNCHANGED <<item, gl, keys, siDocs, receipts, issues>>

ConfirmOrder(o) ==
  /\ order[o].status = "DRAFT"
  /\ ReserveLines(order[o].lines).ok
  /\ item' = ReserveLines(order[o].lines).item
  /\ order' = [order EXCEPT ![o].status = "CONFIRMED"]
  /\ UNCHANGED <<gl, keys, siDocs, receipts, issues>>

\* A cost of zero makes no entry; one that rounds to zero is refused by
\* Validate, and the shipment with it.
ShipOrder(o) ==
  LET c == CompanyOf[o]
      shipped == ShipLines(order[o].lines)
  IN /\ order[o].status = "CONFIRMED"
     /\ shipped.ok
     /\ \/ shipped.cogs = 0 /\ UNCHANGED gl
        \/ shipped.cogs # 0 /\ Book(c, GoodsIssue(c, shipped.cogs))
     /\ item' = shipped.item
     /\ order' = [order EXCEPT ![o].status = "SHIPPED"]
     /\ issues' = [issues EXCEPT ![c] = @ + 1]
     /\ UNCHANGED <<keys, siDocs, receipts>>

\* The stored line totals of an order, per revenue account.
Revenue(o, a) ==
  LET lines == order[o].lines
  IN SumFunction([i \in DOMAIN lines |->
                    IF RevenueOf[lines[i].product] = a THEN lines[i].total ELSE 0])

RevenueAccounts(o) == {RevenueOf[order[o].lines[i].product] : i \in DOMAIN order[o].lines}

Invoice(o) ==
  Entry(CompanyOf[o], "SI", order[o].rate,
    <<Debit(AR, order[o].total)>>
      \o SetToSeq({Credit(a, Revenue(o, a)) : a \in RevenueAccounts(o)}))

\* The sales invoice documents get the next number of their company.
NextSI(c) == [company |-> c, number |-> Cardinality({d \in siDocs : d.company = c}) + 1]

\* The invoice document is looked up by its number, whatever its company.
InvoiceDocument(c) ==
  {d \in siDocs \cup {NextSI(c)} : d.number = NextSI(c).number}

InvoiceOrder(o) ==
  LET c == CompanyOf[o]
  IN /\ order[o].status = "SHIPPED"
     /\ Book(c, Invoice(o))
     /\ siDocs' = siDocs \cup {NextSI(c)}
     /\ \E d \in InvoiceDocument(c) :
          order' = [order EXCEPT ![o].status = "INVOICED", ![o].doc = d]
     /\ UNCHANGED <<item, keys, receipts, issues>>

Payment(o) ==
  Entry(CompanyOf[o], "JE", order[o].rate,
        <<Debit(Others, order[o].total), Credit(AR, order[o].total)>>)

RecordPayment(o) ==
  /\ order[o].status = "INVOICED"
  /\ Book(CompanyOf[o], Payment(o))
  /\ order' = [order EXCEPT ![o].status = "PAID"]
  /\ UNCHANGED <<item, keys, siDocs, receipts, issues>>

CancelOrder(o) ==
  /\ order[o].status = "DRAFT"
  /\ order' = [order EXCEPT ![o].status = "CANCELLED"]
  /\ UNCHANGED <<item, gl, keys, siDocs, receipts, issues>>
-----------------------------------------------------------------------------
Next ==
  \/ \E p \in Goods, qty \in ReceivedQtys, cost \in Costs, day \in Days :
       ReceiveStock(p, qty, cost, day)
  \/ \E o \in Orders :
       \/ \E b \in BasketsOf[o] : CreateOrder(o, b.lines, b.rate)
       \/ ConfirmOrder(o) \/ ShipOrder(o) \/ InvoiceOrder(o)
       \/ RecordPayment(o) \/ CancelOrder(o)

Spec == Init /\ [][Next]_vars
-----------------------------------------------------------------------------
Distance(a, b) == IF a < b THEN b - a ELSE a - b

Ordered(statuses) == {o \in Orders : order[o].status \in statuses}

\* What an order's customer owes in base currency, as one stored line.
Owed(o) == RoundTo(order[o].total * order[o].rate, RateUnit)

\* Receivables are what the invoiced orders still owe: a payment clears what
\* its invoice booked, at the order's own rate.
ReceivablesOpen ==
  \A c \in Companies :
    gl[c][AR] = SumFunctionOnSet([o \in Orders |-> Owed(o)],
                                 {o \in Ordered({"INVOICED"}) : CompanyOf[o] = c})

\* The inventory account and the value of the stock drift apart by at most
\* half a cent for each entry, what two roundings take from the cost of each
\* unit on hand when an average was stored, and half a step of stock, at that
\* cost, for each quantity that was rounded: a receipt posts its exact cost, a
\* shipment the rounded cost at the average.
StockOf(c) == {p \in Products : CompanyOf[p] = c}

Value == [p \in Products |-> item[p].onHand * item[p].cost]
Receipts == [p \in Products |-> receipts[p].count]
Averaged == [p \in Products |-> receipts[p].averaged]
RoundedAt == [p \in Products |-> receipts[p].rounded]
OverStock(f, c) == SumFunctionOnSet(f, StockOf(c))

StockValueDrift ==
  \A c \in Companies :
    2 * Distance(gl[c][Inventory] * AmtUnit, OverStock(Value, c))
      <= (issues[c] + OverStock(Receipts, c)) * AmtUnit
           + (OverStock(Averaged, c) * (CostStep + 1) + OverStock(RoundedAt, c) * QtyStep)

BooksAgree == ReceivablesOpen /\ StockValueDrift

\* What is reserved is on hand, unless an order has a line of a negative
\* quantity: the web forms let one through, and it reserves backwards.
StockBounds ==
  \A p \in Products :
    \/ 0 <= item[p].reserved /\ item[p].reserved <= item[p].onHand
    \/ \E o \in Ordered({"CONFIRMED", "SHIPPED", "INVOICED", "PAID"}) :
         \E i \in DOMAIN order[o].lines :
           order[o].lines[i].product = p /\ order[o].lines[i].qty < 0

\* An order whose lines and amounts are positive can always be taken to its
\* next status, with two exceptions: goods worth less than half a cent cannot
\* be shipped, and an order of several lines of which one was rounded may not
\* be invoiced.  What was invoiced can be paid.
Regular(o) ==
  /\ \A i \in DOMAIN order[o].lines : order[o].lines[i].qty > 0 /\ order[o].lines[i].total > 0
  /\ order[o].whole \/ Len(order[o].lines) = 1

CanAdvance ==
  /\ \A o \in Ordered({"CONFIRMED"}) : Regular(o) =>
       LET shipped == ShipLines(order[o].lines)
       IN \/ ~shipped.ok
          \/ 2 * shipped.cogs < AmtUnit
          \/ Validate(GoodsIssue(CompanyOf[o], shipped.cogs))
  /\ \A o \in Ordered({"SHIPPED"}) : Regular(o) => Validate(Invoice(o))
  /\ \A o \in Ordered({"INVOICED"}) : Validate(Payment(o))

\* The invoice document of an order is the one its own invoice created.
InvoiceDocumentOwn ==
  \A o \in Orders : order[o].doc # Null => order[o].doc.company = CompanyOf[o]
=============================================================================
