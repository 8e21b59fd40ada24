--------------------------- MODULE PurchaseOrders ---------------------------
(***************************************************************************)
(* Purchase orders (internal/core/purchase_order_service.go) of one        *)
(* company.                                                                *)
(*                                                                         *)
(* CreatePO, ApprovePO, RecordVendorInvoice and PayVendor are one          *)
(* transaction each, which locks the order before it reads the status: one *)
(* action each.  ReceivePO is not a transaction: it reads the order from   *)
(* the pool, then for each line reads what was received so far, then       *)
(* commits the line's receipt in a transaction of its own, and at the end  *)
(* sets the status with an UPDATE that has no condition.  run[w] is the    *)
(* call of ReceivePO that request handler w is executing.                  *)
(*                                                                         *)
(* CreatePO checks no quantity, so that an order may have lines of zero or  *)
(* less.  A line stores two decimals, a movement four, and what a caller    *)
(* sends has any number of them.  Amounts are left out: an entry that the   *)
(* ledger refuses for its amount is a call that fails.                     *)
(***************************************************************************)
EXTENDS Decimals, Sequences, FiniteSets, Functions

CONSTANTS
  Workers,   \* request handlers that run ReceivePO concurrently
  POs,       \* ids of purchase_orders
  Products,
  QtyUnit,   \* units of a quantity sent, in the least a movement stores (0.0001)
  LineUnit,  \* the least quantities of a movement, in the least of a line (0.01)
  LineSets,  \* the lines vendors are asked for: sequences of kind, prod, qty
  Requests,  \* what callers of ReceivePO send: sequences of line number and qty
  MaxLines,  \* bound on the lines of an order
  MaxDay,    \* bound on the calendar: days are 1..MaxDay
  None

VARIABLES
  status,    \* purchase_orders.status, "NONE" before the row exists
  lines,     \* purchase_order_lines, their quantities in those of movements
  moved,     \* PO -> the line numbers that have RECEIPT movements
  received,  \* PO -> line number -> sum of its RECEIPT movements
  stock,     \* product -> qty_on_hand
  posted,    \* idempotency keys of committed journal entries
  docs,      \* PO -> the number of PO and PI documents posted for it
  paid,      \* PO -> the number of payment entries posted for it
  today,
  run,
  failed     \* ghost: orders a call has received a line of and then failed

vars == <<status, lines, moved, received, stock, posted, docs, paid, today, run, failed>>

Kinds == {"goods", "service", "neither"}

ASSUME POAssumption ==
  /\ \A ls \in LineSets :
       ls # <<>> /\ ls \in Seq([kind : Kinds, prod : Products \cup {None}, qty : Int])
  /\ \A r \in Requests : r # <<>> /\ r \in Seq([line : Nat \ {0}, qty : Int])
  /\ QtyUnit \in Nat \ {0} /\ LineUnit \in Nat \ {0}
  /\ MaxDay \in Nat \ {0}
  /\ MaxLines \in Nat /\ \A ls \in LineSets : Len(ls) <= MaxLines
-----------------------------------------------------------------------------
IdleRun == [pc |-> "idle", po |-> None, req |-> <<>>, i |-> 0, day |-> 0, seen |-> 0]

LineNos == 1 .. MaxLines
Item(r) == r.req[r.i]
OrderLine(r) == lines[r.po][Item(r).line]

\* goods-receipt-<company>-<product>-<date>: the receipts of a product on a
\* day share one key, whatever order they belong to.
ReceiptKey(prod, day) == <<"goods-receipt", prod, day>>
ServiceKey(p, l) == <<"service-receipt", p, l>>
PaymentKey(p) == <<"pay-vendor-po", p>>

Init ==
  /\ status = [p \in POs |-> "NONE"]
  /\ lines = [p \in POs |-> <<>>]
  /\ moved = [p \in POs |-> {}]
  /\ received = [p \in POs |-> [l \in LineNos |-> 0]]
  /\ stock = [x \in Products |-> 0]
  /\ posted = {}
  /\ docs = [p \in POs |-> [PO |-> 0, PI |-> 0]]
  /\ paid = [p \in POs |-> 0]
  /\ today = 1
  /\ run = [w \in Workers |-> IdleRun]
  /\ failed = {}
-----------------------------------------------------------------------------
(* The one-transaction operations *)

\* The line as its row stores it.
StoredLine(l) == [l EXCEPT !.qty = Rounded(@, QtyUnit * LineUnit) * LineUnit]

\* Any quantity is accepted.
CreatePO(p, ls) ==
  /\ status[p] = "NONE"
  /\ status' = [status EXCEPT ![p] = "DRAFT"]
  /\ lines' = [lines EXCEPT ![p] = [l \in DOMAIN ls |-> StoredLine(ls[l])]]
  /\ UNCHANGED <<moved, received, stock, posted, docs, paid, today, run, failed>>

\* Approving an APPROVED order again is a no-op.
ApprovePO(p) ==
  /\ status[p] = "DRAFT"
  /\ status' = [status EXCEPT ![p] = "APPROVED"]
  /\ docs' = [docs EXCEPT ![p].PO = @ + 1]
  /\ UNCHANGED <<lines, moved, received, stock, posted, paid, today, run, failed>>

\* Posts a PI document and no journal entry: the receipts already credited AP.
RecordVendorInvoice(p) ==
  /\ status[p] = "RECEIVED"
  /\ status' = [status EXCEPT ![p] = "INVOICED"]
  /\ docs' = [docs EXCEPT ![p].PI = @ + 1]
  /\ UNCHANGED <<lines, moved, received, stock, posted, paid, today, run, failed>>

\* Mutant of PayVendor: the payment entry has no idempotency key.
PayVendorKeyless(p) ==
  /\ status[p] = "INVOICED"
  /\ paid' = [paid EXCEPT ![p] = @ + 1]
  /\ status' = [status EXCEPT ![p] = "PAID"]
  /\ UNCHANGED <<lines, moved, received, stock, posted, docs, today, run, failed>>

PayVendor(p) ==
  /\ status[p] = "INVOICED"
  /\ PaymentKey(p) \notin posted
  /\ posted' = posted \cup {PaymentKey(p)}
  /\ paid' = [paid EXCEPT ![p] = @ + 1]
  /\ status' = [status EXCEPT ![p] = "PAID"]
  /\ UNCHANGED <<lines, moved, received, stock, docs, today, run, failed>>

\* A receipt outside any purchase order (the ReceiveStock request).
ReceiveStock(prod, qty) ==
  /\ qty > 0
  /\ ReceiptKey(prod, today) \notin posted
  /\ posted' = posted \cup {ReceiptKey(prod, today)}
  /\ stock' = [stock EXCEPT ![prod] = @ + RoundTo(qty, QtyUnit)]
  /\ UNCHANGED <<status, lines, moved, received, docs, paid, today, run, failed>>

NextDay ==
  /\ today < MaxDay
  /\ today' = today + 1
  /\ UNCHANGED <<status, lines, moved, received, stock, posted, docs, paid, run, failed>>
-----------------------------------------------------------------------------
(* ReceivePO *)

\* The order and its status are read once; the movement date is today's.
BeginReceive(w, p, req) ==
  /\ run[w].pc = "idle"
  /\ status[p] = "APPROVED"
  /\ run' = [run EXCEPT ![w] = [pc |-> "check", po |-> p, req |-> req, i |-> 1,
                                day |-> today, seen |-> 0]]
  /\ UNCHANGED <<status, lines, moved, received, stock, posted, docs, paid, today, failed>>

\* An order that is not APPROVED is refused.
RefuseReceive(w, p) == run[w].pc = "idle" /\ status[p] # "APPROVED" /\ UNCHANGED vars

\* Mutant of Receivable: earlier receipts are not counted.
ReceivableAlone(r) ==
  /\ Item(r).qty > 0 /\ Item(r).line \in DOMAIN lines[r.po]
  /\ \/ OrderLine(r).kind = "goods" /\ Item(r).qty <= OrderLine(r).qty * QtyUnit
     \/ OrderLine(r).kind = "service"

\* Whether a line may be received, by what is committed now; the sum is exact.
Receivable(r) ==
  /\ Item(r).qty > 0 /\ Item(r).line \in DOMAIN lines[r.po]
  /\ \/ /\ OrderLine(r).kind = "goods"
        /\ received[r.po][Item(r).line] * QtyUnit + Item(r).qty <= OrderLine(r).qty * QtyUnit
     \/ OrderLine(r).kind = "service"

\* Mutant of Advance: one line too far.
AdvanceTooFar(r) == IF r.i <= Len(r.req)
                    THEN [r EXCEPT !.i = @ + 1, !.pc = "check", !.seen = 0]
                    ELSE [r EXCEPT !.pc = "finish", !.seen = 0]

\* The next line of the request, or the final UPDATE.
Advance(r) == IF r.i < Len(r.req)
              THEN [r EXCEPT !.i = @ + 1, !.pc = "check", !.seen = 0]
              ELSE [r EXCEPT !.pc = "finish", !.seen = 0]

\* The line passes: what was received of it so far is a local of the call now.
Checked(r) == [r EXCEPT !.pc = "post", !.seen = received[r.po][Item(r).line]]

\* The call returns an error: what it has committed stays.
FailCall(w) ==
  /\ run' = [run EXCEPT ![w] = IdleRun]
  /\ failed' = IF run[w].i > 1 \/ run[w].pc = "finish" THEN failed \cup {run[w].po} ELSE failed

GoOn(w, r) == run' = [run EXCEPT ![w] = r] /\ UNCHANGED failed

\* Mutant of CheckLine: a line that cannot be received is skipped.
CheckLineSkips(w) ==
  /\ run[w].pc = "check"
  /\ GoOn(w, IF Receivable(run[w]) THEN Checked(run[w]) ELSE Advance(run[w]))
  /\ UNCHANGED <<status, lines, moved, received, stock, posted, docs, paid, today>>

CheckLine(w) ==
  /\ run[w].pc = "check"
  /\ IF Receivable(run[w]) THEN GoOn(w, Checked(run[w])) ELSE FailCall(w)
  /\ UNCHANGED <<status, lines, moved, received, stock, posted, docs, paid, today>>

\* The movement of a received line and the stock, as their columns store them.
Move(r) ==
  LET stored == RoundTo(Item(r).qty, QtyUnit) IN
  /\ moved' = [moved EXCEPT ![r.po] = @ \cup {Item(r).line}]
  /\ received' = [received EXCEPT ![r.po][Item(r).line] = @ + stored]
  /\ stock' = [stock EXCEPT ![OrderLine(r).prod] = @ + stored]

\* Mutant of PostGoods: the receipt entry has no idempotency key.
PostGoodsKeyless(w) ==
  LET r == run[w] IN
  /\ r.pc = "post" /\ OrderLine(r).kind = "goods"
  /\ posted' = posted \cup {ReceiptKey(OrderLine(r).prod, r.day)}
  /\ Move(r)
  /\ GoOn(w, Advance(r))
  /\ UNCHANGED <<status, lines, docs, paid, today>>

\* inv.ReceiveStock: stock, movement and entry in one transaction; a second
\* receipt of the product on that day is a duplicate and fails the call.
PostGoods(w) ==
  LET r == run[w]
      k == ReceiptKey(OrderLine(r).prod, r.day) IN
  /\ r.pc = "post" /\ OrderLine(r).kind = "goods"
  /\ IF k \in posted
     THEN FailCall(w) /\ UNCHANGED <<moved, received, stock, posted>>
     ELSE /\ posted' = posted \cup {k}
          /\ Move(r)
          /\ GoOn(w, Advance(r))
  /\ UNCHANGED <<status, lines, docs, paid, today>>

\* ledger.Commit of DR expense / CR AP, once per line; the quantity is not
\* compared with what was ordered.
PostService(w) ==
  LET r == run[w]
      k == ServiceKey(r.po, Item(r).line) IN
  /\ r.pc = "post" /\ OrderLine(r).kind = "service"
  /\ IF k \in posted THEN FailCall(w) /\ UNCHANGED posted
     ELSE posted' = posted \cup {k} /\ GoOn(w, Advance(r))
  /\ UNCHANGED <<status, lines, moved, received, stock, docs, paid, today>>

\* Mutant of FinishReceive: only a request for every line completes the order.
FinishReceiveWhole(w) ==
  /\ run[w].pc = "finish"
  /\ status' = IF Len(run[w].req) = Len(lines[run[w].po])
               THEN [status EXCEPT ![run[w].po] = "RECEIVED"] ELSE status
  /\ GoOn(w, IdleRun)
  /\ UNCHANGED <<lines, moved, received, stock, posted, docs, paid, today>>

\* UPDATE purchase_orders SET status = 'RECEIVED' WHERE id = $1.
FinishReceive(w) ==
  /\ run[w].pc = "finish"
  /\ status' = [status EXCEPT ![run[w].po] = "RECEIVED"]
  /\ GoOn(w, IdleRun)
  /\ UNCHANGED <<lines, moved, received, stock, posted, docs, paid, today>>

\* An error, a cancelled request or a crash: what is committed stays.
AbandonReceive(w) ==
  /\ run[w].pc # "idle"
  /\ FailCall(w)
  /\ UNCHANGED <<status, lines, moved, received, stock, posted, docs, paid, today>>
-----------------------------------------------------------------------------
Step(w) == CheckLine(w) \/ PostGoods(w) \/ PostService(w) \/ FinishReceive(w)

Next ==
  \/ NextDay
  \/ \E x \in Products, r \in Requests : \E i \in DOMAIN r : ReceiveStock(x, r[i].qty)
  \/ \E p \in POs :
       \/ \E ls \in LineSets : CreatePO(p, ls)
       \/ ApprovePO(p) \/ RecordVendorInvoice(p) \/ PayVendor(p)
  \/ \E w \in Workers :
       \/ \E p \in POs, req \in Requests : BeginReceive(w, p, req)
       \/ \E p \in POs : RefuseReceive(w, p)
       \/ Step(w) \/ AbandonReceive(w)

Spec == Init /\ [][Next]_vars

\* A handler that has begun runs on.  Nobody is obliged to send a request.
FairSpec == Spec /\ \A w \in Workers : WF_vars(Step(w))
-----------------------------------------------------------------------------
(* Properties *)

Rank == [NONE |-> 0, DRAFT |-> 1, APPROVED |-> 2, RECEIVED |-> 3, INVOICED |-> 4, PAID |-> 5]

\* Statuses are those of the lifecycle, counters are numbers, and a running
\* ReceivePO is at a line of its request.
TypeOK ==
  /\ status \in [POs -> DOMAIN Rank]
  /\ received \in [POs -> [LineNos -> Nat]]
  /\ stock \in [Products -> Nat]
  /\ paid \in [POs -> Nat]
  /\ \A w \in Workers : run[w].pc # "idle" => run[w].i \in DOMAIN run[w].req

\* The vendor is paid once and an approved order has one PO number, even if a
\* late ReceivePO puts a PAID order back to RECEIVED and it is invoiced again.
PaidOnce ==
  \A p \in POs : /\ paid[p] <= 1
                 /\ docs[p].PO = IF status[p] \in {"NONE", "DRAFT"} THEN 0 ELSE 1

\* The books show that something of order p was received: goods, whatever the
\* movement rounded them to, or a service.
Receipted(p) == moved[p] # {} \/ \E l \in LineNos : ServiceKey(p, l) \in posted

\* An order that counts as received, invoiced or paid has a receipt in the
\* books: of goods, or of a service.
ReceivedHasReceipt == \A p \in POs : Rank[status[p]] >= 3 => Receipted(p)

\* More of a line is in stock than was ordered.  Of a line of zero or less, any
\* quantity is.
OverReceived(p, l) ==
  /\ l \in DOMAIN lines[p]
  /\ lines[p][l].kind = "goods"
  /\ received[p][l] > 0 /\ received[p][l] > lines[p][l].qty

\* The over-receipt check and the receipt are not one transaction: a receipt
\* takes a line over its ordered quantity only if another was committed to the
\* same line after this call had summed it.
OverReceiptOnlyStale ==
  [][\A p \in POs, l \in LineNos :
       received'[p][l] > received[p][l] /\ OverReceived(p, l)' =>
         \E w \in Workers :
           /\ run[w].pc = "post" /\ run[w].po = p /\ Item(run[w]).line = l
           /\ run[w].seen # received[p][l]]_vars

\* And never within a day: the receipt key of the product and the day, checked
\* in the transaction, stops the second of two racing receipts.  Nor of a line
\* of zero or less, which CreatePO takes (purchase_order_service.go:64) and no
\* receipt fits: no race makes it have stock.
OverReceiptSpansDays ==
  \A p \in POs, l \in LineNos : OverReceived(p, l) =>
     /\ lines[p][l].qty > 0
     /\ \E d, e \in 1 .. today : d # e /\ ReceiptKey(lines[p][l].prod, d) \in posted
                                      /\ ReceiptKey(lines[p][l].prod, e) \in posted

\* README "DRAFT -> APPROVED -> RECEIVED -> INVOICED -> PAID": no step moves an
\* order back.
StatusForward == [][\A p \in POs : Rank[status'[p]] >= Rank[status[p]]]_vars

\* ReceivePO: "On completion, transitions PO status to RECEIVED".  An order of
\* which anything is received stays APPROVED while nobody works on it only if a
\* call failed after it had committed a line: none is stranded by calls that
\* succeed, however they overlap and whatever the other lines ask for.
StrandedOnlyByFailure ==
  \A p \in POs :
    status[p] = "APPROVED" /\ Receipted(p) /\ (\A w \in Workers : run[w].po # p)
      => p \in failed
=============================================================================
