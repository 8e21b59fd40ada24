--------------------------- MODULE OrderLifecycle ---------------------------
(***************************************************************************)
(* What a sales order promises: its status moves along                     *)
(* DRAFT -> CONFIRMED -> SHIPPED -> INVOICED -> PAID (or from DRAFT to     *)
(* CANCELLED), and the journal entry that belongs to a move is posted in   *)
(* the same step, once.                                                    *)
(***************************************************************************)
CONSTANT Orders

VARIABLES
  status,  \* order -> its status, "NONE" before it exists
  posted   \* the idempotency keys of the journal entries posted

IssueKey(o)   == <<"goods-issue-order", o>>
InvoiceKey(o) == <<"invoice-order", o>>
PaymentKey(o) == <<"payment-order", o>>
OrderKeys == UNION {{IssueKey(o), InvoiceKey(o), PaymentKey(o)} : o \in Orders}

Move(o, from, to) == status[o] = from /\ status' = [status EXCEPT ![o] = to]
PostOnce(k) == k \notin posted /\ posted' = posted \cup {k}

Create(o)  == Move(o, "NONE", "DRAFT") /\ UNCHANGED posted
Confirm(o) == Move(o, "DRAFT", "CONFIRMED") /\ UNCHANGED posted
Cancel(o)  == Move(o, "DRAFT", "CANCELLED") /\ UNCHANGED posted
Ship(o)    == Move(o, "CONFIRMED", "SHIPPED") /\ (PostOnce(IssueKey(o)) \/ UNCHANGED posted)
Invoice(o) == Move(o, "SHIPPED", "INVOICED") /\ PostOnce(InvoiceKey(o))
Pay(o)     == Move(o, "INVOICED", "PAID") /\ PostOnce(PaymentKey(o))

\* Entries that belong to no order (goods receipts) come at any time.
OtherEntry ==
  /\ UNCHANGED status
  /\ posted \subseteq posted'
  /\ (posted' \ posted) \cap OrderKeys = {}

LifecycleInit == status = [o \in Orders |-> "NONE"] /\ posted = {}

LifecycleNext ==
  \/ OtherEntry
  \/ \E o \in Orders : \/ Create(o) \/ Confirm(o) \/ Cancel(o)
                       \/ Ship(o) \/ Invoice(o) \/ Pay(o)

LifecycleSpec == LifecycleInit /\ [][LifecycleNext]_<<status, posted>>
=============================================================================
