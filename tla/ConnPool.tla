------------------------------ MODULE ConnPool ------------------------------
(***************************************************************************)
(* The connection pool under the services: a handler holds one connection   *)
(* for its transaction, and ResolveAccount (internal/core/rule_engine.go)   *)
(* asks the pool for a second one while ReceiveStock and ShipStockTx keep   *)
(* the first, the latter also with row locks.  The pool waits without a     *)
(* limit, the server sets no time limit on a request.                      *)
(*                                                                         *)
(* A handler's work is the list of its steps that take or release a         *)
(* connection or a row lock; everything between them is left out.          *)
(***************************************************************************)
EXTENDS Integers, Sequences, FiniteSets

CONSTANTS
  Handlers,  \* request handlers
  Orders,    \* sales_orders rows
  Items,     \* inventory_items rows
  Sizes,     \* pool sizes (MaxConns) an installation may have
  NoOne      \* no work, no holder


VARIABLES
  size,    \* MaxConns, fixed when the pool is made
  work,    \* the steps a handler has still to do, NoOne when it is idle
  txs,     \* handlers that hold a connection for their transaction
  queries, \* handlers that hold a connection for a query on the pool
  holder   \* the handler whose transaction has locked a row

poolVars == <<size, work, txs, queries, holder>>

Rows == Orders \cup Items
Steps == Rows \cup {"begin", "take", "give", "commit"}

\* A pool has a connection; the two tables, the names of the steps and NoOne
\* are told apart.
ASSUME PoolAssumption ==
  /\ Sizes \subseteq Nat \ {0}
  /\ Orders \cap Items = {}
  /\ Rows \cap {"begin", "take", "give", "commit"} = {}
  /\ NoOne \notin Handlers \cup Seq(Steps)

\* The steps of each operation.  "take" and "give" are queries on the pool
\* itself, one or several in a row; "begin" takes a connection until the end of
\* the transaction.  A receipt asks for its accounts in its transaction, and so
\* does a shipment of goods with a cost; the order is read again at the end.
ReadOrder == <<"take", "give">>
ReceiveStock(i) == <<"begin", "take", "give", i, "commit">>
ConfirmOrder(o, i) == <<"begin", o, i, "commit">> \o ReadOrder
ShipOrder(o, i) == <<"begin", o, i, "take", "give", "take", "give", "commit">> \o ReadOrder
\* InvoiceOrder and RecordPayment resolve their account before they begin.
InvoiceOrder(o) == ReadOrder \o <<"begin", o, "commit">> \o ReadOrder

Operations ==
  {ReceiveStock(i) : i \in Items}
  \cup {ConfirmOrder(o, i) : o \in Orders, i \in Items}
  \cup {ShipOrder(o, i) : o \in Orders, i \in Items}
  \cup {InvoiceOrder(o) : o \in Orders}

PoolInit ==
  /\ size \in Sizes
  /\ work = [h \in Handlers |-> NoOne]
  /\ txs = {} /\ queries = {}
  /\ holder = [r \in Rows |-> NoOne]
-----------------------------------------------------------------------------
Busy(h) == work[h] # NoOne
At(h, steps) == Busy(h) /\ Head(work[h]) \in steps

\* The steps that are left; none left, and the handler is idle.
Advance(h) ==
  work' = [work EXCEPT ![h] = IF Len(@) = 1 THEN NoOne ELSE Tail(@)]

Free == size - Cardinality(txs) - Cardinality(queries)

Start(h) ==
  /\ ~Busy(h)
  /\ \E op \in Operations : work' = [work EXCEPT ![h] = op]
  /\ UNCHANGED <<size, txs, queries, holder>>

\* The pool hands out a connection, or the handler waits for one.
Begin(h) ==
  /\ At(h, {"begin"})
  /\ Free > 0
  /\ txs' = txs \cup {h}
  /\ Advance(h)
  /\ UNCHANGED <<size, queries, holder>>

Take(h) ==
  /\ At(h, {"take"})
  /\ Free > 0
  /\ queries' = queries \cup {h}
  /\ Advance(h)
  /\ UNCHANGED <<size, txs, holder>>

\* Mutant of Give: the rows of the query are never closed.
GiveLeaks(h) ==
  /\ At(h, {"give"})
  /\ Advance(h)
  /\ UNCHANGED <<size, txs, queries, holder>>

Give(h) ==
  /\ At(h, {"give"})
  /\ queries' = queries \ {h}
  /\ Advance(h)
  /\ UNCHANGED <<size, txs, holder>>

LockRow(h) ==
  /\ At(h, Rows)
  /\ holder[Head(work[h])] \in {NoOne, h}
  /\ holder' = [holder EXCEPT ![Head(work[h])] = h]
  /\ Advance(h)
  /\ UNCHANGED <<size, txs, queries>>

Unlocked(h) == [r \in Rows |-> IF holder[r] = h THEN NoOne ELSE holder[r]]

Commit(h) ==
  /\ At(h, {"commit"})
  /\ txs' = txs \ {h}
  /\ holder' = Unlocked(h)
  /\ Advance(h)
  /\ UNCHANGED <<size, queries>>

\* Any step may fail, a wait is given up when the client goes away: the
\* deferred roll-back returns the connections and the locks.
\* Mutant of GiveUp: the roll-back is missing.
GiveUpKeeps(h) ==
  /\ Busy(h)
  /\ work' = [work EXCEPT ![h] = NoOne]
  /\ UNCHANGED <<size, txs, queries, holder>>

GiveUp(h) ==
  /\ Busy(h)
  /\ work' = [work EXCEPT ![h] = NoOne]
  /\ txs' = txs \ {h} /\ queries' = queries \ {h}
  /\ holder' = Unlocked(h)
  /\ UNCHANGED size
-----------------------------------------------------------------------------
PoolStep(h) == Begin(h) \/ Take(h) \/ Give(h) \/ LockRow(h) \/ Commit(h)

PoolNext == \E h \in Handlers : Start(h) \/ PoolStep(h) \/ GiveUp(h)

\* The pool and the row locks serve their waiters in turn, so a handler whose
\* step is possible again and again gets it; nothing makes a handler start or
\* fail.
PoolSpec ==
  /\ PoolInit /\ [][PoolNext]_poolVars
  /\ \A h \in Handlers : SF_poolVars(PoolStep(h))
-----------------------------------------------------------------------------
Blocked(h) ==
  \/ At(h, {"begin", "take"}) /\ Free = 0
  \/ At(h, Rows) /\ holder[Head(work[h])] \notin {NoOne, h}

\* Every connection is held by a handler that waits for a connection, or for a
\* row whose holder waits.
Exhausted ==
  /\ Free = 0
  /\ \A h \in txs \cup queries : Blocked(h)

\* The pool is never overdrawn; and it is exhausted only by as many open
\* transactions as it has connections, one of them asking for a second
\* connection (a receipt or a shipment in ResolveAccount): fewer handlers than
\* connections are never stuck.
ExhaustedOnlyWhenFull ==
  /\ Free >= 0
  /\ Exhausted =>
       /\ Cardinality(txs) = size
       /\ \E h \in txs : At(h, {"take"})

\* Nothing else stops the handlers: each request ends, unless the pool stays
\* exhausted for ever.
EndsUnlessExhausted ==
  \A h \in Handlers : Busy(h) ~> (~Busy(h) \/ []Exhausted)
=============================================================================
