-------------------------- MODULE MCPurchaseOrders --------------------------
(***************************************************************************)
(* Instances of PurchaseOrders for TLC.                                    *)
(***************************************************************************)
EXTENDS PurchaseOrders, TLC

CONSTANT x1

L(k, x, q) == [kind |-> k, prod |-> x, qty |-> q]
R(l, q) == [line |-> l, qty |-> q]

\* A line stores multiples of 4, a movement multiples of 2 (LineUnit, QtyUnit).
\* Goods and a service, the same product on two lines, a line that can be
\* neither; then lines that are stored as zero and as less.
MCLineSets == {<<L("goods", x1, 8), L("service", None, 1)>>,
               <<L("goods", x1, 4), L("goods", x1, 3)>>,
               <<L("goods", x1, 4), L("neither", None, 4)>>,
               <<L("goods", x1, 1), L("goods", x1, -4)>>}
GoodsOnly == {<<L("goods", x1, 4)>>}

\* 1 is stored as 2, and nothing can receive a quantity below it.
MCRequests == {<<R(1, 1)>>, <<R(1, 8)>>, <<R(2, 4)>>, <<R(1, 4), R(2, 4)>>, <<R(1, -4)>>}
OneRequest == {<<R(1, 4)>>}

Symmetry == Permutations(Workers) \cup Permutations(POs)
=============================================================================
