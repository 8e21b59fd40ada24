---------------------------- MODULE MCSalesOrders ----------------------------
(***************************************************************************)
(* An instance of SalesOrders for TLC.                                     *)
(***************************************************************************)
EXTENDS SalesOrders, TLC

CONSTANTS o1, o2, p1, p2

Line(p, q) == [prod |-> p, qty |-> q]

\* Two products in either order (lock cycles), or the same product twice.
MCBaskets ==
  o1 :> {<<Line(p1, 1), Line(p2, 1)>>, <<Line(p1, 1), Line(p1, 1)>>}
  @@ o2 :> {<<Line(p2, 1), Line(p1, 1)>>}
=============================================================================
