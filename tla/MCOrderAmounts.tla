--------------------------- MODULE MCOrderAmounts ---------------------------
(***************************************************************************)
(* An instance of OrderAmounts for TLC: a stocked product and a service in  *)
(* one company, a service in another.  Quantities are in quarters and costs *)
(* in eighths of a cent; stocks are stored in halves, costs in quarters of  *)
(* a cent and the quantities of orders in ones.                            *)
(***************************************************************************)
EXTENDS OrderAmounts

CONSTANTS c1, c2, o1, o2, o3, goods, care, advice, sales, services

MCCompanyOf ==
  [x \in {o1, o2, goods, care} |-> c1] @@ [x \in {o3, advice} |-> c2]
MCRevenueOf == [p \in {goods} |-> sales] @@ [p \in {care, advice} |-> services]
MCListPrice == [p \in {goods, care, advice} |-> 16]

Line(p, q, price) == [product |-> p, qty |-> q, price |-> price]

MCBaskets ==
  [o \in {o1} |->
     {[lines |-> <<Line(goods, q, price)>>, rate |-> 3] : q \in {-2, 1, 2, 8}, price \in {0, 8}}
     \cup {[lines |-> <<Line(p, q, 12), Line(care, 2, 16)>>, rate |-> rate] :
             p \in {goods, care}, q \in {2, 4}, rate \in {1, 2}}]
  @@ [o \in {o2} |-> {[lines |-> <<Line(goods, 6, 12)>>, rate |-> 2]}]
  @@ [o \in {o3} |-> {[lines |-> <<Line(advice, 4, 0)>>, rate |-> 3]}]
=============================================================================
