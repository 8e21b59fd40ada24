SPECIFICATION FairSpec
CONSTANTS
  Workers = {w1, w2}
  Orders = {o1, o2}
  o1 = o1
  o2 = o2
  p1 = p1
  p2 = p2
  Products = {p1, p2}
  Baskets <- MCBaskets
  Qtys = {1}
  Days = {1}
  Stocked = {p1}
  Seed = 1
  None = None
INVARIANTS TypeOK StockBounds StockMatchesMovements ReservationLostOnlyLate
PROPERTIES ImplementsLifecycle EveryRequestEnds
