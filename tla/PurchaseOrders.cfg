SPECIFICATION Spec
CONSTANTS
  Workers = {w1, w2}
  POs = {p1, p2}
  x1 = x1
  Products = {x1}
  QtyUnit = 2
  LineUnit = 2
  LineSets <- MCLineSets
  Requests <- MCRequests
  MaxLines = 2
  MaxDay = 2
  None = None
SYMMETRY Symmetry
INVARIANTS TypeOK PaidOnce ReceivedHasReceipt OverReceiptSpansDays StrandedOnlyByFailure
PROPERTIES OverReceiptOnlyStale
