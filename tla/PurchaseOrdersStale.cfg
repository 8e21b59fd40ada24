SPECIFICATION FairSpec
CONSTANTS
  Workers = {w1, w2}
  POs = {p1}
  x1 = x1
  Products = {x1}
  QtyUnit = 2
  LineUnit = 2
  LineSets <- GoodsOnly
  Requests <- OneRequest
  MaxLines = 2
  MaxDay = 2
  None = None
PROPERTIES StatusForward
