SPECIFICATION Spec
CONSTANTS
  AmtUnit = 32
  QtyUnit = 4
  CostUnit = 8
  QtyStep = 2
  LineStep = 4
  CostStep = 2
  RateUnit = 2
  Blank = Blank
  Malformed = Malformed
  OtherZero = OtherZero
  c1 = c1
  c2 = c2
  o1 = o1
  o2 = o2
  o3 = o3
  goods = goods
  care = care
  advice = advice
  sales = sales
  services = services
  Companies = {c1, c2}
  Orders = {o1, o2, o3}
  Products = {goods, care, advice}
  Goods = {goods}
  CompanyOf <- MCCompanyOf
  RevenueOf <- MCRevenueOf
  ListPrice <- MCListPrice
  BasketsOf <- MCBaskets
  ReceivedQtys = {3, 12}
  Costs = {0, 1, 36}
  Days = {1, 2}
  AR = AR
  Inventory = Inventory
  Others = Others
  Null = Null
INVARIANT InvoiceDocumentOwn
CHECK_DEADLOCK FALSE
