SPECIFICATION Spec
CONSTANTS
  bank = bank
  loan = loan
  capital = capital
  income = income
  cost = cost
  TypeOf <- MCTypeOf
  Days = {1, 2, 3}
  MonthOf <- MCMonthOf
  Templates <- MCTemplates
  Refreshers = {r1, r2}
  MaxEntries = 2
  None = None
INVARIANTS SheetMatchesIncome StatementMatchesSheet RefreshedUnlessOverlapped
