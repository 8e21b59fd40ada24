SPECIFICATION Spec
CONSTANTS
  AmtUnit = 1
  RateUnit = 10
  Blank = Blank
  Malformed = Malformed
  OtherZero = OtherZero
  Workers = {w1, w2}
  Companies <- MCCompanies
  DocTypes <- MCDocTypes
  Years <- MCYears
  NoYear = NoYear
  BareSeries <- MCBareSeries
  DocIds = {d1, d2, d3}
  NoDoc = NoDoc
  Keys <- MCKeys
  NoKey = NoKey
  Proposals <- OneProposal
  NoProposal = NoProposal
  Chart <- MCChart
  MaxEntries = 3
  c1 = c1
  c2 = c2
  JE = JE
  PO = PO
  y1 = y1
  cash = cash
  rev = rev
  other = other
  k1 = k1
  k2 = k2
  day = day
  usd = usd
SYMMETRY Symmetry
INVARIANTS ReversedOnce
