SPECIFICATION FairSpec
CONSTANTS
  AmtUnit = 1
  RateUnit = 10
  Blank = Blank
  Malformed = Malformed
  OtherZero = OtherZero
  Workers = {w1, w2}
  Companies <- MCCompanies
  DocTypes <- MCDocTypes
  Years <- MCYears
  NoYear = NoYear
  BareSeries <- MCBareSeries
  DocIds = {d1, d2}
  NoDoc = NoDoc
  Keys <- MCKeys
  NoKey = NoKey
  Proposals <- MCProposals
  NoProposal = NoProposal
  Chart <- MCChart
  MaxEntries = 3
  c1 = c1
  c2 = c2
  JE = JE
  PO = PO
  y1 = y1
  cash = cash
  rev = rev
  other = other
  k1 = k1
  k2 = k2
  day = day
  usd = usd
INVARIANTS TypeOK GaplessNumbering Idempotent OneEntryPerNumber CompanyScoped ReversalsMirror StoredBalance
PROPERTIES ImplementsBooks EveryTxEnds
