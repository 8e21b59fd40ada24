SPECIFICATION Spec
CONSTANTS
  AmtUnit = 2
  RateUnit = 2
  Blank = Blank
  Malformed = Malformed
  OtherZero = OtherZero
  Events = {e1}
  ReadTools = {getStock}
  WriteTools = {payVendor}
  RawProposals <- MCRawProposals
  Forms <- MCForms
  MaxRounds = 3
  MaxLoops = 5
  MaxItems = 2
  MaxTries = 3
  None = None
  c1 = c1
  JE = JE
  cash = cash
  usd = usd
  day = day
INVARIANTS TypeOK TwoSided PostedOnceUnlessLost StoredBalance DriftBounded
PROPERTY Returns
CHECK_DEADLOCK FALSE
