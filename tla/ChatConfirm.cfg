SPECIFICATION FairSpec
CONSTANTS
  Workers = {w1, w2}
  Tokens = {t1, t2}
  JETokens = {t1}
  alice = alice
  bob = bob
  c1 = c1
  c2 = c2
  Users = {alice, bob}
  Companies = {c1, c2}
  CompanyOf <- MCCompanyOf
  TTL = 1
  MaxTime = 2
  None = None
INVARIANTS TypeOK ConfirmedByMember JournalOnce
PROPERTIES TokensUsedUp ExpiredIsEvicted
