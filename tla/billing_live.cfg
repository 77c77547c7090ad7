SPECIFICATION FairSpec
CONSTANTS
  Users = {u1}
  Workers = {w1, w2}
  Customers = {c1}
  Profiles = {}
  SubIds = {s1}
  MaxPayments = 0
  MayFail = TRUE
  StripeResubscribes = TRUE
  None = None
PROPERTIES EndedIsClosed CardsAreEntitlements
CHECK_DEADLOCK FALSE
