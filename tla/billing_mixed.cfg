SPECIFICATION Spec
CONSTANTS
  Users = {u1}
  Workers = {w1, w2}
  Customers = {c1}
  Profiles = {p1}
  SubIds = {s1, s2}
  MaxPayments = 2
  MayFail = TRUE
  StripeResubscribes = TRUE
  None = None
SYMMETRY Symmetry
INVARIANTS TypeOK TokensNameOneRow StripeAccessIsPaid PaypalIsPaidFor
PROPERTIES ClosedStaysClosed BilledIsKnown PlanLostByDeathOrRace PaypalLostByDeathOrRace
CHECK_DEADLOCK FALSE
