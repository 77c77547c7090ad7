SPECIFICATION Spec
CONSTANTS
  Users = {u1}
  Workers = {w1, w2}
  Customers = {c1, c2}
  Profiles = {}
  SubIds = {s1, s2}
  MaxPayments = 0
  MayFail = TRUE
  StripeResubscribes = FALSE
  None = None
SYMMETRY Symmetry
INVARIANTS ClosedIsNotBilled
CHECK_DEADLOCK FALSE
