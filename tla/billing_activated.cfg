SPECIFICATION Spec
CONSTANTS
  Users = {u1}
  Workers = {w1, w2}
  Customers = {}
  Profiles = {p1}
  SubIds = {s1}
  MaxPayments = 1
  MayFail = FALSE
  StripeResubscribes = FALSE
  None = None
SYMMETRY Symmetry
PROPERTY ActivatedMeansAccess
CHECK_DEADLOCK FALSE
