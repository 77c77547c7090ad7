SPECIFICATION Spec
CONSTANTS
  Users = {u1, u2}
  Admin = Admin
  Workers = {w1, w2}
  LIMIT = 1
  MaxPhotos = 3
  Default = 2
  None = None
SYMMETRY Symmetry
INVARIANTS TypeOK QuotaWithOverlap OwnerlessIsAbandoned AbandonedNotOffered OfferedToItsUser
PROPERTIES LockedOutStays
CHECK_DEADLOCK FALSE
