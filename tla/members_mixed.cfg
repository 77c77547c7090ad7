SPECIFICATION Spec
CONSTANTS
  Names = {n1, n2}
  Emails = {e1, e2}
  Workers = {w1, w2}
  MaxUsers = 2
  MaxFollows = 2
  MaxDates = 2
  None = None
SYMMETRY Symmetry
INVARIANTS TypeOK EmailsUnique
PROPERTIES NamesGivenTwiceByRace FollowEndsByRequest DeletionTakesItsRows
