SPECIFICATION Spec
CONSTANTS
  Users = {u1, u2}
  Subscribers = {u1, u2}
  Workers = {w1, w2}
  MaxMessages = 2
  MaxQuestions = 0
  MaxTime = 1
  Retention = 0
  PerPage = 2
  MayFail = TRUE
  None = None
SYMMETRY Symmetry
INVARIANTS TypeOK
PROPERTIES PageShowsWhatItMarks FlagsAreTheReceivers YoungStays NoReplyIsLost
