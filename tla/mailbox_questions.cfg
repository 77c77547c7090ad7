SPECIFICATION FairSpec
CONSTANTS
  Users = {u1, u2}
  Subscribers = {}
  Workers = {w1, w2}
  MaxMessages = 2
  MaxQuestions = 2
  MaxTime = 0
  Retention = 1
  PerPage = 1
  MayFail = FALSE
  None = None
INVARIANTS QuestionsReachRecipient
PROPERTIES SavedQuestionIsLinked
