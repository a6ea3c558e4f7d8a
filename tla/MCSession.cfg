SPECIFICATION FairSpec
CONSTANTS
  s1 = s1
  s2 = s2
  Sessions = {s1, s2}
  Messages <- MCMessages
  MaxMessages <- MCMaxMessages
INVARIANTS
  AnswersTruthful
  SessionsConsistent
PROPERTIES
  NamedPlansStay
  ShutdownReturns
CHECK_DEADLOCK FALSE
