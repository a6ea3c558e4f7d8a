SPECIFICATION Spec
CONSTANTS
  s1 = s1
  s2 = s2
  Sessions = {s1}
  Messages <- MCOneMessages
  MaxMessages <- MCOneMaxMessages
INVARIANT ContextIsActive
CHECK_DEADLOCK FALSE
