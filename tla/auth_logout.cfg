\* A logout that overlaps a refresh.
SPECIFICATION Spec
CONSTANTS
  Requests = {q1, q2}
  MaxTime = 2
  MaxTokens = 3
  MaxRevokes = 2
  MaxFaults = 0
  Lifetime = 2
  None = None
PROPERTIES LogoutEndsSession
CHECK_DEADLOCK FALSE
