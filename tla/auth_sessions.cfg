\* Two handlers of one account; three refresh tokens, two revocations.
SPECIFICATION Spec
CONSTANTS
  Requests = {q1, q2}
  MaxTime = 1
  MaxTokens = 3
  MaxRevokes = 2
  MaxFaults = 1
  Lifetime = 1
  None = None
SYMMETRY Interchangeable
INVARIANTS TypeOK ExchangedOnce RevokedSessionsEnd NewLoginsSurvive
CHECK_DEADLOCK FALSE
