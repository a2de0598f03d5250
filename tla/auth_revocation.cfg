\* A login or a refresh that overlaps a revocation.
SPECIFICATION Spec
CONSTANTS
  Requests = {q1, q2}
  MaxTime = 2
  MaxTokens = 3
  MaxRevokes = 2
  MaxFaults = 0
  Lifetime = 2
  None = None
SYMMETRY Interchangeable
INVARIANTS OldCredentialsRefused
CHECK_DEADLOCK FALSE
