\* Liveness: no symmetry, no faults.
SPECIFICATION FairSpec
CONSTANTS
  Sessions = {s1, s2}
  Rooms = {r1}
  BookingIds = {1}
  Users = {u1}
  MaxTime = 2
  MaxUnits = 1
  MaxFaults = 0
  None = None
PROPERTIES EveryRequestEnds FinishedGetCompleted
CHECK_DEADLOCK FALSE
