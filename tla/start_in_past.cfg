\* A create that waits for the room row while the clock runs.
SPECIFICATION Spec
CONSTANTS
  Sessions = {s1, s2}
  Rooms = {r1}
  BookingIds = {1}
  Users = {u1}
  MaxTime = 2
  MaxUnits = 1
  MaxFaults = 0
  None = None
PROPERTIES NeverInsertedInThePast
CHECK_DEADLOCK FALSE
