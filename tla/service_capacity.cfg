\* Two sessions race for the units of one room with two bookings.
SPECIFICATION Spec
CONSTANTS
  Sessions = {s1, s2}
  Rooms = {r1}
  BookingIds = {1, 2}
  Users = {u1}
  MaxTime = 2
  MaxUnits = 2
  MaxFaults = 0
  None = None
SYMMETRY Interchangeable
INVARIANTS TypeOK LocksHeld LoadedIsCurrent NoOverbooking DeadlocksNeedSweepOrDeletion
PROPERTIES RefinesLedger
CHECK_DEADLOCK FALSE
