\* One booking from creation to its end: sweep, updates, cancels by its owner, by
\* another user and by the staff, a deletion of either, with crashes and broker failures.
SPECIFICATION Spec
CONSTANTS
  Sessions = {s1, s2}
  Rooms = {r1}
  BookingIds = {1}
  Users = {u1, u2}
  MaxTime = 3
  MaxUnits = 1
  MaxFaults = 1
  None = None
SYMMETRY Interchangeable
INVARIANTS CompletedIsOver NotifiedOnce
PROPERTIES FinishedForever RefinesNotifications
CHECK_DEADLOCK FALSE
