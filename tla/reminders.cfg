\* Three days of two instants; two bookings, which start on the second or third day,
\* in a room with room for both.
SPECIFICATION RemindersSpec
CONSTANTS
  Rooms = {r1}
  BookingIds = {b1, b2}
  Users = {guest}
  MaxTime = 5
  MaxUnits = 2
  SlotsPerDay = 2
  Fire = 1
  Starts = {2, 3, 4}
SYMMETRY Interchangeable
INVARIANTS RunsOK RemindedOnce NoneForgotten
CHECK_DEADLOCK FALSE
