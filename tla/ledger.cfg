\* Three bookings compete for a room of up to two units, with a search beside them.
SPECIFICATION SearchSpec
CONSTANTS
  Rooms = {r1}
  BookingIds = {b1, b2, b3}
  Users = {u1}
  MaxTime = 3
  MaxUnits = 2
  OneDay = 2
  None = None
SYMMETRY Interchangeable
INVARIANTS TypeOK NoOverbooking CompletedIsOver ListedWasFree
PROPERTIES FinishedForever NoBookingAfterArchive
CHECK_DEADLOCK FALSE
