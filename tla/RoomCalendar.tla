---------------------------- MODULE RoomCalendar ----------------------------
(***************************************************************************)
(* The calendar arithmetic of the booking service: which rows of the       *)
(* bookings table occupy a room at an instant, and when a period still has *)
(* a unit left.  A bookings table is a function from ids to rows           *)
(*   [user, room, start, end, status],                                     *)
(* a period is the half-open interval [start, end) of integer instants.    *)
(***************************************************************************)
EXTENDS Integers, FiniteSets

BookingStatus == {"ACTIVE", "CANCELLED", "COMPLETED"}

\* The statuses that hold a unit of the room.
BlockingStatuses == {"ACTIVE"}

Blocks(row, r) == row.room = r /\ row.status \in BlockingStatuses

\* The ids of the rows that hold a unit of room r at instant t.
OccupiedAt(bookings, r, t) ==
  {b \in DOMAIN bookings : /\ Blocks(bookings[b], r)
                           /\ bookings[b].start <= t
                           /\ t < bookings[b].end}

\* Fault: a stay that began before the period is overlooked.
StartingWithin(bookings, r, start, end) ==
  {b \in DOMAIN bookings : /\ Blocks(bookings[b], r)
                           /\ bookings[b].start < end
                           /\ bookings[b].start >= start}

\* The ids the overlap query selects for the period [start, end).
OverlappingIntervals(bookings, r, start, end) ==
  {b \in DOMAIN bookings : /\ Blocks(bookings[b], r)
                           /\ bookings[b].start < end
                           /\ bookings[b].end > start}

\* What has_available_unit promises: at every instant of the period fewer than
\* `units` of the given intervals are open.  OccupancySweep checks that the
\* event sweep of the code computes exactly this.
HasAvailableUnit(bookings, ids, units, start, end) ==
  /\ units > 0
  /\ \A t \in start .. (end - 1) :
       Cardinality({b \in ids : bookings[b].start <= t /\ t < bookings[b].end}) < units

\* ensure_room_available; `excluded` is {} for a new booking and {id} for an
\* update, which must not compete with its own row.
RoomAvailable(bookings, r, units, start, end, excluded) ==
  HasAvailableUnit(bookings,
                   OverlappingIntervals(bookings, r, start, end) \ excluded,
                   units, start, end)

\* Fault: a stay that ends at this very instant counts as finished.
EndsByNow(row, time) == row.end <= time /\ row.status = "ACTIVE"

\* The WHERE clause of complete_finished_bookings.
Finished(row, time) == row.end < time /\ row.status = "ACTIVE"

\* The query change_room makes before it lowers total_units.
HasUnfinishedBooking(bookings, r, time) ==
  \E b \in DOMAIN bookings : Blocks(bookings[b], r) /\ bookings[b].end > time

\* The table f with a row inserted under a new key.
Inserted(f, key, row) ==
  [k \in DOMAIN f \cup {key} |-> IF k = key THEN row ELSE f[k]]

\* The bookings table with the status of the rows in ids set.
WithStatus(bookings, ids, status) ==
  [b \in DOMAIN bookings |->
     IF b \in ids THEN [bookings[b] EXCEPT !.status = status] ELSE bookings[b]]
=============================================================================
