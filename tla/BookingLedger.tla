---------------------------- MODULE BookingLedger ----------------------------
(***************************************************************************)
(* What the booking system promises, with no sessions and no locks: every  *)
(* committed change of the rooms and bookings tables is one atomic step    *)
(* whose conditions hold at the instant of the commit.  BookingService is  *)
(* the program that has to keep this promise with row locks.               *)
(***************************************************************************)
EXTENDS RoomCalendar

CONSTANTS Rooms,       \* ids a room may get
          BookingIds,  \* ids a booking may get
          Users,       \* registered users
          MaxTime,     \* bound: last instant of the clock
          MaxUnits     \* bound: largest total_units

ASSUME LedgerAssumption == /\ MaxTime \in Nat
                           /\ MaxUnits \in Nat
                           /\ IsFiniteSet(BookingIds)

VARIABLES now, room, booking
ledgerVars == <<now, room, booking>>

Time  == 0 .. MaxTime
Units == 0 .. MaxUnits
Room  == [units : Units, active : BOOLEAN]
Row   == [user : Users, room : Rooms, start : Time, end : Time,
          status : BookingStatus]
-----------------------------------------------------------------------------
Init == /\ now = 0
        /\ room = [r \in {} |-> {}]
        /\ booking = [b \in {} |-> {}]

Tick == /\ now < MaxTime
        /\ now' = now + 1
        /\ UNCHANGED <<room, booking>>

AddRoom(r, n) ==
  /\ r \notin DOMAIN room
  /\ room' = Inserted(room, r, [units |-> n, active |-> TRUE])
  /\ UNCHANGED <<now, booking>>

\* A booking is inserted only into an active room that has a unit left in the
\* whole period.  The start is not compared with the clock: the service does
\* that before it waits for the room.
Book(b, u, r, st, en) ==
  /\ b \notin DOMAIN booking
  /\ r \in DOMAIN room /\ room[r].active
  /\ st < en
  /\ RoomAvailable(booking, r, room[r].units, st, en, {})
  /\ booking' = Inserted(booking, b, [user |-> u, room |-> r, start |-> st,
                                      end |-> en, status |-> "ACTIVE"])
  /\ UNCHANGED <<now, room>>

\* Fault: the room of the booking may have been archived.
MoveInAnyRoom(b, st, en) ==
  /\ b \in DOMAIN booking /\ booking[b].status = "ACTIVE"
  /\ st < en
  /\ RoomAvailable(booking, booking[b].room, room[booking[b].room].units,
                   st, en, {b})
  /\ booking' = [booking EXCEPT ![b].start = st, ![b].end = en]
  /\ UNCHANGED <<now, room>>

\* An active booking of an active room gets a new period, in the same room.
Move(b, st, en) ==
  /\ b \in DOMAIN booking /\ booking[b].status = "ACTIVE"
  /\ booking[b].room \in DOMAIN room /\ room[booking[b].room].active
  /\ st < en
  /\ RoomAvailable(booking, booking[b].room, room[booking[b].room].units,
                   st, en, {b})
  /\ booking' = [booking EXCEPT ![b].start = st, ![b].end = en]
  /\ UNCHANGED <<now, room>>

\* Fault: a COMPLETED booking can be cancelled.
CancelAnything(b) ==
  /\ b \in DOMAIN booking
  /\ booking' = WithStatus(booking, {b}, "CANCELLED")
  /\ UNCHANGED <<now, room>>

Cancel(b) ==
  /\ b \in DOMAIN booking /\ booking[b].status = "ACTIVE"
  /\ booking' = WithStatus(booking, {b}, "CANCELLED")
  /\ UNCHANGED <<now, room>>

\* The sweep completes any set of active bookings that are over.
Complete(ids) ==
  /\ \A b \in ids : Finished(booking[b], now)
  /\ booking' = WithStatus(booking, ids, "COMPLETED")
  /\ UNCHANGED <<now, room>>

\* Fault: one unit less than asked for.
ResizeBelowZero(r, n) ==
  /\ r \in DOMAIN room
  /\ n < room[r].units => ~HasUnfinishedBooking(booking, r, now)
  /\ room' = [room EXCEPT ![r].units = n - 1]
  /\ UNCHANGED <<now, booking>>

\* The capacity of a room shrinks only while no unfinished booking needs it.
Resize(r, n) ==
  /\ r \in DOMAIN room
  /\ n < room[r].units => ~HasUnfinishedBooking(booking, r, now)
  /\ room' = [room EXCEPT ![r].units = n]
  /\ UNCHANGED <<now, booking>>

Archive(r) ==
  /\ r \in DOMAIN room
  /\ room' = [room EXCEPT ![r].active = FALSE]
  /\ UNCHANGED <<now, booking>>

Next ==
  \/ Tick
  \/ \E r \in Rooms :
       \/ \E n \in Units : AddRoom(r, n) \/ Resize(r, n)
       \/ Archive(r)
  \/ \E b \in BookingIds :
       \/ \E u \in Users, r \in Rooms, st, en \in Time : Book(b, u, r, st, en)
       \/ \E st, en \in Time : Move(b, st, en)
       \/ Cancel(b)
  \/ \E ids \in SUBSET DOMAIN booking : Complete(ids)

Spec == Init /\ [][Next]_ledgerVars
-----------------------------------------------------------------------------
\* The tables hold well-formed rows, their keys are ids, and every booking
\* refers to a room that exists.
TypeOK == /\ now \in Time
          /\ DOMAIN room \subseteq Rooms
          /\ room \in [DOMAIN room -> Room]
          /\ DOMAIN booking \subseteq BookingIds
          /\ booking \in [DOMAIN booking -> Row]
          /\ \A b \in DOMAIN booking : booking[b].room \in DOMAIN room

\* At no instant from now on do more active bookings hold a room than the
\* room has units, whatever was created, moved, resized or archived before.
\* (The past is excluded on purpose: change_room may shrink a room whose
\* ended bookings the hourly sweep has not completed yet.)
NoOverbooking ==
  \A r \in DOMAIN room, t \in Time :
    t >= now => Cardinality(OccupiedAt(booking, r, t)) <= room[r].units

\* Only a booking whose end has passed is ever COMPLETED: the hourly sweep
\* never completes a stay that was moved or is still running.
CompletedIsOver ==
  \A b \in DOMAIN booking : booking[b].status = "COMPLETED" => booking[b].end < now

\* CANCELLED and COMPLETED are final: no later commit of a cancel, update or
\* sweep changes such a row, and no row of the table disappears or changes
\* its owner or its room.
RowsKept ==
  /\ DOMAIN booking \subseteq DOMAIN booking'
  /\ \A b \in DOMAIN booking :
       /\ booking'[b].user = booking[b].user
       /\ booking'[b].room = booking[b].room
       /\ booking[b].status # "ACTIVE" => booking'[b] = booking[b]
FinishedForever == [][RowsKept]_ledgerVars

\* A booking is inserted or moved only while its room is active, and a room
\* that was archived never becomes active again (RoomUpdate has no is_active).
ArchiveRespected ==
  /\ \A b \in DOMAIN booking' :
       (b \notin DOMAIN booking \/ booking'[b].start # booking[b].start
                                \/ booking'[b].end # booking[b].end)
         => booking'[b].room \in DOMAIN room /\ room[booking'[b].room].active
  /\ \A r \in DOMAIN room :
       r \in DOMAIN room' /\ (room'[r].active => room[r].active)
NoBookingAfterArchive == [][ArchiveRespected]_ledgerVars
=============================================================================
