------------------------- MODULE BookingLedgerProofs -------------------------
(***************************************************************************)
(* Proofs about the ledger: its tables stay well-formed, no room is ever   *)
(* overbooked from now on, only finished stays are completed and a final   *)
(* booking is final.                                                       *)
(***************************************************************************)
EXTENDS BookingLedger, FiniteSetTheorems, TLAPS

\* A table whose rows have integer periods.
HasPeriods(bookings) ==
  \A b \in DOMAIN bookings : bookings[b].start \in Int /\ bookings[b].end \in Int

\* A set that gains at most one element stays within a bound it had not reached.
LEMMA OneMoreFits ==
  ASSUME NEW S, IsFiniteSet(S), NEW units \in Int, Cardinality(S) < units,
         NEW x, NEW T, T \subseteq S \cup {x}
  PROVE  Cardinality(T) <= units
<1>1. IsFiniteSet(S \cup {x})
  BY FS_AddElement
<1>2. Cardinality(S \cup {x}) = IF x \in S THEN Cardinality(S) ELSE Cardinality(S) + 1
  BY FS_AddElement
<1>3. IsFiniteSet(T) /\ Cardinality(T) <= Cardinality(S \cup {x})
  BY <1>1, FS_Subset
<1>4. Cardinality(S) \in Nat /\ Cardinality(T) \in Nat
  BY <1>3, FS_CardinalityType
<1> QED BY <1>2, <1>3, <1>4

\* A subset of a finite set within a bound is within the bound.
LEMMA FewerFit ==
  ASSUME NEW S, IsFiniteSet(S), NEW units \in Int, Cardinality(S) <= units,
         NEW T, T \subseteq S
  PROVE  Cardinality(T) <= units
<1>1. IsFiniteSet(T) /\ Cardinality(T) <= Cardinality(S)
  BY FS_Subset
<1>2. Cardinality(S) \in Nat /\ Cardinality(T) \in Nat
  BY <1>1, FS_CardinalityType
<1> QED BY <1>1, <1>2

\* The rows that hold a room at an instant are finitely many.
LEMMA OccupiedFinite ==
  ASSUME NEW bookings, IsFiniteSet(DOMAIN bookings), NEW r, NEW t
  PROVE  IsFiniteSet(OccupiedAt(bookings, r, t))
<1>1. OccupiedAt(bookings, r, t) \subseteq DOMAIN bookings
  BY DEF OccupiedAt
<1> QED BY <1>1, FS_Subset

\* ensure_room_available asks about overlapping rows only; its answer bounds all
\* the rows that hold the room at an instant of the period.
LEMMA AvailableMeansFree ==
  ASSUME NEW bookings, HasPeriods(bookings), NEW r, NEW units \in Int,
         NEW start \in Int, NEW end \in Int, NEW excluded,
         RoomAvailable(bookings, r, units, start, end, excluded),
         NEW t \in Int, start <= t, t < end
  PROVE  Cardinality(OccupiedAt(bookings, r, t) \ excluded) < units
<1> DEFINE ids == OverlappingIntervals(bookings, r, start, end) \ excluded
           open == {b \in ids : bookings[b].start <= t /\ t < bookings[b].end}
<1>1. t \in start .. (end - 1)
  OBVIOUS
<1>2. Cardinality(open) < units
  BY <1>1 DEF RoomAvailable, HasAvailableUnit
<1>3. open = OccupiedAt(bookings, r, t) \ excluded
  BY DEF HasPeriods, OverlappingIntervals, OccupiedAt
<1> QED BY <1>2, <1>3

\* A new row occupies its room in its own period and nothing else changes.
LEMMA OccupiedInserted ==
  ASSUME NEW bookings, NEW key, key \notin DOMAIN bookings, NEW row, NEW r, NEW t
  PROVE  LET new == Inserted(bookings, key, row) IN
         /\ OccupiedAt(new, r, t) \subseteq OccupiedAt(bookings, r, t) \cup {key}
         /\ ~(row.room = r /\ row.start <= t /\ t < row.end)
              => OccupiedAt(new, r, t) = OccupiedAt(bookings, r, t)
BY DEF OccupiedAt, Inserted, Blocks

\* A room without an unfinished booking is free from now on.
LEMMA UnneededIsFree ==
  ASSUME NEW bookings, HasPeriods(bookings), NEW r, NEW time \in Int,
         ~HasUnfinishedBooking(bookings, r, time), NEW t \in Int, t >= time
  PROVE  OccupiedAt(bookings, r, t) = {}
BY DEF HasPeriods, HasUnfinishedBooking, OccupiedAt
-----------------------------------------------------------------------------
USE LedgerAssumption

\* Inserting a well-formed row under a legal key keeps a table well-formed.
LEMMA InsertedType ==
  ASSUME NEW Keys, NEW Rows, NEW f, DOMAIN f \subseteq Keys, f \in [DOMAIN f -> Rows],
         NEW key \in Keys, NEW row \in Rows
  PROVE  /\ DOMAIN Inserted(f, key, row) = DOMAIN f \cup {key}
         /\ DOMAIN Inserted(f, key, row) \subseteq Keys
         /\ Inserted(f, key, row) \in [DOMAIN Inserted(f, key, row) -> Rows]
BY DEF Inserted

\* Setting a status touches no other field.
LEMMA WithStatusType ==
  ASSUME NEW f, f \in [DOMAIN f -> Row], NEW ids, NEW status \in BookingStatus
  PROVE  /\ DOMAIN WithStatus(f, ids, status) = DOMAIN f
         /\ WithStatus(f, ids, status) \in [DOMAIN f -> Row]
         /\ \A b \in DOMAIN f :
              LET new == WithStatus(f, ids, status)[b] IN
              /\ new.user = f[b].user /\ new.room = f[b].room
              /\ new.start = f[b].start /\ new.end = f[b].end
              /\ new.status = IF b \in ids THEN status ELSE f[b].status
              /\ b \notin ids => new = f[b]
BY DEF WithStatus, Row

\* A move changes the period of one row.
LEMMA MoveEffect ==
  ASSUME TypeOK, NEW b \in BookingIds, NEW st \in Time, NEW en \in Time, Move(b, st, en)
  PROVE  /\ DOMAIN booking' = DOMAIN booking
         /\ booking' \in [DOMAIN booking -> Row]
         /\ \A c \in DOMAIN booking \ {b} : booking'[c] = booking[c]
         /\ booking'[b].user = booking[b].user
         /\ booking'[b].room = booking[b].room
         /\ booking'[b].start = st /\ booking'[b].end = en
         /\ booking'[b].status = booking[b].status
BY DEF TypeOK, Move, Row

\* Every commit leaves well-formed tables.
LEMMA TypeStep == TypeOK /\ [Next]_ledgerVars => TypeOK'
<1> SUFFICES ASSUME TypeOK, [Next]_ledgerVars PROVE TypeOK'
  OBVIOUS
<1>1. CASE Tick
  BY <1>1 DEF TypeOK, Tick, Time
<1>2. ASSUME NEW r \in Rooms, NEW n \in Units, AddRoom(r, n) PROVE TypeOK'
  <2> DEFINE row == [units |-> n, active |-> TRUE]
  <2>1. row \in Room
    BY DEF Room
  <2>2. /\ DOMAIN room \subseteq Rooms /\ room \in [DOMAIN room -> Room]
        /\ room' = Inserted(room, r, row)
    BY <1>2 DEF TypeOK, AddRoom
  <2> HIDE DEF row
  <2>3. DOMAIN room' \subseteq Rooms /\ room' \in [DOMAIN room' -> Room]
    BY <2>1, <2>2, InsertedType
  <2>4. DOMAIN room \subseteq DOMAIN room'
    BY <2>2 DEF Inserted
  <2> QED BY <1>2, <2>3, <2>4 DEF TypeOK, AddRoom
<1>3. ASSUME NEW r \in Rooms, NEW n \in Units, Resize(r, n) PROVE TypeOK'
  BY <1>3 DEF TypeOK, Resize, Room
<1>4. ASSUME NEW r \in Rooms, Archive(r) PROVE TypeOK'
  BY <1>4 DEF TypeOK, Archive, Room
<1>5. ASSUME NEW b \in BookingIds, NEW u \in Users, NEW r \in Rooms,
             NEW st \in Time, NEW en \in Time, Book(b, u, r, st, en)
      PROVE  TypeOK'
  <2> DEFINE row == [user |-> u, room |-> r, start |-> st, end |-> en,
                     status |-> "ACTIVE"]
  <2>1. row \in Row
    BY DEF Row, BookingStatus
  <2>2. /\ DOMAIN booking \subseteq BookingIds /\ booking \in [DOMAIN booking -> Row]
        /\ booking' = Inserted(booking, b, row)
    BY <1>5 DEF TypeOK, Book
  <2>4. \A c \in DOMAIN booking' : booking'[c].room \in DOMAIN room
    BY <1>5, <2>2 DEF TypeOK, Book, Inserted
  <2> HIDE DEF row
  <2>3. DOMAIN booking' \subseteq BookingIds /\ booking' \in [DOMAIN booking' -> Row]
    BY <2>1, <2>2, InsertedType
  <2> QED BY <1>5, <2>3, <2>4 DEF TypeOK, Book
<1>6. ASSUME NEW b \in BookingIds, NEW st \in Time, NEW en \in Time, Move(b, st, en)
      PROVE  TypeOK'
  BY <1>6, MoveEffect DEF TypeOK, Move
<1>7. ASSUME NEW b \in BookingIds, Cancel(b) PROVE TypeOK'
  BY <1>7, WithStatusType DEF TypeOK, Cancel, BookingStatus
<1>8. ASSUME NEW ids \in SUBSET DOMAIN booking, Complete(ids) PROVE TypeOK'
  BY <1>8, WithStatusType DEF TypeOK, Complete, BookingStatus
<1>9. CASE UNCHANGED ledgerVars
  BY <1>9 DEF TypeOK, ledgerVars
<1> QED BY <1>1, <1>2, <1>3, <1>4, <1>5, <1>6, <1>7, <1>8, <1>9 DEF Next

\* The tables stay well-formed.
THEOREM TypeCorrect == Spec => []TypeOK
<1>1. Init => TypeOK
  BY DEF Init, TypeOK, Time
<1> QED BY <1>1, TypeStep, PTL DEF Spec
-----------------------------------------------------------------------------
\* What setting a status does to the table of a state.
LEMMA StatusEffect ==
  ASSUME TypeOK, NEW ids, NEW status \in BookingStatus,
         booking' = WithStatus(booking, ids, status)
  PROVE  /\ DOMAIN booking' = DOMAIN booking
         /\ \A b \in DOMAIN booking :
              /\ booking'[b].user = booking[b].user /\ booking'[b].room = booking[b].room
              /\ booking'[b].start = booking[b].start /\ booking'[b].end = booking[b].end
              /\ booking'[b].status = IF b \in ids THEN status ELSE booking[b].status
              /\ b \notin ids => booking'[b] = booking[b]
BY WithStatusType DEF TypeOK

\* A cancellation changes the status of one active row.
LEMMA CancelEffect ==
  ASSUME TypeOK, NEW b \in BookingIds, Cancel(b)
  PROVE  /\ b \in DOMAIN booking /\ booking[b].status = "ACTIVE" /\ now' = now
         /\ DOMAIN booking' = DOMAIN booking
         /\ \A c \in DOMAIN booking \ {b} : booking'[c] = booking[c]
         /\ booking'[b].status = "CANCELLED"
         /\ booking'[b].user = booking[b].user /\ booking'[b].room = booking[b].room
         /\ booking'[b].start = booking[b].start /\ booking'[b].end = booking[b].end
<1> DEFINE ids == {b}
<1>1. /\ booking' = WithStatus(booking, ids, "CANCELLED") /\ b \in DOMAIN booking
      /\ booking[b].status = "ACTIVE" /\ now' = now /\ "CANCELLED" \in BookingStatus
  BY DEF Cancel, BookingStatus
<1>2. \A c : c \in ids <=> c = b
  OBVIOUS
<1> HIDE DEF ids
<1> QED BY <1>1, <1>2, StatusEffect

\* A cancellation or a completion gives no room a new occupant.
LEMMA FinalStatusFrees ==
  ASSUME TypeOK, NEW ids, NEW status \in {"CANCELLED", "COMPLETED"},
         booking' = WithStatus(booking, ids, status), NEW r, NEW t
  PROVE  OccupiedAt(booking', r, t) \subseteq OccupiedAt(booking, r, t)
BY StatusEffect DEF OccupiedAt, Blocks, BlockingStatuses, BookingStatus

\* The facts about numbers and finiteness that TypeOK gives.
LEMMA TablesAreFinite ==
  ASSUME TypeOK
  PROVE  /\ IsFiniteSet(DOMAIN booking) /\ HasPeriods(booking)
         /\ \A r \in DOMAIN room : room[r].units \in Int
         /\ now \in Int
<1>1. IsFiniteSet(DOMAIN booking)
  BY FS_Subset DEF TypeOK
<1> QED BY <1>1 DEF TypeOK, HasPeriods, Row, Room, Time, Units

\* A step that leaves the rooms alone and gives no room a new occupant keeps
\* every room within its units.
LEMMA FewerOccupants ==
  ASSUME TypeOK, NoOverbooking, room' = room, now' >= now, now' \in Time,
         \A r \in DOMAIN room, t \in Time :
           OccupiedAt(booking', r, t) \subseteq OccupiedAt(booking, r, t)
  PROVE  NoOverbooking'
<1> SUFFICES ASSUME NEW r \in DOMAIN room, NEW t \in Time, t >= now'
             PROVE  Cardinality(OccupiedAt(booking', r, t)) <= room[r].units
  BY DEF NoOverbooking
<1>1. t >= now
  BY DEF TypeOK, Time
<1>2. Cardinality(OccupiedAt(booking, r, t)) <= room[r].units
  BY <1>1 DEF NoOverbooking
<1> QED BY <1>2, TablesAreFinite, OccupiedFinite, FewerFit

\* A new booking finds a unit left at every instant of its period.
LEMMA BookKeepsCapacity ==
  ASSUME TypeOK, NoOverbooking, NEW b \in BookingIds, NEW u \in Users, NEW r \in Rooms,
         NEW st \in Time, NEW en \in Time, Book(b, u, r, st, en)
  PROVE  NoOverbooking'
<1> DEFINE row == [user |-> u, room |-> r, start |-> st, end |-> en, status |-> "ACTIVE"]
<1> SUFFICES ASSUME NEW q \in DOMAIN room, NEW t \in Time, t >= now
             PROVE  Cardinality(OccupiedAt(booking', q, t)) <= room[q].units
  BY DEF NoOverbooking, Book
<1>1. booking' = Inserted(booking, b, row) /\ b \notin DOMAIN booking
  BY DEF Book
<1>2. IsFiniteSet(OccupiedAt(booking, q, t))
  BY TablesAreFinite, OccupiedFinite
<1>3. CASE row.room = q /\ row.start <= t /\ t < row.end
  <2>1. Cardinality(OccupiedAt(booking, q, t) \ {}) < room[q].units
    <3>1. q = r /\ st <= t /\ t < en
      BY <1>3
    <3>2. /\ room[r].units \in Int /\ st \in Int /\ en \in Int /\ t \in Int
          /\ HasPeriods(booking)
          /\ RoomAvailable(booking, r, room[r].units, st, en, {})
      BY <3>1, TablesAreFinite DEF Time, Book
    <3> QED BY <3>1, <3>2, AvailableMeansFree
  <2>2. OccupiedAt(booking, q, t) \ {} = OccupiedAt(booking, q, t)
    OBVIOUS
  <2>3. OccupiedAt(booking', q, t) \subseteq OccupiedAt(booking, q, t) \cup {b}
    BY <1>1, OccupiedInserted
  <2> QED BY <1>2, <2>1, <2>2, <2>3, OneMoreFits, TablesAreFinite
<1>4. CASE ~(row.room = q /\ row.start <= t /\ t < row.end)
  <2>1. OccupiedAt(booking', q, t) = OccupiedAt(booking, q, t)
    BY <1>1, <1>4, OccupiedInserted
  <2> QED BY <2>1 DEF NoOverbooking
<1> QED BY <1>3, <1>4

\* A moved booking finds a unit left by the others at every instant of its period.
LEMMA MoveKeepsCapacity ==
  ASSUME TypeOK, NoOverbooking, NEW b \in BookingIds,
         NEW st \in Time, NEW en \in Time, Move(b, st, en)
  PROVE  NoOverbooking'
<1> SUFFICES ASSUME NEW q \in DOMAIN room, NEW t \in Time, t >= now
             PROVE  Cardinality(OccupiedAt(booking', q, t)) <= room[q].units
  BY DEF NoOverbooking, Move
<1> DEFINE others == OccupiedAt(booking, q, t) \ {b}
<1>1. IsFiniteSet(OccupiedAt(booking, q, t)) /\ room[q].units \in Int
  BY TablesAreFinite, OccupiedFinite
<1>2. b \in DOMAIN booking
  BY DEF Move
<1>3. CASE booking[b].room = q /\ st <= t /\ t < en
  <2>1. Cardinality(others) < room[q].units
    <3>1. /\ room[q].units \in Int /\ st \in Int /\ en \in Int /\ t \in Int
          /\ HasPeriods(booking)
          /\ RoomAvailable(booking, q, room[q].units, st, en, {b})
      BY <1>3, TablesAreFinite DEF Time, Move
    <3> QED BY <1>3, <3>1, AvailableMeansFree
  <2>2. OccupiedAt(booking', q, t) \subseteq others \cup {b}
    BY MoveEffect DEF OccupiedAt, Blocks
  <2>3. IsFiniteSet(others)
    BY <1>1, FS_Subset
  <2> QED BY <1>1, <2>1, <2>2, <2>3, OneMoreFits
<1>4. CASE ~(booking[b].room = q /\ st <= t /\ t < en)
  <2>1. OccupiedAt(booking', q, t) \subseteq OccupiedAt(booking, q, t)
    BY <1>2, <1>4, MoveEffect DEF OccupiedAt, Blocks
  <2>2. Cardinality(OccupiedAt(booking, q, t)) <= room[q].units
    BY DEF NoOverbooking
  <2> QED BY <1>1, <2>1, <2>2, FewerFit
<1> QED BY <1>3, <1>4

\* A smaller room has no unfinished booking left to hold.
LEMMA ResizeKeepsCapacity ==
  ASSUME TypeOK, NoOverbooking, NEW r \in Rooms, NEW n \in Units, Resize(r, n)
  PROVE  NoOverbooking'
<1> SUFFICES ASSUME NEW q \in DOMAIN room, NEW t \in Time, t >= now
             PROVE  Cardinality(OccupiedAt(booking, q, t)) <= room'[q].units
  BY DEF NoOverbooking, Resize
<1>1. Cardinality(OccupiedAt(booking, q, t)) <= room[q].units
  BY DEF NoOverbooking
<1>2. CASE q # r
  BY <1>1, <1>2 DEF Resize
<1>3. CASE q = r
  <2>1. room'[r].units = n /\ n \in Int /\ n >= 0 /\ room[r].units \in Int /\ now \in Int
    BY <1>3, TablesAreFinite DEF Resize, TypeOK, Room, Units
  <2>2. CASE n < room[r].units
    <3>1. OccupiedAt(booking, r, t) = {}
      BY <2>2, UnneededIsFree, TablesAreFinite DEF Resize, Time
    <3> QED BY <1>3, <2>1, <3>1, FS_EmptySet
  <2>3. CASE n >= room[r].units
    <3>1. Cardinality(OccupiedAt(booking, r, t)) \in Nat
      BY TablesAreFinite, OccupiedFinite, FS_CardinalityType
    <3> QED BY <1>1, <1>3, <2>1, <2>3, <3>1
  <2> QED BY <2>1, <2>2, <2>3
<1> QED BY <1>2, <1>3

\* No commit, and no passing of time, overbooks a room.
LEMMA CapacityStep == TypeOK /\ NoOverbooking /\ [Next]_ledgerVars => NoOverbooking'
<1> SUFFICES ASSUME TypeOK, NoOverbooking, [Next]_ledgerVars PROVE NoOverbooking'
  OBVIOUS
<1>0. TypeOK'
  BY TypeStep
<1>1. CASE Tick
  <2>1. room' = room /\ booking' = booking /\ now' >= now /\ now' \in Time
    BY <1>0, <1>1 DEF Tick, TypeOK, Time
  <2> QED BY <2>1, FewerOccupants
<1>2. ASSUME NEW r \in Rooms, NEW n \in Units, AddRoom(r, n) PROVE NoOverbooking'
  <2> SUFFICES ASSUME NEW q \in DOMAIN room', NEW t \in Time, t >= now
               PROVE  Cardinality(OccupiedAt(booking, q, t)) <= room'[q].units
    BY <1>2 DEF NoOverbooking, AddRoom
  <2>1. CASE q # r
    BY <1>2, <2>1 DEF NoOverbooking, AddRoom, Inserted
  <2>2. CASE q = r
    <3>1. \A b \in DOMAIN booking : booking[b].room # r
      BY <1>2 DEF TypeOK, AddRoom
    <3>2. OccupiedAt(booking, q, t) = {}
      BY <2>2, <3>1 DEF OccupiedAt, Blocks
    <3>3. room'[q].units = n /\ n >= 0
      BY <1>2, <2>2 DEF AddRoom, Inserted, Units
    <3> QED BY <3>2, <3>3, FS_EmptySet
  <2> QED BY <2>1, <2>2
<1>3. ASSUME NEW r \in Rooms, NEW n \in Units, Resize(r, n) PROVE NoOverbooking'
  BY <1>3, ResizeKeepsCapacity
<1>4. ASSUME NEW r \in Rooms, Archive(r) PROVE NoOverbooking'
  BY <1>4 DEF NoOverbooking, Archive, TypeOK, Room
<1>5. ASSUME NEW b \in BookingIds, NEW u \in Users, NEW r \in Rooms,
             NEW st \in Time, NEW en \in Time, Book(b, u, r, st, en)
      PROVE  NoOverbooking'
  BY <1>5, BookKeepsCapacity
<1>6. ASSUME NEW b \in BookingIds, NEW st \in Time, NEW en \in Time, Move(b, st, en)
      PROVE  NoOverbooking'
  BY <1>6, MoveKeepsCapacity
<1>7. ASSUME NEW b \in BookingIds, Cancel(b) PROVE NoOverbooking'
  <2>1. \A r \in DOMAIN room, t \in Time :
          OccupiedAt(booking', r, t) \subseteq OccupiedAt(booking, r, t)
    BY <1>7, FinalStatusFrees DEF Cancel
  <2>2. room' = room /\ now' >= now /\ now' \in Time
    BY <1>7 DEF Cancel, TypeOK, Time
  <2> QED BY <2>1, <2>2, FewerOccupants
<1>8. ASSUME NEW ids \in SUBSET DOMAIN booking, Complete(ids) PROVE NoOverbooking'
  <2>1. \A r \in DOMAIN room, t \in Time :
          OccupiedAt(booking', r, t) \subseteq OccupiedAt(booking, r, t)
    BY <1>8, FinalStatusFrees DEF Complete
  <2> QED BY <1>0, <1>8, <2>1, FewerOccupants DEF Complete, TypeOK, Time
<1>9. CASE UNCHANGED ledgerVars
  BY <1>9 DEF NoOverbooking, ledgerVars
<1> QED BY <1>1, <1>2, <1>3, <1>4, <1>5, <1>6, <1>7, <1>8, <1>9 DEF Next

\* No room is overbooked from now on, for any number of rooms, units, bookings
\* and instants.
THEOREM CapacityKept == Spec => []NoOverbooking
<1>1. Init => NoOverbooking
  BY DEF Init, NoOverbooking
<1>2. Spec => []TypeOK
  BY TypeCorrect
<1> QED BY <1>1, <1>2, CapacityStep, PTL DEF Spec
-----------------------------------------------------------------------------
\* The sweep completes only what is over; no other commit completes a booking
\* or gives a completed one a new period.
LEMMA CompletedStep == TypeOK /\ CompletedIsOver /\ [Next]_ledgerVars => CompletedIsOver'
<1> SUFFICES ASSUME TypeOK, CompletedIsOver, [Next]_ledgerVars PROVE CompletedIsOver'
  OBVIOUS
<1>1. CASE Tick
  BY <1>1 DEF Tick, CompletedIsOver, TypeOK, Time, Row
<1>2. ASSUME NEW r \in Rooms, NEW n \in Units, AddRoom(r, n) \/ Resize(r, n)
      PROVE  CompletedIsOver'
  BY <1>2 DEF AddRoom, Resize, CompletedIsOver
<1>3. ASSUME NEW r \in Rooms, Archive(r) PROVE CompletedIsOver'
  BY <1>3 DEF Archive, CompletedIsOver
<1>4. ASSUME NEW b \in BookingIds, NEW u \in Users, NEW r \in Rooms,
             NEW st \in Time, NEW en \in Time, Book(b, u, r, st, en)
      PROVE  CompletedIsOver'
  BY <1>4 DEF Book, CompletedIsOver, Inserted
<1>5. ASSUME NEW b \in BookingIds, NEW st \in Time, NEW en \in Time, Move(b, st, en)
      PROVE  CompletedIsOver'
  <2>1. booking'[b].status = "ACTIVE" /\ now' = now
    BY <1>5, MoveEffect DEF Move
  <2> QED BY <1>5, <2>1, MoveEffect DEF CompletedIsOver
<1>6. ASSUME NEW b \in BookingIds, Cancel(b) PROVE CompletedIsOver'
  BY <1>6, CancelEffect DEF CompletedIsOver
<1>7. ASSUME NEW ids \in SUBSET DOMAIN booking, Complete(ids) PROVE CompletedIsOver'
  BY <1>7, StatusEffect DEF Complete, CompletedIsOver, Finished, BookingStatus
<1>8. CASE UNCHANGED ledgerVars
  BY <1>8 DEF CompletedIsOver, ledgerVars
<1> QED BY <1>1, <1>2, <1>3, <1>4, <1>5, <1>6, <1>7, <1>8 DEF Next

\* Only stays that are over are ever completed.
THEOREM OnlyFinishedAreCompleted == Spec => []CompletedIsOver
<1>1. Init => CompletedIsOver
  BY DEF Init, CompletedIsOver
<1>2. Spec => []TypeOK
  BY TypeCorrect
<1> QED BY <1>1, <1>2, CompletedStep, PTL DEF Spec
-----------------------------------------------------------------------------
\* Every commit keeps the rows of the table, their owners and rooms, and leaves
\* final rows untouched.
LEMMA RowsKeptStep == TypeOK /\ [Next]_ledgerVars => RowsKept \/ UNCHANGED ledgerVars
<1> SUFFICES ASSUME TypeOK, Next PROVE RowsKept
  OBVIOUS
<1>1. CASE booking' = booking
  BY <1>1 DEF RowsKept
<1>2. ASSUME NEW b \in BookingIds, NEW u \in Users, NEW r \in Rooms,
             NEW st \in Time, NEW en \in Time, Book(b, u, r, st, en)
      PROVE  RowsKept
  BY <1>2 DEF Book, RowsKept, Inserted
<1>3. ASSUME NEW b \in BookingIds, NEW st \in Time, NEW en \in Time, Move(b, st, en)
      PROVE  RowsKept
  <2>1. booking[b].status = "ACTIVE"
    BY <1>3 DEF Move
  <2> QED BY <1>3, <2>1, MoveEffect DEF RowsKept
<1>4. ASSUME NEW b \in BookingIds, Cancel(b) PROVE RowsKept
  BY <1>4, CancelEffect DEF RowsKept
<1>5. ASSUME NEW ids \in SUBSET DOMAIN booking, Complete(ids) PROVE RowsKept
  BY <1>5, StatusEffect DEF Complete, RowsKept, Finished, BookingStatus
<1> QED BY <1>1, <1>2, <1>3, <1>4, <1>5
        DEF Next, Tick, AddRoom, Resize, Archive

\* A final booking is final for ever, and no row is lost or handed over.
THEOREM FinalStaysFinal == Spec => FinishedForever
<1>1. TypeOK /\ [Next]_ledgerVars => [RowsKept]_ledgerVars
  BY RowsKeptStep
<1>2. Spec => []TypeOK
  BY TypeCorrect
<1> QED BY <1>1, <1>2, PTL DEF Spec, FinishedForever
-----------------------------------------------------------------------------
\* No commit books or moves a stay in an archived room or opens the room again.
LEMMA ArchiveStep == TypeOK /\ [Next]_ledgerVars => ArchiveRespected \/ UNCHANGED ledgerVars
<1> SUFFICES ASSUME TypeOK, Next PROVE ArchiveRespected
  OBVIOUS
<1>1. CASE Tick
  BY <1>1 DEF Tick, ArchiveRespected
<1>2. ASSUME NEW r \in Rooms, NEW n \in Units, AddRoom(r, n) PROVE ArchiveRespected
  BY <1>2 DEF AddRoom, ArchiveRespected, Inserted
<1>3. ASSUME NEW r \in Rooms, NEW n \in Units, Resize(r, n) PROVE ArchiveRespected
  BY <1>3 DEF Resize, ArchiveRespected, TypeOK, Room
<1>4. ASSUME NEW r \in Rooms, Archive(r) PROVE ArchiveRespected
  BY <1>4 DEF Archive, ArchiveRespected, TypeOK, Room
<1>5. ASSUME NEW b \in BookingIds, NEW u \in Users, NEW r \in Rooms,
             NEW st \in Time, NEW en \in Time, Book(b, u, r, st, en)
      PROVE  ArchiveRespected
  BY <1>5 DEF Book, ArchiveRespected, Inserted
<1>6. ASSUME NEW b \in BookingIds, NEW st \in Time, NEW en \in Time, Move(b, st, en)
      PROVE  ArchiveRespected
  <2>1. /\ room' = room /\ booking[b].room \in DOMAIN room
        /\ room[booking[b].room].active
    BY <1>6 DEF Move
  <2> QED BY <1>6, <2>1, MoveEffect DEF ArchiveRespected
<1>7. ASSUME NEW b \in BookingIds, Cancel(b) PROVE ArchiveRespected
  BY <1>7, CancelEffect DEF Cancel, ArchiveRespected
<1>8. ASSUME NEW ids \in SUBSET DOMAIN booking, Complete(ids) PROVE ArchiveRespected
  BY <1>8, StatusEffect DEF Complete, ArchiveRespected, BookingStatus
<1> QED BY <1>1, <1>2, <1>3, <1>4, <1>5, <1>6, <1>7, <1>8 DEF Next

\* A room that was archived takes no new stay and is never opened again.
THEOREM ArchivedStaysClosed == Spec => NoBookingAfterArchive
<1>1. TypeOK /\ [Next]_ledgerVars => [ArchiveRespected]_ledgerVars
  BY ArchiveStep
<1>2. Spec => []TypeOK
  BY TypeCorrect
<1> QED BY <1>1, <1>2, PTL DEF Spec, NoBookingAfterArchive
=============================================================================
