-------------------------- MODULE RefinementProofs --------------------------
(***************************************************************************)
(* Proofs of the service's two refinements.  With its row locks it         *)
(* implements the ledger, and therefore keeps what the ledger promises.    *)
(* It announces every committed create and cancel at most once, exactly    *)
(* once while nothing fails, and therefore implements the upper half of    *)
(* Notifications.                                                          *)
(***************************************************************************)
EXTENDS BookingServiceProofs

Ledger == INSTANCE BookingLedgerProofs

\* The operators of FiniteSets are the same in both instances of the ledger.
LEMMA SameSets ==
  /\ \A S : L!Cardinality(S) = Cardinality(S) /\ Ledger!Cardinality(S) = Cardinality(S)
  /\ \A S : Ledger!IsFiniteSet(S) <=> IsFiniteSet(S)
<1>1. \A S : L!Cardinality(S) = Cardinality(S)
  BY Zenon DEF L!Cardinality, Cardinality
<1>2. \A S : Ledger!Cardinality(S) = Cardinality(S)
  BY Zenon DEF Ledger!Cardinality, Cardinality
<1>3. \A S : Ledger!IsFiniteSet(S) <=> IsFiniteSet(S)
  BY Zenon DEF Ledger!IsFiniteSet, IsFiniteSet
<1> QED BY <1>1, <1>2, <1>3

\* The calendar of the ledger is the calendar of the service.
LEMMA SameCalendar ==
  /\ \A bs, r, t : L!OccupiedAt(bs, r, t) = OccupiedAt(bs, r, t)
  /\ \A bs, r, n, st, en, x :
       L!RoomAvailable(bs, r, n, st, en, x) = RoomAvailable(bs, r, n, st, en, x)
  /\ \A bs, r, time : L!HasUnfinishedBooking(bs, r, time) = HasUnfinishedBooking(bs, r, time)
  /\ \A row, time : L!Finished(row, time) = Finished(row, time)
  /\ \A f, key, row : L!Inserted(f, key, row) = Inserted(f, key, row)
  /\ \A f, ids, status : L!WithStatus(f, ids, status) = WithStatus(f, ids, status)
<1>1. \A row, r : L!Blocks(row, r) = Blocks(row, r)
  BY DEF L!Blocks, Blocks, L!BlockingStatuses, BlockingStatuses
<1>2. \A bs, r, t : L!OccupiedAt(bs, r, t) = OccupiedAt(bs, r, t)
  BY <1>1 DEF L!OccupiedAt, OccupiedAt
<1>3. \A bs, r, n, st, en, x :
        L!RoomAvailable(bs, r, n, st, en, x) = RoomAvailable(bs, r, n, st, en, x)
  <2>1. \A bs, r, st, en : L!OverlappingIntervals(bs, r, st, en)
                            = OverlappingIntervals(bs, r, st, en)
    BY <1>1 DEF L!OverlappingIntervals, OverlappingIntervals
  <2>2. \A bs, ids, n, st, en : L!HasAvailableUnit(bs, ids, n, st, en)
                                  = HasAvailableUnit(bs, ids, n, st, en)
    BY SameSets DEF L!HasAvailableUnit, HasAvailableUnit
  <2> QED BY <2>1, <2>2 DEF L!RoomAvailable, RoomAvailable
<1>4. \A bs, r, time :
        L!HasUnfinishedBooking(bs, r, time) = HasUnfinishedBooking(bs, r, time)
  BY <1>1 DEF L!HasUnfinishedBooking, HasUnfinishedBooking
<1>5. \A row, time : L!Finished(row, time) = Finished(row, time)
  BY DEF L!Finished, Finished
<1>6. \A f, key, row : L!Inserted(f, key, row) = Inserted(f, key, row)
  BY Zenon DEF L!Inserted, Inserted
<1>7. \A f, ids, status : L!WithStatus(f, ids, status) = WithStatus(f, ids, status)
  BY Zenon DEF L!WithStatus, WithStatus
<1> QED BY <1>2, <1>3, <1>4, <1>5, <1>6, <1>7
-----------------------------------------------------------------------------
\* A commit, a new room or the passing of time is a step of the ledger ...
LEMMA TableStep ==
  ASSUME TypeOK, LocksHeld, LoadedIsCurrent, Next, ~UNCHANGED <<now, room, booking>>
  PROVE  L!Next
<1>1. CASE Tick
  BY <1>1 DEF Tick, L!Next, L!Tick
<1>2. ASSUME NEW r \in Rooms, NEW n \in Units, AddRoom(r, n) PROVE L!Next
  <2>1. L!AddRoom(r, n)
    BY <1>2, SameCalendar DEF AddRoom, L!AddRoom
  <2> QED BY <2>1 DEF L!Next, L!Units, Units
<1>3. ASSUME NEW s \in Sessions,
             \/ \E b \in BookingIds : CommitCreate(s, b)
             \/ CommitUpdate(s) \/ CommitCancel(s) \/ CommitResize(s) \/ CommitArchive(s)
             \/ CommitComplete(s)
      PROVE  L!Next
  <2> DEFINE t == txn[s]
  <2>0. /\ RequestOK(s) /\ Holds(s) /\ t \in Txn /\ now \in Int
        /\ RoomIsCurrent(s) /\ BookingIsCurrent(s) /\ PeriodIsCurrent(s)
        /\ ResizeIsCurrent(s) /\ SweepIsCurrent(s)
    BY <1>3, LocksBySession, Numbers DEF TypeOK, LoadedIsCurrent
  <2>1. ASSUME NEW b \in BookingIds, CommitCreate(s, b) PROVE L!Next
    <3>1. pc[s] = "commit" /\ t.op = "create"
      BY <2>1 DEF CommitCreate, Commit
    <3>2. /\ t.user \in Users /\ t.room \in Rooms /\ t.start \in L!Time /\ t.end \in L!Time
          /\ t.start < t.end
      BY <2>0, <3>1 DEF RequestOK, Time, L!Time
    <3>3. t.room \in DOMAIN room /\ room[t.room].active /\ t.units = room[t.room].units
      BY <2>0, <3>1 DEF Holds, RoomIsCurrent, At
    <3>4. RoomAvailable(booking, t.room, room[t.room].units, t.start, t.end, {})
      BY <2>0, <3>1, <3>3 DEF PeriodIsCurrent, OwnRow, At
    <3>5. L!Book(b, t.user, t.room, t.start, t.end)
      BY <2>1, <3>2, <3>3, <3>4, SameCalendar DEF CommitCreate, Commit, L!Book
    <3> QED BY <3>2, <3>5 DEF L!Next
  <2>2. CASE CommitUpdate(s)
    <3> DEFINE b == t.booking
    <3>1. /\ pc[s] = "commit" /\ t.op = "update" /\ b \in BookingIds
          /\ t.start \in Time /\ t.end \in Time /\ room' = room /\ now' = now
          /\ booking' = [booking EXCEPT ![b].start = t.start, ![b].end = t.end]
      BY <2>2, CommitUpdateEffect
    <3>2. /\ b \in DOMAIN booking /\ booking[b].status = "ACTIVE"
          /\ booking[b].room = t.room
      BY <2>0, <3>1 DEF BookingIsCurrent, At
    <3>3. t.room \in DOMAIN room /\ room[t.room].active /\ t.units = room[t.room].units
      BY <2>0, <3>1 DEF Holds, RoomIsCurrent, At
    <3>4. /\ t.start < t.end
          /\ RoomAvailable(booking, t.room, room[t.room].units, t.start, t.end, {b})
      BY <2>0, <3>1, <3>3 DEF PeriodIsCurrent, OwnRow, At
    <3>5. L!Move(b, t.start, t.end)
      BY <3>1, <3>2, <3>3, <3>4, SameCalendar DEF L!Move
    <3> QED BY <3>1, <3>5 DEF L!Next, L!Time, Time
  <2>3. CASE CommitCancel(s)
    <3> DEFINE b == t.booking
    <3>1. /\ pc[s] = "commit" /\ t.op = "cancel" /\ b \in BookingIds
          /\ room' = room /\ now' = now
          /\ booking' = WithStatus(booking, {b}, "CANCELLED")
      BY <2>3, CommitCancelEffect
    <3>2. b \in DOMAIN booking /\ booking[b].status = "ACTIVE"
      BY <2>0, <3>1 DEF BookingIsCurrent, At
    <3>3. L!Cancel(b)
      BY <3>1, <3>2, SameCalendar DEF L!Cancel
    <3> QED BY <3>1, <3>3 DEF L!Next
  <2>4. CASE CommitResize(s)
    <3>1. /\ pc[s] = "commit" /\ t.op = "resize" /\ now' = now /\ booking' = booking
          /\ room' = [room EXCEPT ![t.room].units = t.units]
      BY <2>4 DEF CommitResize, Commit
    <3>2. t.room \in Rooms /\ t.units \in L!Units /\ t.room \in DOMAIN room
      BY <2>0, <3>1 DEF RequestOK, Txn, Holds, Units, L!Units
    <3>3. t.units < room[t.room].units => ~HasUnfinishedBooking(booking, t.room, now)
      BY <2>0, <3>1 DEF ResizeIsCurrent, ShrinkRefused, At
    <3>4. L!Resize(t.room, t.units)
      BY <3>1, <3>2, <3>3, SameCalendar DEF L!Resize
    <3> QED BY <3>2, <3>4 DEF L!Next
  <2>5. CASE CommitArchive(s)
    <3>1. /\ pc[s] = "commit" /\ t.op = "archive" /\ now' = now /\ booking' = booking
          /\ room' = [room EXCEPT ![t.room].active = FALSE]
      BY <2>5 DEF CommitArchive, Commit
    <3>2. t.room \in Rooms /\ t.room \in DOMAIN room
      BY <2>0, <3>1 DEF RequestOK, Holds
    <3>3. L!Archive(t.room)
      BY <3>1, <3>2 DEF L!Archive
    <3> QED BY <3>2, <3>3 DEF L!Next
  <2>6. CASE CommitComplete(s)
    <3>1. /\ pc[s] = "commit" /\ t.op = "complete" /\ now' = now /\ room' = room
          /\ booking' = WithStatus(booking, t.done, "COMPLETED")
      BY <2>6 DEF CommitComplete, Commit
    <3>2. t.done \in SUBSET DOMAIN booking
      BY <2>0, <3>1 DEF SweepIsCurrent
    <3>3. \A b \in t.done : Finished(booking[b], now)
      <4>1. /\ t.time <= now /\ t.time \in Int
            /\ \A b \in t.done : Finished(booking[b], t.time)
        BY <2>0, <3>1, Numbers DEF SweepIsCurrent
      <4>2. \A b \in t.done : booking[b].end \in Int
        BY <3>2, Numbers
      <4> QED BY <2>0, <4>1, <4>2 DEF Finished
    <3>4. L!Complete(t.done)
      BY <3>1, <3>3, SameCalendar DEF L!Complete
    <3> QED BY <3>2, <3>4 DEF L!Next
  <2> QED BY <1>3, <2>1, <2>2, <2>3, <2>4, <2>5, <2>6
<1>4. ASSUME NEW s \in Sessions,
             \/ Start(s) \/ LockBooking(s) \/ LockRoom(s) \/ LockUser(s) \/ CommitDelete(s)
             \/ CheckPeriod(s) \/ CheckResize(s) \/ SweepReady(s) \/ Aborted(s) \/ Close(s)
             \/ Crash(s) \/ Enqueue(s) \/ EnqueueFails(s)
             \/ \E b \in BookingIds : ClaimBooking(s, b)
      PROVE  UNCHANGED <<now, room, booking>>
  <2>1. CASE Start(s)
    BY <2>1 DEF Start, StartCreate, StartUpdate, StartCancel, StartArchive, StartResize,
       StartDelete, StartComplete, Begin, tables
  <2>2. CASE \/ LockBooking(s) \/ LockRoom(s) \/ LockUser(s) \/ CheckPeriod(s)
             \/ CheckResize(s) \/ SweepReady(s) \/ Close(s)
             \/ \E b \in BookingIds : ClaimBooking(s, b)
    BY <2>2 DEF LockBooking, LockRoom, LockUser, CheckPeriod, CheckResize, SweepReady, Close,
       ClaimBooking, tables
  <2>3. CASE CommitDelete(s) \/ Aborted(s) \/ Crash(s) \/ Enqueue(s) \/ EnqueueFails(s)
    BY <2>3, AbortEffect DEF CommitDelete, Commit, Crash, Enqueue, EnqueueFails, tables
  <2> QED BY <1>4, <2>1, <2>2, <2>3
<1> QED BY <1>1, <1>2, <1>3, <1>4 DEF Next, Continue, Aborted

\* ... and everything else leaves the ledger as it is.
LEMMA LedgerStep ==
  TypeOK /\ LocksHeld /\ LoadedIsCurrent /\ [Next]_vars => [L!Next]_(L!ledgerVars)
<1> SUFFICES ASSUME TypeOK, LocksHeld, LoadedIsCurrent, [Next]_vars
             PROVE  [L!Next]_(L!ledgerVars)
  OBVIOUS
<1>1. CASE UNCHANGED <<now, room, booking>>
  BY <1>1 DEF L!ledgerVars
<1>2. CASE Next /\ ~UNCHANGED <<now, room, booking>>
  BY <1>2, TableStep
<1> QED BY <1>1, <1>2 DEF vars

\* The service with its row locks, rollbacks and crashes implements the ledger.
THEOREM ServiceRefinesLedger == Spec => RefinesLedger
<1>1. Init => L!Init
  BY DEF Init, L!Init
<1>2. Spec => []TypeOK
  BY TypeCorrect
<1>3. Spec => []LocksHeld
  BY LocksAreHeld
<1>4. Spec => []LoadedIsCurrent
  BY ReadsStayCurrent
<1> QED BY <1>1, <1>2, <1>3, <1>4, LedgerStep, PTL DEF Spec, RefinesLedger, L!Spec
-----------------------------------------------------------------------------
\* The theorems of BookingLedgerProofs speak of an instance of their own; its
\* calendar is the same too.
LEMMA SameCalendarAgain ==
  /\ \A bs, r, t : Ledger!OccupiedAt(bs, r, t) = L!OccupiedAt(bs, r, t)
  /\ \A bs, r, n, st, en, x :
       Ledger!RoomAvailable(bs, r, n, st, en, x) = L!RoomAvailable(bs, r, n, st, en, x)
  /\ \A bs, r, time :
       Ledger!HasUnfinishedBooking(bs, r, time) = L!HasUnfinishedBooking(bs, r, time)
  /\ \A row, time : Ledger!Finished(row, time) = L!Finished(row, time)
  /\ \A f, key, row : Ledger!Inserted(f, key, row) = L!Inserted(f, key, row)
  /\ \A f, ids, status : Ledger!WithStatus(f, ids, status) = L!WithStatus(f, ids, status)
<1>1. \A row, r : Ledger!Blocks(row, r) = L!Blocks(row, r)
  BY DEF Ledger!Blocks, L!Blocks, Ledger!BlockingStatuses, L!BlockingStatuses
<1>2. \A bs, r, t : Ledger!OccupiedAt(bs, r, t) = L!OccupiedAt(bs, r, t)
  BY <1>1 DEF Ledger!OccupiedAt, L!OccupiedAt
<1>3. \A bs, r, n, st, en, x :
        Ledger!RoomAvailable(bs, r, n, st, en, x) = L!RoomAvailable(bs, r, n, st, en, x)
  <2>1. \A bs, r, st, en : Ledger!OverlappingIntervals(bs, r, st, en)
                            = L!OverlappingIntervals(bs, r, st, en)
    BY <1>1 DEF Ledger!OverlappingIntervals, L!OverlappingIntervals
  <2>2. \A bs, ids, n, st, en : Ledger!HasAvailableUnit(bs, ids, n, st, en)
                                  = L!HasAvailableUnit(bs, ids, n, st, en)
    BY SameSets DEF Ledger!HasAvailableUnit, L!HasAvailableUnit
  <2> QED BY <2>1, <2>2 DEF Ledger!RoomAvailable, L!RoomAvailable
<1>4. \A bs, r, time :
        Ledger!HasUnfinishedBooking(bs, r, time) = L!HasUnfinishedBooking(bs, r, time)
  BY <1>1 DEF Ledger!HasUnfinishedBooking, L!HasUnfinishedBooking
<1>5. \A row, time : Ledger!Finished(row, time) = L!Finished(row, time)
  BY DEF Ledger!Finished, L!Finished
<1>6. \A f, key, row : Ledger!Inserted(f, key, row) = L!Inserted(f, key, row)
  BY Zenon DEF Ledger!Inserted, L!Inserted
<1>7. \A f, ids, status : Ledger!WithStatus(f, ids, status) = L!WithStatus(f, ids, status)
  BY Zenon DEF Ledger!WithStatus, L!WithStatus
<1> QED BY <1>2, <1>3, <1>4, <1>5, <1>6, <1>7

\* So are its actions ...
LEMMA SameNext == [L!Next]_(L!ledgerVars) => [Ledger!Next]_(Ledger!ledgerVars)
<1>1. ASSUME NEW r, NEW n, L!AddRoom(r, n) PROVE Ledger!AddRoom(r, n)
  BY <1>1, SameCalendarAgain DEF L!AddRoom, Ledger!AddRoom
<1>2. ASSUME NEW r, NEW n, L!Resize(r, n) PROVE Ledger!Resize(r, n)
  BY <1>2, SameCalendarAgain DEF L!Resize, Ledger!Resize
<1>3. ASSUME NEW r, L!Archive(r) PROVE Ledger!Archive(r)
  BY <1>3 DEF L!Archive, Ledger!Archive
<1>4. ASSUME NEW b, NEW u, NEW r, NEW st, NEW en, L!Book(b, u, r, st, en)
      PROVE  Ledger!Book(b, u, r, st, en)
  BY <1>4, SameCalendarAgain DEF L!Book, Ledger!Book
<1>5. ASSUME NEW b, NEW st, NEW en, L!Move(b, st, en) PROVE Ledger!Move(b, st, en)
  BY <1>5, SameCalendarAgain DEF L!Move, Ledger!Move
<1>6. ASSUME NEW b, L!Cancel(b) PROVE Ledger!Cancel(b)
  BY <1>6, SameCalendarAgain DEF L!Cancel, Ledger!Cancel
<1>7. ASSUME NEW ids, L!Complete(ids) PROVE Ledger!Complete(ids)
  BY <1>7, SameCalendarAgain DEF L!Complete, Ledger!Complete
<1>8. L!Tick => Ledger!Tick
  BY DEF L!Tick, Ledger!Tick
<1>9. L!Next => Ledger!Next
  BY <1>1, <1>2, <1>3, <1>4, <1>5, <1>6, <1>7, <1>8
     DEF L!Next, Ledger!Next, L!Time, Ledger!Time, L!Units, Ledger!Units
<1> QED BY <1>9 DEF L!ledgerVars, Ledger!ledgerVars

\* ... and its behaviours.
LEMMA SameLedger == L!Spec => Ledger!Spec
<1>1. L!Init => Ledger!Init
  BY DEF L!Init, Ledger!Init
<1> QED BY <1>1, SameNext, PTL DEF L!Spec, Ledger!Spec

\* No interleaving of the service's sessions overbooks a room from now on.
THEOREM ServiceNeverOverbooks == Spec => []NoOverbooking
<1>1. Ledger!Spec => []Ledger!NoOverbooking
  BY Ledger!CapacityKept, SameSets, BookingServiceAssumption
<1>2. Ledger!NoOverbooking => NoOverbooking
  BY SameSets, SameCalendarAgain DEF NoOverbooking, L!NoOverbooking, Ledger!NoOverbooking,
     L!Time, Ledger!Time
<1>3. Spec => L!Spec
  BY ServiceRefinesLedger DEF RefinesLedger
<1> QED BY <1>1, <1>2, <1>3, SameLedger, PTL

\* The service completes a stay only when it is over, whatever the sweep waits for.
THEOREM ServiceCompletesOnlyFinished == Spec => []CompletedIsOver
<1>1. Ledger!Spec => []Ledger!CompletedIsOver
  BY Ledger!OnlyFinishedAreCompleted, SameSets, BookingServiceAssumption
<1>2. Ledger!CompletedIsOver => CompletedIsOver
  BY DEF CompletedIsOver, L!CompletedIsOver, Ledger!CompletedIsOver
<1>3. Spec => L!Spec
  BY ServiceRefinesLedger DEF RefinesLedger
<1> QED BY <1>1, <1>2, <1>3, SameLedger, PTL

\* No request and no sweep ever changes a booking that is cancelled or completed.
THEOREM ServiceKeepsFinalRows == Spec => FinishedForever
<1>1. Ledger!Spec => [][Ledger!RowsKept]_(Ledger!ledgerVars)
  BY Ledger!FinalStaysFinal, SameSets, BookingServiceAssumption DEF Ledger!FinishedForever
<1>2. [Ledger!RowsKept]_(Ledger!ledgerVars) => [L!RowsKept]_(L!ledgerVars)
  BY DEF Ledger!RowsKept, L!RowsKept, Ledger!ledgerVars, L!ledgerVars
<1>3. Spec => L!Spec
  BY ServiceRefinesLedger DEF RefinesLedger
<1> QED BY <1>1, <1>2, <1>3, SameLedger, PTL DEF FinishedForever, L!FinishedForever

\* No stay is booked or moved into a room that was archived, although a request looks
\* at the room long before it commits, and no room is opened again.
THEOREM ServiceRespectsArchive == Spec => L!NoBookingAfterArchive
<1>1. Ledger!Spec => [][Ledger!ArchiveRespected]_(Ledger!ledgerVars)
  BY Ledger!ArchivedStaysClosed, SameSets, BookingServiceAssumption
     DEF Ledger!NoBookingAfterArchive
<1>2. [Ledger!ArchiveRespected]_(Ledger!ledgerVars) => [L!ArchiveRespected]_(L!ledgerVars)
  BY DEF Ledger!ArchiveRespected, L!ArchiveRespected, Ledger!ledgerVars, L!ledgerVars
<1>3. Spec => L!Spec
  BY ServiceRefinesLedger DEF RefinesLedger
<1> QED BY <1>1, <1>2, <1>3, SameLedger, PTL DEF L!NoBookingAfterArchive
-----------------------------------------------------------------------------
NewsOps == {"create", "cancel"}

\* What a step may do to what is owed and told of one op and booking.
SameNews(op, b) == /\ Owed(op, b)' = Owed(op, b) /\ Told(op, b)' = Told(op, b)
                   /\ Happened(op, b)' = Happened(op, b)

OtherNewsSame(op, b) ==
  \A o \in NewsOps, c \in BookingIds : <<o, c>> # <<op, b>> => SameNews(o, c)

Announced(s, op, b) ==
  /\ ~Happened(op, b) /\ Happened(op, b)'
  /\ Owed(op, b)' = Owed(op, b) \cup {s} /\ Told(op, b)' = Told(op, b)

Passed(s, op, b) ==
  /\ s \in Owed(op, b) /\ Owed(op, b)' = Owed(op, b) \ {s}
  /\ Told(op, b)' = Told(op, b) + 1 /\ Happened(op, b)' = Happened(op, b)

Dropped(s, op, b) ==
  /\ s \in Owed(op, b) /\ Owed(op, b)' = Owed(op, b) \ {s}
  /\ Told(op, b)' = Told(op, b) /\ Happened(op, b)' = Happened(op, b)

NoNews == \A o \in NewsOps, c \in BookingIds : SameNews(o, c)

\* What a step may do to the statuses.
SomeCompleted ==
  \A b \in BookingIds :
    Statuses[b] # "ACTIVE" \/ Statuses'[b] # "COMPLETED" => Statuses'[b] = Statuses[b]

Changed(op, b) ==
  /\ Statuses[b] = IF op = "create" THEN "none" ELSE "ACTIVE"
  /\ Statuses' = [Statuses EXCEPT ![b] = IF op = "create" THEN "ACTIVE" ELSE "CANCELLED"]

\* The kinds of steps, seen from the notifications.
NewsStep ==
  \/ NoNews /\ SomeCompleted /\ faults' \in {faults, faults + 1}
  \/ \E s \in Sessions, op \in NewsOps, b \in BookingIds :
       /\ OtherNewsSame(op, b)
       /\ \/ Announced(s, op, b) /\ Changed(op, b) /\ faults' = faults
          \/ Passed(s, op, b) /\ Statuses' = Statuses /\ faults' = faults
          \/ /\ Dropped(s, op, b) /\ Statuses' = Statuses
             /\ faults' = faults + 1 /\ faults < MaxFaults
-----------------------------------------------------------------------------
\* A step that leaves the sessions at "enqueue", the queue and the CANCELLED rows
\* alone makes no news.
LEMMA Quiet ==
  ASSUME enqueued' = enqueued, DOMAIN booking' = DOMAIN booking,
         \A b \in DOMAIN booking : booking'[b].status = "CANCELLED"
                                     <=> booking[b].status = "CANCELLED",
         \A q \in Sessions : pc[q] = "enqueue" \/ pc'[q] = "enqueue"
                               => pc'[q] = pc[q] /\ txn'[q] = txn[q]
  PROVE  NoNews
<1> SUFFICES ASSUME NEW o \in NewsOps, NEW c \in BookingIds PROVE SameNews(o, c)
  BY DEF NoNews
<1>1. Owed(o, c)' = Owed(o, c)
  BY DEF Owed
<1>2. Told(o, c)' = Told(o, c)
  BY DEF Told
<1>3. Happened(o, c)' = Happened(o, c)
  BY DEF Happened
<1> QED BY <1>1, <1>2, <1>3 DEF SameNews

\* The sessions that another session's end leaves at "enqueue".
LEMMA OwedBySession ==
  ASSUME NEW s \in Sessions, OthersStay(s), NEW o, NEW c
  PROVE  /\ pc'[s] # "enqueue" => Owed(o, c)' = Owed(o, c) \ {s}
         /\ pc[s] # "enqueue" /\ pc'[s] = "enqueue" =>
              Owed(o, c)' = IF txn'[s].op = o /\ txn'[s].booking = c
                            THEN Owed(o, c) \cup {s} ELSE Owed(o, c)
BY DEF OthersStay, Owed

\* Only a commit of a create or cancel makes news, ...
LEMMA CreateNews ==
  ASSUME TypeOK, NEW s \in Sessions, NEW b \in BookingIds, CommitCreate(s, b)
  PROVE  OtherNewsSame("create", b) /\ Announced(s, "create", b) /\ Changed("create", b)
<1>1. /\ Goes(s, "enqueue") /\ txn'[s].op = "create" /\ txn'[s].booking = b
      /\ enqueued' = enqueued /\ pc[s] = "commit" /\ OthersStay(s) /\ pc'[s] = "enqueue"
  BY AnnounceEffect DEF CommitCreate, Commit, Goes
<1>2. /\ b \notin DOMAIN booking /\ DOMAIN booking' = DOMAIN booking \cup {b}
      /\ booking'[b].status = "ACTIVE"
      /\ \A c \in DOMAIN booking : booking'[c] = booking[c]
  BY DEF CommitCreate, Inserted
<1>3. \A o \in NewsOps, c \in BookingIds : Told(o, c)' = Told(o, c)
  BY <1>1 DEF Told
<1>4. \A o \in NewsOps, c \in BookingIds :
        Owed(o, c)' = IF o = "create" /\ c = b THEN Owed(o, c) \cup {s} ELSE Owed(o, c)
  BY <1>1, OwedBySession
<1>5. \A o \in NewsOps, c \in BookingIds :
        <<o, c>> # <<"create", b>> => Happened(o, c)' = Happened(o, c)
  BY <1>2 DEF Happened, NewsOps
<1>6. ~Happened("create", b) /\ Happened("create", b)'
  BY <1>2 DEF Happened
<1>7. Changed("create", b)
  BY <1>2 DEF Changed, Statuses
<1> QED BY <1>3, <1>4, <1>5, <1>6, <1>7 DEF OtherNewsSame, SameNews, Announced, NewsOps

LEMMA CancelNews ==
  ASSUME TypeOK, LoadedIsCurrent, NEW s \in Sessions, CommitCancel(s),
         NEW b \in BookingIds, b = txn[s].booking
  PROVE  OtherNewsSame("cancel", b) /\ Announced(s, "cancel", b) /\ Changed("cancel", b)
<1>1. /\ pc[s] = "commit" /\ txn[s].op = "cancel"
      /\ DOMAIN booking' = DOMAIN booking
      /\ \A c \in DOMAIN booking \ {b} : booking'[c] = booking[c]
      /\ b \in DOMAIN booking => booking'[b].status = "CANCELLED"
  BY CommitCancelEffect
<1>2. b \in DOMAIN booking /\ booking[b].status = "ACTIVE"
  BY <1>1 DEF LoadedIsCurrent, BookingIsCurrent, At
<1>3. /\ DOMAIN booking' = DOMAIN booking
      /\ \A c \in DOMAIN booking :
           booking'[c].status = IF c = b THEN "CANCELLED" ELSE booking[c].status
  BY <1>1, <1>2
<1>4. /\ txn'[s].op = "cancel" /\ txn'[s].booking = b
      /\ enqueued' = enqueued /\ OthersStay(s) /\ pc'[s] = "enqueue"
  <2>1. /\ Goto(s, "enqueue") /\ enqueued' = enqueued
        /\ txn' = [txn EXCEPT ![s] = Announcing("cancel", b)]
    BY DEF CommitCancel, Commit
  <2>2. Goes(s, "enqueue") /\ txn'[s].op = "cancel" /\ txn'[s].booking = b
    BY <1>1, <2>1, AnnounceEffect
  <2> QED BY <2>1, <2>2 DEF Goes
<1>5. \A o \in NewsOps, c \in BookingIds : Told(o, c)' = Told(o, c)
  BY <1>4 DEF Told
<1>6. \A o \in NewsOps, c \in BookingIds :
        Owed(o, c)' = IF o = "cancel" /\ c = b THEN Owed(o, c) \cup {s} ELSE Owed(o, c)
  BY <1>1, <1>4, OwedBySession
<1>7. \A o \in NewsOps, c \in BookingIds :
        <<o, c>> # <<"cancel", b>> => Happened(o, c)' = Happened(o, c)
  BY <1>3 DEF Happened, NewsOps
<1>8. ~Happened("cancel", b) /\ Happened("cancel", b)'
  BY <1>2, <1>3 DEF Happened
<1>9. Changed("cancel", b)
  BY <1>2, <1>3 DEF Changed, Statuses
<1> QED BY <1>1, <1>5, <1>6, <1>7, <1>8, <1>9
        DEF OtherNewsSame, SameNews, Announced, NewsOps

\* ... which its session passes on or drops.
LEMMA EndOfNews ==
  ASSUME TypeOK, NEW s \in Sessions, pc[s] = "enqueue",
         Enqueue(s) \/ EnqueueFails(s) \/ Crash(s),
         NEW op \in NewsOps, op = txn[s].op, NEW b \in BookingIds, b = txn[s].booking
  PROVE  /\ OtherNewsSame(op, b) /\ Statuses' = Statuses
         /\ \/ Passed(s, op, b) /\ faults' = faults
            \/ Dropped(s, op, b) /\ faults' = faults + 1 /\ faults < MaxFaults
<1>1. /\ OthersStay(s) /\ pc'[s] = "idle" /\ booking' = booking
      /\ Statuses' = Statuses
  BY EndEffect DEF Enqueue, EnqueueFails, Crash, Goes, tables, Statuses
<1>2. \A o \in NewsOps, c \in BookingIds :
        /\ Owed(o, c)' = Owed(o, c) \ {s} /\ Happened(o, c)' = Happened(o, c)
        /\ s \in Owed(o, c) <=> o = op /\ c = b
  <2>1. \A o \in NewsOps, c \in BookingIds : Owed(o, c)' = Owed(o, c) \ {s}
    BY <1>1, OwedBySession
  <2>2. \A o \in NewsOps, c \in BookingIds : Happened(o, c)' = Happened(o, c)
    BY <1>1 DEF Happened
  <2>3. \A o \in NewsOps, c \in BookingIds : s \in Owed(o, c) <=> o = op /\ c = b
    BY DEF Owed
  <2> QED BY <2>1, <2>2, <2>3
<1>a. \A o \in NewsOps, c \in BookingIds :
        <<o, c>> # <<op, b>> =>
          Owed(o, c)' = Owed(o, c) /\ Happened(o, c)' = Happened(o, c)
  <2> SUFFICES ASSUME NEW o \in NewsOps, NEW c \in BookingIds, <<o, c>> # <<op, b>>
               PROVE  Owed(o, c)' = Owed(o, c)
    BY <1>2
  <2>1. s \notin Owed(o, c)
    BY <1>2
  <2>2. Owed(o, c)' = Owed(o, c) \ {s}
    BY <1>2
  <2> QED BY <2>1, <2>2
<1>3. CASE Enqueue(s)
  <2>1. \A o \in NewsOps, c \in BookingIds :
          Told(o, c)' = IF o = op /\ c = b THEN Told(o, c) + 1 ELSE Told(o, c)
    <3>1. CASE op = "create"
      <4>1. enqueued' = [enqueued EXCEPT ![b].creation = @ + 1]
        BY <1>3, <3>1 DEF Enqueue
      <4>2. \A c \in BookingIds :
              /\ enqueued'[c].cancellation = enqueued[c].cancellation
              /\ enqueued'[c].creation
                   = IF c = b THEN enqueued[c].creation + 1 ELSE enqueued[c].creation
        BY <4>1 DEF TypeOK
      <4> QED BY <3>1, <4>2 DEF Told, NewsOps
    <3>2. CASE op = "cancel"
      <4>1. enqueued' = [enqueued EXCEPT ![b].cancellation = @ + 1]
        BY <1>3, <3>2 DEF Enqueue
      <4>2. \A c \in BookingIds :
              /\ enqueued'[c].creation = enqueued[c].creation
              /\ enqueued'[c].cancellation
                   = IF c = b THEN enqueued[c].cancellation + 1 ELSE enqueued[c].cancellation
        BY <4>1 DEF TypeOK
      <4> QED BY <3>2, <4>2 DEF Told, NewsOps
    <3> QED BY <3>1, <3>2 DEF NewsOps
  <2>2. faults' = faults
    BY <1>3 DEF Enqueue
  <2>3. OtherNewsSame(op, b)
    BY <1>a, <2>1 DEF OtherNewsSame, SameNews
  <2>4. Passed(s, op, b)
    BY <1>2, <2>1 DEF Passed
  <2> QED BY <1>1, <2>2, <2>3, <2>4
<1>4. CASE EnqueueFails(s) \/ Crash(s)
  <2>1. enqueued' = enqueued /\ faults' = faults + 1 /\ faults < MaxFaults
    BY <1>4 DEF EnqueueFails, Crash
  <2>2. \A o \in NewsOps, c \in BookingIds : Told(o, c)' = Told(o, c)
    BY <2>1 DEF Told
  <2>3. OtherNewsSame(op, b)
    BY <1>a, <2>2 DEF OtherNewsSame, SameNews
  <2>4. Dropped(s, op, b)
    BY <1>2, <2>2 DEF Dropped
  <2> QED BY <1>1, <2>1, <2>3, <2>4
<1> QED BY <1>3, <1>4

\* The sweep makes COMPLETED only what was ACTIVE.
LEMMA CompleteQuiet ==
  ASSUME TypeOK, LoadedIsCurrent, NEW s \in Sessions, CommitComplete(s)
  PROVE  /\ DOMAIN booking' = DOMAIN booking
         /\ \A b \in DOMAIN booking :
              \/ booking'[b].status = booking[b].status
              \/ booking[b].status = "ACTIVE" /\ booking'[b].status = "COMPLETED"
<1>1. /\ booking' = WithStatus(booking, txn[s].done, "COMPLETED") /\ txn[s].op = "complete"
      /\ booking \in [DOMAIN booking -> Row]
  BY DEF CommitComplete, Commit, TypeOK
<1>2. \A b \in txn[s].done : b \in DOMAIN booking /\ booking[b].status = "ACTIVE"
  BY <1>1 DEF LoadedIsCurrent, SweepIsCurrent, Finished
<1> DEFINE ids == txn[s].done
<1>3. booking' = WithStatus(booking, ids, "COMPLETED")
      /\ \A b \in ids : b \in DOMAIN booking /\ booking[b].status = "ACTIVE"
  BY <1>1, <1>2
<1> HIDE DEF ids
<1> QED BY <1>1, <1>3, StatusType DEF BookingStatus

\* What an update does is of no concern here.
LEMMA UpdateQuiet ==
  ASSUME TypeOK, NEW s \in Sessions, CommitUpdate(s)
  PROVE  /\ DOMAIN booking' = DOMAIN booking
         /\ \A b \in DOMAIN booking : booking'[b].status = booking[b].status
BY CommitUpdateEffect

\* The steps of a session that have nothing to do with notifications.
LEMMA OthersAreQuiet ==
  ASSUME TypeOK, LoadedIsCurrent, NEW s \in Sessions,
         \/ Start(s) \/ LockBooking(s) \/ LockRoom(s) \/ CheckPeriod(s) \/ CheckResize(s)
         \/ LockUser(s) \/ \E b \in BookingIds : ClaimBooking(s, b)
         \/ CommitUpdate(s) \/ CommitResize(s) \/ CommitArchive(s) \/ CommitDelete(s)
         \/ SweepReady(s) \/ CommitComplete(s) \/ Aborted(s) \/ Close(s)
         \/ pc[s] # "enqueue" /\ Crash(s)
  PROVE  /\ NoNews /\ SomeCompleted
         /\ faults' = faults \/ (Crash(s) /\ faults' = faults + 1)
<1>1. /\ enqueued' = enqueued
      /\ faults' = faults \/ (Crash(s) /\ faults' = faults + 1)
      /\ pc[s] # "enqueue"
  <2>1. CASE Start(s)
    BY <2>1 DEF Start, StartCreate, StartUpdate, StartCancel, StartArchive, StartResize,
       StartDelete, StartComplete, Begin
  <2>2. CASE \/ LockBooking(s) \/ LockRoom(s) \/ CheckPeriod(s) \/ CheckResize(s)
             \/ LockUser(s) \/ \E b \in BookingIds : ClaimBooking(s, b)
             \/ SweepReady(s) \/ Close(s)
    BY <2>2 DEF LockBooking, LockRoom, LockUser, CheckPeriod, CheckResize, ClaimBooking,
       SweepReady, Close
  <2>3. CASE \/ CommitUpdate(s) \/ CommitResize(s) \/ CommitArchive(s)
             \/ CommitDelete(s) \/ CommitComplete(s)
    BY <2>3 DEF CommitUpdate, CommitResize, CommitArchive, CommitDelete, CommitComplete,
       Commit
  <2>4. CASE pc[s] # "enqueue" /\ Crash(s)
    BY <2>4 DEF Crash
  <2>5. CASE Aborted(s)
    BY <2>5, AbortEffect
  <2> QED BY <2>1, <2>2, <2>3, <2>4, <2>5
<1>2. OthersStay(s) /\ pc'[s] # "enqueue"
  <2>1. CASE Start(s)
    BY <2>1 DEF Start, StartCreate, StartUpdate, StartCancel, StartArchive, StartResize,
       StartDelete, StartComplete, Begin, Goto, OthersStay, TypeOK
  <2>2. CASE LockBooking(s)
    BY <2>2, LockBookingEffect DEF Goes
  <2>3. CASE LockRoom(s)
    BY <2>3, LockRoomEffect DEF Goes, AfterRoomLock
  <2>4. CASE CheckPeriod(s) \/ CheckResize(s)
    <3>1. GiveUp(s) \/ (Goto(s, "commit") /\ txn' = txn)
      BY <2>4 DEF CheckPeriod, CheckResize
    <3>2. CASE GiveUp(s)
      BY <3>2, GiveUpEffect DEF Goes
    <3>3. CASE Goto(s, "commit") /\ txn' = txn
      BY <3>3, GotoEffect DEF Goes, Steps
    <3> QED BY <3>1, <3>2, <3>3
  <2>5. CASE \E b \in BookingIds : ClaimBooking(s, b)
    BY <2>5, ClaimEffect DEF Goes
  <2>6. CASE SweepReady(s)
    BY <2>6, GotoEffect DEF SweepReady, Goes, Steps
  <2>7. CASE Close(s)
    <3>1. Goto(s, "idle") /\ txn' = txn
      BY <2>7 DEF Close
    <3> QED BY <3>1, GotoEffect DEF Goes, Steps
  <2>8. CASE \/ CommitUpdate(s) \/ CommitResize(s) \/ CommitArchive(s)
             \/ CommitDelete(s) \/ CommitComplete(s) \/ Crash(s)
    <3>1. Goto(s, "idle") /\ txn' = [txn EXCEPT ![s] = NoTxn]
      BY <2>8 DEF CommitUpdate, CommitResize, CommitArchive, CommitDelete, CommitComplete,
         Commit, Crash
    <3> QED BY <3>1, EndEffect DEF Goes
  <2>9. CASE Aborted(s)
    BY <2>9, AbortEffect DEF Goes
  <2>10. CASE LockUser(s)
    BY <2>10, LockUserEffect DEF Goes
  <2> QED BY <2>1, <2>2, <2>3, <2>4, <2>5, <2>6, <2>7, <2>8, <2>9, <2>10
<1>3. /\ DOMAIN booking' = DOMAIN booking
      /\ \A b \in DOMAIN booking : booking'[b].status = "CANCELLED"
                                     <=> booking[b].status = "CANCELLED"
      /\ SomeCompleted
  <2>1. CASE CommitUpdate(s)
    BY <2>1, UpdateQuiet DEF SomeCompleted, Statuses
  <2>2. CASE CommitComplete(s)
    BY <2>2, CompleteQuiet DEF SomeCompleted, Statuses
  <2>3. CASE ~(CommitUpdate(s) \/ CommitComplete(s))
    <3>1. booking' = booking
      BY <2>3, AbortEffect
         DEF Start, StartCreate, StartUpdate, StartCancel, StartArchive, StartResize,
         StartDelete, StartComplete, Begin, LockBooking, LockRoom, LockUser, CheckPeriod,
         CheckResize, ClaimBooking, CommitResize, CommitArchive, CommitDelete, SweepReady,
         Close, Crash, tables
    <3> QED BY <3>1 DEF SomeCompleted, Statuses
  <2> QED BY <2>1, <2>2, <2>3
<1>4. \A q \in Sessions : pc[q] = "enqueue" \/ pc'[q] = "enqueue"
                            => pc'[q] = pc[q] /\ txn'[q] = txn[q]
  BY <1>1, <1>2 DEF OthersStay
<1>5. NoNews
  BY <1>1, <1>3, <1>4, Quiet
<1> QED BY <1>1, <1>3, <1>5

\* Every step of the service is one of these kinds.
LEMMA NewsOfNext ==
  ASSUME TypeOK, LoadedIsCurrent, [Next]_vars PROVE NewsStep
<1>1. CASE UNCHANGED vars
  <2>1. NoNews /\ SomeCompleted /\ faults' = faults
    BY <1>1, Quiet DEF vars, SomeCompleted, Statuses
  <2> QED BY <2>1 DEF NewsStep
<1>2. CASE Tick \/ \E r \in Rooms, n \in Units : AddRoom(r, n)
  <2>1. NoNews /\ SomeCompleted /\ faults' = faults
    BY <1>2, Quiet DEF Tick, AddRoom, SomeCompleted, Statuses
  <2> QED BY <2>1 DEF NewsStep
<1>3. ASSUME NEW s \in Sessions, Start(s) \/ Continue(s) \/ Crash(s) \/ EnqueueFails(s)
      PROVE  NewsStep
  <2>1. ASSUME NEW b \in BookingIds, CommitCreate(s, b) PROVE NewsStep
    <3>1. /\ OtherNewsSame("create", b) /\ Announced(s, "create", b)
          /\ Changed("create", b) /\ faults' = faults
      BY <2>1, CreateNews DEF CommitCreate, Commit
    <3> QED BY <3>1 DEF NewsStep, NewsOps
  <2>2. CASE CommitCancel(s)
    <3>1. PICK b \in BookingIds : b = txn[s].booking
      BY <2>2, CommitCancelEffect
    <3>2. /\ OtherNewsSame("cancel", b) /\ Announced(s, "cancel", b)
          /\ Changed("cancel", b) /\ faults' = faults
      BY <2>2, <3>1, CancelNews DEF CommitCancel, Commit
    <3> QED BY <3>2 DEF NewsStep, NewsOps
  <2>3. CASE pc[s] = "enqueue" /\ (Enqueue(s) \/ EnqueueFails(s) \/ Crash(s))
    <3>1. PICK op \in NewsOps, b \in BookingIds : op = txn[s].op /\ b = txn[s].booking
      BY <2>3 DEF TypeOK, RequestOK, NewsOps
    <3> QED BY <2>3, <3>1, EndOfNews DEF NewsStep
  <2>4. Enqueue(s) \/ EnqueueFails(s) => pc[s] = "enqueue"
    BY DEF Enqueue, EnqueueFails
  <2>5. CASE \/ Start(s) \/ LockBooking(s) \/ LockRoom(s) \/ CheckPeriod(s)
             \/ CheckResize(s) \/ LockUser(s)
             \/ \E b \in BookingIds : ClaimBooking(s, b)
             \/ CommitUpdate(s) \/ CommitResize(s) \/ CommitArchive(s) \/ CommitDelete(s)
             \/ SweepReady(s) \/ CommitComplete(s) \/ Aborted(s) \/ Close(s)
             \/ pc[s] # "enqueue" /\ Crash(s)
    <3>1. NoNews /\ SomeCompleted /\ faults' \in {faults, faults + 1}
      BY <2>5, OthersAreQuiet
    <3> QED BY <3>1 DEF NewsStep
  <2> QED BY <1>3, <2>1, <2>2, <2>3, <2>4, <2>5 DEF Continue, Aborted
<1> QED BY <1>1, <1>2, <1>3 DEF Next
-----------------------------------------------------------------------------
\* At most one session owes the notification of a change, and only until it is
\* passed on; while nothing has failed, one of both is the case after the change.
OweOnce(op, b) ==
  /\ Told(op, b) \in {0, 1}
  /\ \A s, q \in Owed(op, b) : s = q
  /\ Told(op, b) = 1 => Owed(op, b) = {}
  /\ Told(op, b) = 1 \/ Owed(op, b) # {} => Happened(op, b)
  /\ faults = 0 /\ Happened(op, b) => Told(op, b) = 1 \/ Owed(op, b) # {}

AllOweOnce == \A op \in NewsOps, b \in BookingIds : OweOnce(op, b)

\* It is preserved where nothing is new ...
LEMMA SameOwes ==
  ASSUME NEW op \in NewsOps, NEW b \in BookingIds, OweOnce(op, b), SameNews(op, b),
         faults \in Nat, faults' \in {faults, faults + 1}
  PROVE  OweOnce(op, b)'
BY DEF OweOnce, SameNews

\* ... and by every kind of step.
LEMMA OweOnceStep ==
  ASSUME TypeOK, LoadedIsCurrent, AllOweOnce, [Next]_vars PROVE AllOweOnce'
<1>0. NewsStep /\ faults \in Nat
  BY NewsOfNext, BookingServiceAssumption DEF TypeOK
<1>1. CASE NoNews /\ faults' \in {faults, faults + 1}
  BY <1>0, <1>1, SameOwes DEF NoNews, AllOweOnce
<1>2. ASSUME NEW s \in Sessions, NEW op \in NewsOps, NEW b \in BookingIds,
             OtherNewsSame(op, b), faults' \in {faults, faults + 1},
             \/ Announced(s, op, b) /\ faults' = faults
             \/ Passed(s, op, b)
             \/ Dropped(s, op, b) /\ faults' = faults + 1
      PROVE  AllOweOnce'
  <2>1. \A o \in NewsOps, c \in BookingIds : <<o, c>> # <<op, b>> => OweOnce(o, c)'
    BY <1>0, <1>2, SameOwes DEF OtherNewsSame, AllOweOnce
  <2>2. OweOnce(op, b)
    BY DEF AllOweOnce
  <2>3. ASSUME Announced(s, op, b) /\ faults' = faults PROVE OweOnce(op, b)'
    <3>1. Told(op, b) = 0 /\ Owed(op, b) = {}
      BY <2>2, <2>3 DEF OweOnce, Announced
    <3> QED BY <3>1, <2>3 DEF OweOnce, Announced
  <2>4. ASSUME Passed(s, op, b) PROVE OweOnce(op, b)'
    <3>1. Told(op, b) = 0 /\ Owed(op, b) = {s} /\ Happened(op, b)
      BY <2>2, <2>4 DEF OweOnce, Passed
    <3> QED BY <3>1, <2>4 DEF OweOnce, Passed
  <2>5. ASSUME Dropped(s, op, b) /\ faults' = faults + 1 PROVE OweOnce(op, b)'
    <3>1. Told(op, b) = 0 /\ Owed(op, b) = {s} /\ Happened(op, b)
      BY <2>2, <2>5 DEF OweOnce, Dropped
    <3> QED BY <1>0, <3>1, <2>5 DEF OweOnce, Dropped
  <2>6. OweOnce(op, b)'
    BY <1>2, <2>3, <2>4, <2>5
  <2> QED BY <2>1, <2>6 DEF AllOweOnce
<1> QED BY <1>0, <1>1, <1>2 DEF NewsStep

LEMMA OweOnceInit == Init => AllOweOnce
<1> SUFFICES ASSUME Init, NEW op \in NewsOps, NEW b \in BookingIds PROVE OweOnce(op, b)
  BY DEF AllOweOnce
<1>1. Owed(op, b) = {} /\ Told(op, b) = 0 /\ ~Happened(op, b)
  BY DEF Init, Owed, Told, Happened
<1> QED BY <1>1 DEF OweOnce

LEMMA AllOwe == Spec => []AllOweOnce
<1>1. Spec => []TypeOK
  BY TypeCorrect
<1>2. Spec => []LoadedIsCurrent
  BY ReadsStayCurrent
<1>3. TypeOK /\ LoadedIsCurrent /\ AllOweOnce /\ [Next]_vars => AllOweOnce'
  BY OweOnceStep
<1> QED BY <1>1, <1>2, <1>3, OweOnceInit, PTL DEF Spec

\* Every committed create and cancel is announced at most once, and exactly once
\* as long as no process dies and the broker does not fail.
THEOREM AnnouncedOnce == Spec => []NotifiedOnce
<1>1. ASSUME AllOweOnce PROVE NotifiedOnce
  <2> SUFFICES ASSUME NEW op \in NewsOps, NEW b \in BookingIds
               PROVE  LET announced == Told(op, b) + Cardinality(Owed(op, b)) IN
                      /\ announced <= IF Happened(op, b) THEN 1 ELSE 0
                      /\ faults = 0 /\ Happened(op, b) => announced = 1
    BY DEF NotifiedOnce, NewsOps
  <2>1. OweOnce(op, b)
    BY <1>1 DEF AllOweOnce
  <2>2. CASE Owed(op, b) = {}
    <3>1. Cardinality(Owed(op, b)) = 0
      BY <2>2, FS_EmptySet
    <3> QED BY <2>1, <2>2, <3>1 DEF OweOnce
  <2>3. CASE Owed(op, b) # {}
    <3>1. PICK s : Owed(op, b) = {s}
      BY <2>1, <2>3 DEF OweOnce
    <3>2. Cardinality(Owed(op, b)) = 1
      BY <3>1, FS_Singleton
    <3> QED BY <2>1, <2>3, <3>2 DEF OweOnce
  <2> QED BY <2>2, <2>3
<1> QED BY <1>1, AllOwe, PTL
-----------------------------------------------------------------------------
\* The job of one op and booking is the only one that changes.
LEMMA JobStep ==
  ASSUME NEW op \in NewsOps, NEW b \in BookingIds, NEW j \in Jobs, OpOf(j) = op, j[2] = b,
         OtherNewsSame(op, b)
  PROVE  /\ JobStates[j] = JobState(op, b)
         /\ JobStates' = [JobStates EXCEPT ![j] = JobState(op, b)']
<1>1. ASSUME NEW k \in Jobs, k # j
      PROVE  JobState(OpOf(k), k[2])' = JobState(OpOf(k), k[2])
  <2>1. OpOf(k) \in NewsOps /\ k[2] \in BookingIds /\ <<OpOf(k), k[2]>> # <<op, b>>
    BY <1>1 DEF Jobs, OpOf, NewsOps
  <2>2. SameNews(OpOf(k), k[2])
    BY <2>1 DEF OtherNewsSame
  <2> QED BY <2>2 DEF SameNews, JobState
<1>2. JobState(OpOf(j), j[2]) = JobState(op, b) /\ JobState(OpOf(j), j[2])' = JobState(op, b)'
  OBVIOUS
<1> QED BY <1>1, <1>2 DEF JobStates

\* Where nothing is new, no job changes.
LEMMA NoJobStep ==
  ASSUME NoNews PROVE JobStates' = JobStates
<1>1. ASSUME NEW k \in Jobs PROVE JobState(OpOf(k), k[2])' = JobState(OpOf(k), k[2])
  <2>1. OpOf(k) \in NewsOps /\ k[2] \in BookingIds
    BY DEF Jobs, OpOf, NewsOps
  <2> QED BY <2>1 DEF NoNews, SameNews, JobState
<1> QED BY <1>1 DEF JobStates

\* The job of an op and a booking.
JobOf(op, b) == <<IF op = "create" THEN "creation" ELSE "cancellation", b>>

LEMMA JobOfType ==
  ASSUME NEW op \in NewsOps, NEW b \in BookingIds
  PROVE  /\ JobOf(op, b) \in Jobs /\ OpOf(JobOf(op, b)) = op /\ JobOf(op, b)[2] = b
         /\ JobOf(op, b) \in N!Jobs
BY DEF JobOf, Jobs, OpOf, NewsOps, N!Jobs, N!Tasks

\* What a step with news does to the jobs.
LEMMA NewsJobStep ==
  ASSUME AllOweOnce, AllOweOnce', NEW s \in Sessions, NEW op \in NewsOps,
         NEW b \in BookingIds, OtherNewsSame(op, b)
  PROVE  LET j == JobOf(op, b) IN
         /\ Announced(s, op, b) => JobStates' = [JobStates EXCEPT ![j] = "owed"]
         /\ Passed(s, op, b) => /\ JobStates[j] = "owed"
                                /\ JobStates' = [JobStates EXCEPT ![j] = "queued"]
         /\ Dropped(s, op, b) => /\ JobStates[j] = "owed"
                                 /\ JobStates' = [JobStates EXCEPT ![j] = "lost"]
<1> DEFINE j == JobOf(op, b)
<1>1. j \in Jobs /\ OpOf(j) = op /\ j[2] = b
  BY JobOfType
<1>2. OweOnce(op, b) /\ OweOnce(op, b)'
  BY DEF AllOweOnce
<1> HIDE DEF j
<1>3. /\ JobStates[j] = JobState(op, b)
      /\ JobStates' = [JobStates EXCEPT ![j] = JobState(op, b)']
  BY <1>1, JobStep
<1>5. ASSUME Announced(s, op, b)
      PROVE  JobState(op, b) = "none" /\ JobState(op, b)' = "owed"
  <2>1. Told(op, b) = 0 /\ Owed(op, b) = {} /\ ~Happened(op, b)
    BY <1>2, <1>5 DEF OweOnce, Announced
  <2>2. Told(op, b)' = 0 /\ Owed(op, b)' = {s}
    BY <1>5, <2>1 DEF Announced
  <2> QED BY <2>1, <2>2 DEF JobState
<1>6. ASSUME Passed(s, op, b)
      PROVE  JobState(op, b) = "owed" /\ JobState(op, b)' = "queued"
  <2>1. Told(op, b) = 0 /\ Owed(op, b) # {}
    BY <1>2, <1>6 DEF OweOnce, Passed
  <2>2. Told(op, b)' = 1
    BY <1>6, <2>1 DEF Passed
  <2> QED BY <2>1, <2>2 DEF JobState
<1>7. ASSUME Dropped(s, op, b)
      PROVE  JobState(op, b) = "owed" /\ JobState(op, b)' = "lost"
  <2>1. Told(op, b) = 0 /\ Owed(op, b) = {s} /\ Happened(op, b)
    BY <1>2, <1>7 DEF OweOnce, Dropped
  <2>2. Told(op, b)' = 0 /\ Owed(op, b)' = {} /\ Happened(op, b)'
    BY <1>7, <2>1 DEF Dropped
  <2> QED BY <2>1, <2>2 DEF JobState
<1>8. /\ Announced(s, op, b) => JobStates' = [JobStates EXCEPT ![j] = "owed"]
      /\ Passed(s, op, b) => /\ JobStates[j] = "owed"
                             /\ JobStates' = [JobStates EXCEPT ![j] = "queued"]
      /\ Dropped(s, op, b) => /\ JobStates[j] = "owed"
                              /\ JobStates' = [JobStates EXCEPT ![j] = "lost"]
  BY <1>3, <1>5, <1>6, <1>7
<1> QED BY <1>8 DEF j

\* A commit, an enqueueing or its failure is that step of the job; a sweep completes
\* bookings; everything else leaves the jobs as they are.
LEMMA NotificationStep ==
  ASSUME TypeOK, LoadedIsCurrent, AllOweOnce, AllOweOnce', [Next]_vars
  PROVE  [N!Next]_(N!vars)
<1>1. NewsStep
  BY NewsOfNext
<1>2. CASE NoNews /\ SomeCompleted
  <2> DEFINE ids == {b \in BookingIds : Statuses'[b] # Statuses[b]}
  <2>1. JobStates' = JobStates
    BY <1>2, NoJobStep
  <2>2. ids \in SUBSET BookingIds /\ \A b \in ids : Statuses[b] = "ACTIVE"
    BY <1>2 DEF SomeCompleted
  <2>3. Statuses' = [b \in BookingIds |-> IF b \in ids THEN "COMPLETED" ELSE Statuses[b]]
    BY <1>2 DEF SomeCompleted, Statuses
  <2>4. N!Complete(ids)
    <3> HIDE DEF ids
    <3> QED BY <2>1, <2>2, <2>3 DEF N!Complete
  <2> QED BY <2>2, <2>4 DEF N!Next
<1>3. ASSUME NEW s \in Sessions, NEW op \in NewsOps, NEW b \in BookingIds,
             OtherNewsSame(op, b),
             \/ Announced(s, op, b) /\ Changed(op, b)
             \/ (Passed(s, op, b) \/ Dropped(s, op, b)) /\ Statuses' = Statuses
      PROVE  N!Next
  <2> DEFINE j == JobOf(op, b)
  <2>1. j \in N!Jobs
    BY JobOfType
  <2>2. CASE Announced(s, op, b) /\ Changed(op, b)
    <3>1. JobStates' = [JobStates EXCEPT ![j] = "owed"]
      BY <1>3, <2>2, NewsJobStep
    <3>2. CASE op = "create"
      <4>1. N!Create(b)
        BY <2>2, <3>1, <3>2 DEF N!Create, Changed, JobOf
      <4> QED BY <4>1 DEF N!Next
    <3>3. CASE op = "cancel"
      <4>1. N!Cancel(b)
        BY <2>2, <3>1, <3>3 DEF N!Cancel, Changed, JobOf
      <4> QED BY <4>1 DEF N!Next
    <3> QED BY <3>2, <3>3 DEF NewsOps
  <2>3. CASE Passed(s, op, b) /\ Statuses' = Statuses
    <3>1. JobStates[j] = "owed" /\ JobStates' = [JobStates EXCEPT ![j] = "queued"]
      BY <1>3, <2>3, NewsJobStep
    <3> HIDE DEF j
    <3>2. N!Enqueue(j)
      BY <2>3, <3>1 DEF N!Enqueue
    <3> QED BY <2>1, <3>2 DEF N!Next
  <2>4. CASE Dropped(s, op, b) /\ Statuses' = Statuses
    <3>1. JobStates[j] = "owed" /\ JobStates' = [JobStates EXCEPT ![j] = "lost"]
      BY <1>3, <2>4, NewsJobStep
    <3> HIDE DEF j
    <3>2. N!EnqueueFails(j)
      BY <2>4, <3>1 DEF N!EnqueueFails
    <3> QED BY <2>1, <3>2 DEF N!Next
  <2> QED BY <1>3, <2>2, <2>3, <2>4
<1> QED BY <1>1, <1>2, <1>3 DEF NewsStep

\* At the start there is no job and no booking.
LEMMA NotificationInit == Init => N!Init
<1> SUFFICES ASSUME Init PROVE N!Init
  OBVIOUS
<1>1. \A op \in NewsOps, b \in BookingIds : JobState(op, b) = "none"
  BY DEF Init, JobState, Owed, Told, Happened
<1>2. \A j \in Jobs : OpOf(j) \in NewsOps /\ j[2] \in BookingIds
  BY DEF Jobs, OpOf, NewsOps
<1>3. JobStates = [j \in Jobs |-> "none"]
  BY <1>1, <1>2 DEF JobStates
<1>4. Statuses = [b \in BookingIds |-> "none"]
  BY DEF Init, Statuses
<1> QED BY <1>3, <1>4 DEF N!Init, N!Jobs, N!Tasks, Jobs

\* The service does with the jobs what Notifications says of it.
THEOREM ServiceRefinesNotifications == Spec => RefinesNotifications
<1>1. Spec => []TypeOK
  BY TypeCorrect
<1>2. Spec => []LoadedIsCurrent
  BY ReadsStayCurrent
<1>3. Spec => []AllOweOnce
  BY AllOwe
<1> QED BY <1>1, <1>2, <1>3, NotificationInit, NotificationStep, PTL
        DEF Spec, RefinesNotifications, N!Spec
=============================================================================
