------------------------ MODULE BookingServiceProofs ------------------------
(***************************************************************************)
(* The invariants of the requests, for every number of sessions, rooms,    *)
(* bookings, units and instants: types (TypeCorrect), which locks a        *)
(* request holds at which step (LocksAreHeld) and, from both, that what a  *)
(* request read under its locks is still so when it acts                   *)
(* (ReadsStayCurrent).  The last one is a rely-guarantee argument: a step  *)
(* of another session can write only what that session has locked, hence   *)
(* nothing that this request has read.                                     *)
(***************************************************************************)
EXTENDS BookingServiceProps, FiniteSetTheorems, TLAPS

\* A period that is available stays available while no new row blocks the room
\* and none that does is moved.
LEMMA StillAvailable ==
  ASSUME NEW bookings, IsFiniteSet(DOMAIN bookings), NEW new, NEW r, NEW units \in Int,
         NEW start, NEW end, NEW excluded,
         RoomAvailable(bookings, r, units, start, end, excluded),
         \A b \in DOMAIN new : Blocks(new[b], r) =>
           /\ b \in DOMAIN bookings /\ Blocks(bookings[b], r)
           /\ new[b].start = bookings[b].start /\ new[b].end = bookings[b].end
  PROVE  RoomAvailable(new, r, units, start, end, excluded)
<1> DEFINE before(t) == {b \in OverlappingIntervals(bookings, r, start, end) \ excluded :
                        bookings[b].start <= t /\ t < bookings[b].end}
           after(t) == {b \in OverlappingIntervals(new, r, start, end) \ excluded :
                        new[b].start <= t /\ t < new[b].end}
<1> SUFFICES ASSUME NEW t \in start .. (end - 1) PROVE Cardinality(after(t)) < units
  BY DEF RoomAvailable, HasAvailableUnit
<1>1. after(t) \subseteq before(t)
  BY DEF OverlappingIntervals
<1>2. before(t) \subseteq DOMAIN bookings
  BY DEF OverlappingIntervals
<1>3. Cardinality(before(t)) < units
  BY DEF RoomAvailable, HasAvailableUnit
<1> HIDE DEF before, after
<1>4. IsFiniteSet(before(t)) /\ IsFiniteSet(after(t)) /\ Cardinality(after(t)) <= Cardinality(before(t))
  BY <1>1, <1>2, FS_Subset
<1>5. Cardinality(before(t)) \in Nat /\ Cardinality(after(t)) \in Nat
  BY <1>4, FS_CardinalityType
<1> QED BY <1>3, <1>4, <1>5

\* An empty request is a request.
LEMMA NoTxnType == NoTxn \in Txn
BY BookingServiceAssumption DEF NoTxn, Txn, Ops, Units, Time

\* The requests of all sessions but s stay where they are.
OthersStay(s) == \A q \in Sessions \ {s} : pc'[q] = pc[q] /\ txn'[q] = txn[q]

\* The request of session s is at step `to` afterwards, with the types kept.
Goes(s, to) == /\ pc' \in [Sessions -> Steps] /\ txn' \in [Sessions -> Txn]
               /\ OthersStay(s)
               /\ pc'[s] = to

\* Requests stay well-formed when one session moves to a well-formed one.
LEMMA RequestStep ==
  ASSUME TypeOK, NEW s \in Sessions,
         \A q \in Sessions \ {s} : pc'[q] = pc[q] /\ txn'[q] = txn[q], RequestOK(s)'
  PROVE  \A q \in Sessions : RequestOK(q)'
<1> SUFFICES ASSUME NEW q \in Sessions, q # s PROVE RequestOK(q)'
  OBVIOUS
<1>1. pc'[q] = pc[q] /\ txn'[q] = txn[q]
  OBVIOUS
<1> QED BY <1>1 DEF TypeOK, RequestOK

\* The beginning of a request keeps the types.
LEMMA StartType ==
  ASSUME TypeOK, NEW s \in Sessions, Start(s) PROVE TypeOK'
<1>1. ASSUME NEW u \in Users, NEW r \in Rooms, NEW st \in Time, NEW en \in Time,
             StartCreate(s, u, r, st, en)
      PROVE  TypeOK'
  <2> DEFINE t == [NoTxn EXCEPT !.op = "create", !.user = u, !.room = r,
                                !.start = st, !.end = en]
  <2>1. t \in Txn
    BY NoTxnType DEF Txn, Ops
  <2>2. pc' = [pc EXCEPT ![s] = "lock_room"] /\ txn' = [txn EXCEPT ![s] = t]
    BY <1>1 DEF StartCreate, Begin, Goto
  <2>3. RequestOK(s)'
    BY <1>1, <2>2 DEF RequestOK, TypeOK, NoTxn, PeriodIsValid, StartCreate
  <2>4. /\ pc' \in [Sessions -> Steps] /\ txn' \in [Sessions -> Txn]
        /\ \A q \in Sessions : RequestOK(q)'
    <3> HIDE DEF t
    <3> QED BY <2>1, <2>2, <2>3, RequestStep DEF Steps, TypeOK
  <2> QED BY <1>1, <2>4 DEF TypeOK, StartCreate, Begin, tables, locks
<1>2. ASSUME NEW b \in BookingIds, NEW st \in Time \cup {None}, NEW en \in Time \cup {None},
             StartUpdate(s, b, st, en)
      PROVE  TypeOK'
  <2> DEFINE t == [NoTxn EXCEPT !.op = "update", !.booking = b, !.start = st, !.end = en]
  <2>1. t \in Txn
    BY NoTxnType DEF Txn, Ops
  <2>2. pc' = [pc EXCEPT ![s] = "lock_booking"] /\ txn' = [txn EXCEPT ![s] = t]
    BY <1>2 DEF StartUpdate, Begin, Goto
  <2>3. RequestOK(s)'
    BY <1>2, <2>2 DEF RequestOK, TypeOK, NoTxn
  <2>4. /\ pc' \in [Sessions -> Steps] /\ txn' \in [Sessions -> Txn]
        /\ \A q \in Sessions : RequestOK(q)'
    <3> HIDE DEF t
    <3> QED BY <2>1, <2>2, <2>3, RequestStep DEF Steps, TypeOK
  <2> QED BY <1>2, <2>4 DEF TypeOK, StartUpdate, Begin, tables, locks
<1>3. ASSUME NEW b \in BookingIds, NEW u \in Users, NEW staff \in BOOLEAN,
             StartCancel(s, b, u, staff)
      PROVE  TypeOK'
  <2> DEFINE t == [NoTxn EXCEPT !.op = "cancel", !.booking = b, !.user = u, !.staff = staff]
  <2>1. t \in Txn
    BY NoTxnType DEF Txn, Ops
  <2>2. pc' = [pc EXCEPT ![s] = "lock_booking"] /\ txn' = [txn EXCEPT ![s] = t]
    BY <1>3 DEF StartCancel, Begin, Goto
  <2>3. RequestOK(s)'
    BY <1>3, <2>2 DEF RequestOK, TypeOK, NoTxn
  <2>4. /\ pc' \in [Sessions -> Steps] /\ txn' \in [Sessions -> Txn]
        /\ \A q \in Sessions : RequestOK(q)'
    <3> HIDE DEF t
    <3> QED BY <2>1, <2>2, <2>3, RequestStep DEF Steps, TypeOK
  <2> QED BY <1>3, <2>4 DEF TypeOK, StartCancel, Begin, tables, locks
<1>4. ASSUME NEW r \in Rooms,
             StartArchive(s, r)
      PROVE  TypeOK'
  <2> DEFINE t == [NoTxn EXCEPT !.op = "archive", !.room = r]
  <2>1. t \in Txn
    BY NoTxnType DEF Txn, Ops
  <2>2. pc' = [pc EXCEPT ![s] = "lock_room"] /\ txn' = [txn EXCEPT ![s] = t]
    BY <1>4 DEF StartArchive, Begin, Goto
  <2>3. RequestOK(s)'
    BY <1>4, <2>2 DEF RequestOK, TypeOK, NoTxn
  <2>4. /\ pc' \in [Sessions -> Steps] /\ txn' \in [Sessions -> Txn]
        /\ \A q \in Sessions : RequestOK(q)'
    <3> HIDE DEF t
    <3> QED BY <2>1, <2>2, <2>3, RequestStep DEF Steps, TypeOK
  <2> QED BY <1>4, <2>4 DEF TypeOK, StartArchive, Begin, tables, locks
<1>5. ASSUME NEW r \in Rooms, NEW n \in Units,
             StartResize(s, r, n)
      PROVE  TypeOK'
  <2> DEFINE t == [NoTxn EXCEPT !.op = "resize", !.room = r, !.units = n]
  <2>1. t \in Txn
    BY NoTxnType DEF Txn, Ops
  <2>2. pc' = [pc EXCEPT ![s] = "lock_room"] /\ txn' = [txn EXCEPT ![s] = t]
    BY <1>5 DEF StartResize, Begin, Goto
  <2>3. RequestOK(s)'
    BY <1>5, <2>2 DEF RequestOK, TypeOK, NoTxn
  <2>4. /\ pc' \in [Sessions -> Steps] /\ txn' \in [Sessions -> Txn]
        /\ \A q \in Sessions : RequestOK(q)'
    <3> HIDE DEF t
    <3> QED BY <2>1, <2>2, <2>3, RequestStep DEF Steps, TypeOK
  <2> QED BY <1>5, <2>4 DEF TypeOK, StartResize, Begin, tables, locks
<1>6. ASSUME StartComplete(s) PROVE TypeOK'
  <2> DEFINE over == {b \in DOMAIN booking : Finished(booking[b], now)}
             t == [NoTxn EXCEPT !.op = "complete", !.time = now, !.todo = over]
  <2>1. t \in Txn
    <3>1. over \in SUBSET BookingIds /\ now \in Time
      BY DEF TypeOK
    <3> HIDE DEF over
    <3> QED BY <3>1, NoTxnType DEF Txn, Ops
  <2>2. pc' = [pc EXCEPT ![s] = "claim"] /\ txn' = [txn EXCEPT ![s] = t]
    BY <1>6 DEF StartComplete, Begin, Goto
  <2>3. RequestOK(s)'
    BY <1>6, <2>2 DEF RequestOK, TypeOK, NoTxn
  <2>4. /\ pc' \in [Sessions -> Steps] /\ txn' \in [Sessions -> Txn]
        /\ \A q \in Sessions : RequestOK(q)'
    <3> HIDE DEF t
    <3> QED BY <2>1, <2>2, <2>3, RequestStep DEF Steps, TypeOK
  <2> QED BY <1>6, <2>4 DEF TypeOK, StartComplete, Begin, tables, locks
<1>7. ASSUME NEW u \in Users, StartDelete(s, u) PROVE TypeOK'
  <2> DEFINE t == [NoTxn EXCEPT !.op = "delete_user", !.user = u]
  <2>1. t \in Txn
    BY NoTxnType DEF Txn, Ops
  <2>2. pc' = [pc EXCEPT ![s] = "lock_user"] /\ txn' = [txn EXCEPT ![s] = t]
    BY <1>7 DEF StartDelete, Begin, Goto
  <2>3. RequestOK(s)'
    BY <1>7, <2>2 DEF RequestOK, TypeOK, NoTxn
  <2>4. /\ pc' \in [Sessions -> Steps] /\ txn' \in [Sessions -> Txn]
        /\ \A q \in Sessions : RequestOK(q)'
    <3> HIDE DEF t
    <3> QED BY <2>1, <2>2, <2>3, RequestStep DEF Steps, TypeOK
  <2> QED BY <1>7, <2>4 DEF TypeOK, StartDelete, Begin, tables, locks
<1> QED BY <1>1, <1>2, <1>3, <1>4, <1>5, <1>6, <1>7 DEF Start
-----------------------------------------------------------------------------
\* A request that gives up only has to be closed.
LEMMA GiveUpEffect ==
  ASSUME TypeOK, NEW s \in Sessions, GiveUp(s)
  PROVE  Goes(s, "closing") /\ txn'[s] = NoTxn
BY NoTxnType DEF GiveUp, Goto, TypeOK, Goes, OthersStay, Steps

\* A request that only moves to its next step keeps what it holds in memory.
LEMMA GotoEffect ==
  ASSUME TypeOK, NEW s \in Sessions, NEW to \in Steps, Goto(s, to), txn' = txn
  PROVE  Goes(s, to) /\ txn'[s] = txn[s]
BY DEF Goto, TypeOK, Goes, OthersStay

\* A transaction that ends leaves its session with nothing in memory ...
LEMMA EndEffect ==
  ASSUME TypeOK, NEW s \in Sessions, Goto(s, "idle"), txn' = [txn EXCEPT ![s] = NoTxn]
  PROVE  Goes(s, "idle") /\ txn'[s] = NoTxn
BY NoTxnType DEF Goto, TypeOK, Goes, OthersStay, Steps

\* ... or with the id of the booking whose notification it still has to enqueue.
LEMMA AnnounceEffect ==
  ASSUME TypeOK, NEW s \in Sessions, NEW op \in {"create", "cancel"}, NEW b \in BookingIds,
         Goto(s, "enqueue"), txn' = [txn EXCEPT ![s] = Announcing(op, b)]
  PROVE  Goes(s, "enqueue") /\ txn'[s].op = op /\ txn'[s].booking = b
<1>1. Announcing(op, b) \in Txn /\ Announcing(op, b).op = op /\ Announcing(op, b).booking = b
  BY NoTxnType DEF Announcing, Txn, Ops
<1> QED BY <1>1 DEF Goto, TypeOK, Goes, OthersStay, Steps

\* A booking row is locked and either accepted or the end of the request.
LEMMA LockBookingEffect ==
  ASSUME TypeOK, NEW s \in Sessions, LockBooking(s)
  PROVE  \/ Goes(s, "closing") /\ txn'[s] = NoTxn
         \/ /\ Goes(s, "lock_room") /\ BookingAccepted(s, txn[s].booking)
            /\ txn'[s].op = txn[s].op /\ txn'[s].booking = txn[s].booking
            /\ txn'[s].user = txn[s].user
            /\ txn'[s].room = booking[txn[s].booking].room
            /\ txn'[s].op = "update" => txn'[s].start \in Time /\ txn'[s].end \in Time
<1>1. CASE ~BookingAccepted(s, txn[s].booking)
  BY <1>1, GiveUpEffect DEF LockBooking
<1>2. CASE BookingAccepted(s, txn[s].booking)
  <2> DEFINE b == txn[s].booking
             st == StartOr(txn[s].start, booking[b])
             en == EndOr(txn[s].end, booking[b])
  <2>1. b \in DOMAIN booking /\ booking[b] \in Row
    BY <1>2 DEF BookingAccepted, TypeOK
  <2>2. txn[s] \in Txn
    BY DEF TypeOK
  <2>3. st \in Time /\ en \in Time /\ booking[b].room \in Rooms
    BY <2>1, <2>2 DEF StartOr, EndOr, Row, Txn
  <2>4. /\ pc' = [pc EXCEPT ![s] = "lock_room"]
        /\ txn' = [txn EXCEPT ![s].room = booking[b].room, ![s].start = st, ![s].end = en]
    BY <1>2 DEF LockBooking, Goto
  <2> HIDE DEF st, en, b
  <2>5. txn' \in [Sessions -> Txn] /\ \A q \in Sessions \ {s} : txn'[q] = txn[q]
    BY <2>2, <2>3, <2>4 DEF TypeOK, Txn
  <2>6. /\ txn'[s].op = txn[s].op /\ txn'[s].booking = txn[s].booking
        /\ txn'[s].user = txn[s].user /\ txn'[s].room = booking[b].room
        /\ txn'[s].start = st /\ txn'[s].end = en
    BY <2>2, <2>4 DEF TypeOK, Txn
  <2> QED BY <1>2, <2>3, <2>4, <2>5, <2>6 DEF TypeOK, Goes, OthersStay, Steps, b
<1> QED BY <1>1, <1>2

\* A room row is locked and either accepted or the end of the request.
LEMMA LockRoomEffect ==
  ASSUME TypeOK, NEW s \in Sessions, LockRoom(s)
  PROVE  \/ Goes(s, "closing") /\ txn'[s] = NoTxn
         \/ /\ Goes(s, AfterRoomLock(txn[s].op)) /\ RoomAccepted(s, txn[s].room)
            /\ txn'[s].op = txn[s].op /\ txn'[s].booking = txn[s].booking
            /\ txn'[s].user = txn[s].user /\ txn'[s].room = txn[s].room
            /\ txn'[s].start = txn[s].start /\ txn'[s].end = txn[s].end
            /\ txn'[s].units = IF txn[s].op \in {"create", "update"}
                               THEN room[txn[s].room].units ELSE txn[s].units
<1>1. CASE ~RoomAccepted(s, txn[s].room)
  BY <1>1, GiveUpEffect DEF LockRoom
<1>2. CASE RoomAccepted(s, txn[s].room)
  <2> DEFINE r == txn[s].room
  <2>1. /\ AfterRoomLock(txn[s].op) \in Steps
        /\ pc' = [pc EXCEPT ![s] = AfterRoomLock(txn[s].op)]
    BY <1>2 DEF LockRoom, Goto, AfterRoomLock, Steps
  <2>2. r \in DOMAIN room /\ room[r].units \in Units
    BY <1>2 DEF RoomAccepted, TypeOK, Room
  <2>3. CASE txn[s].op \in {"create", "update"}
    <3>1. txn' = [txn EXCEPT ![s].units = room[r].units]
      BY <1>2, <2>3 DEF LockRoom
    <3>2. txn' \in [Sessions -> Txn] /\ \A q \in Sessions \ {s} : txn'[q] = txn[q]
      <4> DEFINE n == room[r].units
      <4>1. txn \in [Sessions -> Txn] /\ n \in Units
        BY <2>2 DEF TypeOK
      <4> HIDE DEF n
      <4>2. [txn[s] EXCEPT !.units = n] \in Txn
        BY <4>1 DEF Txn
      <4>3. txn' = [txn EXCEPT ![s] = [txn[s] EXCEPT !.units = n]]
        BY <3>1, <4>1 DEF n
      <4> QED BY <4>1, <4>2, <4>3
    <3>3. /\ txn'[s].op = txn[s].op /\ txn'[s].booking = txn[s].booking
          /\ txn'[s].user = txn[s].user /\ txn'[s].room = txn[s].room
          /\ txn'[s].start = txn[s].start /\ txn'[s].end = txn[s].end
          /\ txn'[s].units = room[r].units
      BY <3>1 DEF TypeOK, Txn
    <3> QED BY <1>2, <2>1, <2>3, <3>2, <3>3 DEF TypeOK, Goes, OthersStay
  <2>4. CASE txn[s].op \notin {"create", "update"}
    <3>1. txn' = txn
      BY <1>2, <2>4 DEF LockRoom
    <3> QED BY <1>2, <2>1, <2>4, <3>1 DEF TypeOK, Goes, OthersStay
  <2> QED BY <2>3, <2>4
<1> QED BY <1>1, <1>2

\* The row of a user is locked; a booking of the user makes the deletion wait for it,
\* a user without history is deleted.
LEMMA LockUserEffect ==
  ASSUME TypeOK, NEW s \in Sessions, LockUser(s)
  PROVE  /\ pc[s] = "lock_user" /\ txn[s].op = "delete_user" /\ txn[s].user \in Users
         /\ userLock[txn[s].user] = None
         /\ UNCHANGED <<tables, roomLock, bookingLock, enqueued, faults>>
         /\ \/ Goes(s, "closing") /\ txn'[s] = NoTxn /\ userLock' = userLock
            \/ /\ userLock' = [userLock EXCEPT ![txn[s].user] = s]
               /\ txn'[s].op = "delete_user" /\ txn'[s].user = txn[s].user
               /\ \/ Goes(s, "commit") /\ HistoryOf(txn[s].user) = {}
                  \/ Goes(s, "history") /\ txn'[s].booking \in BookingIds
<1>1. /\ pc[s] = "lock_user" /\ userLock[txn[s].user] = None
      /\ UNCHANGED <<tables, roomLock, bookingLock, enqueued, faults>>
  BY DEF LockUser, UserFree
<1>2. txn[s].op = "delete_user" /\ txn[s].user \in Users /\ txn[s] \in Txn
  BY <1>1 DEF TypeOK, RequestOK
<1>3. CASE GiveUp(s) /\ UNCHANGED userLock
  BY <1>1, <1>2, <1>3, GiveUpEffect
<1>4. CASE /\ userLock' = [userLock EXCEPT ![txn[s].user] = s]
           /\ HistoryOf(txn[s].user) = {} /\ Goto(s, "commit") /\ txn' = txn
  <2>1. Goes(s, "commit") /\ txn'[s] = txn[s]
    BY <1>4, GotoEffect DEF Steps
  <2> QED BY <1>1, <1>2, <1>4, <2>1
<1>5. ASSUME userLock' = [userLock EXCEPT ![txn[s].user] = s],
             NEW b \in HistoryOf(txn[s].user), Goto(s, "history"),
             txn' = [txn EXCEPT ![s].booking = b]
      PROVE  /\ txn'[s].op = "delete_user" /\ txn'[s].user = txn[s].user
             /\ Goes(s, "history") /\ txn'[s].booking \in BookingIds
  <2>1. b \in BookingIds
    BY DEF HistoryOf, TypeOK
  <2> DEFINE read == [txn[s] EXCEPT !.booking = b]
  <2>2. /\ read \in Txn
        /\ read.op = txn[s].op /\ read.user = txn[s].user /\ read.booking = b
    BY <1>2, <2>1 DEF Txn
  <2>3. txn' = [txn EXCEPT ![s] = read]
    BY <1>5
  <2> QED BY <1>2, <1>5, <2>1, <2>2, <2>3 DEF TypeOK, Goes, OthersStay, Goto, Steps
<1> QED BY <1>1, <1>2, <1>3, <1>4, <1>5 DEF LockUser

\* The sweep's UPDATE looks at one more row and keeps what it knows of the others.
LEMMA ClaimEffect ==
  ASSUME TypeOK, NEW s \in Sessions, NEW b \in BookingIds, ClaimBooking(s, b)
  PROVE  /\ Goes(s, "claim") /\ txn'[s].op = txn[s].op /\ txn'[s].time = txn[s].time
         /\ txn'[s].todo = txn[s].todo \ {b}
         /\ txn'[s].done = IF StillFinished(s, b) THEN txn[s].done \cup {b} ELSE txn[s].done
<1> DEFINE todo == txn[s].todo \ {b}
           done == IF StillFinished(s, b) THEN txn[s].done \cup {b} ELSE txn[s].done
<1>1. /\ txn' = [txn EXCEPT ![s].todo = todo, ![s].done = done]
      /\ pc' = pc /\ pc[s] = "claim"
  BY DEF ClaimBooking
<1>2. todo \in SUBSET BookingIds /\ done \in SUBSET BookingIds
  BY DEF TypeOK, Txn
<1> HIDE DEF todo, done
<1>3. txn' \in [Sessions -> Txn] /\ \A q \in Sessions \ {s} : txn'[q] = txn[q]
  <2>1. txn \in [Sessions -> Txn]
    BY DEF TypeOK
  <2>2. [txn[s] EXCEPT !.todo = todo, !.done = done] \in Txn
    <3>1. ASSUME NEW t \in Txn PROVE [t EXCEPT !.todo = todo, !.done = done] \in Txn
      BY <1>2 DEF Txn
    <3> QED BY <2>1, <3>1
  <2>3. txn' = [txn EXCEPT ![s] = [txn[s] EXCEPT !.todo = todo, !.done = done]]
    BY <1>1, <2>1
  <2> QED BY <2>1, <2>2, <2>3
<1>4. /\ txn'[s].op = txn[s].op /\ txn'[s].time = txn[s].time
      /\ txn'[s].todo = todo /\ txn'[s].done = done
  BY <1>1 DEF TypeOK, Txn
<1> QED BY <1>1, <1>3, <1>4 DEF TypeOK, Goes, OthersStay, todo, done
-----------------------------------------------------------------------------
\* A session with nothing to do and nothing in memory is well-formed.
LEMMA EndedIsOK ==
  ASSUME NEW s \in Sessions, NEW to \in {"idle", "closing"}, Goes(s, to), txn'[s] = NoTxn
  PROVE  RequestOK(s)'
BY DEF Goes, RequestOK, NoTxn

\* Requests stay well-formed when one session goes to a well-formed one.
LEMMA RequestsOK ==
  ASSUME TypeOK, NEW s \in Sessions, NEW to, Goes(s, to), RequestOK(s)'
  PROVE  /\ pc' \in [Sessions -> Steps] /\ txn' \in [Sessions -> Txn]
         /\ \A q \in Sessions : RequestOK(q)'
BY RequestStep DEF Goes, OthersStay

\* A step that leaves tables, locks, enqueued and faults alone keeps their types.
LEMMA OnlyRequestType ==
  ASSUME TypeOK, NEW s \in Sessions, NEW to, Goes(s, to), RequestOK(s)',
         UNCHANGED <<tables, locks, enqueued, faults>>
  PROVE  TypeOK'
BY RequestsOK DEF TypeOK, tables, locks

\* The end of a transaction keeps the types of the locks.
LEMMA ReleaseType ==
  ASSUME TypeOK, NEW s \in Sessions, ReleaseLocks(s)
  PROVE  /\ roomLock' \in [Rooms -> Sessions \cup {None}]
         /\ bookingLock' \in [BookingIds -> Sessions \cup {None}]
         /\ userLock' \in [Users -> Sessions \cup {None}]
BY DEF TypeOK, ReleaseLocks, Freed

\* A row with a new status is a row.
LEMMA StatusType ==
  ASSUME NEW f, f \in [DOMAIN f -> Row], NEW ids, NEW status \in BookingStatus
  PROVE  /\ DOMAIN WithStatus(f, ids, status) = DOMAIN f
         /\ WithStatus(f, ids, status) \in [DOMAIN f -> Row]
         /\ \A b \in DOMAIN f :
              LET new == WithStatus(f, ids, status)[b] IN
              /\ new.user = f[b].user /\ new.room = f[b].room
              /\ new.start = f[b].start /\ new.end = f[b].end
              /\ new.status = IF b \in ids THEN status ELSE f[b].status
              /\ b \notin ids => new = f[b]
BY DEF WithStatus, Row

\* The steps before a commit keep the types.
LEMMA LockType ==
  ASSUME TypeOK, NEW s \in Sessions,
         \/ LockBooking(s) \/ LockRoom(s) \/ CheckPeriod(s) \/ CheckResize(s)
         \/ \E b \in BookingIds : ClaimBooking(s, b)
         \/ SweepReady(s) \/ LockUser(s)
  PROVE  TypeOK'
<1>0. RequestOK(s) /\ txn[s] \in Txn
  BY DEF TypeOK
<1>1. CASE LockBooking(s)
  <2>1. RequestOK(s)'
    <3>1. pc[s] = "lock_booking" /\ txn[s].op \in {"update", "cancel"} /\ txn[s].booking \in BookingIds
      BY <1>0, <1>1 DEF RequestOK, LockBooking
    <3>2. BookingAccepted(s, txn[s].booking) => booking[txn[s].booking].room \in Rooms
      BY DEF TypeOK, BookingAccepted, Row
    <3>3. CASE txn'[s] = NoTxn /\ Goes(s, "closing")
      BY <3>3, EndedIsOK
    <3>4. CASE ~(txn'[s] = NoTxn /\ Goes(s, "closing"))
      BY <1>1, <3>1, <3>2, <3>4, LockBookingEffect DEF RequestOK, Goes
    <3> QED BY <3>3, <3>4
  <2>2. \E to : Goes(s, to)
    BY <1>1, LockBookingEffect
  <2>3. /\ pc' \in [Sessions -> Steps] /\ txn' \in [Sessions -> Txn]
        /\ \A q \in Sessions : RequestOK(q)'
    BY <2>1, <2>2, RequestsOK
  <2> QED BY <1>1, <2>3 DEF LockBooking, TypeOK, tables
<1>2. CASE LockRoom(s)
  <2>1. RequestOK(s)'
    <3>1. CASE txn'[s] = NoTxn /\ Goes(s, "closing")
      BY <3>1, EndedIsOK
    <3>2. CASE ~(txn'[s] = NoTxn /\ Goes(s, "closing"))
      <4>1. pc[s] = "lock_room"
        BY <1>2 DEF LockRoom
      <4>2. pc'[s] = AfterRoomLock(txn[s].op)
        BY <1>2, <3>2, LockRoomEffect DEF Goes
      <4> QED BY <1>0, <1>2, <3>2, <4>1, <4>2, LockRoomEffect DEF RequestOK, AfterRoomLock
    <3> QED BY <3>1, <3>2
  <2>2. \E to : Goes(s, to)
    BY <1>2, LockRoomEffect
  <2>3. /\ pc' \in [Sessions -> Steps] /\ txn' \in [Sessions -> Txn]
        /\ \A q \in Sessions : RequestOK(q)'
    BY <2>1, <2>2, RequestsOK
  <2> QED BY <1>2, <2>3 DEF LockRoom, TypeOK, tables
<1>3. CASE CheckPeriod(s) \/ CheckResize(s)
  <2>1. UNCHANGED <<tables, locks, enqueued, faults>> /\ pc[s] = "check"
    BY <1>3 DEF CheckPeriod, CheckResize
  <2>2. CASE GiveUp(s)
    BY <2>1, <2>2, GiveUpEffect, EndedIsOK, OnlyRequestType
  <2>3. CASE Goto(s, "commit") /\ txn' = txn
    <3>1. Goes(s, "commit") /\ txn'[s] = txn[s]
      BY <2>3, GotoEffect DEF Steps
    <3>2. RequestOK(s)'
      BY <1>0, <2>1, <3>1 DEF RequestOK, Goes
    <3> QED BY <2>1, <3>1, <3>2, OnlyRequestType
  <2> QED BY <1>3, <2>2, <2>3 DEF CheckPeriod, CheckResize
<1>4. ASSUME NEW b \in BookingIds, ClaimBooking(s, b) PROVE TypeOK'
  <2>1. Goes(s, "claim") /\ txn'[s].op = txn[s].op /\ pc[s] = "claim"
    BY <1>4, ClaimEffect DEF ClaimBooking
  <2>2. RequestOK(s)'
    BY <1>0, <2>1 DEF RequestOK, Goes
  <2>3. /\ pc' \in [Sessions -> Steps] /\ txn' \in [Sessions -> Txn]
        /\ \A q \in Sessions : RequestOK(q)'
    BY <2>1, <2>2, RequestsOK
  <2> QED BY <1>4, <2>3 DEF ClaimBooking, TypeOK, tables
<1>5. CASE SweepReady(s)
  <2>1. Goes(s, "commit") /\ txn'[s] = txn[s] /\ pc[s] = "claim"
    BY <1>5, GotoEffect DEF SweepReady, Steps
  <2>2. RequestOK(s)'
    BY <1>0, <2>1 DEF RequestOK, Goes
  <2> QED BY <1>5, <2>1, <2>2, OnlyRequestType DEF SweepReady
<1>6. CASE LockUser(s)
  <2>1. RequestOK(s)'
    <3>1. CASE txn'[s] = NoTxn /\ Goes(s, "closing")
      BY <3>1, EndedIsOK
    <3>2. CASE ~(txn'[s] = NoTxn /\ Goes(s, "closing"))
      BY <1>6, <3>2, LockUserEffect DEF RequestOK, Goes
    <3> QED BY <3>1, <3>2
  <2>2. \E to : Goes(s, to)
    BY <1>6, LockUserEffect
  <2>3. /\ pc' \in [Sessions -> Steps] /\ txn' \in [Sessions -> Txn]
        /\ \A q \in Sessions : RequestOK(q)'
    BY <2>1, <2>2, RequestsOK
  <2>4. userLock' \in [Users -> Sessions \cup {None}]
    BY <1>6, LockUserEffect DEF TypeOK
  <2> QED BY <1>6, <2>3, <2>4, LockUserEffect DEF TypeOK, tables
<1> QED BY <1>1, <1>2, <1>3, <1>4, <1>5, <1>6

\* The database ends the transaction of session s with an error.
Aborted(s) == DeadlockVictim(s) \/ CreateFails(s) \/ RefuseDelete(s)

\* A session whose transaction is aborted waited for a lock or committed; it has no
\* locks any more and only has to be closed.
LEMMA AbortEffect ==
  ASSUME TypeOK, NEW s \in Sessions, Aborted(s)
  PROVE  /\ pc[s] \in {"lock_booking", "lock_room", "claim", "lock_user", "history", "commit"}
         /\ Goes(s, "closing") /\ txn'[s] = NoTxn /\ ReleaseLocks(s)
         /\ UNCHANGED <<tables, enqueued, faults>>
<1>1. /\ GiveUp(s) /\ ReleaseLocks(s) /\ UNCHANGED <<tables, enqueued, faults>>
  BY DEF Aborted, DeadlockVictim, CreateFails, RefuseDelete, Abort
<1>2. CASE DeadlockVictim(s)
  <2>1. WaitsFor(s) # {}
    BY <1>2 DEF DeadlockVictim, Deadlocked, WaitInCycles
  <2> QED BY <1>1, <2>1, GiveUpEffect DEF WaitsFor
<1>3. CASE CreateFails(s) \/ RefuseDelete(s)
  BY <1>1, <1>3, GiveUpEffect DEF CreateFails, RefuseDelete
<1> QED BY <1>2, <1>3 DEF Aborted

\* Its end keeps the types ...
LEMMA AbortType ==
  ASSUME TypeOK, NEW s \in Sessions, Aborted(s) PROVE TypeOK'
<1>1. /\ pc' \in [Sessions -> Steps] /\ txn' \in [Sessions -> Txn]
      /\ \A q \in Sessions : RequestOK(q)'
  BY AbortEffect, EndedIsOK, RequestsOK
<1> QED BY <1>1, AbortEffect, ReleaseType DEF TypeOK, tables

\* A row with a new period is a row.
LEMMA MovedType ==
  ASSUME NEW bookings, bookings \in [DOMAIN bookings -> Row],
         NEW b, NEW st \in Time, NEW en \in Time
  PROVE  LET new == [bookings EXCEPT ![b].start = st, ![b].end = en] IN
         DOMAIN new = DOMAIN bookings /\ new \in [DOMAIN bookings -> Row]
<1> DEFINE new == [bookings EXCEPT ![b].start = st, ![b].end = en]
<1>1. ASSUME NEW c \in DOMAIN bookings PROVE new[c] \in Row
  <2>1. bookings[c] \in Row
    OBVIOUS
  <2>2. CASE c = b
    <3>1. new[c] = [[bookings[c] EXCEPT !.start = st] EXCEPT !.end = en]
      BY <2>2
    <3> QED BY <2>1, <3>1 DEF Row
  <2>3. CASE c # b
    BY <2>1, <2>3
  <2> QED BY <2>2, <2>3
<1> QED BY <1>1

\* The commits and the other ends of a request keep the types.
LEMMA EndType ==
  ASSUME TypeOK, NEW s \in Sessions,
         \/ \E b \in BookingIds : CommitCreate(s, b)
         \/ CommitUpdate(s) \/ CommitCancel(s) \/ CommitResize(s) \/ CommitArchive(s)
         \/ CommitDelete(s) \/ CommitComplete(s) \/ Close(s) \/ Crash(s) \/ Enqueue(s)
         \/ EnqueueFails(s)
  PROVE  TypeOK'
<1>0. RequestOK(s) /\ txn[s] \in Txn
  BY DEF TypeOK
<1>a. ASSUME Goto(s, "idle"), txn' = [txn EXCEPT ![s] = NoTxn]
      PROVE  /\ pc' \in [Sessions -> Steps] /\ txn' \in [Sessions -> Txn]
             /\ \A q \in Sessions : RequestOK(q)'
  BY <1>a, EndEffect, EndedIsOK, RequestsOK
<1>b. ASSUME NEW op \in {"create", "cancel"}, NEW b \in BookingIds,
             Goto(s, "enqueue"), txn' = [txn EXCEPT ![s] = Announcing(op, b)]
      PROVE  /\ pc' \in [Sessions -> Steps] /\ txn' \in [Sessions -> Txn]
             /\ \A q \in Sessions : RequestOK(q)'
  <2>1. Goes(s, "enqueue") /\ txn'[s].op = op /\ txn'[s].booking = b
    BY <1>b, AnnounceEffect
  <2>2. RequestOK(s)'
    BY <2>1 DEF RequestOK, Goes
  <2> QED BY <2>1, <2>2, RequestsOK
<1>1. ASSUME NEW b \in BookingIds, CommitCreate(s, b) PROVE TypeOK'
  <2> DEFINE row == [user |-> txn[s].user, room |-> txn[s].room, start |-> txn[s].start,
                     end |-> txn[s].end, status |-> "ACTIVE"]
  <2>1. row \in Row
    BY <1>0, <1>1 DEF CommitCreate, Commit, RequestOK, Row, BookingStatus
  <2>2. booking' = Inserted(booking, b, row)
    BY <1>1 DEF CommitCreate
  <2> HIDE DEF row
  <2>3. DOMAIN booking' \subseteq BookingIds /\ booking' \in [DOMAIN booking' -> Row]
    BY <2>1, <2>2 DEF TypeOK, Inserted
  <2>4. /\ pc' \in [Sessions -> Steps] /\ txn' \in [Sessions -> Txn]
        /\ \A q \in Sessions : RequestOK(q)'
    BY <1>1, <1>b DEF CommitCreate, Commit
  <2> QED BY <1>1, <2>3, <2>4, ReleaseType DEF CommitCreate, Commit, TypeOK
<1>2. CASE CommitUpdate(s)
  <2>1. txn[s].start \in Time /\ txn[s].end \in Time
    BY <1>0, <1>2 DEF CommitUpdate, Commit, RequestOK
  <2>2. DOMAIN booking' \subseteq BookingIds /\ booking' \in [DOMAIN booking' -> Row]
    <3> DEFINE b  == txn[s].booking
               st == txn[s].start
               en == txn[s].end
    <3>1. booking' = [booking EXCEPT ![b].start = st, ![b].end = en]
      BY <1>2 DEF CommitUpdate
    <3>2. /\ DOMAIN booking \subseteq BookingIds /\ booking \in [DOMAIN booking -> Row]
          /\ st \in Time /\ en \in Time
      BY <2>1 DEF TypeOK
    <3> HIDE DEF b, st, en
    <3> DEFINE new == [booking EXCEPT ![b].start = st, ![b].end = en]
    <3>3. DOMAIN new = DOMAIN booking /\ new \in [DOMAIN booking -> Row]
      BY <3>2, MovedType
    <3>4. booking' = new
      BY <3>1
    <3> HIDE DEF new
    <3> QED BY <3>2, <3>3, <3>4
  <2> QED BY <1>2, <1>a, <2>2, ReleaseType DEF CommitUpdate, Commit, TypeOK
<1>3. CASE CommitCancel(s)
  <2>1. DOMAIN booking' \subseteq BookingIds /\ booking' \in [DOMAIN booking' -> Row]
    <3>1. "CANCELLED" \in BookingStatus
      BY DEF BookingStatus
    <3> QED BY <1>3, <3>1, StatusType DEF CommitCancel, TypeOK
  <2>2. /\ pc' \in [Sessions -> Steps] /\ txn' \in [Sessions -> Txn]
        /\ \A q \in Sessions : RequestOK(q)'
    <3>1. txn[s].booking \in BookingIds
      BY <1>0, <1>3 DEF CommitCancel, Commit, RequestOK
    <3> QED BY <1>3, <1>b, <3>1 DEF CommitCancel, Commit
  <2> QED BY <1>3, <2>1, <2>2, ReleaseType DEF CommitCancel, Commit, TypeOK
<1>4. CASE CommitResize(s)
  <2>1. room' \in [DOMAIN room -> Room] /\ DOMAIN room' = DOMAIN room
    BY <1>0, <1>4 DEF CommitResize, TypeOK, Room, Txn
  <2> QED BY <1>4, <1>a, <2>1, ReleaseType DEF CommitResize, Commit, TypeOK
<1>5. CASE CommitArchive(s)
  <2>1. room' \in [DOMAIN room -> Room] /\ DOMAIN room' = DOMAIN room
    BY <1>5 DEF CommitArchive, TypeOK, Room
  <2> QED BY <1>5, <1>a, <2>1, ReleaseType DEF CommitArchive, Commit, TypeOK
<1>6. CASE CommitComplete(s)
  <2>1. DOMAIN booking' \subseteq BookingIds /\ booking' \in [DOMAIN booking' -> Row]
    BY <1>6, StatusType DEF CommitComplete, TypeOK, BookingStatus
  <2> QED BY <1>6, <1>a, <2>1, ReleaseType DEF CommitComplete, Commit, TypeOK
<1>7. CASE Close(s)
  <2>1. Goes(s, "idle") /\ txn'[s] = NoTxn
    BY <1>0, <1>7, GotoEffect DEF Close, RequestOK, Steps
  <2>2. /\ pc' \in [Sessions -> Steps] /\ txn' \in [Sessions -> Txn]
        /\ \A q \in Sessions : RequestOK(q)'
    BY <2>1, EndedIsOK, RequestsOK
  <2> QED BY <1>7, <2>2, ReleaseType DEF Close, TypeOK, tables
<1>8. CASE Crash(s)
  <2>1. faults' \in 0 .. MaxFaults
    BY <1>8, BookingServiceAssumption DEF Crash, TypeOK
  <2> QED BY <1>8, <1>a, <2>1, ReleaseType DEF Crash, TypeOK, tables
<1>9. CASE Enqueue(s)
  <2>1. enqueued' \in [BookingIds -> [creation : Nat, cancellation : Nat]]
    <3> DEFINE b == txn[s].booking
    <3>1. /\ enqueued \in [BookingIds -> [creation : Nat, cancellation : Nat]]
          /\ b \in BookingIds
      BY <1>0, <1>9 DEF Enqueue, RequestOK, TypeOK
    <3>2. \/ enqueued' = [enqueued EXCEPT ![b].creation = @ + 1]
          \/ enqueued' = [enqueued EXCEPT ![b].cancellation = @ + 1]
      BY <1>9 DEF Enqueue
    <3> HIDE DEF b
    <3> QED BY <3>1, <3>2
  <2> QED BY <1>9, <1>a, <2>1 DEF Enqueue, TypeOK, tables, locks
<1>10. CASE EnqueueFails(s)
  <2>1. faults' \in 0 .. MaxFaults
    BY <1>10, BookingServiceAssumption DEF EnqueueFails, TypeOK
  <2> QED BY <1>10, <1>a, <2>1 DEF EnqueueFails, TypeOK, tables, locks
<1>11. CASE CommitDelete(s)
  BY <1>11, <1>a, ReleaseType DEF CommitDelete, Commit, TypeOK
<1> QED BY <1>1, <1>2, <1>3, <1>4, <1>5, <1>6, <1>7, <1>8, <1>9, <1>10, <1>11

\* Time and new rooms keep the types.
LEMMA WorldType ==
  ASSUME TypeOK, Tick \/ \E r \in Rooms, n \in Units : AddRoom(r, n)
  PROVE  TypeOK'
<1>0. UNCHANGED <<booking, users, locks, pc, txn, enqueued, faults>>
  BY DEF Tick, AddRoom
<1>1. \A q \in Sessions : RequestOK(q)'
  BY <1>0 DEF TypeOK, RequestOK
<1>2. CASE Tick
  <2>1. now' \in Time /\ room' = room
    BY <1>2, BookingServiceAssumption DEF Tick, TypeOK, Time
  <2> QED BY <1>0, <1>1, <2>1 DEF TypeOK, locks
<1>3. ASSUME NEW r \in Rooms, NEW n \in Units, AddRoom(r, n) PROVE TypeOK'
  <2> DEFINE row == [units |-> n, active |-> TRUE]
  <2>1. row \in Room
    BY DEF Room
  <2>2. room' = Inserted(room, r, row) /\ now' = now
    BY <1>3 DEF AddRoom
  <2> HIDE DEF row
  <2>3. DOMAIN room' \subseteq Rooms /\ room' \in [DOMAIN room' -> Room]
    BY <2>1, <2>2 DEF TypeOK, Inserted
  <2> QED BY <1>0, <1>1, <2>2, <2>3 DEF TypeOK, locks
<1> QED BY <1>2, <1>3

\* Every step of the service keeps the types.
LEMMA TypeStep == TypeOK /\ [Next]_vars => TypeOK'
<1> SUFFICES ASSUME TypeOK, [Next]_vars PROVE TypeOK'
  OBVIOUS
<1>1. CASE UNCHANGED vars
  BY <1>1 DEF vars, TypeOK, RequestOK
<1>2. CASE Tick \/ \E r \in Rooms, n \in Units : AddRoom(r, n)
  BY <1>2, WorldType
<1>3. ASSUME NEW s \in Sessions, Start(s) \/ Continue(s) \/ Crash(s) \/ EnqueueFails(s)
      PROVE  TypeOK'
  BY <1>3, StartType, LockType, AbortType, EndType DEF Continue, Aborted
<1> QED BY <1>1, <1>2, <1>3 DEF Next

\* Tables, locks, requests and notifications stay well-formed.
THEOREM TypeCorrect == Spec => []TypeOK
<1>1. Init => TypeOK
  BY NoTxnType, BookingServiceAssumption DEF Init, TypeOK, RequestOK, NoTxn, Steps, Time
<1> QED BY <1>1, TypeStep, PTL DEF Spec
-----------------------------------------------------------------------------
\* Only session s takes or drops locks.
OnlyLocksOf(s) ==
  /\ \A r \in Rooms, q \in Sessions \ {s} : roomLock'[r] = q <=> roomLock[r] = q
  /\ \A b \in BookingIds, q \in Sessions \ {s} : bookingLock'[b] = q <=> bookingLock[b] = q
  /\ \A u \in Users, q \in Sessions \ {s} : userLock'[u] = q <=> userLock[u] = q

\* The locks of session s suit the step it is at.
LocksSuit(s) ==
  /\ \A r \in Rooms : roomLock[r] = s =>
       \/ pc[s] = "closing"
       \/ pc[s] \in {"check", "commit"} /\ txn[s].room = r
  /\ \A b \in BookingIds : bookingLock[b] = s =>
       pc[s] \in {"lock_room", "check", "claim", "commit", "closing"}
  /\ \A u \in Users : userLock[u] = s =>
       At(s, {"delete_user"}, {"history", "commit"}) /\ txn[s].user = u

\* LocksHeld, seen from one session.
LEMMA LocksBySession ==
  ASSUME LocksHeld, NEW s \in Sessions PROVE LocksSuit(s) /\ Holds(s)
<1>1. s # None
  BY BookingServiceAssumption
<1> QED BY <1>1 DEF LocksHeld, LocksSuit

\* A step of session s disturbs no other session's locks.
LEMMA OtherLocks ==
  ASSUME TypeOK, LocksHeld, NEW s \in Sessions, OthersStay(s), OnlyLocksOf(s),
         DOMAIN room \subseteq DOMAIN room', NEW q \in Sessions, q # s
  PROVE  LocksSuit(q)' /\ Holds(q)'
<1>1. pc'[q] = pc[q] /\ txn'[q] = txn[q]
  BY DEF OthersStay
<1>2. LocksSuit(q) /\ Holds(q) /\ RequestOK(q) /\ txn[q] \in Txn
  BY LocksBySession DEF TypeOK
<1>3. LocksSuit(q)'
  BY <1>1, <1>2 DEF LocksSuit, OnlyLocksOf, At
<1>4. Holds(q)'
  <2>1. /\ pc[q] \in {"check", "commit"} /\ txn[q].op \notin {"complete", "delete_user"} =>
             txn[q].room \in Rooms
        /\ txn[q].op = "delete_user" => txn[q].user \in Users
    BY <1>2 DEF RequestOK
  <2>2. txn[q].op \in {"update", "cancel"} => txn[q].booking \in BookingIds
    BY <1>2 DEF RequestOK
  <2>3. txn[q].done \subseteq BookingIds
    BY <1>2 DEF Txn
  <2> QED BY <1>1, <1>2, <2>1, <2>2, <2>3 DEF Holds, At, OnlyLocksOf
<1> QED BY <1>3, <1>4

\* So it keeps LocksHeld if the session's own locks suit its next step.
LEMMA LocksFrame ==
  ASSUME TypeOK, TypeOK', LocksHeld, NEW s \in Sessions, OthersStay(s), OnlyLocksOf(s),
         DOMAIN room \subseteq DOMAIN room', LocksSuit(s)', Holds(s)'
  PROVE  LocksHeld'
<1>1. \A q \in Sessions : LocksSuit(q)' /\ Holds(q)'
  BY OtherLocks
<1> QED BY <1>1 DEF LocksHeld, LocksSuit, TypeOK

\* A session that has released its locks has none.
LEMMA ReleaseEffect ==
  ASSUME TypeOK, NEW s \in Sessions, ReleaseLocks(s)
  PROVE  /\ OnlyLocksOf(s)
         /\ \A r \in Rooms : roomLock'[r] # s
         /\ \A b \in BookingIds : bookingLock'[b] # s
         /\ \A u \in Users : userLock'[u] # s
<1>1. /\ DOMAIN roomLock = Rooms /\ DOMAIN bookingLock = BookingIds /\ DOMAIN userLock = Users
      /\ None \notin Sessions
  BY BookingServiceAssumption DEF TypeOK
<1> QED BY <1>1 DEF ReleaseLocks, Freed, OnlyLocksOf

\* After the end of its transaction a session relies on no lock.
LEMMA ReleaseKeepsLocks ==
  ASSUME TypeOK, TypeOK', LocksHeld, NEW s \in Sessions, ReleaseLocks(s),
         OthersStay(s), pc'[s] \in {"idle", "enqueue", "closing"},
         DOMAIN room \subseteq DOMAIN room'
  PROVE  LocksHeld'
<1>1. LocksSuit(s)'
  BY ReleaseEffect DEF LocksSuit
<1>2. Holds(s)'
  BY DEF Holds, At, TypeOK, RequestOK, NoTxn
<1> QED BY <1>1, <1>2, ReleaseEffect, LocksFrame

\* A request that gives up keeps the locks it has until it is closed.
LEMMA GiveUpKeepsLocks ==
  ASSUME TypeOK, TypeOK', LocksHeld, NEW s \in Sessions, Goes(s, "closing"),
         txn'[s] = NoTxn, OnlyLocksOf(s), DOMAIN room \subseteq DOMAIN room',
         \A u \in Users : userLock'[u] # s
  PROVE  LocksHeld'
<1>0. pc'[s] = "closing"
  BY DEF Goes
<1>1. LocksSuit(s)'
  BY <1>0 DEF LocksSuit
<1>2. Holds(s)'
  BY DEF Holds, At, Goes, NoTxn
<1> QED BY <1>1, <1>2, LocksFrame DEF Goes

\* Steps that leave the locks alone leave them to the same sessions.
LEMMA SameLocks ==
  ASSUME NEW s, UNCHANGED locks PROVE OnlyLocksOf(s)
BY DEF OnlyLocksOf, locks

\* A request takes its first lock.
LEMMA StartKeepsLocks ==
  ASSUME TypeOK, TypeOK', LocksHeld, NEW s \in Sessions, Start(s) PROVE LocksHeld'
<1>1. /\ pc[s] = "idle" /\ OthersStay(s) /\ UNCHANGED <<tables, locks>>
      /\ pc'[s] \in {"lock_booking", "lock_room", "claim", "lock_user"}
      /\ pc'[s] = "lock_room" => txn'[s].op \notin {"update", "cancel"}
      /\ txn'[s].done = {}
  <2>1. ASSUME NEW step, NEW request, Begin(s, step, request)
        PROVE  /\ pc[s] = "idle" /\ OthersStay(s) /\ UNCHANGED <<tables, locks>>
               /\ pc'[s] = step /\ txn'[s] = request
    BY <2>1 DEF Begin, Goto, OthersStay, TypeOK
  <2>2. NoTxn \in Txn /\ NoTxn.done = {}
    BY NoTxnType DEF NoTxn
  <2>3. ASSUME NEW u \in Users, NEW r \in Rooms, NEW st \in Time, NEW en \in Time,
               StartCreate(s, u, r, st, en)
        PROVE  pc'[s] = "lock_room" /\ txn'[s].op = "create" /\ txn'[s].done = {}
    BY <2>2, <2>3 DEF StartCreate, Begin, Goto, TypeOK, Txn
  <2>4. ASSUME NEW b \in BookingIds, NEW st \in Time \cup {None}, NEW en \in Time \cup {None},
               StartUpdate(s, b, st, en)
        PROVE  pc'[s] = "lock_booking" /\ txn'[s].done = {}
    BY <2>2, <2>4 DEF StartUpdate, Begin, Goto, TypeOK, Txn
  <2>5. ASSUME NEW b \in BookingIds, NEW u \in Users, NEW staff \in BOOLEAN,
               StartCancel(s, b, u, staff)
        PROVE  pc'[s] = "lock_booking" /\ txn'[s].done = {}
    BY <2>2, <2>5 DEF StartCancel, Begin, Goto, TypeOK, Txn
  <2>6. ASSUME NEW r \in Rooms, NEW n \in Units, StartResize(s, r, n)
        PROVE  pc'[s] = "lock_room" /\ txn'[s].op = "resize" /\ txn'[s].done = {}
    BY <2>2, <2>6 DEF StartResize, Begin, Goto, TypeOK, Txn
  <2>7. ASSUME NEW r \in Rooms, StartArchive(s, r)
        PROVE  pc'[s] = "lock_room" /\ txn'[s].op = "archive" /\ txn'[s].done = {}
    BY <2>2, <2>7 DEF StartArchive, Begin, Goto, TypeOK, Txn
  <2>8. ASSUME StartComplete(s) PROVE pc'[s] = "claim" /\ txn'[s].done = {}
    BY <2>2, <2>8 DEF StartComplete, Begin, Goto, TypeOK, Txn
  <2>a. ASSUME NEW u \in Users, StartDelete(s, u) PROVE pc'[s] = "lock_user" /\ txn'[s].done = {}
    BY <2>2, <2>a DEF StartDelete, Begin, Goto, TypeOK, Txn
  <2>9. \E step, request : Begin(s, step, request)
    BY DEF Start, StartCreate, StartUpdate, StartCancel, StartArchive, StartResize,
           StartDelete, StartComplete
  <2>10. /\ pc'[s] \in {"lock_booking", "lock_room", "claim", "lock_user"}
         /\ pc'[s] = "lock_room" => txn'[s].op \notin {"update", "cancel"}
         /\ txn'[s].done = {}
    BY <2>3, <2>4, <2>5, <2>6, <2>7, <2>8, <2>a DEF Start
  <2> QED BY <2>1, <2>9, <2>10
<1>2. LocksSuit(s)'
  BY <1>1, LocksBySession DEF LocksSuit, At, locks
<1>3. Holds(s)'
  BY <1>1 DEF Holds, At
<1> QED BY <1>1, <1>2, <1>3, SameLocks, LocksFrame DEF tables

\* A booking, room or user row is locked only when it is free.
LEMMA LockKeepsLocks ==
  ASSUME TypeOK, TypeOK', LocksHeld, NEW s \in Sessions,
         LockBooking(s) \/ LockRoom(s) \/ LockUser(s)
  PROVE  LocksHeld'
<1>0. RequestOK(s) /\ txn[s] \in Txn /\ LocksSuit(s) /\ Holds(s) /\ s # None
  BY LocksBySession, BookingServiceAssumption DEF TypeOK
<1>1. CASE LockBooking(s)
  <2> DEFINE b == txn[s].booking
  <2>1. /\ pc[s] = "lock_booking" /\ bookingLock[b] = None /\ roomLock' = roomLock
        /\ userLock' = userLock /\ room' = room
        /\ bookingLock' = IF b \in DOMAIN booking THEN [bookingLock EXCEPT ![b] = s]
                                                  ELSE bookingLock
    BY <1>1 DEF LockBooking, BookingFree, tables
  <2>2. b \in BookingIds /\ txn[s].op \in {"update", "cancel"}
    BY <1>0, <2>1 DEF RequestOK
  <2>3. OnlyLocksOf(s)
    <3>1. \A q \in Sessions : q # None
      BY BookingServiceAssumption
    <3> QED BY <2>1, <3>1 DEF OnlyLocksOf, TypeOK
  <2>a. \A u \in Users : userLock'[u] # s
    BY <1>0, <2>1 DEF LocksSuit, At
  <2>4. CASE Goes(s, "closing") /\ txn'[s] = NoTxn
    BY <2>1, <2>3, <2>4, <2>a, GiveUpKeepsLocks
  <2>5. CASE ~(Goes(s, "closing") /\ txn'[s] = NoTxn)
    <3>1. /\ Goes(s, "lock_room") /\ b \in DOMAIN booking
          /\ txn'[s].op = txn[s].op /\ txn'[s].booking = b
      BY <1>1, <2>5, LockBookingEffect DEF BookingAccepted
    <3>2. pc'[s] = "lock_room" /\ OthersStay(s)
      BY <3>1 DEF Goes
    <3>3. LocksSuit(s)'
      BY <1>0, <2>1, <2>a, <3>2 DEF LocksSuit
    <3>4. Holds(s)'
      BY <2>1, <2>2, <3>1, <3>2 DEF Holds, At, TypeOK
    <3> QED BY <2>1, <2>3, <3>2, <3>3, <3>4, LocksFrame
  <2> QED BY <2>4, <2>5
<1>2. CASE LockRoom(s)
  <2> DEFINE r == txn[s].room
             op == txn[s].op
  <2>1. /\ pc[s] = "lock_room" /\ roomLock[r] = None /\ bookingLock' = bookingLock
        /\ userLock' = userLock /\ room' = room
        /\ roomLock' = IF r \in DOMAIN room THEN [roomLock EXCEPT ![r] = s] ELSE roomLock
    BY <1>2 DEF LockRoom, RoomFree, tables
  <2>2. r \in Rooms /\ op \in {"create", "update", "cancel", "resize", "archive"}
    BY <1>0, <2>1 DEF RequestOK
  <2>3. OnlyLocksOf(s)
    <3>1. \A q \in Sessions : q # None
      BY BookingServiceAssumption
    <3> QED BY <2>1, <3>1 DEF OnlyLocksOf, TypeOK
  <2>a. \A u \in Users : userLock'[u] # s
    BY <1>0, <2>1 DEF LocksSuit, At
  <2>4. CASE Goes(s, "closing") /\ txn'[s] = NoTxn
    BY <2>1, <2>3, <2>4, <2>a, GiveUpKeepsLocks
  <2>5. CASE ~(Goes(s, "closing") /\ txn'[s] = NoTxn)
    <3>1. /\ Goes(s, AfterRoomLock(op)) /\ r \in DOMAIN room
          /\ txn'[s].op = op /\ txn'[s].booking = txn[s].booking /\ txn'[s].room = r
      BY <1>2, <2>5, LockRoomEffect DEF RoomAccepted
    <3>2. pc'[s] \in {"check", "commit"} /\ OthersStay(s)
      BY <3>1 DEF Goes, AfterRoomLock
    <3>3. LocksSuit(s)'
      BY <1>0, <2>1, <2>a, <3>1, <3>2 DEF LocksSuit, TypeOK
    <3>4. Holds(s)'
      BY <1>0, <2>1, <2>2, <3>1, <3>2 DEF Holds, At, TypeOK
    <3> QED BY <2>1, <2>3, <3>2, <3>3, <3>4, LocksFrame
  <2> QED BY <2>4, <2>5
<1>3. CASE LockUser(s)
  <2> DEFINE u == txn[s].user
  <2>1. /\ pc[s] = "lock_user" /\ u \in Users /\ userLock[u] = None /\ room' = room
        /\ roomLock' = roomLock /\ bookingLock' = bookingLock
    BY <1>3, LockUserEffect DEF tables
  <2>2. /\ \A v \in Users : userLock[v] # s
        /\ \A r \in Rooms : roomLock'[r] # s
        /\ \A b \in BookingIds : bookingLock'[b] # s
    BY <1>0, <2>1 DEF LocksSuit, At
  <2>3. CASE Goes(s, "closing") /\ txn'[s] = NoTxn /\ userLock' = userLock
    <3>1. OnlyLocksOf(s)
      BY <2>1, <2>3 DEF OnlyLocksOf
    <3> QED BY <2>1, <2>2, <2>3, <3>1, GiveUpKeepsLocks
  <2>4. CASE ~(Goes(s, "closing") /\ txn'[s] = NoTxn /\ userLock' = userLock)
    <3>1. /\ userLock' = [userLock EXCEPT ![u] = s]
          /\ txn'[s].op = "delete_user" /\ txn'[s].user = u
          /\ pc'[s] \in {"commit", "history"} /\ OthersStay(s)
      BY <1>3, <2>4, LockUserEffect DEF Goes
    <3>2. OnlyLocksOf(s)
      <4>1. \A q \in Sessions : q # None
        BY BookingServiceAssumption
      <4> QED BY <2>1, <3>1, <4>1 DEF OnlyLocksOf, TypeOK
    <3>3. LocksSuit(s)'
      BY <2>1, <2>2, <3>1 DEF LocksSuit, At, TypeOK
    <3>4. Holds(s)'
      BY <2>1, <3>1 DEF Holds, At, TypeOK
    <3> QED BY <2>1, <3>1, <3>2, <3>3, <3>4, LocksFrame
  <2> QED BY <2>3, <2>4
<1> QED BY <1>1, <1>2, <1>3

\* A check passes with the locks held, or gives up and keeps them until it closes.
LEMMA CheckKeepsLocks ==
  ASSUME TypeOK, TypeOK', LocksHeld, NEW s \in Sessions, CheckPeriod(s) \/ CheckResize(s)
  PROVE  LocksHeld'
<1>0. LocksSuit(s) /\ Holds(s)
  BY LocksBySession
<1>1. /\ pc[s] = "check" /\ UNCHANGED <<tables, locks>> /\ OnlyLocksOf(s)
      /\ txn[s].op \notin {"complete", "delete_user"}
  BY SameLocks DEF CheckPeriod, CheckResize
<1>2. CASE GiveUp(s)
  <2>1. \A u \in Users : userLock'[u] # s
    BY <1>0, <1>1 DEF LocksSuit, At, locks
  <2> QED BY <1>1, <1>2, <2>1, GiveUpEffect, GiveUpKeepsLocks DEF tables
<1>3. CASE Goto(s, "commit") /\ txn' = txn
  <2>1. pc'[s] = "commit" /\ txn'[s] = txn[s] /\ OthersStay(s)
    BY <1>3, GotoEffect DEF Goes, Steps
  <2>2. LocksSuit(s)' /\ Holds(s)'
    BY <1>0, <1>1, <2>1 DEF LocksSuit, Holds, At, locks, tables
  <2> QED BY <1>1, <2>1, <2>2, LocksFrame DEF tables
<1> QED BY <1>2, <1>3 DEF CheckPeriod, CheckResize

\* An aborted transaction leaves no locks behind.
LEMMA AbortKeepsLocks ==
  ASSUME TypeOK, TypeOK', LocksHeld, NEW s \in Sessions, Aborted(s)
  PROVE  LocksHeld'
BY AbortEffect, ReleaseKeepsLocks DEF Goes, tables

\* The sweep locks free rows only and keeps the lock of every row it looked at.
LEMMA SweepKeepsLocks ==
  ASSUME TypeOK, TypeOK', LocksHeld, NEW s \in Sessions,
         SweepReady(s) \/ \E b \in BookingIds : ClaimBooking(s, b)
  PROVE  LocksHeld'
<1>0. RequestOK(s) /\ LocksSuit(s) /\ Holds(s) /\ txn[s].done \subseteq BookingIds
  BY LocksBySession DEF TypeOK, Txn
<1>1. ASSUME NEW b \in BookingIds, ClaimBooking(s, b) PROVE LocksHeld'
  <2>1. /\ pc[s] = "claim" /\ bookingLock[b] = None
        /\ UNCHANGED <<tables, roomLock, userLock>>
        /\ bookingLock' = [bookingLock EXCEPT ![b] = s]
    BY <1>1 DEF ClaimBooking, BookingFree
  <2>2. /\ Goes(s, "claim") /\ txn'[s].op = "complete"
        /\ txn'[s].done \subseteq txn[s].done \cup {b}
    BY <1>0, <1>1, <2>1, ClaimEffect DEF RequestOK
  <2>3. pc'[s] = "claim" /\ OthersStay(s)
    BY <2>2 DEF Goes
  <2>4. OnlyLocksOf(s)
    <3>1. \A q \in Sessions : q # None
      BY BookingServiceAssumption
    <3> QED BY <2>1, <3>1 DEF OnlyLocksOf, TypeOK
  <2>5. LocksSuit(s)'
    BY <1>0, <2>1, <2>3 DEF LocksSuit, At
  <2>6. Holds(s)'
    BY <1>0, <2>1, <2>2, <2>3 DEF Holds, At, TypeOK, RequestOK
  <2> QED BY <2>1, <2>3, <2>4, <2>5, <2>6, LocksFrame DEF tables
<1>2. CASE SweepReady(s)
  <2>1. /\ pc[s] = "claim" /\ pc'[s] = "commit" /\ txn'[s] = txn[s] /\ OthersStay(s)
        /\ UNCHANGED <<tables, locks>>
    BY <1>2, GotoEffect DEF SweepReady, Steps, Goes
  <2>2. LocksSuit(s)'
    BY <1>0, <2>1 DEF LocksSuit, At, locks
  <2>3. Holds(s)'
    BY <1>0, <2>1 DEF Holds, At, RequestOK, locks
  <2> QED BY <2>1, <2>2, <2>3, SameLocks, LocksFrame DEF tables
<1> QED BY <1>1, <1>2

\* A commit, a rollback or a crash frees the locks of its own session.
LEMMA EndKeepsLocks ==
  ASSUME TypeOK, TypeOK', LocksHeld, NEW s \in Sessions,
         \/ \E b \in BookingIds : CommitCreate(s, b)
         \/ CommitUpdate(s) \/ CommitCancel(s) \/ CommitResize(s) \/ CommitArchive(s)
         \/ CommitDelete(s) \/ CommitComplete(s) \/ Close(s) \/ Crash(s)
  PROVE  LocksHeld'
<1>1. /\ ReleaseLocks(s) /\ OthersStay(s) /\ pc'[s] \in {"idle", "enqueue"}
  BY DEF CommitCreate, CommitUpdate, CommitCancel, CommitResize, CommitArchive,
         CommitDelete, CommitComplete, Commit, Close, Crash, Goto, OthersStay, TypeOK
<1>2. DOMAIN room \subseteq DOMAIN room'
  BY DEF CommitCreate, CommitUpdate, CommitCancel, CommitResize, CommitArchive,
         CommitDelete, CommitComplete, Close, Crash, tables
<1> QED BY <1>1, <1>2, ReleaseKeepsLocks

\* The call to the broker holds no row.
LEMMA EnqueueKeepsLocks ==
  ASSUME TypeOK, TypeOK', LocksHeld, NEW s \in Sessions, Enqueue(s) \/ EnqueueFails(s)
  PROVE  LocksHeld'
<1>1. /\ pc[s] = "enqueue" /\ OthersStay(s) /\ pc'[s] = "idle" /\ txn'[s] = NoTxn
      /\ UNCHANGED <<tables, locks>>
  BY DEF Enqueue, EnqueueFails, Goto, OthersStay, TypeOK
<1>2. LocksSuit(s)'
  BY <1>1, LocksBySession DEF LocksSuit, At, locks
<1>3. Holds(s)'
  BY <1>1 DEF Holds, At, NoTxn
<1> QED BY <1>1, <1>2, <1>3, SameLocks, LocksFrame DEF tables

\* The locks always are where the steps of their holders need them.
LEMMA LocksStep == TypeOK /\ TypeOK' /\ LocksHeld /\ [Next]_vars => LocksHeld'
<1> SUFFICES ASSUME TypeOK, TypeOK', LocksHeld, [Next]_vars PROVE LocksHeld'
  OBVIOUS
<1>1. CASE UNCHANGED vars
  BY <1>1 DEF vars, LocksHeld, Holds, At
<1>2. CASE Tick
  BY <1>2 DEF Tick, locks, LocksHeld, Holds, At
<1>3. ASSUME NEW r \in Rooms, NEW n \in Units, AddRoom(r, n) PROVE LocksHeld'
  <2>1. DOMAIN room \subseteq DOMAIN room'
    BY <1>3 DEF AddRoom, Inserted
  <2>2. UNCHANGED <<locks, pc, txn>>
    BY <1>3 DEF AddRoom
  <2>3. ASSUME NEW q \in Sessions PROVE Holds(q)'
    BY <2>1, <2>2 DEF locks, LocksHeld, Holds, At
  <2> QED BY <2>2, <2>3 DEF locks, LocksHeld, At
<1>4. ASSUME NEW s \in Sessions, Start(s) \/ Continue(s) \/ Crash(s) \/ EnqueueFails(s)
      PROVE  LocksHeld'
  BY <1>4, StartKeepsLocks, LockKeepsLocks, CheckKeepsLocks, SweepKeepsLocks,
     AbortKeepsLocks, EndKeepsLocks, EnqueueKeepsLocks DEF Continue, Aborted
<1> QED BY <1>1, <1>2, <1>3, <1>4 DEF Next

\* Every request past a lock holds it, and no lock is left behind.
THEOREM LocksAreHeld == Spec => []LocksHeld
<1>1. Init => LocksHeld
  BY DEF Init, LocksHeld, Holds, At, NoTxn
<1>2. Spec => []TypeOK
  BY TypeCorrect
<1> QED BY <1>1, <1>2, LocksStep, PTL DEF Spec

\* While no deletion of a user takes part, only sweeps are on waiting cycles: a create
\* that commits waits for a deletion only, so who waits for a room waits for somebody
\* who does not wait, and who waits for his booking holds nothing yet.
THEOREM DeadlocksExplained == Spec => []DeadlocksNeedSweepOrDeletion
<1>1. TypeOK /\ LocksHeld => DeadlocksNeedSweepOrDeletion
  <2> SUFFICES ASSUME TypeOK, LocksHeld, NEW W \in SUBSET Sessions, NEW next \in [W -> W],
                      WaitInCycles(W, next), \A p \in W : txn[p].op # "delete_user",
                      NEW s \in W
               PROVE  txn[s].op = "complete"
    BY DEF DeadlocksNeedSweepOrDeletion
  <2>1. W = {next[p] : p \in W} /\ \A p \in W : next[p] \in WaitsFor(p)
    BY DEF WaitInCycles
  <2>2. ASSUME NEW p \in W
        PROVE  /\ p \in Sessions /\ RequestOK(p) /\ LocksSuit(p)
               /\ next[p] \in W /\ next[p] \in WaitsFor(p)
    BY <2>1, LocksBySession DEF TypeOK
  <2>3. \A p \in W : \A u \in Users : userLock[u] # p
    BY <2>2 DEF LocksSuit, At
  <2>4. \A p \in W : pc[p] \in {"lock_booking", "lock_room", "claim"}
    <3> SUFFICES ASSUME NEW p \in W PROVE pc[p] \in {"lock_booking", "lock_room", "claim"}
      OBVIOUS
    <3>1. pc[p] \notin {"lock_user", "history"}
      BY <2>2 DEF RequestOK
    <3>2. ~(pc[p] = "commit" /\ txn[p].op = "create")
      <4>1. pc[p] = "commit" /\ txn[p].op = "create" => txn[p].user \in Users
        BY <2>2 DEF RequestOK
      <4> QED BY <2>2, <2>3, <4>1 DEF WaitsFor
    <3> QED BY <2>2, <3>1, <3>2 DEF WaitsFor
  <2>5. pc[s] # "lock_booking"
    <3>1. PICK p \in W : next[p] = s
      BY <2>1
    <3>2. (\E r \in Rooms : roomLock[r] = s) \/ (\E b \in BookingIds : bookingLock[b] = s)
      <4>1. txn[p] \in Txn /\ RequestOK(p) /\ s \in WaitsFor(p) /\ p \in W
        BY <2>2, <3>1 DEF TypeOK
      <4> QED BY <2>4, <4>1 DEF WaitsFor, RequestOK, Txn
    <3> QED BY <2>2, <3>2 DEF LocksSuit
  <2>6. pc[s] # "lock_room"
    <3> SUFFICES ASSUME pc[s] = "lock_room" PROVE FALSE
      OBVIOUS
    <3>1. txn[s].op \in {"create", "update", "cancel", "resize", "archive"}
      BY <2>2 DEF RequestOK
    <3>2. txn[s].room \in Rooms /\ roomLock[txn[s].room] = next[s]
      BY <2>2, <3>1 DEF WaitsFor, RequestOK
    <3>3. pc[next[s]] \in {"closing", "check", "commit"}
      BY <2>2, <3>2 DEF LocksSuit
    <3> QED BY <2>2, <2>4, <3>3
  <2>7. pc[s] = "claim"
    BY <2>4, <2>5, <2>6
  <2> QED BY <2>2, <2>7 DEF RequestOK
<1>2. Spec => []TypeOK
  BY TypeCorrect
<1>3. Spec => []LocksHeld
  BY LocksAreHeld
<1> QED BY <1>1, <1>2, <1>3, PTL
-----------------------------------------------------------------------------
\* What LoadedIsCurrent says of one session.
Current(s) == /\ RoomIsCurrent(s) /\ BookingIsCurrent(s) /\ PeriodIsCurrent(s)
              /\ ResizeIsCurrent(s) /\ HistoryIsCurrent(s) /\ SweepIsCurrent(s)

\* What the steps of the others must not do to session q: change a row it has
\* locked, put a new stay into a room it has locked, give a user it has locked a
\* booking, or turn the clock back.
Undisturbed(q) ==
  /\ now' >= now
  /\ DOMAIN room \subseteq DOMAIN room' /\ DOMAIN booking \subseteq DOMAIN booking'
  /\ \A r \in DOMAIN room : roomLock[r] = q => room'[r] = room[r]
  /\ \A b \in DOMAIN booking : bookingLock[b] = q => booking'[b] = booking[b]
  /\ \A r \in DOMAIN room : roomLock[r] = q =>
       \A b \in DOMAIN booking' : Blocks(booking'[b], r) =>
         /\ b \in DOMAIN booking /\ Blocks(booking[b], r)
         /\ booking'[b].start = booking[b].start /\ booking'[b].end = booking[b].end
  /\ \A u \in Users : userLock[u] = q =>
       \A b \in DOMAIN booking' : booking'[b].user = u =>
         b \in DOMAIN booking /\ booking[b].user = u

\* The facts about numbers and finiteness that TypeOK gives.
LEMMA Numbers ==
  ASSUME TypeOK
  PROVE  /\ now \in Int /\ IsFiniteSet(DOMAIN booking)
         /\ \A b \in DOMAIN booking : booking[b].start \in Int /\ booking[b].end \in Int
         /\ \A r \in DOMAIN room : room[r].units \in Int
         /\ \A s \in Sessions : txn[s].units \in Int /\ txn[s].time \in Int
<1>1. IsFiniteSet(DOMAIN booking)
  BY BookingServiceAssumption, FS_Subset DEF TypeOK
<1> QED BY <1>1 DEF TypeOK, Row, Room, Txn, Time, Units

\* What an undisturbed session has read stays current.
LEMMA UndisturbedIsCurrent ==
  ASSUME TypeOK, TypeOK', LocksHeld, NEW q \in Sessions, Current(q), Undisturbed(q),
         pc'[q] = pc[q], txn'[q] = txn[q]
  PROVE  Current(q)'
<1> DEFINE t == txn[q]
<1>0. Holds(q) /\ RequestOK(q) /\ t \in Txn
  BY LocksBySession DEF TypeOK
<1>1. RoomIsCurrent(q)'
  BY <1>0 DEF Current, RoomIsCurrent, Undisturbed, Holds, At
<1>2. BookingIsCurrent(q)'
  BY <1>0 DEF Current, BookingIsCurrent, Undisturbed, Holds, At
<1>3. PeriodIsCurrent(q)'
  <2> SUFFICES ASSUME At(q, {"create", "update"}, {"commit"})
               PROVE  /\ t.start < t.end
                      /\ RoomAvailable(booking', t.room, t.units, t.start, t.end, OwnRow(q))
    BY DEF PeriodIsCurrent, At, OwnRow
  <2>1. /\ t.start < t.end
        /\ RoomAvailable(booking, t.room, t.units, t.start, t.end, OwnRow(q))
    BY DEF Current, PeriodIsCurrent
  <2>2. t.room \in DOMAIN room /\ roomLock[t.room] = q
    BY <1>0 DEF Holds, At
  <2>3. \A b \in DOMAIN booking' : Blocks(booking'[b], t.room) =>
          /\ b \in DOMAIN booking /\ Blocks(booking[b], t.room)
          /\ booking'[b].start = booking[b].start /\ booking'[b].end = booking[b].end
    BY <2>2 DEF Undisturbed
  <2>4. t.units \in Int /\ IsFiniteSet(DOMAIN booking)
    BY Numbers
  <2> QED BY <2>1, <2>3, <2>4, StillAvailable
<1>4. ResizeIsCurrent(q)'
  <2> SUFFICES ASSUME At(q, {"resize"}, {"commit"}), t.units < room'[t.room].units,
                      HasUnfinishedBooking(booking', t.room, now')
               PROVE  FALSE
    BY DEF ResizeIsCurrent, At, ShrinkRefused
  <2>1. t.room \in DOMAIN room /\ roomLock[t.room] = q
    BY <1>0 DEF Holds, At
  <2>2. room'[t.room] = room[t.room]
    BY <2>1 DEF Undisturbed
  <2>3. PICK b \in DOMAIN booking' : Blocks(booking'[b], t.room) /\ booking'[b].end > now'
    BY DEF HasUnfinishedBooking
  <2>4. b \in DOMAIN booking /\ Blocks(booking[b], t.room) /\ booking'[b].end = booking[b].end
    BY <2>1, <2>3 DEF Undisturbed
  <2>5. booking[b].end > now
    <3>1. now' \in Int /\ now' >= now
      BY DEF Undisturbed, TypeOK, Time
    <3> QED BY <2>3, <2>4, <3>1, Numbers
  <2>6. HasUnfinishedBooking(booking, t.room, now)
    BY <2>4, <2>5 DEF HasUnfinishedBooking
  <2> QED BY <2>2, <2>6 DEF Current, ResizeIsCurrent, ShrinkRefused
<1>5. SweepIsCurrent(q)'
  <2> SUFFICES ASSUME t.op = "complete"
               PROVE  /\ t.time <= now'
                      /\ t.todo \subseteq DOMAIN booking' /\ t.done \subseteq DOMAIN booking'
                      /\ \A b \in t.done : Finished(booking'[b], t.time)
    BY DEF SweepIsCurrent
  <2>1. /\ t.time <= now
        /\ t.todo \subseteq DOMAIN booking /\ t.done \subseteq DOMAIN booking
        /\ \A b \in t.done : Finished(booking[b], t.time)
    BY DEF Current, SweepIsCurrent
  <2>2. \A b \in t.done : booking'[b] = booking[b]
    BY <1>0, <2>1 DEF Undisturbed, Holds
  <2>3. t.time <= now'
    <3>1. now' \in Int /\ now' >= now
      BY DEF Undisturbed, TypeOK, Time
    <3> QED BY <2>1, <3>1, Numbers
  <2> QED BY <2>1, <2>2, <2>3 DEF Undisturbed
<1>6. HistoryIsCurrent(q)'
  <2>1. At(q, {"delete_user"}, {"commit"}) => t.user \in Users /\ userLock[t.user] = q
    BY <1>0 DEF RequestOK, Holds, At
  <2> QED BY <2>1 DEF Current, HistoryIsCurrent, HistoryOf, Undisturbed, At
<1> QED BY <1>1, <1>2, <1>3, <1>4, <1>5, <1>6 DEF Current

\* Nobody is disturbed while the tables stay as they are.
LEMMA SameTables ==
  ASSUME TypeOK, UNCHANGED tables, NEW q PROVE Undisturbed(q)
BY DEF Undisturbed, tables, TypeOK, Time

\* A session that is at rest or has given up relies on nothing it has read.
LEMMA RestingIsCurrent ==
  ASSUME NEW s \in Sessions, pc'[s] \in {"idle", "closing", "enqueue", "lock_booking"},
         txn'[s].op # "complete"
  PROVE  Current(s)'
BY DEF Current, RoomIsCurrent, BookingIsCurrent, PeriodIsCurrent, ResizeIsCurrent,
       HistoryIsCurrent, SweepIsCurrent, At

\* A step of session s keeps LoadedIsCurrent if it disturbs nobody else.
LEMMA CurrentFrame ==
  ASSUME TypeOK, TypeOK', LocksHeld, LoadedIsCurrent, NEW s \in Sessions, OthersStay(s),
         \A q \in Sessions \ {s} : Undisturbed(q), Current(s)'
  PROVE  LoadedIsCurrent'
<1> SUFFICES ASSUME NEW q \in Sessions PROVE Current(q)'
  BY DEF LoadedIsCurrent, Current
<1>1. CASE q = s
  BY <1>1
<1>2. CASE q # s
  <2>1. Current(q)
    BY DEF LoadedIsCurrent, Current
  <2>2. pc'[q] = pc[q] /\ txn'[q] = txn[q] /\ Undisturbed(q)
    BY <1>2 DEF OthersStay
  <2> QED BY <2>1, <2>2, UndisturbedIsCurrent
<1> QED BY <1>1, <1>2

\* A request begins with nothing read, a sweep with the rows its UPDATE selects.
LEMMA StartIsCurrent ==
  ASSUME TypeOK, TypeOK', LocksHeld, LoadedIsCurrent, NEW s \in Sessions, Start(s)
  PROVE  LoadedIsCurrent'
<1>1. UNCHANGED tables /\ OthersStay(s)
  BY DEF Start, StartCreate, StartUpdate, StartCancel, StartArchive, StartResize,
         StartDelete, StartComplete, Begin, Goto, OthersStay, TypeOK
<1>2. \A q \in Sessions \ {s} : Undisturbed(q)
  BY <1>1, SameTables
<1>3. CASE StartComplete(s)
  <2> DEFINE over == {b \in DOMAIN booking : Finished(booking[b], now)}
  <2>1. /\ pc'[s] = "claim"
        /\ txn'[s] = [NoTxn EXCEPT !.op = "complete", !.time = now, !.todo = over]
    BY <1>3 DEF StartComplete, Begin, Goto, TypeOK
  <2>2. NoTxn \in Txn /\ NoTxn.done = {} /\ now \in Int
    BY NoTxnType, Numbers DEF NoTxn
  <2>3. over \subseteq DOMAIN booking
    OBVIOUS
  <2> HIDE DEF over
  <2>4. txn'[s].op = "complete" /\ txn'[s].time = now /\ txn'[s].todo = over /\ txn'[s].done = {}
    BY <2>1, <2>2 DEF Txn
  <2>5. SweepIsCurrent(s)'
    BY <1>1, <2>2, <2>3, <2>4 DEF SweepIsCurrent, tables
  <2>6. Current(s)'
    BY <2>1, <2>5 DEF Current, RoomIsCurrent, BookingIsCurrent, PeriodIsCurrent,
                      ResizeIsCurrent, HistoryIsCurrent, At
  <2> QED BY <1>1, <1>2, <2>6, CurrentFrame
<1>4. CASE ~StartComplete(s)
  <2>1. \/ pc'[s] = "lock_booking" /\ txn'[s].op \in {"update", "cancel"}
        \/ pc'[s] = "lock_room" /\ txn'[s].op \in {"create", "resize", "archive"}
        \/ pc'[s] = "lock_user" /\ txn'[s].op = "delete_user"
    <3>1. NoTxn \in Txn
      BY NoTxnType
    <3>2. ASSUME NEW u \in Users, NEW r \in Rooms, NEW st \in Time, NEW en \in Time,
                 StartCreate(s, u, r, st, en)
          PROVE  pc'[s] = "lock_room" /\ txn'[s].op = "create"
      BY <3>1, <3>2 DEF StartCreate, Begin, Goto, TypeOK, Txn
    <3>3. ASSUME NEW b \in BookingIds, NEW st \in Time \cup {None},
                 NEW en \in Time \cup {None}, StartUpdate(s, b, st, en)
          PROVE  pc'[s] = "lock_booking" /\ txn'[s].op = "update"
      BY <3>1, <3>3 DEF StartUpdate, Begin, Goto, TypeOK, Txn
    <3>4. ASSUME NEW b \in BookingIds, NEW u \in Users, NEW staff \in BOOLEAN,
                 StartCancel(s, b, u, staff)
          PROVE  pc'[s] = "lock_booking" /\ txn'[s].op = "cancel"
      BY <3>1, <3>4 DEF StartCancel, Begin, Goto, TypeOK, Txn
    <3>5. ASSUME NEW r \in Rooms, NEW n \in Units, StartResize(s, r, n)
          PROVE  pc'[s] = "lock_room" /\ txn'[s].op = "resize"
      BY <3>1, <3>5 DEF StartResize, Begin, Goto, TypeOK, Txn
    <3>6. ASSUME NEW r \in Rooms, StartArchive(s, r)
          PROVE  pc'[s] = "lock_room" /\ txn'[s].op = "archive"
      BY <3>1, <3>6 DEF StartArchive, Begin, Goto, TypeOK, Txn
    <3>7. ASSUME NEW u \in Users, StartDelete(s, u)
          PROVE  pc'[s] = "lock_user" /\ txn'[s].op = "delete_user"
      BY <3>1, <3>7 DEF StartDelete, Begin, Goto, TypeOK, Txn
    <3> QED BY <1>4, <3>2, <3>3, <3>4, <3>5, <3>6, <3>7 DEF Start
  <2>2. Current(s)'
    BY <2>1 DEF Current, RoomIsCurrent, BookingIsCurrent, PeriodIsCurrent, ResizeIsCurrent,
                HistoryIsCurrent, SweepIsCurrent, At
  <2> QED BY <1>1, <1>2, <2>2, CurrentFrame
<1> QED BY <1>3, <1>4

\* What a request reads when it is granted a lock is current.
LEMMA LockIsCurrent ==
  ASSUME TypeOK, TypeOK', LocksHeld, LoadedIsCurrent, NEW s \in Sessions,
         LockBooking(s) \/ LockRoom(s) \/ LockUser(s)
  PROVE  LoadedIsCurrent'
<1>0. RequestOK(s) /\ Current(s)
  BY DEF TypeOK, LoadedIsCurrent, Current
<1>1. UNCHANGED tables
  BY DEF LockBooking, LockRoom, LockUser
<1>2. \A q \in Sessions \ {s} : Undisturbed(q)
  BY <1>1, SameTables
<1>3. CASE Goes(s, "closing") /\ txn'[s] = NoTxn
  <2>1. OthersStay(s) /\ Current(s)'
    BY <1>3, RestingIsCurrent DEF Goes, NoTxn
  <2> QED BY <1>2, <2>1, CurrentFrame
<1>4. CASE LockBooking(s) /\ ~(Goes(s, "closing") /\ txn'[s] = NoTxn)
  <2> DEFINE b == txn[s].booking
  <2>1. pc[s] = "lock_booking" /\ txn[s].op \in {"update", "cancel"}
    BY <1>0, <1>4 DEF LockBooking, RequestOK
  <2>2. /\ OthersStay(s) /\ pc'[s] = "lock_room"
        /\ b \in DOMAIN booking /\ booking[b].status = "ACTIVE"
        /\ txn'[s].op = txn[s].op /\ txn'[s].booking = b /\ txn'[s].room = booking[b].room
    BY <1>4, LockBookingEffect DEF Goes, BookingAccepted
  <2>3. Current(s)'
    BY <1>1, <2>1, <2>2 DEF Current, RoomIsCurrent, BookingIsCurrent, PeriodIsCurrent,
                            ResizeIsCurrent, HistoryIsCurrent, SweepIsCurrent, At, tables
  <2> QED BY <1>2, <2>2, <2>3, CurrentFrame
<1>5. CASE LockRoom(s) /\ ~(Goes(s, "closing") /\ txn'[s] = NoTxn)
  <2> DEFINE r == txn[s].room
             op == txn[s].op
  <2>1. pc[s] = "lock_room" /\ op \in {"create", "update", "cancel", "resize", "archive"}
    BY <1>0, <1>5 DEF LockRoom, RequestOK
  <2>2. /\ OthersStay(s) /\ pc'[s] = AfterRoomLock(op) /\ RoomAccepted(s, r)
        /\ txn'[s].op = op /\ txn'[s].booking = txn[s].booking /\ txn'[s].room = r
        /\ txn'[s].units = IF op \in {"create", "update"} THEN room[r].units
                                                         ELSE txn[s].units
    BY <1>5, LockRoomEffect DEF Goes
  <2>3. pc'[s] = "commit" => op \in {"cancel", "archive"}
    BY <2>1, <2>2 DEF AfterRoomLock
  <2>4. RoomIsCurrent(s)'
    BY <1>1, <2>2 DEF RoomIsCurrent, RoomAccepted, At, tables
  <2>5. BookingIsCurrent(s)'
    BY <1>0, <1>1, <2>1, <2>2 DEF Current, BookingIsCurrent, At, tables
  <2>6. /\ PeriodIsCurrent(s)' /\ ResizeIsCurrent(s)' /\ HistoryIsCurrent(s)'
        /\ SweepIsCurrent(s)'
    BY <2>1, <2>2, <2>3 DEF PeriodIsCurrent, ResizeIsCurrent, HistoryIsCurrent,
                            SweepIsCurrent, At
  <2> QED BY <1>2, <2>2, <2>4, <2>5, <2>6, CurrentFrame DEF Current
<1>6. CASE LockUser(s) /\ ~(Goes(s, "closing") /\ txn'[s] = NoTxn)
  <2>1. /\ OthersStay(s) /\ txn'[s].op = "delete_user" /\ txn'[s].user = txn[s].user
        /\ pc'[s] = "commit" => HistoryOf(txn[s].user) = {}
    BY <1>6, LockUserEffect DEF Goes
  <2>2. Current(s)'
    BY <1>1, <2>1 DEF Current, RoomIsCurrent, BookingIsCurrent, PeriodIsCurrent,
                      ResizeIsCurrent, HistoryIsCurrent, HistoryOf, SweepIsCurrent, At, tables
  <2> QED BY <1>2, <2>1, <2>2, CurrentFrame
<1> QED BY <1>3, <1>4, <1>5, <1>6

\* What a check finds is current until the commit.
LEMMA CheckIsCurrent ==
  ASSUME TypeOK, TypeOK', LocksHeld, LoadedIsCurrent, NEW s \in Sessions,
         CheckPeriod(s) \/ CheckResize(s)
  PROVE  LoadedIsCurrent'
<1>0. RequestOK(s) /\ Current(s)
  BY DEF TypeOK, LoadedIsCurrent, Current
<1>1. UNCHANGED tables /\ pc[s] = "check"
  BY DEF CheckPeriod, CheckResize
<1>2. \A q \in Sessions \ {s} : Undisturbed(q)
  BY <1>1, SameTables
<1>3. CASE GiveUp(s)
  <2>1. OthersStay(s) /\ Current(s)'
    BY <1>3, GiveUpEffect, RestingIsCurrent DEF Goes, NoTxn
  <2> QED BY <1>2, <2>1, CurrentFrame
<1>4. CASE Goto(s, "commit") /\ txn' = txn
  <2>1. pc'[s] = "commit" /\ OthersStay(s)
    BY <1>4, GotoEffect DEF Goes, Steps
  <2>2. /\ RoomIsCurrent(s)' /\ BookingIsCurrent(s)' /\ SweepIsCurrent(s)'
        /\ HistoryIsCurrent(s)'
    BY <1>0, <1>1, <1>4, <2>1 DEF Current, RoomIsCurrent, BookingIsCurrent, RequestOK,
                                  SweepIsCurrent, HistoryIsCurrent, At, tables
  <2>3. PeriodIsCurrent(s)'
    <3>1. CASE CheckResize(s) /\ ~GiveUp(s)
      BY <1>4, <3>1 DEF CheckResize, PeriodIsCurrent, At
    <3>2. CASE CheckPeriod(s) /\ PeriodFits(s)
      <4>1. txn[s].start < txn[s].end
        BY <1>0, <1>1, <3>2 DEF CheckPeriod, PeriodFits, PeriodIsValid, RequestOK
      <4> QED BY <1>1, <1>4, <3>2, <4>1 DEF PeriodFits, PeriodIsCurrent, OwnRow, At, tables
    <3>3. CASE GiveUp(s)
      BY <2>1, <3>3, GiveUpEffect DEF Goes
    <3> QED BY <3>1, <3>2, <3>3 DEF CheckPeriod
  <2>4. ResizeIsCurrent(s)'
    <3>1. CASE CheckPeriod(s)
      BY <1>4, <3>1 DEF CheckPeriod, ResizeIsCurrent, At
    <3>2. CASE CheckResize(s) /\ ~ShrinkRefused(txn[s].room, txn[s].units)
      BY <1>1, <1>4, <3>2 DEF ResizeIsCurrent, ShrinkRefused, tables
    <3>3. CASE GiveUp(s)
      BY <2>1, <3>3, GiveUpEffect DEF Goes
    <3> QED BY <3>1, <3>2, <3>3 DEF CheckResize
  <2> QED BY <1>2, <2>1, <2>2, <2>3, <2>4, CurrentFrame DEF Current
<1> QED BY <1>3, <1>4 DEF CheckPeriod, CheckResize

\* A sweep knows of every row it keeps that it was over when it got the lock.
LEMMA SweepStepIsCurrent ==
  ASSUME TypeOK, TypeOK', LocksHeld, LoadedIsCurrent, NEW s \in Sessions,
         SweepReady(s) \/ \E b \in BookingIds : ClaimBooking(s, b)
  PROVE  LoadedIsCurrent'
<1>0. RequestOK(s) /\ SweepIsCurrent(s)
  BY DEF TypeOK, LoadedIsCurrent
<1>1. UNCHANGED tables /\ pc[s] = "claim" /\ txn[s].op = "complete"
  BY <1>0 DEF SweepReady, ClaimBooking, RequestOK
<1>2. \A q \in Sessions \ {s} : Undisturbed(q)
  BY <1>1, SameTables
<1>3. OthersStay(s) /\ txn'[s].op = "complete" /\ SweepIsCurrent(s)'
  <2>1. CASE SweepReady(s)
    <3>1. OthersStay(s) /\ txn'[s] = txn[s]
      BY <2>1, GotoEffect DEF SweepReady, Steps, Goes
    <3> QED BY <1>0, <1>1, <3>1 DEF SweepIsCurrent, tables
  <2>2. ASSUME NEW b \in BookingIds, ClaimBooking(s, b)
        PROVE  OthersStay(s) /\ txn'[s].op = "complete" /\ SweepIsCurrent(s)'
    <3>1. /\ OthersStay(s) /\ txn'[s].op = "complete" /\ txn'[s].time = txn[s].time
          /\ txn'[s].todo = txn[s].todo \ {b}
          /\ txn'[s].done = IF StillFinished(s, b) THEN txn[s].done \cup {b}
                                                   ELSE txn[s].done
      BY <1>1, <2>2, ClaimEffect DEF Goes
    <3>2. b \in DOMAIN booking
      BY <1>0, <1>1, <2>2 DEF ClaimBooking, SweepIsCurrent
    <3> QED BY <1>0, <1>1, <3>1, <3>2 DEF SweepIsCurrent, StillFinished, tables
  <2> QED BY <2>1, <2>2
<1>4. Current(s)'
  BY <1>3 DEF Current, RoomIsCurrent, BookingIsCurrent, PeriodIsCurrent, ResizeIsCurrent,
              HistoryIsCurrent, At
<1> QED BY <1>2, <1>3, <1>4, CurrentFrame

\* A request whose transaction is aborted relies on nothing it has read.
LEMMA AbortIsCurrent ==
  ASSUME TypeOK, TypeOK', LocksHeld, LoadedIsCurrent, NEW s \in Sessions, Aborted(s)
  PROVE  LoadedIsCurrent'
<1>1. \A q \in Sessions \ {s} : Undisturbed(q)
  BY AbortEffect, SameTables
<1>2. OthersStay(s) /\ Current(s)'
  BY AbortEffect, RestingIsCurrent DEF Goes, NoTxn
<1> QED BY <1>1, <1>2, CurrentFrame

\* What a committing update does to the table of bookings: its own row gets a new
\* period, every other row stays.
LEMMA CommitUpdateEffect ==
  ASSUME TypeOK, NEW s \in Sessions, CommitUpdate(s)
  PROVE  LET b == txn[s].booking IN
         /\ pc[s] = "commit" /\ txn[s].op = "update" /\ b \in BookingIds
         /\ txn[s].start \in Time /\ txn[s].end \in Time
         /\ booking' = [booking EXCEPT ![b].start = txn[s].start, ![b].end = txn[s].end]
         /\ room' = room /\ now' = now
         /\ DOMAIN booking' = DOMAIN booking
         /\ \A c \in DOMAIN booking \ {b} : booking'[c] = booking[c]
         /\ b \in DOMAIN booking => /\ booking'[b].room = booking[b].room
                                    /\ booking'[b].user = booking[b].user
                                    /\ booking'[b].status = booking[b].status
<1> DEFINE b == txn[s].booking
<1>1. /\ pc[s] = "commit" /\ txn[s].op = "update" /\ room' = room /\ now' = now
      /\ booking' = [booking EXCEPT ![b].start = txn[s].start, ![b].end = txn[s].end]
  BY DEF CommitUpdate, Commit
<1>2. RequestOK(s) /\ booking \in [DOMAIN booking -> Row]
  BY DEF TypeOK
<1>3. b \in BookingIds /\ txn[s].start \in Time /\ txn[s].end \in Time
  BY <1>1, <1>2 DEF RequestOK
<1> HIDE DEF b
<1>4. /\ DOMAIN booking' = DOMAIN booking
      /\ \A c \in DOMAIN booking \ {b} : booking'[c] = booking[c]
      /\ b \in DOMAIN booking => /\ booking'[b].room = booking[b].room
                                 /\ booking'[b].user = booking[b].user
                                 /\ booking'[b].status = booking[b].status
  BY <1>1, <1>2, <1>3 DEF Row
<1> QED BY <1>1, <1>3, <1>4 DEF b

\* What a committing cancel does to the table of bookings: its own row becomes
\* CANCELLED, every other row stays.
LEMMA CommitCancelEffect ==
  ASSUME TypeOK, NEW s \in Sessions, CommitCancel(s)
  PROVE  LET b == txn[s].booking IN
         /\ pc[s] = "commit" /\ txn[s].op = "cancel" /\ b \in BookingIds
         /\ booking' = WithStatus(booking, {b}, "CANCELLED")
         /\ room' = room /\ now' = now
         /\ DOMAIN booking' = DOMAIN booking
         /\ \A c \in DOMAIN booking \ {b} : booking'[c] = booking[c]
         /\ b \in DOMAIN booking => /\ booking'[b].status = "CANCELLED"
                                    /\ booking'[b].user = booking[b].user
<1> DEFINE b == txn[s].booking
           ids == {b}
<1>1. /\ pc[s] = "commit" /\ txn[s].op = "cancel" /\ room' = room /\ now' = now
      /\ booking' = WithStatus(booking, ids, "CANCELLED")
  BY DEF CommitCancel, Commit
<1>2. RequestOK(s) /\ booking \in [DOMAIN booking -> Row] /\ "CANCELLED" \in BookingStatus
  BY DEF TypeOK, BookingStatus
<1>3. b \in BookingIds
  BY <1>1, <1>2 DEF RequestOK
<1>4. \A c : c \in ids <=> c = b
  OBVIOUS
<1> HIDE DEF b, ids
<1>5. /\ DOMAIN booking' = DOMAIN booking
      /\ \A c \in DOMAIN booking \ {b} : booking'[c] = booking[c]
      /\ b \in DOMAIN booking => /\ booking'[b].status = "CANCELLED"
                                 /\ booking'[b].user = booking[b].user
  BY <1>1, <1>2, <1>4, StatusType
<1> QED BY <1>1, <1>3, <1>5 DEF b, ids

\* No commit disturbs a session that holds other locks.
LEMMA CommitDisturbsNobody ==
  ASSUME TypeOK, TypeOK', LocksHeld, LoadedIsCurrent, NEW s \in Sessions,
         \/ \E b \in BookingIds : CommitCreate(s, b)
         \/ CommitUpdate(s) \/ CommitCancel(s) \/ CommitResize(s) \/ CommitArchive(s)
         \/ CommitDelete(s) \/ CommitComplete(s),
         NEW q \in Sessions, q # s
  PROVE  Undisturbed(q)
<1> DEFINE t == txn[s]
<1>0. RequestOK(s) /\ Holds(s) /\ Current(s) /\ now \in Int /\ t \in Txn
  BY LocksBySession, Numbers DEF TypeOK, LoadedIsCurrent, Current
<1>1. ASSUME NEW b \in BookingIds, CommitCreate(s, b) PROVE Undisturbed(q)
  <2> DEFINE row == [user |-> t.user, room |-> t.room, start |-> t.start, end |-> t.end,
                     status |-> "ACTIVE"]
  <2>1. /\ b \notin DOMAIN booking /\ booking' = Inserted(booking, b, row)
        /\ room' = room /\ now' = now /\ pc[s] = "commit" /\ t.op = "create"
        /\ userLock[t.user] = None
    BY <1>1 DEF CommitCreate, Commit, UserFree
  <2>2. roomLock[t.room] = s /\ row.room = t.room /\ row.user = t.user /\ q # None
    BY <1>0, <2>1, BookingServiceAssumption DEF Holds
  <2> HIDE DEF row
  <2> QED BY <1>0, <2>1, <2>2 DEF Undisturbed, Inserted, Blocks
<1>2. CASE CommitUpdate(s)
  <2> DEFINE b == t.booking
  <2>1. /\ pc[s] = "commit" /\ t.op = "update" /\ room' = room /\ now' = now
        /\ DOMAIN booking' = DOMAIN booking
        /\ \A c \in DOMAIN booking \ {b} : booking'[c] = booking[c]
        /\ b \in DOMAIN booking => /\ booking'[b].room = booking[b].room
                                   /\ booking'[b].user = booking[b].user
    BY <1>2, CommitUpdateEffect
  <2>2. roomLock[t.room] = s /\ bookingLock[b] = s /\ booking[b].room = t.room
    BY <1>0, <2>1 DEF Holds, Current, BookingIsCurrent, At
  <2> QED BY <1>0, <2>1, <2>2 DEF Undisturbed, Blocks
<1>3. CASE CommitCancel(s)
  <2> DEFINE b == t.booking
  <2>1. /\ pc[s] = "commit" /\ t.op = "cancel" /\ room' = room /\ now' = now
        /\ DOMAIN booking' = DOMAIN booking
        /\ \A c \in DOMAIN booking \ {b} : booking'[c] = booking[c]
        /\ b \in DOMAIN booking => /\ booking'[b].status = "CANCELLED"
                                   /\ booking'[b].user = booking[b].user
    BY <1>3, CommitCancelEffect
  <2>2. bookingLock[b] = s
    BY <1>0, <2>1 DEF Holds, At
  <2> QED BY <1>0, <2>1, <2>2 DEF Undisturbed, Blocks, BlockingStatuses
<1>4. CASE CommitResize(s) \/ CommitArchive(s)
  <2>1. /\ pc[s] = "commit" /\ t.op \in {"resize", "archive"} /\ now' = now
        /\ booking' = booking /\ DOMAIN room' = DOMAIN room
        /\ \A r \in DOMAIN room \ {t.room} : room'[r] = room[r]
    BY <1>4 DEF CommitResize, CommitArchive, Commit, TypeOK
  <2>2. roomLock[t.room] = s
    BY <1>0, <2>1 DEF Holds
  <2> QED BY <1>0, <2>1, <2>2 DEF Undisturbed
<1>5. CASE CommitComplete(s)
  <2>1. /\ pc[s] = "commit" /\ t.op = "complete" /\ room' = room /\ now' = now
        /\ booking' = WithStatus(booking, t.done, "COMPLETED")
    BY <1>5 DEF CommitComplete, Commit
  <2>2. /\ DOMAIN booking' = DOMAIN booking
        /\ \A c \in DOMAIN booking \ t.done : booking'[c] = booking[c]
        /\ \A c \in DOMAIN booking : c \in t.done => /\ booking'[c].status = "COMPLETED"
                                                     /\ booking'[c].user = booking[c].user
    BY <2>1, StatusType DEF TypeOK, BookingStatus
  <2>3. \A c \in t.done : bookingLock[c] = s
    BY <1>0, <2>1 DEF Holds
  <2> QED BY <1>0, <2>1, <2>2, <2>3 DEF Undisturbed, Blocks, BlockingStatuses
<1>6. CASE CommitDelete(s)
  BY <1>0, <1>6 DEF CommitDelete, Commit, Undisturbed
<1> QED BY <1>1, <1>2, <1>3, <1>4, <1>5, <1>6

\* Commits, rollbacks, crashes and calls to the broker leave the others current.
LEMMA EndIsCurrent ==
  ASSUME TypeOK, TypeOK', LocksHeld, LoadedIsCurrent, NEW s \in Sessions,
         \/ \E b \in BookingIds : CommitCreate(s, b)
         \/ CommitUpdate(s) \/ CommitCancel(s) \/ CommitResize(s) \/ CommitArchive(s)
         \/ CommitDelete(s) \/ CommitComplete(s) \/ Close(s) \/ Crash(s) \/ Enqueue(s)
         \/ EnqueueFails(s)
  PROVE  LoadedIsCurrent'
<1>1. OthersStay(s) /\ pc'[s] \in {"idle", "enqueue"}
  BY DEF CommitCreate, CommitUpdate, CommitCancel, CommitResize, CommitArchive,
         CommitDelete, CommitComplete, Commit, Close, Crash, Enqueue, EnqueueFails, Goto,
         OthersStay, TypeOK
<1>2. txn'[s].op # "complete"
  <2>1. RequestOK(s)'
    BY DEF TypeOK
  <2> QED BY <1>1, <2>1 DEF RequestOK, NoTxn
<1>3. \A q \in Sessions \ {s} : Undisturbed(q)
  <2>1. CASE UNCHANGED tables
    BY <2>1, SameTables
  <2>2. CASE ~UNCHANGED tables
    BY <2>2, CommitDisturbsNobody DEF Close, Crash, Enqueue, EnqueueFails
  <2> QED BY <2>1, <2>2
<1> QED BY <1>1, <1>2, <1>3, RestingIsCurrent, CurrentFrame

\* Whatever a request read under its locks stays current until it uses it.
LEMMA CurrentStep ==
  TypeOK /\ TypeOK' /\ LocksHeld /\ LoadedIsCurrent /\ [Next]_vars => LoadedIsCurrent'
<1> SUFFICES ASSUME TypeOK, TypeOK', LocksHeld, LoadedIsCurrent, [Next]_vars
             PROVE  LoadedIsCurrent'
  OBVIOUS
<1>1. CASE UNCHANGED <<pc, txn>> /\ \A q \in Sessions : Undisturbed(q)
  <2> SUFFICES ASSUME NEW q \in Sessions PROVE Current(q)'
    BY DEF LoadedIsCurrent, Current
  <2>1. Current(q)
    BY DEF LoadedIsCurrent, Current
  <2> QED BY <1>1, <2>1, UndisturbedIsCurrent
<1>2. CASE UNCHANGED vars
  BY <1>1, <1>2, SameTables DEF vars, tables
<1>3. CASE Tick
  <2>1. \A q \in Sessions : Undisturbed(q)
    BY <1>3, Numbers DEF Tick, Undisturbed
  <2> QED BY <1>1, <1>3, <2>1 DEF Tick
<1>4. ASSUME NEW r \in Rooms, NEW n \in Units, AddRoom(r, n) PROVE LoadedIsCurrent'
  <2>1. \A q \in Sessions : Undisturbed(q)
    BY <1>4, Numbers DEF AddRoom, Undisturbed, Inserted
  <2> QED BY <1>1, <1>4, <2>1 DEF AddRoom
<1>5. ASSUME NEW s \in Sessions, Start(s) \/ Continue(s) \/ Crash(s) \/ EnqueueFails(s)
      PROVE  LoadedIsCurrent'
  BY <1>5, StartIsCurrent, LockIsCurrent, CheckIsCurrent, SweepStepIsCurrent, AbortIsCurrent,
     EndIsCurrent
     DEF Continue, Aborted
<1> QED BY <1>2, <1>3, <1>4, <1>5 DEF Next

\* What a request read under its locks is still so when it commits, for any number
\* of sessions, rooms and bookings.
THEOREM ReadsStayCurrent == Spec => []LoadedIsCurrent
<1>1. Init => LoadedIsCurrent
  BY DEF Init, LoadedIsCurrent, RoomIsCurrent, BookingIsCurrent, PeriodIsCurrent,
         ResizeIsCurrent, HistoryIsCurrent, SweepIsCurrent, At, NoTxn
<1>2. Spec => []TypeOK
  BY TypeCorrect
<1>3. Spec => []LocksHeld
  BY LocksAreHeld
<1> QED BY <1>1, <1>2, <1>3, CurrentStep, PTL DEF Spec
=============================================================================
