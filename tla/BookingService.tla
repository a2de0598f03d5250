---------------------------- MODULE BookingService ----------------------------
(***************************************************************************)
(* The write paths of the bookings and rooms tables, as the API workers    *)
(* and the completion sweep run them against PostgreSQL (READ COMMITTED):  *)
(* BookingService.create, update and cancel, change_room,                  *)
(* delete_room_by_id, add_room and complete_finished_bookings, with        *)
(* SELECT ... FOR UPDATE row locks, rollbacks, crashes and the call that   *)
(* enqueues the notification after a commit; and delete_user, which meets  *)
(* them at the foreign key of bookings on users.                           *)
(*                                                                         *)
(* A session is one database session with the request it serves.  Each     *)
(* action is what happens between two awaits of the code: other sessions   *)
(* run in between.  A statement sees the rows committed when it starts; a  *)
(* row that was locked is read again once the lock is granted.             *)
(***************************************************************************)
EXTENDS RoomCalendar

CONSTANTS Sessions,    \* database sessions of API workers and Celery workers
          Rooms,       \* ids a room may get
          BookingIds,  \* ids a booking may get
          Users,       \* ids of the users, all registered at the start
          MaxTime,     \* bound: last instant of the clock
          MaxUnits,    \* bound: largest total_units
          MaxFaults,   \* bound: crashes and broker failures in one behaviour
          None         \* "nothing": a free lock, a field without a value

ASSUME BookingServiceAssumption ==
  /\ MaxTime \in Nat /\ MaxUnits \in Nat /\ MaxFaults \in Nat
  /\ BookingIds \subseteq Nat /\ IsFiniteSet(BookingIds)
  /\ None \notin Sessions \cup Rooms \cup Users \cup Int

VARIABLES now,          \* the clock of the host
          room,         \* table rooms: id -> [units, active]
          booking,      \* table bookings: id -> row
          users,        \* table users: the ids of its rows
          roomLock,     \* the session that holds the row lock of a room
          bookingLock,  \* the session that holds the row lock of a booking
          userLock,     \* the session that holds the row lock of a user
          pc,           \* where each session's request is
          txn,          \* what each session's request holds in memory
          enqueued,     \* how often each notification task was enqueued
          faults        \* crashes and broker failures so far

tables == <<now, room, booking, users>>
locks  == <<roomLock, bookingLock, userLock>>
vars   == <<now, room, booking, users, roomLock, bookingLock, userLock, pc, txn,
            enqueued, faults>>

Time  == 0 .. MaxTime
Units == 0 .. MaxUnits
Room  == [units : Units, active : BOOLEAN]
Row   == [user : Users, room : Rooms, start : Time, end : Time,
          status : BookingStatus]

Steps == {"idle", "lock_booking", "lock_room", "check", "lock_user", "history",
          "commit", "claim", "closing", "enqueue"}
Ops   == {"none", "create", "update", "cancel", "resize", "archive", "complete",
          "delete_user"}

\* The local data of a request.  staff is whether get_current_user read the role
\* admin or manager: change_role may give the requester another one at any time
\* before or after (Accounts), so it is not tied to the user.  units is the room
\* row's total_units as loaded (the new value for a resize), time the sweep's
\* current_time, todo the rows its UPDATE still has to lock and done the ones it
\* has changed.
Txn == [op : Ops, user : Users \cup {None}, staff : BOOLEAN, booking : BookingIds \cup {None},
        room : Rooms \cup {None}, start : Time \cup {None}, end : Time \cup {None},
        units : Units, time : Time, todo : SUBSET BookingIds,
        done : SUBSET BookingIds]

NoTxn == [op |-> "none", user |-> None, staff |-> FALSE, booking |-> None, room |-> None,
          start |-> None, end |-> None, units |-> 0, time |-> 0,
          todo |-> {}, done |-> {}]

\* The data the request of session s holds at its step.
RequestOK(s) ==
  LET t == txn[s] IN
  /\ pc[s] \in {"idle", "closing"} => t = NoTxn
  /\ pc[s] = "lock_booking" => t.op \in {"update", "cancel"}
  /\ pc[s] = "lock_room" => t.op \in {"create", "update", "cancel", "resize", "archive"}
  /\ pc[s] = "check" => t.op \in {"create", "update", "resize"}
  /\ pc[s] = "claim" => t.op = "complete"
  /\ pc[s] = "lock_user" => t.op = "delete_user"
  /\ pc[s] = "history" => t.op = "delete_user" /\ t.booking \in BookingIds
  /\ t.op = "delete_user" => t.user \in Users
  /\ pc[s] = "enqueue" => t.op \in {"create", "cancel"} /\ t.booking \in BookingIds
  /\ pc[s] = "commit" => t.op # "none"
  /\ t.op \in {"update", "cancel"} => t.booking \in BookingIds
  /\ pc[s] \in {"lock_room", "check", "commit"} =>
       /\ t.op \notin {"complete", "delete_user"} => t.room \in Rooms
       /\ t.op \in {"create", "update"} => t.start \in Time /\ t.end \in Time
       /\ t.op = "create" => t.user \in Users /\ t.start < t.end

TypeOK ==
  /\ now \in Time
  /\ DOMAIN room \subseteq Rooms /\ room \in [DOMAIN room -> Room]
  /\ DOMAIN booking \subseteq BookingIds /\ booking \in [DOMAIN booking -> Row]
  /\ roomLock \in [Rooms -> Sessions \cup {None}]
  /\ bookingLock \in [BookingIds -> Sessions \cup {None}]
  /\ users \subseteq Users /\ userLock \in [Users -> Sessions \cup {None}]
  /\ pc \in [Sessions -> Steps]
  /\ txn \in [Sessions -> Txn]
  /\ enqueued \in [BookingIds -> [creation : Nat, cancellation : Nat]]
  /\ faults \in 0 .. MaxFaults
  /\ \A s \in Sessions : RequestOK(s)
-----------------------------------------------------------------------------
Init ==
  /\ now = 0
  /\ room = [r \in {} |-> {}]
  /\ booking = [b \in {} |-> {}]
  /\ roomLock = [r \in Rooms |-> None]
  /\ bookingLock = [b \in BookingIds |-> None]
  /\ users = Users /\ userLock = [u \in Users |-> None]
  /\ pc = [s \in Sessions |-> "idle"]
  /\ txn = [s \in Sessions |-> NoTxn]
  /\ enqueued = [b \in BookingIds |-> [creation |-> 0, cancellation |-> 0]]
  /\ faults = 0

\* Session s goes on at step `to`.
Goto(s, to) == pc' = [pc EXCEPT ![s] = to]

\* The request of session s has failed or has nothing to change: all it has left
\* to do is to close its transaction, with the locks it holds until then.
GiveUp(s) == /\ Goto(s, "closing")
             /\ txn' = [txn EXCEPT ![s] = NoTxn]

\* A row lock of session s is free again.
Freed(lock, s) == [x \in DOMAIN lock |-> IF lock[x] = s THEN None ELSE lock[x]]

\* Session s has ended its transaction: its row locks are free.
ReleaseLocks(s) == /\ roomLock' = Freed(roomLock, s)
                   /\ bookingLock' = Freed(bookingLock, s)
                   /\ userLock' = Freed(userLock, s)

\* The database ends the transaction of session s with an error, at once.
Abort(s) == GiveUp(s) /\ ReleaseLocks(s)

\* An idle session takes a request whose first step is `first`.
Begin(s, first, request) ==
  /\ pc[s] = "idle"
  /\ Goto(s, first)
  /\ txn' = [txn EXCEPT ![s] = request]
  /\ UNCHANGED <<tables, locks, enqueued, faults>>

Tick ==
  /\ now < MaxTime
  /\ now' = now + 1
  /\ UNCHANGED <<room, booking, users, locks, pc, txn, enqueued, faults>>

\* add_room: one INSERT, no row to lock.
AddRoom(r, n) ==
  /\ r \notin DOMAIN room
  /\ room' = Inserted(room, r, [units |-> n, active |-> TRUE])
  /\ UNCHANGED <<now, booking, users, locks, pc, txn, enqueued, faults>>
-----------------------------------------------------------------------------
\* The checks of validate_booking_period, at the instant `time`.
PeriodIsValid(st, en, time) == st < en /\ st >= time

\* Bound: a create starts only while an id is left for it, so that the bound on
\* ids never stops a request in the middle.
IdsRemain ==
  Cardinality(DOMAIN booking)
    + Cardinality({s \in Sessions : /\ txn[s].op = "create"
                                    /\ pc[s] \in {"lock_room", "check", "commit"}})
    < Cardinality(BookingIds)

\* POST /bookings: the period is validated before the room row is locked.
StartCreate(s, u, r, st, en) ==
  /\ u \in users /\ IdsRemain
  /\ PeriodIsValid(st, en, now)
  /\ Begin(s, "lock_room", [NoTxn EXCEPT !.op = "create", !.user = u, !.room = r,
                                         !.start = st, !.end = en])

\* PATCH /bookings/{id}: a date may be left out or null; two dates must be in
\* order (BookingUpdate.check_dates).
StartUpdate(s, b, st, en) ==
  /\ st # None /\ en # None => st < en
  /\ Begin(s, "lock_booking", [NoTxn EXCEPT !.op = "update", !.booking = b,
                                            !.start = st, !.end = en])

\* DELETE /bookings/{id} by user u, with the role that was read for the token.
StartCancel(s, b, u, staff) ==
  /\ u \in users
  /\ Begin(s, "lock_booking", [NoTxn EXCEPT !.op = "cancel", !.booking = b,
                                            !.user = u, !.staff = staff])

\* Fault: the schema lets total_units = -1 through.
StartResizeUnchecked(s, r, n) ==
  Begin(s, "lock_room", [NoTxn EXCEPT !.op = "resize", !.room = r, !.units = n - 1])

\* PATCH /rooms/{id} with total_units = n.
StartResize(s, r, n) ==
  Begin(s, "lock_room", [NoTxn EXCEPT !.op = "resize", !.room = r, !.units = n])

\* DELETE /rooms/{id}.
StartArchive(s, r) ==
  Begin(s, "lock_room", [NoTxn EXCEPT !.op = "archive", !.room = r])

\* DELETE /users/{id}: the user is read, and is not an administrator.
StartDelete(s, u) ==
  /\ u \in users
  /\ Begin(s, "lock_user", [NoTxn EXCEPT !.op = "delete_user", !.user = u])

\* complete_finished_bookings: the clock is read and the UPDATE selects its rows.
StartComplete(s) ==
  Begin(s, "claim",
        [NoTxn EXCEPT !.op = "complete", !.time = now,
                      !.todo = {b \in DOMAIN booking : Finished(booking[b], now)}])
-----------------------------------------------------------------------------
\* Fault: the row is read without FOR UPDATE.
NoForUpdate(id) == TRUE

RoomFree(r)    == roomLock[r] = None
BookingFree(b) == bookingLock[b] = None

\* The owner and the staff cancel a booking.  It is the role read at the start of
\* the request that counts, whatever it is by now.
MayCancel(s, row) == row.user = txn[s].user \/ txn[s].staff

\* Fault: an update accepts a booking that is not ACTIVE.
AnyStatusUpdated(s, b) ==
  /\ b \in DOMAIN booking
  /\ txn[s].op = "cancel" => /\ booking[b].status = "ACTIVE"
                             /\ MayCancel(s, booking[b])

\* Fault: cancelling a CANCELLED booking reports a change.
CancelledAgain(s, b) ==
  /\ b \in DOMAIN booking
  /\ booking[b].status # "COMPLETED"
  /\ txn[s].op = "update" => booking[b].status = "ACTIVE"
  /\ txn[s].op = "cancel" => MayCancel(s, booking[b])

\* What _lock_booking and the checks after it accept: an update needs an ACTIVE
\* row; a cancel needs the right requester and a row that is not final.
BookingAccepted(s, b) ==
  /\ b \in DOMAIN booking
  /\ booking[b].status = "ACTIVE"
  /\ txn[s].op = "cancel" => MayCancel(s, booking[b])

\* The dates an update asks for, the row's own where the request has none.
StartOr(given, row) == IF given = None THEN row.start ELSE given
EndOr(given, row)   == IF given = None THEN row.end ELSE given

\* _lock_booking waits for the row lock and reads the row.  A row that is not
\* accepted ends the request: 404, 409, 403, or, for a booking that is already
\* CANCELLED, an empty commit that reports no change.
LockBooking(s) ==
  LET b == txn[s].booking IN
  /\ pc[s] = "lock_booking"
  /\ BookingFree(b)
  /\ bookingLock' = IF b \in DOMAIN booking THEN [bookingLock EXCEPT ![b] = s]
                                            ELSE bookingLock
  /\ IF BookingAccepted(s, b)
     THEN /\ Goto(s, "lock_room")
          /\ txn' = [txn EXCEPT ![s].room = booking[b].room,
                                ![s].start = StartOr(@, booking[b]),
                                ![s].end = EndOr(@, booking[b])]
     ELSE GiveUp(s)
  /\ UNCHANGED <<tables, roomLock, userLock, enqueued, faults>>

\* create and update need an active room (require_active); the others do not.
RoomAccepted(s, r) ==
  /\ r \in DOMAIN room
  /\ txn[s].op \in {"create", "update"} => room[r].active

\* Where a request goes once it holds the room row.
AfterRoomLock(op) == IF op \in {"cancel", "archive"} THEN "commit" ELSE "check"

\* _lock_room, and the SELECT ... FOR UPDATE of change_room and
\* delete_room_by_id: wait for the row lock and read the row.
LockRoom(s) ==
  LET r == txn[s].room IN
  /\ pc[s] = "lock_room"
  /\ RoomFree(r)
  /\ roomLock' = IF r \in DOMAIN room THEN [roomLock EXCEPT ![r] = s] ELSE roomLock
  /\ IF RoomAccepted(s, r)
     THEN /\ Goto(s, AfterRoomLock(txn[s].op))
          /\ txn' = IF txn[s].op \in {"create", "update"}
                    THEN [txn EXCEPT ![s].units = room[r].units] ELSE txn
     ELSE GiveUp(s)
  /\ UNCHANGED <<tables, bookingLock, userLock, enqueued, faults>>
-----------------------------------------------------------------------------
\* The row an update must not compete with.
OwnRow(s) == IF txn[s].op = "update" THEN {txn[s].booking} ELSE {}

\* create and update: does the room have a unit left?  An update validates its
\* period here, after the locks; a create has done so before them.
PeriodFits(s) ==
  /\ txn[s].op = "update" => PeriodIsValid(txn[s].start, txn[s].end, now)
  /\ RoomAvailable(booking, txn[s].room, txn[s].units,
                   txn[s].start, txn[s].end, OwnRow(s))

\* Fault: a request looks again until there is a unit left, with its locks.
CheckPeriodAgain(s) ==
  /\ pc[s] = "check" /\ txn[s].op \in {"create", "update"}
  /\ PeriodFits(s)
  /\ Goto(s, "commit") /\ txn' = txn
  /\ UNCHANGED <<tables, locks, enqueued, faults>>

CheckPeriod(s) ==
  /\ pc[s] = "check" /\ txn[s].op \in {"create", "update"}
  /\ IF PeriodFits(s) THEN Goto(s, "commit") /\ txn' = txn ELSE GiveUp(s)
  /\ UNCHANGED <<tables, locks, enqueued, faults>>

\* Fault: stays that are under way do not count.
ShrinkIgnoresRunning(r, n) ==
  /\ n < room[r].units
  /\ \E b \in DOMAIN booking : Blocks(booking[b], r) /\ booking[b].start > now

\* change_room: a lower total_units is refused while a booking needs the room.
ShrinkRefused(r, n) == n < room[r].units /\ HasUnfinishedBooking(booking, r, now)

\* Fault: the query of change_room locks a booking it finds, after the room.
CheckResizeForUpdate(s) ==
  /\ pc[s] = "check" /\ txn[s].op = "resize"
  /\ \E b \in DOMAIN booking : /\ Goto(s, "lock_booking")
                              /\ txn' = [txn EXCEPT ![s].booking = b]
  /\ UNCHANGED <<tables, locks, enqueued, faults>>

CheckResize(s) ==
  /\ pc[s] = "check" /\ txn[s].op = "resize"
  /\ IF ShrinkRefused(txn[s].room, txn[s].units) THEN GiveUp(s)
                                                 ELSE Goto(s, "commit") /\ txn' = txn
  /\ UNCHANGED <<tables, locks, enqueued, faults>>
-----------------------------------------------------------------------------
\* A commit of session s: its locks are released and it goes on at step `to`.
Commit(s, op, to) ==
  /\ pc[s] = "commit" /\ txn[s].op = op
  /\ ReleaseLocks(s)
  /\ Goto(s, to)
  /\ UNCHANGED <<now, enqueued, faults>>

\* Fault: a cancel announces a creation.
AnnouncingCreation(op, b) == [NoTxn EXCEPT !.op = "create", !.booking = b]

\* After the commit a request only needs the id, to enqueue its notification.
Announcing(op, b) == [NoTxn EXCEPT !.op = op, !.booking = b]

\* The foreign key of bookings on users: the INSERT of a create shares the row of
\* its user, so it waits, with the room locked, while a deletion holds that row ...
UserFree(u) == userLock[u] = None

CommitCreate(s, b) ==
  /\ b \notin DOMAIN booking
  /\ Commit(s, "create", "enqueue")
  /\ UserFree(txn[s].user) /\ txn[s].user \in users
  /\ booking' = Inserted(booking, b,
                  [user |-> txn[s].user, room |-> txn[s].room, start |-> txn[s].start,
                   end |-> txn[s].end, status |-> "ACTIVE"])
  /\ txn' = [txn EXCEPT ![s] = Announcing("create", b)]
  /\ UNCHANGED <<room, users>>

\* ... and fails when the user is gone by then.
CreateFails(s) ==
  /\ pc[s] = "commit" /\ txn[s].op = "create"
  /\ UserFree(txn[s].user) /\ txn[s].user \notin users
  /\ Abort(s)
  /\ UNCHANGED <<tables, enqueued, faults>>

CommitUpdate(s) ==
  /\ Commit(s, "update", "idle")
  /\ booking' = [booking EXCEPT ![txn[s].booking].start = txn[s].start,
                                ![txn[s].booking].end = txn[s].end]
  /\ txn' = [txn EXCEPT ![s] = NoTxn]
  /\ UNCHANGED <<room, users>>

CommitCancel(s) ==
  /\ Commit(s, "cancel", "enqueue")
  /\ booking' = WithStatus(booking, {txn[s].booking}, "CANCELLED")
  /\ txn' = [txn EXCEPT ![s] = Announcing("cancel", txn[s].booking)]
  /\ UNCHANGED <<room, users>>

CommitResize(s) ==
  /\ Commit(s, "resize", "idle")
  /\ room' = [room EXCEPT ![txn[s].room].units = txn[s].units]
  /\ txn' = [txn EXCEPT ![s] = NoTxn]
  /\ UNCHANGED <<booking, users>>

CommitArchive(s) ==
  /\ Commit(s, "archive", "idle")
  /\ room' = [room EXCEPT ![txn[s].room].active = FALSE]
  /\ txn' = [txn EXCEPT ![s] = NoTxn]
  /\ UNCHANGED <<booking, users>>
-----------------------------------------------------------------------------
\* Fault: the rows the statement found at its start are changed unseen.
NotRechecked(s, b) == TRUE

\* Fault: the sweep leaves the stays that ended in the last unit of time.
WithGrace(s, b) == Finished(booking[b], txn[s].time - 1)

\* PostgreSQL evaluates the WHERE clause again on the row it has locked.
StillFinished(s, b) == Finished(booking[b], txn[s].time)

\* The sweep's UPDATE locks its rows one by one, in any order (rows that were
\* updated have moved in the heap), looks at each as it is by then and keeps the
\* lock in either case.
ClaimBooking(s, b) ==
  /\ pc[s] = "claim"
  /\ b \in txn[s].todo
  /\ BookingFree(b)
  /\ bookingLock' = [bookingLock EXCEPT ![b] = s]
  /\ txn' = [txn EXCEPT
               ![s].todo = @ \ {b},
               ![s].done = IF StillFinished(s, b) THEN @ \cup {b} ELSE @]
  /\ UNCHANGED <<tables, roomLock, userLock, pc, enqueued, faults>>

SweepReady(s) == /\ pc[s] = "claim" /\ txn[s].todo = {}
                 /\ Goto(s, "commit")
                 /\ UNCHANGED <<tables, locks, txn, enqueued, faults>>

CommitComplete(s) ==
  /\ Commit(s, "complete", "idle")
  /\ booking' = WithStatus(booking, txn[s].done, "COMPLETED")
  /\ txn' = [txn EXCEPT ![s] = NoTxn]
  /\ UNCHANGED <<room, users>>
-----------------------------------------------------------------------------
\* The bookings that refer to user u, of any status.
HistoryOf(u) == {b \in DOMAIN booking : booking[b].user = u}

\* delete_user: the DELETE waits for the user's row and locks it.  The foreign key
\* then selects one of the user's bookings, whichever comes first.  (The cascade
\* on the user's refresh tokens is in Accounts.)
LockUser(s) ==
  LET u == txn[s].user IN
  /\ pc[s] = "lock_user"
  /\ UserFree(u)
  /\ IF u \in users
     THEN /\ userLock' = [userLock EXCEPT ![u] = s]
          /\ \/ HistoryOf(u) = {} /\ Goto(s, "commit") /\ txn' = txn
             \/ \E b \in HistoryOf(u) : /\ Goto(s, "history")
                                        /\ txn' = [txn EXCEPT ![s].booking = b]
     ELSE GiveUp(s) /\ UNCHANGED userLock
  /\ UNCHANGED <<tables, roomLock, bookingLock, enqueued, faults>>

\* A booking row can be selected FOR KEY SHARE, unless it is locked FOR UPDATE: an
\* UPDATE that leaves the keys alone, as the sweep's, does not exclude it.
KeyShareFree(b) ==
  bookingLock[b] \in {None} \cup {q \in Sessions : txn[q].op = "complete"}

\* The foreign key waits for that row too; then the DELETE fails: 409.
RefuseDelete(s) ==
  /\ pc[s] = "history"
  /\ KeyShareFree(txn[s].booking)
  /\ Abort(s)
  /\ UNCHANGED <<tables, enqueued, faults>>

CommitDelete(s) ==
  /\ Commit(s, "delete_user", "idle")
  /\ users' = users \ {txn[s].user}
  /\ txn' = [txn EXCEPT ![s] = NoTxn]
  /\ UNCHANGED <<room, booking>>
-----------------------------------------------------------------------------
\* The sessions whose row locks session s may be waiting for.
WaitsFor(s) ==
  CASE pc[s] = "lock_booking" -> {bookingLock[txn[s].booking]} \ {None}
    [] pc[s] = "lock_room"    -> {roomLock[txn[s].room]} \ {None}
    [] pc[s] = "claim"        -> {bookingLock[b] : b \in txn[s].todo} \ {None}
    [] pc[s] = "lock_user"    -> {userLock[txn[s].user]} \ {None}
    [] pc[s] = "history" /\ ~KeyShareFree(txn[s].booking) -> {bookingLock[txn[s].booking]}
    [] pc[s] = "commit" /\ txn[s].op = "create" -> {userLock[txn[s].user]} \ {None}
    [] OTHER -> {}

\* The sessions of W wait in cycles: each waits for the next one, and each is the
\* next one of another (next permutes W).
WaitInCycles(W, next) ==
  /\ W = {next[p] : p \in W}
  /\ \A p \in W : next[p] \in WaitsFor(p)

Deadlocked(s) ==
  \E W \in SUBSET Sessions : \E next \in [W -> W] : s \in W /\ WaitInCycles(W, next)

\* PostgreSQL aborts the statement of a session that is on a cycle.
DeadlockVictim(s) ==
  /\ Deadlocked(s)
  /\ Abort(s)
  /\ UNCHANGED <<tables, enqueued, faults>>

\* Fault: the session is not closed.
LeftOpen(s) ==
  /\ pc[s] = "closing"
  /\ Goto(s, "idle")
  /\ UNCHANGED <<tables, locks, txn, enqueued, faults>>

\* The request ends without a change: the session is closed, the transaction
\* rolled back.
Close(s) ==
  /\ pc[s] = "closing"
  /\ ReleaseLocks(s)
  /\ Goto(s, "idle")
  /\ UNCHANGED <<tables, txn, enqueued, faults>>

\* The process dies or its connection fails, before a commit or between the
\* commit and the enqueueing: the database rolls back and drops the locks.
Crash(s) ==
  /\ pc[s] # "idle" /\ faults < MaxFaults
  /\ faults' = faults + 1
  /\ ReleaseLocks(s)
  /\ Goto(s, "idle")
  /\ txn' = [txn EXCEPT ![s] = NoTxn]
  /\ UNCHANGED <<tables, enqueued>>

\* _enqueue_booking_notification puts the task on the broker's queue ...
Enqueue(s) ==
  /\ pc[s] = "enqueue"
  /\ enqueued' = IF txn[s].op = "create"
                 THEN [enqueued EXCEPT ![txn[s].booking].creation = @ + 1]
                 ELSE [enqueued EXCEPT ![txn[s].booking].cancellation = @ + 1]
  /\ Goto(s, "idle")
  /\ txn' = [txn EXCEPT ![s] = NoTxn]
  /\ UNCHANGED <<tables, locks, faults>>

\* ... or logs the broker's error and lets the request succeed.
EnqueueFails(s) ==
  /\ pc[s] = "enqueue" /\ faults < MaxFaults
  /\ faults' = faults + 1
  /\ Goto(s, "idle")
  /\ txn' = [txn EXCEPT ![s] = NoTxn]
  /\ UNCHANGED <<tables, locks, enqueued>>
-----------------------------------------------------------------------------
\* The steps of a request that is under way; Crash and EnqueueFails are apart.
Continue(s) ==
  \/ LockBooking(s) \/ LockRoom(s)
  \/ CheckPeriod(s) \/ CheckResize(s)
  \/ \E b \in BookingIds : CommitCreate(s, b) \/ ClaimBooking(s, b)
  \/ CreateFails(s)
  \/ CommitUpdate(s) \/ CommitCancel(s) \/ CommitResize(s) \/ CommitArchive(s)
  \/ LockUser(s) \/ RefuseDelete(s) \/ CommitDelete(s)
  \/ SweepReady(s) \/ CommitComplete(s)
  \/ DeadlockVictim(s) \/ Close(s) \/ Enqueue(s)

Start(s) ==
  \/ \E u \in Users, r \in Rooms, st, en \in Time : StartCreate(s, u, r, st, en)
  \/ \E b \in BookingIds :
       \/ \E st, en \in Time \cup {None} : StartUpdate(s, b, st, en)
       \/ \E u \in Users, staff \in BOOLEAN : StartCancel(s, b, u, staff)
  \/ \E r \in Rooms : StartArchive(s, r) \/ \E n \in Units : StartResize(s, r, n)
  \/ \E u \in Users : StartDelete(s, u)
  \/ StartComplete(s)

Next ==
  \/ Tick
  \/ \E r \in Rooms, n \in Units : AddRoom(r, n)
  \/ \E s \in Sessions : Start(s) \/ Continue(s) \/ Crash(s) \/ EnqueueFails(s)

Spec == Init /\ [][Next]_vars

\* Fairness.  A running request goes on, and one that waits for a row lock gets it
\* if it keeps becoming free: PostgreSQL grants row locks from a queue (SF).  The
\* beat schedule starts a sweep every hour, so a sweep is started again and again
\* while a worker is free (SF).
Fairness ==
  /\ \A s \in Sessions : SF_vars(Continue(s))
  /\ SF_vars(\E s \in Sessions : StartComplete(s))

FairSpec == Spec /\ Fairness
=============================================================================
