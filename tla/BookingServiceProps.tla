------------------------- MODULE BookingServiceProps -------------------------
(***************************************************************************)
(* What must hold of BookingService, and the sense in which it implements  *)
(* BookingLedger and the upper half of Notifications.                      *)
(***************************************************************************)
EXTENDS BookingService

L == INSTANCE BookingLedger

\* Every step of the service is a step of the ledger or changes none of its
\* tables: with row locks, each commit finds the room, the bookings and the
\* clock such that its conditions, checked some awaits before, still hold.
RefinesLedger == L!Spec

\* No instant from now on has more active bookings of a room than units,
\* with any interleaving of creates, updates, cancels, resizes and sweeps.
NoOverbooking == L!NoOverbooking

\* Only stays that are over are ever COMPLETED, also when an update moves a
\* booking while the sweep waits for its row.
CompletedIsOver == L!CompletedIsOver

\* A final booking never changes again, although cancel, update and the sweep
\* decide on a row before they commit.
FinishedForever == L!FinishedForever
-----------------------------------------------------------------------------
\* A request whose op is in ops and that is at one of the given steps.
At(s, ops, steps) == txn[s].op \in ops /\ pc[s] \in steps

\* Session s holds the locks that its step relies on.
Holds(s) ==
  /\ pc[s] \in {"check", "commit"} /\ txn[s].op \notin {"complete", "delete_user"} =>
       txn[s].room \in DOMAIN room /\ roomLock[txn[s].room] = s
  /\ At(s, {"update", "cancel"}, {"lock_room", "check", "commit"}) =>
       bookingLock[txn[s].booking] = s
  /\ txn[s].op = "complete" => \A b \in txn[s].done : bookingLock[b] = s
  /\ At(s, {"delete_user"}, {"history", "commit"}) => userLock[txn[s].user] = s

\* Row locks belong to running transactions, and a request past the lock of
\* its room, booking or user holds it.
LocksHeld ==
  /\ \A r \in Rooms : roomLock[r] # None =>
       \/ pc[roomLock[r]] = "closing"
       \/ pc[roomLock[r]] \in {"check", "commit"} /\ txn[roomLock[r]].room = r
  /\ \A b \in BookingIds : bookingLock[b] # None =>
       pc[bookingLock[b]] \in {"lock_room", "check", "claim", "commit", "closing"}
  /\ \A u \in Users : userLock[u] # None =>
       At(userLock[u], {"delete_user"}, {"history", "commit"}) /\ txn[userLock[u]].user = u
  /\ \A s \in Sessions : Holds(s)

\* What the request of session s has read is still so: of its room, ...
RoomIsCurrent(s) ==
  At(s, {"create", "update"}, {"check", "commit"}) =>
    room[txn[s].room].active /\ txn[s].units = room[txn[s].room].units

\* ... of its booking, ...
BookingIsCurrent(s) ==
  At(s, {"update", "cancel"}, {"lock_room", "check", "commit"}) =>
    LET b == txn[s].booking IN
    b \in DOMAIN booking /\ booking[b].status = "ACTIVE" /\ booking[b].room = txn[s].room

\* ... the unit that was left in its period, ...
PeriodIsCurrent(s) ==
  LET t == txn[s] IN
  At(s, {"create", "update"}, {"commit"}) =>
    t.start < t.end /\ RoomAvailable(booking, t.room, t.units, t.start, t.end, OwnRow(s))

\* ... the absence of bookings that a smaller room would break, ...
ResizeIsCurrent(s) ==
  At(s, {"resize"}, {"commit"}) => ~ShrinkRefused(txn[s].room, txn[s].units)

\* ... the absence of bookings of the user that it deletes, ...
HistoryIsCurrent(s) ==
  At(s, {"delete_user"}, {"commit"}) => HistoryOf(txn[s].user) = {}

\* ... and the rows a sweep has found to be over.
SweepIsCurrent(s) ==
  txn[s].op = "complete" =>
    /\ txn[s].time <= now
    /\ txn[s].todo \subseteq DOMAIN booking /\ txn[s].done \subseteq DOMAIN booking
    /\ \A b \in txn[s].done : Finished(booking[b], txn[s].time)

\* Whatever a request read under its locks is still so when it uses it.
LoadedIsCurrent ==
  \A s \in Sessions :
    /\ RoomIsCurrent(s) /\ BookingIsCurrent(s) /\ PeriodIsCurrent(s)
    /\ ResizeIsCurrent(s) /\ HistoryIsCurrent(s) /\ SweepIsCurrent(s)
-----------------------------------------------------------------------------
\* The sessions that still owe the queue a notification of booking b.
Owed(op, b) == {s \in Sessions : /\ pc[s] = "enqueue" /\ txn[s].op = op
                                 /\ txn[s].booking = b}

Told(op, b) == IF op = "create" THEN enqueued[b].creation ELSE enqueued[b].cancellation

\* Did the event that op's notification reports happen to booking b?
Happened(op, b) ==
  /\ b \in DOMAIN booking
  /\ op = "cancel" => booking[b].status = "CANCELLED"

\* Every committed create and cancel enqueues its task exactly once, whatever
\* the number of requests that race for it, as long as nothing fails; after a
\* crash or a broker error the task may be missing, never duplicated, and no
\* task reports something that was not committed.
NotifiedOnce ==
  \A op \in {"create", "cancel"}, b \in BookingIds :
    LET announced == Told(op, b) + Cardinality(Owed(op, b)) IN
    /\ announced <= IF Happened(op, b) THEN 1 ELSE 0
    /\ faults = 0 /\ Happened(op, b) => announced = 1

\* How far the notification job of op has come, seen from the service: it ends
\* where the queue begins.
JobState(op, b) ==
  IF Told(op, b) > 0 THEN "queued"
  ELSE IF Owed(op, b) # {} THEN "owed"
  ELSE IF Happened(op, b) THEN "lost" ELSE "none"

Jobs == {"creation", "cancellation"} \X BookingIds

\* The op that owes job j.
OpOf(j) == IF j[1] = "creation" THEN "create" ELSE "cancel"

JobStates == [j \in Jobs |-> JobState(OpOf(j), j[2])]

Statuses == [b \in BookingIds |->
               IF b \in DOMAIN booking THEN booking[b].status ELSE "none"]

N == INSTANCE Notifications WITH
       Bookings <- BookingIds,
       PoolSize <- 1,
       status   <- Statuses,
       state    <- JobStates,
       retries  <- [j \in Jobs |-> 0],
       mails    <- [j \in Jobs |-> 0],
       late     <- [b \in BookingIds |-> 0]

\* To the notification jobs the service is what Notifications assumes: a job is
\* owed from the commit of its change on, enqueued or lost once, and its booking
\* goes through the statuses that the tasks expect to read.
RefinesNotifications == N!Spec
-----------------------------------------------------------------------------
\* The order of locks keeps the requests from waiting for each other: bookings are
\* locked before rooms.  A deadlock takes two sweeps, which lock their rows in any
\* order, or a deletion of a user: a create waits for it with the room locked, it
\* waits for a booking of the user, and whoever updates or cancels that booking
\* waits for the room.
DeadlocksNeedSweepOrDeletion ==
  \A W \in SUBSET Sessions : \A next \in [W -> W] :
    WaitInCycles(W, next) /\ (\A p \in W : txn[p].op # "delete_user") =>
      \A p \in W : txn[p].op = "complete"

\* "A booking cannot start in the past": no row is inserted whose start has
\* passed by the time of the commit.
NeverInsertedInThePast ==
  [][\A b \in DOMAIN booking' \ DOMAIN booking : booking'[b].start >= now]_vars
-----------------------------------------------------------------------------
\* Every request ends, whatever the others do with the locks it needs.
EveryRequestEnds == \A s \in Sessions : pc[s] # "idle" ~> pc[s] = "idle"

\* A booking that is over does not stay ACTIVE: some sweep completes it, unless
\* somebody cancels it or moves it to a later period.
FinishedGetCompleted ==
  \A b \in BookingIds :
    (b \in DOMAIN booking /\ Finished(booking[b], now))
      ~> ~(b \in DOMAIN booking /\ Finished(booking[b], now))
=============================================================================
