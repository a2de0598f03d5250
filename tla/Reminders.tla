----------------------------- MODULE Reminders -----------------------------
(***************************************************************************)
(* The daily reminders over the ledger of bookings: beat queues one run a  *)
(* day, at an hour of its own time zone; a worker takes it, at once or     *)
(* much later, computes the next day in UTC, reads the bookings that start *)
(* in it, and mails all of them at the same time, once.                    *)
(***************************************************************************)
EXTENDS BookingLedger

CONSTANTS SlotsPerDay,  \* instants of the clock in a day (UTC)
          Fire,         \* the instant of the day that is 9:00 in beat's time zone
          Starts        \* bound: when stays may start

ASSUME RemindersAssumption == /\ SlotsPerDay \in Nat \ {0}
                              /\ Fire \in 0 .. SlotsPerDay - 1
                              /\ Starts \subseteq 0 .. MaxTime - 1

VARIABLES runs,   \* the runs queued so far: due -> what became of it
          since   \* history: when each ACTIVE booking was last changed
vars == <<now, room, booking, runs, since>>

Day(t)   == t \div SlotsPerDay
Days     == 0 .. Day(MaxTime) + 1
Reminder == BookingIds \X Time   \* a booking and the start that the mail names
Run      == [state : {"queued", "taken", "mailing", "lost"}, day : Days,
             todo : SUBSET Reminder, sent : SUBSET Reminder, failed : SUBSET Reminder]

RemindersInit == /\ Init
                 /\ runs = [due \in {} |-> {}]
                 /\ since = [b \in BookingIds |-> 0]

\* The requests and the sweep go on: a stay takes one instant.
LedgerStep ==
  /\ \/ Tick
     \/ \E r \in Rooms : AddRoom(r, MaxUnits)
     \/ \E b \in BookingIds, st \in Starts :
          \/ \E u \in Users, r \in Rooms : Book(b, u, r, st, st + 1)
          \/ Move(b, st, st + 1)
     \/ \E b \in BookingIds : Cancel(b)
     \/ \E ids \in SUBSET DOMAIN booking : ids # {} /\ Complete(ids)
  /\ since' = [b \in BookingIds |->
                 IF b \notin DOMAIN booking' \/ booking'[b].status # "ACTIVE" THEN 0
                 ELSE IF b \in DOMAIN booking /\ booking'[b] = booking[b] THEN since[b] ELSE now]
  /\ UNCHANGED runs

\* Beat queues a run for the last time it was due, once.  One that was down may
\* do so much later, or skip days.
Queue(due) ==
  /\ due % SlotsPerDay = Fire /\ due <= now
  /\ \A t \in due + 1 .. now : t % SlotsPerDay # Fire
  /\ due \notin DOMAIN runs
  /\ runs' = Inserted(runs, due, [state |-> "queued", day |-> 0,
                                  todo |-> {}, sent |-> {}, failed |-> {}])
  /\ UNCHANGED <<now, room, booking, since>>

\* A worker takes the run, acknowledges it and looks at the clock.
Take(due) ==
  /\ runs[due].state = "queued"
  /\ runs' = [runs EXCEPT ![due].state = "taken", ![due].day = Day(now) + 1]
  /\ UNCHANGED <<now, room, booking, since>>

\* Fault: the first instant of the day is left out.
AfterMidnight(b, day) ==
  /\ booking[b].status = "ACTIVE"
  /\ booking[b].start > day * SlotsPerDay
  /\ booking[b].start < (day + 1) * SlotsPerDay

\* Fault: the end of the day is not looked at.
OpenEnded(b, day) ==
  /\ booking[b].status = "ACTIVE"
  /\ booking[b].start >= day * SlotsPerDay

\* The WHERE clause: ACTIVE, and from 00:00 to the last microsecond of the day.
InWindow(b, day) ==
  /\ booking[b].status = "ACTIVE"
  /\ booking[b].start >= day * SlotsPerDay
  /\ booking[b].start < (day + 1) * SlotsPerDay

\* One SELECT; the session is closed before anything is mailed.
Read(due) ==
  /\ runs[due].state = "taken"
  /\ runs' = [runs EXCEPT
       ![due].state = "mailing",
       ![due].todo = {<<b, booking[b].start>> :
                        b \in {c \in DOMAIN booking : InWindow(c, runs[due].day)}}]
  /\ UNCHANGED <<now, room, booking, since>>

\* Fault: what was mailed is mailed again.
MailAgain(due, m) ==
  /\ m \in runs[due].todo
  /\ runs' = [runs EXCEPT ![due].sent = @ \cup {m}]
  /\ UNCHANGED <<now, room, booking, since>>

\* One of the threads delivers its mail ...
Mail(due, m) ==
  /\ m \in runs[due].todo
  /\ runs' = [runs EXCEPT ![due].todo = @ \ {m}, ![due].sent = @ \cup {m}]
  /\ UNCHANGED <<now, room, booking, since>>

\* ... or fails, which is logged and stops no other.
MailFails(due, m) ==
  /\ m \in runs[due].todo
  /\ runs' = [runs EXCEPT ![due].todo = @ \ {m}, ![due].failed = @ \cup {m}]
  /\ UNCHANGED <<now, room, booking, since>>

Done(due) == runs[due].state = "mailing" /\ runs[due].todo = {}

\* The worker dies: nobody takes the run again.
WorkerDies(due) ==
  /\ runs[due].state \in {"taken", "mailing"} /\ ~Done(due)
  /\ runs' = [runs EXCEPT ![due].state = "lost", ![due].todo = {}]
  /\ UNCHANGED <<now, room, booking, since>>

RemindersNext ==
  \/ LedgerStep
  \/ \E due \in Time : Queue(due)
  \/ \E due \in DOMAIN runs :
       \/ Take(due) \/ Read(due) \/ WorkerDies(due)
       \/ \E m \in Reminder : Mail(due, m) \/ MailFails(due, m)

RemindersSpec == RemindersInit /\ [][RemindersNext]_vars
-----------------------------------------------------------------------------
\* Runs are of their type, and no reminder is in two places.
RunsOK ==
  /\ DOMAIN runs \subseteq Time
  /\ \A due \in DOMAIN runs :
       LET run == runs[due] IN
       /\ run \in Run
       /\ run.todo \cap run.sent = {} /\ run.failed \cap (run.todo \cup run.sent) = {}
  /\ since \in [BookingIds -> Time]

\* The run was taken on the day it was due.
OnItsDay(due) == runs[due].day = Day(due) + 1

\* A guest is reminded of a start once, unless a run was taken on a later day than
\* the day it was due: two runs then read the bookings of the same day.
RemindedOnce ==
  \A d1, d2 \in DOMAIN runs :
    d1 # d2 /\ runs[d1].sent \cap runs[d2].sent # {} => ~OnItsDay(d1) \/ ~OnItsDay(d2)

\* A run that was taken on its day and has ended has tried to mail every booking of
\* the next day that was there before it was due and is still the same.
NoneForgotten ==
  \A due \in DOMAIN runs : \A b \in DOMAIN booking :
    /\ Done(due) /\ OnItsDay(due)
    /\ booking[b].status = "ACTIVE" /\ since[b] < due
    /\ Day(booking[b].start) = Day(due) + 1
    => <<b, booking[b].start>> \in runs[due].sent \cup runs[due].failed
=============================================================================
