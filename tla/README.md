# Formal models of the booking service

TLA+ models of the booking application in `src/app` (FastAPI, async SQLAlchemy on
PostgreSQL, Celery with Redis), checked with TLC and, for the core, proved with TLAPS.
`PROJECT.json` maps every definition to the lines it models. Paths below are relative
to `src/app` unless they start with `src/`.

## 1. Inventory

| Component | State it keeps | Operations | Correct when |
|---|---|---|---|
| Booking write paths (`services/booking_service.py`, `api/routers/bookings.py`) | table `bookings` (user, room, period, status), row locks | create, update, cancel; enqueueing after the commit | no room is overbooked, final bookings stay final, each change is announced at most once |
| Room inventory (`api/routers/rooms.py`) | table `rooms` (total_units, is_active) | add, change, archive; catalogue reads | capacity never sinks below what bookings need; an archived room takes no booking |
| Completion sweep (`workers/tasks.py`, `workers/app.py`) | none of its own | hourly UPDATE of finished ACTIVE bookings | only stays that are over, and in the end all of them, are COMPLETED |
| Peak-occupancy algorithm (`has_available_unit`) | local event list and counter | one pass over sorted events | its verdict is "fewer open stays than units at every instant" |
| Credentials and sessions (`routers/auth.py`, `routers/users.py`, `services/refresh_token_service.py`, `dependencies.py`, `core/security.py`) | tables `users` (is_active, tokens_valid_after) and `refresh_tokens`, JWTs at the client | login, refresh, logout, logout-all, change of password, (de)activation | a refresh token is exchanged once; a revocation ends what it saw and spares later logins |
| Notification tasks (`workers/tasks.py`, `services/email.py`) | the broker's queue, `request.retries` | creation and cancellation mail, retries | bounded mails, true cancellations, every job ends |
| Daily reminders (`workers/tasks.py`, `workers/app.py`) | the broker's queue | one run a day: read the next day's bookings, mail all of them | a run on its day forgets nobody; a start is mailed twice only if a run was late |
| User administration (`routers/users.py`, `routers/auth.py`) | the table `users` and what refers to it | registration, change_role, (de)activate, delete_user | unique names; no orphaned bookings or sessions; answers are true; every request ends |
| Availability search (`rooms.py`, `booking_service.py:96`) | none | read-only, two statements | every room it lists was free at some moment since it was read |
| Rate limiter (`services/rate_limit_service.py`) | a counter with a TTL per key in Redis | one Lua script per request | at most `limit` per window; open on failure |
| Daily statistics; mail rendering, configuration, logging, readiness, seeding, migrations | none | reports, formatting, I/O | - |

**How they interact.** API workers and Celery workers share nothing but PostgreSQL and
the broker. Every request has one database session, hence one transaction at a time, at
PostgreSQL's default isolation READ COMMITTED: a statement sees what was committed when
it began; a `SELECT ... FOR UPDATE`, an UPDATE or a DELETE that waited for a row lock
looks at the row again, as it is by then. The handlers are coroutines: whatever lies
between two awaits may be interleaved with any other request. A create or cancel that has
committed hands the booking's id to Celery; the task reads the booking again in a session
of its own, closes it, and only then talks to the SMTP server.

**What is hard.** Check-then-act across a lock wait (availability, status, capacity,
clock); the UPDATE of the sweep, whose rows are chosen from a snapshot and judged again
one at a time; the order of locks (booking before room; sweeps and revocations over many
rows in no order; account before sessions or after them; the users row of a foreign key last),
with PostgreSQL aborting who waits in a cycle; roles judged without a lock; foreign keys that decide at the last
moment; the gap between commit and enqueueing; rotation of a session row under statements that look for
it by the token it had; cutoffs computed at the start of a revocation and committed at
its end; mails whose reply is lost; daily
runs that come late. `PROJECT.json`, "hazards", lists each at its line.

## 2. The modules

```
RoomCalendar            which rows occupy a room, when a unit is left (pure operators)
 |- BookingLedger       the promise: every commit is one atomic step
 |   |- AvailabilitySearch   a search in two statements beside the ledger
 |   `- Reminders            the daily reminder runs over the ledger
 |- BookingService      the program: sessions, row locks, rollbacks, crashes
 |   `- BookingServiceProps   its properties; L == INSTANCE BookingLedger,
 |                            N == INSTANCE Notifications
 `- OccupancySweep      has_available_unit, statement by statement
Notifications           creation and cancellation jobs, from the commit to the mailbox
AuthSessions            one account's credentials and refresh-token rows
Accounts                the users table and what refers to it, many accounts
MC*                     symmetry sets and instances for TLC
*Proofs                 the TLAPS proofs (section 6):
  BookingLedgerProofs      the calendar's lemmas and the ledger
   |- BookingServiceProofs    the requests: data, locks, what they read
   |   `- RefinementProofs       the two refinements and what follows from them
   `- LedgerReadersProofs     search and reminders, which read while others commit
  OccupancySweepProofs, AuthSessionsProofs, AccountsProofs, NotificationsProofs
```

**RoomCalendar** gives the queries of the code (`_load_overlapping_intervals`, the WHERE
clause of the sweep, the query of `change_room`) as operators on a table, a function from
ids to rows. `HasAvailableUnit` is the specification of `has_available_unit`;
OccupancySweep shows that the sorted-events algorithm computes it.

**BookingLedger** is the abstract specification: `room`, `booking` and the clock `now`,
and one action per kind of commit (`Book`, `Move`, `Cancel`, `Complete`, `Resize`,
`Archive`, `AddRoom`), whose conditions hold at the instant of the commit. It says nothing
of how the program gets there.

**BookingService** is the program. `pc[s]` is the await at which the request of session s
stands, `txn[s]` what it holds in memory:

| Code | Actions |
|---|---|
| `create` | `StartCreate` (validates the period) - `LockRoom` - `CheckPeriod` - `CommitCreate` or `CreateFails` (the foreign key on users) - `Enqueue` |
| `update` | `StartUpdate` - `LockBooking` - `LockRoom` - `CheckPeriod` (validates the period and the capacity) - `CommitUpdate` |
| `cancel` | `StartCancel` - `LockBooking` (owner, status) - `LockRoom` - `CommitCancel` - `Enqueue` |
| `change_room` | `StartResize` - `LockRoom` - `CheckResize` - `CommitResize` |
| `delete_room_by_id` | `StartArchive` - `LockRoom` - `CommitArchive` |
| `complete_finished_bookings` | `StartComplete` (clock, snapshot) - `ClaimBooking` per row, in any order - `SweepReady` - `CommitComplete` |
| the deadlock detector of PostgreSQL | `DeadlockVictim`: a session on a waiting cycle is rolled back |
| `add_room` | `AddRoom` |
| `delete_user` | `StartDelete` - `LockUser` (lock, a booking of the user) - `CommitDelete`, or `RefuseDelete` once that booking can be shared (409) |
| an exception, or a cancel of a CANCELLED booking | `GiveUp` in the step that finds it, then `Close` (rollback) |
| a dying process or connection | `Crash`, at any step |
| the broker refuses | `EnqueueFails` (the code logs it, the request succeeds) |

A lock is granted only when it is free and is released by the end of the transaction, so
a request that gave up still holds its locks until `Close`; a statement that the database
itself fails (`CreateFails`, `RefuseDelete`, `DeadlockVictim`) has lost them at once. `delete_user`
is there for its locks: the INSERT of a create shares the row of its user, hence waits for
a deletion while it holds the room; the deletion's foreign key waits for a booking of the user
that somebody has locked. `txn[s].staff` is the role that `get_current_user` read, which
may differ from request to request of one user.

**OccupancySweep** has the arguments and the locals of `has_available_unit` as variables
and one action per round of its loops. `list.sort`, which is stable, is `Sorted`: the event
of rank k comes k-th.

**AuthSessions** follows one account (accounts share no row). A session is a row of
`refresh_tokens` that keeps its id while rotation replaces its token; tokens are numbered
in the order of commits; `epoch`, `exchanged` and `ended` are history variables. The
DELETEs of logout and revoke-all claim their rows one by one and look at each again.
`autoflush=False` (`db/database.py:19`) puts the write of the users row into the commit.

**Notifications** has a job per task and booking. Celery acknowledges a task before it
runs, so `WorkerDies` loses it. A change leaves its job "owed", which `Enqueue` queues
and `EnqueueFails` loses. `SendFails` may or may not have delivered the mail.
`HandleFailure` is `_handle_notification_failure` with the classification of
`_is_transient_notification_error`. `N` in BookingServiceProps maps the service to it: the
status of a booking is that of its row, a job is owed while a session stands before its
enqueueing, queued or lost afterwards; what the workers do is left to Notifications.

**AvailabilitySearch** lets any commit of the ledger happen between the statement that reads
the rooms (`ReadRooms`) and the one that reads the stays (`ReadIntervals`). `wasFree` is
a history variable: the rooms that had a unit at some moment since the first statement.

**Accounts** has a handler per request: `pc[q]` says whether it is about to insert, to
update, to lock the account, to wait for one of its bookings ("history"), to find its
sessions (`Scan`) or to delete what it found.

| Code | Actions |
|---|---|
| `add_user` | `StartRegister` (SELECT) - `InsertUser` (the unique constraints) |
| `user_login`, `book_room` | `StartLogin`, `StartBook` - `InsertSession`, `InsertBooking` (the foreign key) |
| `change_role`, `activate_user` | `StartChangeRole`, `StartActivate` (role, is_active) - `ChangeRole`, `Activate` |
| `delete_user` | `StartDelete` - `LockUser` (lock, booking history) - `RefuseDelete`, or `Claim` per session (the cascade) - `CommitDelete` |
| `deactivate_user`, `logout_all`, `change_password` | `StartDeactivate`, `StartLogoutAll` - `Scan` - `Claim` per session - `CommitRevoke` (the flush of the users row) |
| the deadlock detector; a dying process | `DeadlockVictim`, `RoomDeadlockVictim` (the cycle through a room, of which only two ends are in this model); `Crash` |

`answer` records what the last step answered, `reactivated` the requests whose account was
activated while they ran. AuthSessions and Accounts share the handlers of logins and
revocations and look at different columns: tokens and cutoffs there, roles, existence and
locks of the users row here. BookingService and Accounts share `delete_user` and the
booking: rooms and booking rows there, roles and refresh tokens here.

**Reminders** adds the runs of `send_daily_reminders` to the ledger, each named by the time
it was due. Beat queues at most one run for the last time that was due, however late; a worker takes
it, however late, and looks at the clock (`Take`), reads (`Read`) and mails in any order (`Mail`,
`MailFails`). `since` remembers when a booking was last changed.

## 3. Assumptions of the models

- A database statement that needs no lock, and the wait for one row lock with the
  re-evaluation that follows, are one step each (READ COMMITTED). Under READ COMMITTED
  the two statements of `CheckPeriod` and `CheckResize` need no split: the row they
  depend on is locked by then, and what they read can only be changed under that lock
  (cancel and the sweep excepted, which only free units).
- UPDATE and DELETE lock their rows one by one, in any order: no index and no heap order is
  relied on. PostgreSQL aborts a session that is on a cycle of waiting sessions, and each
  of them may be the one.
- An INSERT that commits at once (`InsertUser`, `InsertSession`, `InsertBooking`,
  `CommitCreate`) is one step: it waits for the rows its constraints need, and asks for no
  other lock once it has them.
- A foreign key selects the row it needs FOR KEY SHARE: it waits for a FOR UPDATE or a DELETE of
  that row, not for an UPDATE that leaves the keys alone (the sweep's; `KeyShareFree`). Which
  booking of a user a deletion looks at is open. The SELECT with which `add_user` reads the
  new row back is left out.
- One clock. All processes read the same host clock; it never goes back.
- Time is a small range of instants, periods are half-open. Only the order of instants
  matters to the code.
- The role of a request is any (`staff`), as `change_role` may commit at any time
  before the request reads it or after. The users are registered at the start. The
  columns of a room other than `total_units` and `is_active` are left out.
- AuthSessions: behaviours are shorter than the lifetime of an access token; passwords
  are always verified against the row that was read.
- Notifications: `delay` queues a task once or not at all.
- Accounts: the table starts with the seeded administrator (`db/seed.py`), who has bookings;
  requests of administrators come while there is an active one. A manager counts as a
  user, as only the role admin is protected. Ids are never reused.
- Reminders: stays take one instant, and the days are UTC days, of two instants in the run.
  `Fire` is the instant of the UTC day that is 9:00 in `settings.TIMEZONE`.

## 4. The runs

| Run | What it shows | Bounds |
|---|---|---|
| `ledger` | atomic commits keep capacity (`NoOverbooking`), complete only what is over, never change final rows, keep archived rooms closed; a search beside them lists no phantom (`ListedWasFree`) | 1 room of at most 2 units, 3 bookings: the third is the one too many |
| `service_capacity` | `LocksHeld`, `LoadedIsCurrent`, `NoOverbooking`, `DeadlocksNeedSweepOrDeletion`, and every commit is a step of the ledger (`RefinesLedger`) | 2 sessions, 2 bookings, 1 user, 1 room of at most 2 units, instants 0..2 |
| `service_lifecycle` | `NotifiedOnce`, `CompletedIsOver`, `FinishedForever` with crashes, broker failures and deletions of users; `RefinesNotifications` | 2 sessions, 2 users, 1 booking, instants 0..3, 1 fault |
| `service_live` | `EveryRequestEnds`, `FinishedGetCompleted` | 2 sessions, 1 user, 1 booking, no symmetry; no waiting cycle can form |
| `occupancy_sweep` | the verdict and the running counter of the algorithm are exact | all lists of at most 3 intervals over 0..4, 0..3 units, in every order |
| `auth_sessions` | `ExchangedOnce`, `RevokedSessionsEnd`, `NewLoginsSurvive` | 2 handlers, 3 tokens, 2 revocations, 1 fault |
| `notifications` | `MailsBounded`, `CancellationIsTrue`, `LateConfirmationAtMostOnce`, `EveryJobEnds` | 1 booking, both jobs, 1 worker process, failures without a bound |
| `accounts` | `UniqueNames`, `NothingOrphaned`, `AnswersAreTrue`, `EveryRequestAnswered` | 2 handlers, an administrator and 2 further accounts, 1 session, registrations that share a name; no symmetry |
| `reminders` | `RunsOK`, `RemindedOnce`, `NoneForgotten` | 2 bookings, 3 days of 2 instants, a run due on each day |
| `start_in_past`, `auth_revocation`, `auth_logout` | violations, see section 5 | as the others |

Why these bounds are enough to be interesting: two sessions give every race of the code,
as locks are pairwise, with one exception: the cycle of a create, a deletion of its user
and a cancel or update takes three. The run has two sessions all the same:
`DeadlocksNeedSweepOrDeletion` and the other invariants are proved for any number of them
(section 6). A room of one unit with two bookings is the
smallest that can be overbooked; with two units both bookings can be over at the same time,
which two sweeps need to wait for each other. A deletion and a revocation wait for each
other over one account and one session; one further account is there to be registered and
deleted while the first is used. Two days with a run each, and a third on which a booking
may start, let two runs read the same day. Four instants let a stay be in the future, running,
ending now and over. Three intervals with two units show both a peak in the middle of a
period and stays that touch. All bounds are CONSTANTS: `MaxTime`, `MaxUnits`, `MaxFaults`,
`MaxTokens`, `MaxRevokes`, `MaxIntervals`, `MaxUsers`, `MaxSessions`, `Starts`;
`IdsRemain`, `TokensRemain`, `RevokesRemain` and the guards of `StartRegister` and
`StartLogin` stop a bound from interrupting a request in the middle.
`CHECK_DEADLOCK FALSE` is set where a behaviour may use up its bounds; who may wait in a
cycle is stated by `DeadlocksNeedSweepOrDeletion`, that requests end by `EveryRequestEnds` and
`EveryRequestAnswered`. The run `accounts` checks deadlock.

**Fairness.** `service_live`: strong fairness of the steps of a running request (the event
loop and the database go on, PostgreSQL grants a row lock from a queue, and the deadlock
detector runs); strong fairness of `StartComplete` (Celery beat starts a sweep every hour, for
ever, so one starts again and again while a worker is free). Nothing is assumed about new
requests. `accounts`: strong fairness of the steps of a running request (lock queues
again) and weak fairness of `DeadlockVictim`, without which a deletion and a revocation
would wait for each other for ever. `notifications`: strong fairness of taking a queued job (queue order), weak
fairness of the enqueueing and of going on with a job; attempts may fail as often as they like, so
it is the limit on retries that ends a job.

## 5. Where the code and its documents disagree

- `NeverInsertedInThePast` (run `start_in_past`). `create` compares the start with the
  clock before it waits for the room's row lock, and not again. A create that waits
  inserts a booking that has started; `src/README.md:48`: "A booking cannot start in the
  past." `update` validates after its locks.
- `OldCredentialsRefused` (run `auth_revocation`). The cutoff of a revocation is computed
  when the request starts and committed at its end. A login or refresh in between, judged
  against the old row, hands out tokens with a later iat, which stay valid. (TLC's shortest
  trace has a deactivation, after which somebody activates the account again; with a change of
  the password or a logout-all the token is of use at once.)
  `src/README.md:250`: "Password changes and account deactivation invalidate existing
  credentials."
- `LogoutEndsSession` (run `auth_logout`). A logout that waits for a rotation of its
  session finds the hash replaced, deletes nothing and answers 204.
  `src/README.md:249`: "Logout supports revoking one session or every session."

## 6. What is proved

For every value of the constants (finite sets of ids, any number of sessions, rooms,
units, instants, faults), from the named assumptions on them only.

**The ledger** (`BookingLedgerProofs`, with the lemmas about the calendar): `TypeOK`,
`NoOverbooking`, `CompletedIsOver`, `FinishedForever`, `NoBookingAfterArchive`.
`NoOverbooking` is inductive together with `TypeOK`. The argument: a new stay adds
at most one row to the rows open at an instant, and inside its period fewer than `units`
were open (`AvailableMeansFree`, `OneMoreFits`); every other commit adds none
(`FewerFit`), or lowers `units` only when no unfinished stay is left, so that from now on
nothing is open (`UnneededIsFree`).

**The search** (`LedgerReadersProofs`): `ListedWasFree`, with the invariant of the ledger. A
room that the second statement finds available had, if its units were never lowered since
the first, a unit at the second; if they were lowered, no unfinished stay needed it at that
moment, and the room was free then.

**The reminders** (`LedgerReadersProofs`): `RunsOK`, `RemindedOnce`, `NoneForgotten`. The
runs leave the tables alone, so the ledger's theorems hold beside them. The invariant
(`RemindersInv`) says of each run that whatever it mailed, or still has to mail, starts on
the day it picked when it looked at the clock; and, once it has read, that every booking
of that day which is still as it was when the run was due is in one of its three lists. Two
runs of different days have disjoint windows, as no day has two runs (`OneRunADay`).

**The algorithm** (`OccupancySweepProofs`): `TypeOK`, `VerdictIsExact`, `CounterIsExact`, for
lists of any length in any order. No induction over data is needed. The sort is shown to be
a permutation into order by counting (`SortedByRank`: the rank of an event is an injective
function of a finite set into itself, hence onto). The invariant (`SweepInv`) says that the
counter is the number of intervals whose first event has been taken and whose last has not
(`Inside`), which at the last event of an instant are those open at it; and that every
instant passed so far had fewer open intervals than units. Between events the number
does not rise, so the instants of the events are enough.

**The requests** (`BookingServiceProofs`). The inductive invariant is

    TypeOK /\ LocksHeld /\ LoadedIsCurrent

None of the parts beyond `TypeOK` can do without the one before it. `TypeOK` contains
`RequestOK`: which data a request has at which step. `LocksHeld`: a request past a lock
holds it. `LoadedIsCurrent`: what a request read under its locks is still so. The last one
is a rely-guarantee argument: whatever step another session takes, it can write the room
only with the room's lock and a booking only with the booking's lock, or frees a unit
only; so it leaves a request that holds these locks undisturbed. One lemma per kind of
step says what the step does to the tables, and one frame lemma carries the rest. From the
same invariant follows `DeadlocksNeedSweepOrDeletion` (`DeadlocksExplained`): a request that holds
a room waits for a deletion at most, so without one whoever waits for a room is on no cycle,
and who waits for a booking and holds another is a sweep. With a deletion the cycle create,
`delete_user`, cancel is possible in the code and in the model: the property does not exclude
it.

**The refinement** (`RefinementProofs`): `Spec => L!Spec`. With `LoadedIsCurrent`,
the condition of each ledger step holds when the service commits; all other steps of the
service stutter. Through it, `NoOverbooking`, `CompletedIsOver`, `FinishedForever` and
`NoBookingAfterArchive` of the ledger hold of the service, with any number of concurrent
sessions and crashes.

**The announcements** (`RefinementProofs`): `NotifiedOnce`, and `Spec => RefinesNotifications`:
the request that commits a creation or cancellation is the only one that owes its job, as
the row says that the change was made.

**The jobs** (`NotificationsProofs`): `TypeOK`, `MailsBounded`, `CancellationIsTrue` and
`LateConfirmationAtMostOnce`. The strengthening: a job exists only after its change; a
job that waits or sends has mailed at most once per retry so far; a cancellation that is
being sent is of a CANCELLED booking; once a late confirmation has arrived its job is not
sending, and a further attempt reads the final status.

**The sessions** (`AuthSessionsProofs`): `TypeOK`, `ExchangedOnce`, `RevokedSessionsEnd`,
`NewLoginsSurvive`, for any number of requests, tokens and revocations. None of them is
inductive. The invariant adds: every row of `refresh_tokens` holds a token that was issued for
it and not exchanged, and a rotation holds the lock of its row from the look at the token
to the commit (`ExchangedOnce`); a revocation at its DELETE finds every session that it saw
and that is still there among the rows claimed or still to claim, whatever token it has by
now (`RevokedSessionsEnd`); a stamp made in the current epoch is not before the cutoff, as
the clock has passed it (`NewLoginsSurvive`); tokens and revocations suffice for the
requests under way (`BoundsSuffice`).

**The accounts** (`AccountsProofs`): `TypeOK`, `UniqueNames`, `NothingOrphaned`
and `AnswersAreTrue`, for any number of handlers, accounts and sessions. The invariant
adds: a deletion at work holds the lock of its account, which is there, has no booking,
and no session but those the deletion has found (`DeletionComplete`), because whoever
would add one waits for that lock; a
deactivation that read its account as inactive finds it so or knows of the activation
(`ReactivationKnown`); the ids suffice for the requests under way (`IdsSuffice`).

**Only model-checked**: liveness under fairness (`EveryRequestEnds`,
`FinishedGetCompleted`, `EveryJobEnds`, `EveryRequestAnswered`), which the prover does not
reach, and the three violations of section 5, which are counterexamples. Every invariant, every
action property and both refinements of the passing runs are proved. ENABLED, induction over
data and RECURSIVE operators are out of the prover's reach as well; no theorem needs them.

## 7. Not modelled

- The text of mails, configuration, logging, readiness: formatting and I/O without a state
  that others depend on. Seeding is the initial state of Accounts; the migrations run
  while the program is down, and the schema they build is taken from the models.
- Daily statistics: three counts in a report that changes no state.
- The rate limiter: one atomic script in Redis before the handler starts, open on failure;
  no component reads its counters. A refused request starts no action of the models.
- The queries of the catalogue (filters, paging), of users and of bookings: read-only.

## 8. Plan

Every component with state that others depend on is modelled, and every safety property
that a run checks is proved. Next:

1. Weaker assumptions of the proofs where the code allows it, and shorter proofs.
2. Across models: that the handlers which AuthSessions and Accounts share agree on the rows
   of `refresh_tokens`, and those of BookingService and Accounts on `delete_user`.
3. Liveness with three sessions and two bookings, where waiting cycles form: beyond what
   TLC checks in minutes.
4. The rate limiter's window, if its counters ever serve another component.
