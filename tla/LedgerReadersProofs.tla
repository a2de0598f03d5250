------------------------- MODULE LedgerReadersProofs -------------------------
(***************************************************************************)
(* Proofs of the two parts that read the tables while others commit, for   *)
(* any number of rooms, units, bookings and commits: the availability      *)
(* search lists no phantom (SearchListsNoPhantom), and the daily reminders *)
(* repeat nothing and forget nobody while every run is taken on its day    *)
(* (OneReminderAStart, NobodyForgotten).                                   *)
(***************************************************************************)
EXTENDS AvailabilitySearch, Reminders, BookingLedgerProofs
-----------------------------------------------------------------------------
\* What is known of a room that was read: its free moments are remembered, and if
\* there was none it still has at least the units that were read.
Known(r) == /\ Free(r, period) => r \in wasFree
            /\ r \in wasFree \/ found[r] <= 0 \/ room[r].units >= found[r]

Watched ==
  /\ period \in [from : Int, to : Int]
  /\ DOMAIN found \subseteq DOMAIN room /\ found \in [DOMAIN found -> Int]
  /\ stage = "rooms" => \A r \in DOMAIN found : Known(r)
  /\ stage # "done" => listed = {}
  /\ listed \subseteq wasFree

\* A room loses units only while nobody needs it.
LEMMA UnitsStep ==
  ASSUME TypeOK, Next, NEW r \in DOMAIN room
  PROVE  /\ r \in DOMAIN room'
         /\ room'[r].units >= room[r].units \/ ~HasUnfinishedBooking(booking, r, now)
<1>0. room[r].units \in Int
  BY TablesAreFinite
<1>1. CASE room' = room
  BY <1>0, <1>1
<1>2. ASSUME NEW q \in Rooms, NEW n \in Units, AddRoom(q, n)
      PROVE  r \in DOMAIN room' /\ room'[r] = room[r]
  BY <1>2 DEF AddRoom, Inserted
<1>3. ASSUME NEW q \in Rooms, NEW n \in Units, Resize(q, n)
      PROVE  /\ r \in DOMAIN room'
             /\ room'[r].units >= room[r].units \/ ~HasUnfinishedBooking(booking, r, now)
  BY <1>0, <1>3 DEF Resize, TypeOK, Room, Units
<1>4. ASSUME NEW q \in Rooms, Archive(q)
      PROVE  r \in DOMAIN room' /\ room'[r].units = room[r].units
  BY <1>4 DEF Archive, TypeOK, Room
<1>5. CASE Tick \/ \E b \in BookingIds :
              \/ \E u \in Users, q \in Rooms, st, en \in Time : Book(b, u, q, st, en)
              \/ \E st, en \in Time : Move(b, st, en)
              \/ Cancel(b)
  BY <1>1, <1>5 DEF Tick, Book, Move, Cancel
<1>6. CASE \E ids \in SUBSET DOMAIN booking : Complete(ids)
  BY <1>1, <1>6 DEF Complete
<1> QED BY <1>0, <1>2, <1>3, <1>4, <1>5, <1>6 DEF Next

\* A room that nobody needs is free for whatever is left of a period.
LEMMA UnneededRoomIsFree ==
  ASSUME TypeOK, NEW r \in DOMAIN room, ~HasUnfinishedBooking(booking, r, now),
         room[r].units > 0, NEW p \in [from : Int, to : Int]
  PROVE  Free(r, p)
<1>1. HasPeriods(booking) /\ now \in Int
  BY TablesAreFinite
<1>2. ASSUME NEW t \in p.from .. (p.to - 1), t >= now
      PROVE  Cardinality(OccupiedAt(booking, r, t)) < room[r].units
  <2>1. t \in Int
    OBVIOUS
  <2>2. OccupiedAt(booking, r, t) = {}
    BY <1>1, <1>2, <2>1, UnneededIsFree
  <2> QED BY <2>2, FS_EmptySet
<1> QED BY <1>2 DEF Free

\* A room that the second statement finds available is free if its units, as they
\* are by then, are at least those that were read.
LEMMA AvailableRoomIsFree ==
  ASSUME TypeOK, Watched, NEW r \in DOMAIN found, Available(r), room[r].units >= found[r]
  PROVE  Free(r, period)
<1>1. /\ r \in DOMAIN room /\ room[r].units \in Int /\ found[r] \in Int /\ found[r] > 0
      /\ HasPeriods(booking) /\ period.from \in Int /\ period.to \in Int
  BY TablesAreFinite DEF Watched, Available, HasAvailableUnit
<1>2. RoomAvailable(booking, r, found[r], period.from, period.to, {})
  <2>1. OverlappingIntervals(booking, r, period.from, period.to) \ {}
          = OverlappingIntervals(booking, r, period.from, period.to)
    OBVIOUS
  <2> QED BY <2>1 DEF Available, RoomAvailable
<1>3. ASSUME NEW t \in period.from .. (period.to - 1)
      PROVE  Cardinality(OccupiedAt(booking, r, t)) < room[r].units
  <2>1. Cardinality(OccupiedAt(booking, r, t) \ {}) < found[r]
    BY <1>1, <1>2, <1>3, AvailableMeansFree
  <2>2. OccupiedAt(booking, r, t) \ {} = OccupiedAt(booking, r, t)
    OBVIOUS
  <2>3. Cardinality(OccupiedAt(booking, r, t)) \in Nat
    BY TablesAreFinite, OccupiedFinite, FS_CardinalityType
  <2> QED BY <1>1, <2>1, <2>2, <2>3
<1> QED BY <1>1, <1>3 DEF Free

\* A commit during the search keeps what is known.
LEMMA WatchStep ==
  ASSUME TypeOK, TypeOK', Watched, CommitStep PROVE Watched'
<1>1. Next /\ UNCHANGED <<stage, period, found, listed>>
  BY DEF CommitStep
<1>2. DOMAIN found \subseteq DOMAIN room'
  BY <1>1, UnitsStep DEF Watched
<1>3. wasFree \subseteq wasFree'
  BY DEF CommitStep
<1>4. ASSUME stage = "rooms", NEW r \in DOMAIN found PROVE Known(r)'
  <2>1. Free(r, period)' => r \in wasFree'
    BY <1>2, <1>4 DEF CommitStep, FreeRooms
  <2>2. /\ Known(r) /\ r \in DOMAIN room
        /\ found[r] \in Int /\ room[r].units \in Int /\ room'[r].units \in Int
    BY <1>2, <1>4, TablesAreFinite DEF Watched, TypeOK, Room, Units
  <2>3. CASE room'[r].units >= room[r].units
    BY <1>1, <1>3, <2>1, <2>2, <2>3 DEF Known
  <2>4. CASE ~HasUnfinishedBooking(booking, r, now)
    <3>1. CASE room[r].units > 0
      <4>1. Free(r, period)
        BY <2>2, <2>4, <3>1, UnneededRoomIsFree DEF Watched
      <4> QED BY <1>1, <1>3, <2>1, <2>2, <4>1 DEF Known
    <3>2. CASE ~(room[r].units > 0)
      BY <1>1, <1>3, <2>1, <2>2, <3>2 DEF Known
    <3> QED BY <3>1, <3>2
  <2> QED BY <1>1, <2>2, <2>3, <2>4, UnitsStep
<1> QED BY <1>1, <1>2, <1>3, <1>4 DEF Watched

\* The search itself keeps it.
LEMMA SearchStep ==
  ASSUME TypeOK, TypeOK', Watched, SearchNext PROVE Watched'
<1>1. ASSUME NEW ids \in {Rooms} \cup {{r} : r \in Rooms}, NEW start \in Time \cup {None},
             NEW end \in Time \cup {None}, ReadRooms(ids, start, end)
      PROVE  Watched'
  <2> DEFINE p == [from |-> PeriodFrom(start), to |-> PeriodTo(start, end)]
             rooms == {r \in ids \cap DOMAIN room : room[r].active}
  <2>1. p \in [from : Int, to : Int]
    BY SearchAssumption DEF PeriodFrom, PeriodTo, TypeOK, Time
  <2>2. /\ period' = p /\ found' = [r \in rooms |-> room[r].units]
        /\ wasFree' = FreeRooms(p) /\ UNCHANGED <<ledgerVars, listed>> /\ stage = "idle"
    BY <1>1 DEF ReadRooms
  <2> HIDE DEF p
  <2>3. \A r \in DOMAIN room : room[r].units \in Int
    BY TablesAreFinite
  <2>4. DOMAIN found' \subseteq DOMAIN room' /\ found' \in [DOMAIN found' -> Int]
    BY <2>2, <2>3 DEF ledgerVars
  <2>5. ASSUME NEW r \in DOMAIN found' PROVE Known(r)'
    <3>1. r \in DOMAIN room /\ found'[r] = room[r].units /\ room'[r].units = room[r].units
      BY <2>2, <2>5 DEF ledgerVars
    <3>2. Free(r, period)' => Free(r, p)
      BY <2>2 DEF Free, ledgerVars
    <3>3. Free(r, period)' => r \in wasFree'
      BY <2>2, <3>1, <3>2 DEF FreeRooms
    <3> QED BY <2>3, <3>1, <3>3 DEF Known
  <2>6. listed' \subseteq wasFree'
    BY <2>2 DEF Watched
  <2> QED BY <2>1, <2>2, <2>4, <2>5, <2>6 DEF Watched
<1>2. CASE ReadIntervals
  <2>1. /\ stage = "rooms" /\ stage' = "done" /\ UNCHANGED <<ledgerVars, wasFree>>
        /\ listed' = {r \in DOMAIN found : Available(r)}
        /\ period' = NoPeriod /\ found' = NoRooms
    BY <1>2 DEF ReadIntervals
  <2>2. ASSUME NEW r \in DOMAIN found, Available(r) PROVE r \in wasFree
    <3>1. Known(r) /\ found[r] > 0 /\ found[r] \in Int
      BY <2>1, <2>2 DEF Watched, Available, HasAvailableUnit
    <3> QED BY <2>2, <3>1, AvailableRoomIsFree DEF Known
  <2> QED BY <2>1, <2>2 DEF Watched, NoPeriod, NoRooms
<1>3. CASE Respond
  BY <1>3 DEF Respond, Watched, ledgerVars
<1> QED BY <1>1, <1>2, <1>3, WatchStep DEF SearchNext

\* The search changes no table: beside it the ledger takes its own steps.
LEMMA SearchOverLedger == [SearchNext]_<<ledgerVars, searchVars>> => [Next]_ledgerVars
BY DEF SearchNext, CommitStep, ReadRooms, ReadIntervals, Respond

LEMMA SearchRunsLedger == SearchSpec => Spec
<1>1. SearchInit => Init
  BY DEF SearchInit
<1> QED BY <1>1, SearchOverLedger, PTL DEF SearchSpec, Spec

\* Every room that a search lists had a unit left for what was left of the period,
\* at some moment between the search's two statements.
THEOREM SearchListsNoPhantom == SearchSpec => []ListedWasFree
<1>1. SearchInit => Watched
  BY DEF SearchInit, Init, Watched, NoPeriod, NoRooms
<1>2. TypeOK /\ TypeOK' /\ Watched /\ [SearchNext]_<<ledgerVars, searchVars>> => Watched'
  <2> SUFFICES ASSUME TypeOK, TypeOK', Watched, UNCHANGED <<ledgerVars, searchVars>>
               PROVE  Watched'
    BY SearchStep
  <2> QED BY DEF ledgerVars, searchVars, Watched, Known, Free
<1>3. SearchSpec => []TypeOK
  BY SearchRunsLedger, TypeCorrect, PTL
<1>4. Watched => ListedWasFree
  BY DEF Watched, ListedWasFree
<1> QED BY <1>1, <1>2, <1>3, <1>4, PTL DEF SearchSpec
-----------------------------------------------------------------------------
\* The reminders change no table: beside them the ledger takes its own steps.
LEMMA RemindersOverLedger == [RemindersNext]_vars => [Next]_ledgerVars
<1> SUFFICES ASSUME RemindersNext PROVE [Next]_ledgerVars
  BY DEF vars, ledgerVars
<1>1. CASE LedgerStep
  <2>1. MaxUnits \in Units
    BY LedgerAssumption DEF Units
  <2>2. \A st \in Starts : st \in Time /\ st + 1 \in Time
    BY RemindersAssumption, LedgerAssumption DEF Time
  <2>3. CASE Tick
    BY <2>3 DEF Next
  <2>4. ASSUME NEW r \in Rooms, AddRoom(r, MaxUnits) PROVE Next
    BY <2>1, <2>4 DEF Next
  <2>5. ASSUME NEW b \in BookingIds, NEW st \in Starts, NEW u \in Users, NEW r \in Rooms,
               Book(b, u, r, st, st + 1)
        PROVE  Next
    BY <2>2, <2>5 DEF Next
  <2>6. ASSUME NEW b \in BookingIds, NEW st \in Starts, Move(b, st, st + 1) PROVE Next
    BY <2>2, <2>6 DEF Next
  <2>7. ASSUME NEW b \in BookingIds, Cancel(b) PROVE Next
    BY <2>7 DEF Next
  <2>8. ASSUME NEW ids \in SUBSET DOMAIN booking, Complete(ids) PROVE Next
    BY <2>8 DEF Next
  <2> QED BY <1>1, <2>3, <2>4, <2>5, <2>6, <2>7, <2>8 DEF LedgerStep
<1>2. CASE \E due \in Time : Queue(due)
  BY <1>2 DEF Queue, ledgerVars
<1>3. CASE \E due \in DOMAIN runs :
             \/ Take(due) \/ Read(due) \/ WorkerDies(due)
             \/ \E m \in Reminder : Mail(due, m) \/ MailFails(due, m)
  BY <1>3 DEF Take, Read, WorkerDies, Mail, MailFails, ledgerVars
<1> QED BY <1>1, <1>2, <1>3 DEF RemindersNext

LEMMA RemindersRunLedger == RemindersSpec => Spec
<1>1. RemindersInit => Init
  BY DEF RemindersInit
<1> QED BY <1>1, RemindersOverLedger, PTL DEF RemindersSpec, Spec

\* Days are as long as SlotsPerDay, and they follow each other.
InDay(t, day) == day * SlotsPerDay <= t /\ t < (day + 1) * SlotsPerDay

LEMMA EveryInstantHasItsDay ==
  ASSUME NEW t \in Int PROVE Day(t) \in Int /\ InDay(t, Day(t))
BY RemindersAssumption, Z3T(30) DEF Day, InDay

LEMMA LaterDays ==
  ASSUME NEW a \in Int, NEW b \in Int, a < b
  PROVE  (a + 1) * SlotsPerDay <= b * SlotsPerDay
<1>1. SlotsPerDay \in Nat
  BY RemindersAssumption
<1>2. PICK n \in Nat : b = (a + 1) + n
  <2>1. b - (a + 1) \in Nat /\ b = (a + 1) + (b - (a + 1))
    OBVIOUS
  <2> QED BY <2>1
<1>3. b * SlotsPerDay = (a + 1) * SlotsPerDay + n * SlotsPerDay
  BY <1>1, <1>2, Z3
<1>4. n * SlotsPerDay \in Nat
  BY <1>1, Z3
<1>5. (a + 1) * SlotsPerDay \in Int
  BY <1>1, Z3
<1> QED BY <1>3, <1>4, <1>5

LEMMA OneDayEach ==
  ASSUME NEW t \in Int, NEW a \in Int, NEW b \in Int, InDay(t, a), InDay(t, b)
  PROVE  a = b
<1>1. /\ a * SlotsPerDay \in Int /\ (a + 1) * SlotsPerDay \in Int
      /\ b * SlotsPerDay \in Int /\ (b + 1) * SlotsPerDay \in Int
  BY RemindersAssumption, Z3
<1>2. ~(a < b)
  BY <1>1, LaterDays DEF InDay
<1>3. ~(b < a)
  BY <1>1, LaterDays DEF InDay
<1> QED BY <1>2, <1>3

\* The clock never leaves the days that the runs are numbered by.
LEMMA TodayIsADay ==
  ASSUME NEW t \in Time PROVE Day(t) + 1 \in Days
<1> DEFINE d == Day(t)
           last == Day(MaxTime)
<1>0. t \in Int /\ 0 <= t /\ t <= MaxTime /\ MaxTime \in Int
  BY LedgerAssumption DEF Time
<1>1. d \in Int /\ last \in Int /\ InDay(t, d) /\ InDay(MaxTime, last)
  BY <1>0, EveryInstantHasItsDay
<1> HIDE DEF d, last
<1>2. SlotsPerDay \in Nat
  BY RemindersAssumption
<1>3. /\ d * SlotsPerDay \in Int /\ (d + 1) * SlotsPerDay \in Int
      /\ last * SlotsPerDay \in Int /\ (last + 1) * SlotsPerDay \in Int
  BY <1>1, <1>2, Z3
<1>4. ~(last < d)
  BY <1>0, <1>1, <1>3, LaterDays DEF InDay
<1>5. ~(d < 0)
  <2>1. ASSUME d < 0 PROVE FALSE
    <3>1. (d + 1) * SlotsPerDay <= 0 * SlotsPerDay
      BY <1>1, <2>1, LaterDays
    <3>2. 0 * SlotsPerDay = 0
      BY <1>2
    <3> QED BY <1>0, <1>1, <1>3, <3>1, <3>2 DEF InDay
  <2> QED BY <2>1
<1>6. d + 1 \in 0 .. last + 1
  BY <1>1, <1>4, <1>5
<1> QED BY <1>6 DEF Days, d, last

\* Two runs that were due on the same day are one.
LEMMA OneRunADay ==
  ASSUME NEW d1 \in Int, NEW d2 \in Int, d1 % SlotsPerDay = Fire, d2 % SlotsPerDay = Fire,
         Day(d1) = Day(d2)
  PROVE  d1 = d2
<1> DEFINE day == Day(d1)
<1>1. day \in Int /\ InDay(d1, day) /\ InDay(d2, day)
  BY EveryInstantHasItsDay
<1>2. ASSUME NEW t \in Int, t % SlotsPerDay = Fire, NEW x \in Int, InDay(t, x)
      PROVE  t = x * SlotsPerDay + Fire
  <2>1. PICK c \in Int : t = SlotsPerDay * c + Fire
    BY <1>2, RemindersAssumption, Z3T(30)
  <2>2. SlotsPerDay * c = c * SlotsPerDay /\ (c + 1) * SlotsPerDay = c * SlotsPerDay + SlotsPerDay
        /\ c * SlotsPerDay \in Int
    BY RemindersAssumption, Z3
  <2>3. InDay(t, c)
    BY <2>1, <2>2, RemindersAssumption DEF InDay
  <2>4. x = c
    BY <1>2, <2>3, OneDayEach
  <2> QED BY <2>1, <2>2, <2>4
<1> HIDE DEF day
<1>3. d1 = day * SlotsPerDay + Fire
  BY <1>1, <1>2
<1>4. d2 = day * SlotsPerDay + Fire
  BY <1>1, <1>2
<1> QED BY <1>3, <1>4
-----------------------------------------------------------------------------
\* The reminders of a run, whatever became of them.
Tried(due) == runs[due].todo \cup runs[due].sent \cup runs[due].failed

\* A run is of its type, and no reminder is in two places.
WellFormed(run) ==
  /\ run \in Run
  /\ run.todo \cap run.sent = {} /\ run.failed \cap (run.todo \cup run.sent) = {}

\* Runs are queued at their hour, read nothing before they know their day, try no
\* start of another day, and once they have read they have missed no booking of it
\* that was there before they were due and is still the same.
RunOK(due) ==
  /\ due % SlotsPerDay = Fire /\ due <= now
  /\ runs[due].state \in {"queued", "taken"} => Tried(due) = {}
  /\ \A m \in Tried(due) : InDay(m[2], runs[due].day)
  /\ \A b \in DOMAIN booking :
       /\ runs[due].state = "mailing"
       /\ booking[b].status = "ACTIVE" /\ since[b] < due
       /\ InDay(booking[b].start, runs[due].day)
       => <<b, booking[b].start>> \in Tried(due)

RemindersInv == RunsOK /\ \A due \in DOMAIN runs : RunOK(due)

\* A commit leaves the runs alone, and a booking it adds or changes is one that has
\* changed since every run was due.
LEMMA CommitKeepsRuns ==
  ASSUME TypeOK, TypeOK', RemindersInv, LedgerStep PROVE RemindersInv'
<1> DEFINE fresh(b) == IF b \notin DOMAIN booking' \/ booking'[b].status # "ACTIVE" THEN 0
                       ELSE IF b \in DOMAIN booking /\ booking'[b] = booking[b]
                            THEN since[b] ELSE now
<1>1. runs' = runs /\ since' = [b \in BookingIds |-> fresh(b)]
  BY DEF LedgerStep
<1>2. now' >= now /\ now \in Int /\ now' \in Int
  <2>1. now' = now \/ now' = now + 1
    BY DEF LedgerStep, Tick, AddRoom, Book, Move, Cancel, Complete
  <2> QED BY <2>1 DEF TypeOK, Time
<1>3. since' \in [BookingIds -> Time]
  <2>1. \A b \in BookingIds : fresh(b) \in Time
    <3>1. 0 \in Time
      BY LedgerAssumption DEF Time
    <3> QED BY <3>1 DEF TypeOK, RemindersInv, RunsOK
  <2> HIDE DEF fresh
  <2> QED BY <1>1, <2>1
<1>4. RunsOK'
  BY <1>1, <1>3 DEF RemindersInv, RunsOK
<1>5. ASSUME NEW due \in DOMAIN runs PROVE RunOK(due)'
  <2>1. RunOK(due) /\ due \in Int
    BY DEF RemindersInv, RunsOK, Time
  <2>2. due <= now'
    BY <1>2, <2>1 DEF RunOK
  <2>3. Tried(due)' = Tried(due)
    BY <1>1 DEF Tried
  <2>4. ASSUME NEW b \in DOMAIN booking', booking'[b].status = "ACTIVE", since'[b] < due
        PROVE  b \in DOMAIN booking /\ booking'[b] = booking[b] /\ since'[b] = since[b]
    <3>1. b \in BookingIds
      BY DEF TypeOK
    <3>2. since'[b] = IF b \in DOMAIN booking /\ booking'[b] = booking[b]
                      THEN since[b] ELSE now
      BY <1>1, <2>4, <3>1
    <3>3. ~(now < due)
      BY <1>2, <2>1 DEF RunOK
    <3> QED BY <2>4, <3>2, <3>3
  <2>5. /\ runs'[due].state \in {"queued", "taken"} => Tried(due)' = {}
        /\ \A m \in Tried(due)' : InDay(m[2], runs'[due].day)
    BY <1>1, <2>1, <2>3 DEF RunOK
  <2>6. ASSUME NEW b \in DOMAIN booking', runs'[due].state = "mailing",
               booking'[b].status = "ACTIVE", since'[b] < due,
               InDay(booking'[b].start, runs'[due].day)
        PROVE  <<b, booking'[b].start>> \in Tried(due)'
    BY <1>1, <2>1, <2>3, <2>4, <2>6 DEF RunOK
  <2>7. due % SlotsPerDay = Fire
    BY <2>1 DEF RunOK
  <2> QED BY <2>2, <2>5, <2>6, <2>7 DEF RunOK, InDay
<1> QED BY <1>1, <1>4, <1>5 DEF RemindersInv

\* A step of one run leaves the others alone.
LEMMA OneRunSteps ==
  ASSUME RemindersInv, NEW due \in Time, UNCHANGED <<now, room, booking, since>>,
         DOMAIN runs' = DOMAIN runs \cup {due},
         \A d \in DOMAIN runs : d # due => runs'[d] = runs[d],
         WellFormed(runs'[due]), RunOK(due)'
  PROVE  RemindersInv'
<1>1. ASSUME NEW d \in DOMAIN runs' PROVE WellFormed(runs'[d])
  BY DEF RemindersInv, RunsOK, WellFormed
<1>2. ASSUME NEW d \in DOMAIN runs' PROVE RunOK(d)'
  <2>1. CASE d = due
    BY <2>1
  <2>2. CASE d # due
    <3>1. d \in DOMAIN runs /\ runs'[d] = runs[d] /\ RunOK(d)
      BY <2>2 DEF RemindersInv
    <3> QED BY <3>1 DEF RunOK, Tried, InDay
  <2> QED BY <2>1, <2>2
<1>3. RunsOK'
  BY <1>1 DEF RemindersInv, RunsOK, WellFormed
<1> QED BY <1>2, <1>3 DEF RemindersInv

LEMMA QueueKeepsRuns ==
  ASSUME TypeOK, RemindersInv, NEW due \in Time, Queue(due) PROVE RemindersInv'
<1> DEFINE run == [state |-> "queued", day |-> 0, todo |-> {}, sent |-> {}, failed |-> {}]
<1>1. /\ runs' = Inserted(runs, due, run) /\ due \notin DOMAIN runs
      /\ due % SlotsPerDay = Fire /\ due <= now /\ UNCHANGED <<now, room, booking, since>>
  BY DEF Queue
<1>2. /\ DOMAIN runs' = DOMAIN runs \cup {due} /\ runs'[due] = run
      /\ \A d \in DOMAIN runs : d # due => runs'[d] = runs[d]
  BY <1>1 DEF Inserted
<1>3. 0 \in Days
  <2>1. MaxTime \in Time
    BY LedgerAssumption DEF Time
  <2>2. Day(MaxTime) \in Int /\ Day(MaxTime) + 1 \in Days
    BY <2>1, LedgerAssumption, EveryInstantHasItsDay, TodayIsADay
  <2> QED BY <2>2 DEF Days
<1>4. WellFormed(run)
  BY <1>3 DEF WellFormed, Run
<1>5. RunOK(due)'
  BY <1>1, <1>2 DEF RunOK, Tried
<1> QED BY <1>1, <1>2, <1>4, <1>5, OneRunSteps

\* What a run writes is its own record.
LEMMA RunWrites ==
  ASSUME RemindersInv, NEW due \in DOMAIN runs, NEW run,
         UNCHANGED <<now, room, booking, since>>, runs' = [runs EXCEPT ![due] = run],
         WellFormed(run),
         runs'[due] = run => RunOK(due)'
  PROVE  RemindersInv'
<1>1. /\ due \in Time /\ DOMAIN runs' = DOMAIN runs \cup {due} /\ runs'[due] = run
      /\ \A d \in DOMAIN runs : d # due => runs'[d] = runs[d]
  BY DEF RemindersInv, RunsOK
<1> QED BY <1>1, OneRunSteps

LEMMA TakeKeepsRuns ==
  ASSUME TypeOK, RemindersInv, NEW due \in DOMAIN runs, Take(due) PROVE RemindersInv'
<1> DEFINE today == Day(now) + 1
           run == [runs[due] EXCEPT !.state = "taken", !.day = today]
<1>1. /\ runs' = [runs EXCEPT ![due] = run] /\ runs[due].state = "queued"
      /\ UNCHANGED <<now, room, booking, since>>
  BY DEF Take
<1>2. today \in Days
  BY TodayIsADay DEF TypeOK
<1> HIDE DEF today
<1>3. runs[due] \in Run /\ WellFormed(runs[due]) /\ RunOK(due)
  BY DEF RemindersInv, RunsOK, WellFormed
<1>4. /\ run.state = "taken" /\ run.todo = runs[due].todo
      /\ run.sent = runs[due].sent /\ run.failed = runs[due].failed /\ run \in Run
  BY <1>2, <1>3 DEF Run
<1> HIDE DEF run
<1>5. WellFormed(run)
  BY <1>3, <1>4 DEF WellFormed
<1>6. ASSUME runs'[due] = run PROVE RunOK(due)'
  <2>1. Tried(due)' = {}
    BY <1>1, <1>3, <1>4, <1>6 DEF RunOK, Tried
  <2> QED BY <1>1, <1>3, <1>4, <1>6, <2>1 DEF RunOK
<1> QED BY <1>1, <1>5, <1>6, RunWrites

\* One SELECT reads every ACTIVE booking of the day.
LEMMA ReadKeepsRuns ==
  ASSUME TypeOK, RemindersInv, NEW due \in DOMAIN runs, Read(due) PROVE RemindersInv'
<1> DEFINE chosen == {c \in DOMAIN booking : InWindow(c, runs[due].day)}
           mails == {<<b, booking[b].start>> : b \in chosen}
           run == [runs[due] EXCEPT !.state = "mailing", !.todo = mails]
<1>1. /\ runs' = [runs EXCEPT ![due] = run] /\ runs[due].state = "taken"
      /\ UNCHANGED <<now, room, booking, since>>
  BY DEF Read
<1>2. runs[due] \in Run /\ RunOK(due) /\ runs[due].sent = {} /\ runs[due].failed = {}
  <2>1. runs[due] \in Run /\ RunOK(due)
    BY DEF RemindersInv, RunsOK
  <2> QED BY <1>1, <2>1 DEF RunOK, Tried
<1>3. mails \subseteq Reminder
  <2>1. \A b \in chosen : b \in BookingIds /\ booking[b].start \in Time
    BY DEF TypeOK, Row
  <2> QED BY <2>1 DEF Reminder
<1>4. \A m \in mails : InDay(m[2], runs[due].day)
  <2>1. ASSUME NEW b \in chosen PROVE InDay(booking[b].start, runs[due].day)
    <3>1. /\ booking[b].start \in Int /\ runs[due].day \in Int /\ SlotsPerDay \in Nat
      BY <1>2, RemindersAssumption DEF TypeOK, Row, Time, Run, Days
    <3>2. runs[due].day * SlotsPerDay \in Int
      BY <3>1, Z3
    <3> QED BY <3>1, <3>2 DEF InWindow, InDay
  <2> QED BY <2>1
<1>5. ASSUME NEW b \in DOMAIN booking, booking[b].status = "ACTIVE",
             InDay(booking[b].start, runs[due].day)
      PROVE  <<b, booking[b].start>> \in mails
  <2>1. /\ booking[b].start \in Int /\ runs[due].day \in Int /\ SlotsPerDay \in Nat
    BY <1>2, RemindersAssumption DEF TypeOK, Row, Time, Run, Days
  <2>2. runs[due].day * SlotsPerDay \in Int
    BY <2>1, Z3
  <2>3. InWindow(b, runs[due].day)
    BY <1>5, <2>1, <2>2 DEF InWindow, InDay
  <2> QED BY <2>3
<1> HIDE DEF mails
<1>6. /\ run.state = "mailing" /\ run.day = runs[due].day /\ run.todo = mails
      /\ run.sent = {} /\ run.failed = {} /\ run \in Run
  BY <1>2, <1>3 DEF Run
<1> HIDE DEF run
<1>7. WellFormed(run)
  BY <1>6 DEF WellFormed
<1>8. ASSUME runs'[due] = run PROVE RunOK(due)'
  <2>1. Tried(due)' = mails
    BY <1>6, <1>8 DEF Tried
  <2>2. /\ due % SlotsPerDay = Fire /\ due <= now'
    BY <1>1, <1>2 DEF RunOK
  <2>3. /\ runs'[due].state = "mailing" /\ runs'[due].day = runs[due].day
    BY <1>6, <1>8
  <2>4. \A m \in Tried(due)' : InDay(m[2], runs'[due].day)
    BY <1>4, <2>1, <2>3
  <2>5. ASSUME NEW b \in DOMAIN booking', booking'[b].status = "ACTIVE",
               InDay(booking'[b].start, runs'[due].day)
        PROVE  <<b, booking'[b].start>> \in Tried(due)'
    BY <1>1, <1>5, <2>1, <2>3, <2>5
  <2> QED BY <2>2, <2>3, <2>4, <2>5 DEF RunOK, InDay
<1> QED BY <1>1, <1>7, <1>8, RunWrites

\* A reminder that was mailed, or could not be, was to be mailed.
LEMMA MailsKeepRuns ==
  ASSUME RemindersInv, NEW due \in DOMAIN runs, NEW m \in Reminder,
         Mail(due, m) \/ MailFails(due, m)
  PROVE  RemindersInv'
<1> DEFINE old == runs[due]
<1>1. PICK run : /\ runs' = [runs EXCEPT ![due] = run]
                 /\ \/ run = [old EXCEPT !.todo = @ \ {m}, !.sent = @ \cup {m}]
                    \/ run = [old EXCEPT !.todo = @ \ {m}, !.failed = @ \cup {m}]
  BY DEF Mail, MailFails
<1>2. m \in old.todo /\ UNCHANGED <<now, room, booking, since>>
  BY DEF Mail, MailFails
<1>3. WellFormed(old) /\ old \in Run /\ RunOK(due)
  BY DEF RemindersInv, RunsOK, WellFormed
<1>4. /\ run \in Run /\ run.state = old.state /\ run.day = old.day
      /\ run.todo = old.todo \ {m}
      /\ \/ run.sent = old.sent \cup {m} /\ run.failed = old.failed
         \/ run.failed = old.failed \cup {m} /\ run.sent = old.sent
  <2>1. /\ old.todo \ {m} \in SUBSET Reminder /\ old.sent \cup {m} \in SUBSET Reminder
        /\ old.failed \cup {m} \in SUBSET Reminder
    BY <1>3 DEF Run
  <2>2. CASE run = [old EXCEPT !.todo = @ \ {m}, !.sent = @ \cup {m}]
    BY <1>3, <2>1, <2>2 DEF Run
  <2>3. CASE run = [old EXCEPT !.todo = @ \ {m}, !.failed = @ \cup {m}]
    BY <1>3, <2>1, <2>3 DEF Run
  <2> QED BY <1>1, <2>2, <2>3
<1>5. WellFormed(run)
  BY <1>2, <1>3, <1>4 DEF WellFormed
<1>6. ASSUME runs'[due] = run PROVE RunOK(due)'
  <2>1. Tried(due)' = Tried(due)
    BY <1>2, <1>4, <1>6 DEF Tried
  <2>2. runs'[due].state = runs[due].state /\ runs'[due].day = runs[due].day
    BY <1>4, <1>6
  <2> QED BY <1>2, <1>3, <2>1, <2>2 DEF RunOK, InDay
<1> QED BY <1>1, <1>2, <1>5, <1>6, RunWrites

LEMMA DeathKeepsRuns ==
  ASSUME RemindersInv, NEW due \in DOMAIN runs, WorkerDies(due) PROVE RemindersInv'
<1> DEFINE run == [runs[due] EXCEPT !.state = "lost", !.todo = {}]
<1>1. runs' = [runs EXCEPT ![due] = run] /\ UNCHANGED <<now, room, booking, since>>
  BY DEF WorkerDies
<1>2. WellFormed(runs[due]) /\ runs[due] \in Run /\ RunOK(due)
  BY DEF RemindersInv, RunsOK, WellFormed
<1>3. /\ run \in Run /\ run.state = "lost" /\ run.day = runs[due].day /\ run.todo = {}
      /\ run.sent = runs[due].sent /\ run.failed = runs[due].failed
  BY <1>2 DEF Run
<1> HIDE DEF run
<1>4. WellFormed(run)
  BY <1>2, <1>3 DEF WellFormed
<1>5. ASSUME runs'[due] = run PROVE RunOK(due)'
  <2>1. Tried(due)' \subseteq Tried(due)
    BY <1>3, <1>5 DEF Tried
  <2>2. runs'[due].state = "lost" /\ runs'[due].day = runs[due].day
    BY <1>3, <1>5
  <2> QED BY <1>1, <1>2, <2>1, <2>2 DEF RunOK, InDay
<1> QED BY <1>1, <1>4, <1>5, RunWrites

\* Every step keeps it.
LEMMA RemindersStep ==
  TypeOK /\ TypeOK' /\ RemindersInv /\ [RemindersNext]_vars => RemindersInv'
<1> SUFFICES ASSUME TypeOK, TypeOK', RemindersInv, [RemindersNext]_vars PROVE RemindersInv'
  OBVIOUS
<1>1. CASE LedgerStep
  BY <1>1, CommitKeepsRuns
<1>2. ASSUME NEW due \in Time, Queue(due) PROVE RemindersInv'
  BY <1>2, QueueKeepsRuns
<1>3. ASSUME NEW due \in DOMAIN runs,
             \/ Take(due) \/ Read(due) \/ WorkerDies(due)
             \/ \E m \in Reminder : Mail(due, m) \/ MailFails(due, m)
      PROVE  RemindersInv'
  BY <1>3, TakeKeepsRuns, ReadKeepsRuns, DeathKeepsRuns, MailsKeepRuns
<1>4. CASE UNCHANGED vars
  BY <1>4 DEF vars, RemindersInv, RunsOK, RunOK, Tried, InDay
<1> QED BY <1>1, <1>2, <1>3, <1>4 DEF RemindersNext

LEMMA RemindersKeepInv == RemindersSpec => []RemindersInv
<1>1. RemindersInit => RemindersInv
  <2>1. 0 \in Time
    BY LedgerAssumption DEF Time
  <2> QED BY <2>1 DEF RemindersInit, RemindersInv, RunsOK
<1>2. RemindersSpec => []TypeOK
  BY RemindersRunLedger, TypeCorrect, PTL
<1> QED BY <1>1, <1>2, RemindersStep, PTL DEF RemindersSpec

\* Runs are of their type, and no reminder is in two places, whatever the requests
\* do meanwhile.
THEOREM RunsCorrect == RemindersSpec => []RunsOK
<1>1. RemindersInv => RunsOK
  BY DEF RemindersInv
<1> QED BY <1>1, RemindersKeepInv, PTL

\* Nobody is reminded twice of a start by two runs that were taken on their days.
THEOREM OneReminderAStart == RemindersSpec => []RemindedOnce
<1>1. RemindersInv => RemindedOnce
  <2> SUFFICES ASSUME RemindersInv, NEW d1 \in DOMAIN runs, NEW d2 \in DOMAIN runs,
                      OnItsDay(d1), OnItsDay(d2),
                      NEW m \in runs[d1].sent, m \in runs[d2].sent
               PROVE  d1 = d2
    BY DEF RemindedOnce
  <2>1. /\ RunOK(d1) /\ RunOK(d2) /\ d1 \in Int /\ d2 \in Int
        /\ runs[d1] \in Run /\ runs[d2] \in Run
    BY DEF RemindersInv, RunsOK, Time
  <2>2. m[2] \in Int /\ runs[d1].day \in Int /\ runs[d2].day \in Int
    <3>1. m \in Reminder
      BY <2>1 DEF Run
    <3>2. m[2] \in Time
      BY <3>1 DEF Reminder
    <3>3. runs[d1].day \in Days /\ runs[d2].day \in Days
      BY <2>1 DEF Run
    <3>4. \A d \in Days : d \in Int
      BY DEF Days
    <3> QED BY <3>2, <3>3, <3>4 DEF Time
  <2>3. InDay(m[2], runs[d1].day) /\ InDay(m[2], runs[d2].day)
    BY <2>1 DEF RunOK, Tried
  <2>4. runs[d1].day = runs[d2].day
    BY <2>2, <2>3, OneDayEach
  <2>5. Day(d1) \in Int /\ Day(d2) \in Int /\ Day(d1) + 1 = Day(d2) + 1
    BY <2>1, <2>4, EveryInstantHasItsDay DEF OnItsDay
  <2>6. Day(d1) = Day(d2)
    BY <2>5
  <2>7. d1 % SlotsPerDay = Fire /\ d2 % SlotsPerDay = Fire
    BY <2>1 DEF RunOK
  <2> QED BY <2>1, <2>6, <2>7, OneRunADay
<1> QED BY <1>1, RemindersKeepInv, PTL

\* A run that was taken on its day and has ended has missed nobody.
THEOREM NobodyForgotten == RemindersSpec => []NoneForgotten
<1>1. TypeOK /\ RemindersInv => NoneForgotten
  <2> SUFFICES ASSUME TypeOK, RemindersInv, NEW due \in DOMAIN runs, NEW b \in DOMAIN booking,
                      Done(due), OnItsDay(due), booking[b].status = "ACTIVE",
                      since[b] < due, Day(booking[b].start) = Day(due) + 1
               PROVE  <<b, booking[b].start>> \in runs[due].sent \cup runs[due].failed
    BY DEF NoneForgotten
  <2>1. RunOK(due)
    BY DEF RemindersInv
  <2>2. booking[b].start \in Int
    BY DEF TypeOK, Row, Time
  <2>3. InDay(booking[b].start, runs[due].day)
    BY <2>2, EveryInstantHasItsDay DEF OnItsDay
  <2>4. <<b, booking[b].start>> \in Tried(due) /\ runs[due].todo = {}
    BY <2>1, <2>3 DEF RunOK, Done
  <2> QED BY <2>4 DEF Tried
<1>2. RemindersSpec => []TypeOK
  BY RemindersRunLedger, TypeCorrect, PTL
<1> QED BY <1>1, <1>2, RemindersKeepInv, PTL
=============================================================================
