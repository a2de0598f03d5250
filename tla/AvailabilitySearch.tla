------------------------- MODULE AvailabilitySearch -------------------------
(***************************************************************************)
(* The availability search beside the ledger: resolve_period, and then     *)
(* find_available_rooms, which reads the active rooms with their           *)
(* total_units in one statement and the overlapping stays in a second one, *)
(* with any number of commits in between.                                  *)
(***************************************************************************)
EXTENDS BookingLedger

CONSTANTS OneDay, \* how long a search looks ahead if it has no end_time
          None    \* a query parameter that was left out

ASSUME SearchAssumption == OneDay \in Nat \ {0}

VARIABLES stage,   \* "idle", "rooms" once the rooms are read, "done"
          period,  \* [from, to] of the search
          found,   \* the rooms that were read: id -> total_units
          listed,  \* the rooms of the answer
          wasFree  \* history: the rooms that had a unit left since they were read
searchVars == <<stage, period, found, listed, wasFree>>

\* resolve_period: the defaults of the two query parameters.
PeriodFrom(start) == IF start = None THEN now ELSE start
PeriodTo(start, end) == IF end = None THEN PeriodFrom(start) + OneDay ELSE end

\* Does room r, as it is now, have a unit left in the part of p that is not over?
Free(r, p) ==
  /\ room[r].units > 0
  /\ \A t \in p.from .. (p.to - 1) :
       t >= now => Cardinality(OccupiedAt(booking, r, t)) < room[r].units

FreeRooms(p) == {r \in DOMAIN room : Free(r, p)}

NoPeriod == [from |-> 0, to |-> 0]
NoRooms  == [r \in {} |-> 0]

SearchInit == /\ Init
              /\ stage = "idle" /\ period = NoPeriod
              /\ found = NoRooms
              /\ listed = {} /\ wasFree = {}
-----------------------------------------------------------------------------
\* GET /rooms/available asks for all rooms, GET /rooms/{id}/available for one: the
\* first statement reads those that are active.
ReadRooms(ids, start, end) ==
  LET p     == [from |-> PeriodFrom(start), to |-> PeriodTo(start, end)]
      rooms == {r \in ids \cap DOMAIN room : room[r].active} IN
  /\ stage = "idle"
  /\ p.from < p.to
  /\ rooms # {}                      \* else the answer is empty at once
  /\ stage' = "rooms"
  /\ period' = p
  /\ found' = [r \in rooms |-> room[r].units]
  /\ wasFree' = FreeRooms(p)
  /\ UNCHANGED <<ledgerVars, listed>>

\* Fault: all units of a room may be taken.
AvailableIfFull(r) ==
  HasAvailableUnit(booking, OverlappingIntervals(booking, r, period.from, period.to),
                   found[r] + 1, period.from, period.to)

\* The units of the first statement against the stays of the second.
Available(r) ==
  HasAvailableUnit(booking, OverlappingIntervals(booking, r, period.from, period.to),
                   found[r], period.from, period.to)

ReadIntervals ==
  /\ stage = "rooms"
  /\ stage' = "done"
  /\ listed' = {r \in DOMAIN found : Available(r)}
  /\ period' = NoPeriod /\ found' = NoRooms
  /\ UNCHANGED <<ledgerVars, wasFree>>

\* The answer goes out: one page of it, or 404 if a single room was asked for.
Respond ==
  /\ stage = "done"
  /\ stage' = "idle" /\ listed' = {} /\ wasFree' = {}
  /\ UNCHANGED <<ledgerVars, period, found>>

\* A commit, while the search is under way or not.
CommitStep ==
  /\ Next
  /\ UNCHANGED <<stage, period, found, listed>>
  /\ wasFree' = IF stage = "rooms" THEN wasFree \cup FreeRooms(period)' ELSE wasFree

SearchNext ==
  \/ CommitStep
  \/ \E ids \in {Rooms} \cup {{r} : r \in Rooms}, start, end \in Time \cup {None} :
       ReadRooms(ids, start, end)
  \/ ReadIntervals
  \/ Respond

SearchSpec == SearchInit /\ [][SearchNext]_<<ledgerVars, searchVars>>
-----------------------------------------------------------------------------
\* The search lists no phantom: although it compares the units of one moment with
\* the stays of a later one, every room it lists had, at some moment since it was
\* read, a unit left at every instant of the period that was not over by then.
\* (It may have none at the moment of the answer; a booking is checked again.)
ListedWasFree == listed \subseteq wasFree
=============================================================================
