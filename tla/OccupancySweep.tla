---------------------------- MODULE OccupancySweep ----------------------------
(***************************************************************************)
(* has_available_unit, statement by statement: the intervals are clamped   *)
(* to the period and turned into events, the events are sorted and one     *)
(* pass counts how many intervals are open.  The reference definition is   *)
(* HasAvailableUnit of RoomCalendar.                                       *)
(***************************************************************************)
EXTENDS RoomCalendar, Sequences

CONSTANTS MaxTime,       \* bound: instants are 0 .. MaxTime
          MaxIntervals,  \* bound: rows the overlap query returns
          MaxUnits       \* bound: largest total_units

ASSUME SweepAssumption == MaxTime \in Nat /\ MaxIntervals \in Nat /\ MaxUnits \in Nat

VARIABLES intervals, total_units, start_time, end_time,  \* the arguments
          events, current_occupancy,                     \* the locals
          done,     \* intervals turned into events, then events counted
          pc, result
args == <<intervals, total_units, start_time, end_time>>
vars == <<args, events, current_occupancy, done, pc, result>>

Instants == 0 .. MaxTime
Periods  == {p \in [start : Instants, end : Instants] : p.start < p.end}
Event    == [at : Instants, change : {1, -1}]

\* What the overlap query can return for the period [st, en), in any order.
Overlapping(st, en) == {p \in Periods : p.start < en /\ p.end > st}

Init ==
  /\ \E p \in Periods : start_time = p.start /\ end_time = p.end
  /\ \E n \in 0 .. MaxIntervals : intervals \in [1 .. n -> Overlapping(start_time, end_time)]
  /\ total_units \in 0 .. MaxUnits
  /\ events = <<>> /\ current_occupancy = 0 /\ done = 0
  /\ pc = "start" /\ result = FALSE

Return(verdict) == pc' = "returned" /\ result' = verdict

RefuseWithoutUnits ==
  /\ pc = "start" /\ total_units <= 0
  /\ Return(FALSE)
  /\ UNCHANGED <<args, events, current_occupancy, done>>

StartCollecting ==
  /\ pc = "start" /\ total_units > 0
  /\ pc' = "collect"
  /\ UNCHANGED <<args, events, current_occupancy, done, result>>

\* Fault: the interval is not clamped to the period but to the instant before it.
NotClamped(x, y) == x - 1

Later(x, y)   == IF x >= y THEN x ELSE y
Earlier(x, y) == IF x <= y THEN x ELSE y

\* One round of the first loop: the interval is clamped to the period.
CollectInterval ==
  /\ pc = "collect" /\ done < Len(intervals)
  /\ LET overlap_start == Later(intervals[done + 1].start, start_time)
         overlap_end   == Earlier(intervals[done + 1].end, end_time)
     IN events' = IF overlap_start < overlap_end
                  THEN events \o << [at |-> overlap_start, change |-> 1],
                                    [at |-> overlap_end, change |-> -1] >>
                  ELSE events
  /\ done' = done + 1
  /\ UNCHANGED <<args, current_occupancy, pc, result>>

\* Fault: sorted by time only, so a start may come before an end at its instant.
StartsBeforeEnds(e, f) == e.at < f.at \/ (e.at = f.at /\ e.change >= f.change)

\* By time, and at the same time ends before starts: periods are half-open.
EventOrder(e, f) == e.at < f.at \/ (e.at = f.at /\ e.change <= f.change)

\* list.sort is stable: events of the same key stay in their order.
Precedes(s, i, j) == EventOrder(s[i], s[j]) /\ (EventOrder(s[j], s[i]) => i <= j)
Rank(s, i)        == Cardinality({j \in DOMAIN s : Precedes(s, j, i)})
Sorted(s)         == [k \in DOMAIN s |-> s[CHOOSE i \in DOMAIN s : Rank(s, i) = k]]

SortEvents ==
  /\ pc = "collect" /\ done = Len(intervals)
  /\ events' = Sorted(events)
  /\ done' = 0
  /\ pc' = "count"
  /\ UNCHANGED <<args, current_occupancy, result>>

\* Fault: the check comes before the counter is updated.
CheckBeforeCounting ==
  /\ pc = "count" /\ done < Len(events)
  /\ IF current_occupancy >= total_units
     THEN Return(FALSE) /\ UNCHANGED current_occupancy
     ELSE /\ current_occupancy' = current_occupancy + events[done + 1].change
          /\ UNCHANGED <<pc, result>>
  /\ done' = done + 1
  /\ UNCHANGED <<args, events>>

\* One round of the second loop.
CountEvent ==
  /\ pc = "count" /\ done < Len(events)
  /\ current_occupancy' = current_occupancy + events[done + 1].change
  /\ done' = done + 1
  /\ IF current_occupancy' >= total_units THEN Return(FALSE)
                                          ELSE UNCHANGED <<pc, result>>
  /\ UNCHANGED <<args, events>>

AllCounted ==
  /\ pc = "count" /\ done = Len(events)
  /\ Return(TRUE)
  /\ UNCHANGED <<args, events, current_occupancy, done>>

Next == \/ RefuseWithoutUnits \/ StartCollecting \/ CollectInterval
        \/ SortEvents \/ CountEvent \/ AllCounted

Spec == Init /\ [][Next]_vars
-----------------------------------------------------------------------------
Open(t) == {i \in DOMAIN intervals : intervals[i].start <= t /\ t < intervals[i].end}

TypeOK == /\ events \in Seq(Event)
          /\ current_occupancy \in 0 .. MaxIntervals
          /\ done \in 0 .. 2 * MaxIntervals
          /\ pc \in {"start", "collect", "count", "returned"}
          /\ result \in BOOLEAN

\* The verdict is the reference's: a unit is left iff at every instant of the
\* period fewer intervals than units are open, back-to-back stays included.
VerdictIsExact ==
  pc = "returned" =>
    result = HasAvailableUnit(intervals, DOMAIN intervals, total_units,
                              start_time, end_time)

\* The loop invariant: whenever the pass has taken all events up to an instant,
\* the counter is the number of intervals open at that instant; it is never
\* negative on the way.
CounterIsExact ==
  pc \in {"count", "returned"} /\ done > 0 =>
    LET t == events[done].at
        all_of_t == done = Len(events) \/ events[done + 1].at > t
    IN /\ current_occupancy >= 0
       /\ all_of_t /\ t < end_time => current_occupancy = Cardinality(Open(t))
=============================================================================
