------------------------ MODULE OccupancySweepProofs ------------------------
(***************************************************************************)
(* Proof that has_available_unit answers what its reference asks           *)
(* (SweepIsExact), for every period, every list of overlapping intervals   *)
(* in any order and every number of units.  The sort is a permutation into *)
(* order (SortedByRank, by counting: the rank of an event is injective);   *)
(* the counter of the pass is the number of intervals whose first event    *)
(* has been taken and whose last has not.                                  *)
(***************************************************************************)
EXTENDS OccupancySweep, FiniteSetTheorems, TLAPS

\* An order of events: the key of the sort is the pair of the instant and the change.
LEMMA PrecedesIsAnOrder ==
  ASSUME NEW s \in Seq(Event), NEW i \in DOMAIN s, NEW j \in DOMAIN s, NEW k \in DOMAIN s
  PROVE  /\ Precedes(s, i, i)
         /\ Precedes(s, i, j) \/ Precedes(s, j, i)
         /\ Precedes(s, i, j) /\ Precedes(s, j, i) => i = j
         /\ Precedes(s, i, j) /\ Precedes(s, j, k) => Precedes(s, i, k)
<1>1. s[i] \in Event /\ s[j] \in Event /\ s[k] \in Event
  OBVIOUS
<1>2. /\ i \in Int /\ j \in Int /\ k \in Int
      /\ s[i].at \in Int /\ s[i].change \in Int /\ s[j].at \in Int /\ s[j].change \in Int
      /\ s[k].at \in Int /\ s[k].change \in Int
  <2>1. \A e \in Event : e.at \in Int /\ e.change \in Int
    BY DEF Event, Instants
  <2> QED BY <1>1, <2>1
<1>3. Precedes(s, i, i)
  BY <1>2 DEF Precedes, EventOrder
<1>4. Precedes(s, i, j) \/ Precedes(s, j, i)
  BY <1>2 DEF Precedes, EventOrder
<1>5. Precedes(s, i, j) /\ Precedes(s, j, i) => i = j
  BY <1>2 DEF Precedes, EventOrder
<1>6. Precedes(s, i, j) /\ Precedes(s, j, k) => Precedes(s, i, k)
  BY <1>2 DEF Precedes, EventOrder
<1> QED BY <1>3, <1>4, <1>5, <1>6

LEMMA SequenceDomain ==
  ASSUME NEW s \in Seq(Event)
  PROVE  /\ Len(s) \in Nat /\ DOMAIN s = 1 .. Len(s) /\ IsFiniteSet(DOMAIN s)
         /\ Cardinality(DOMAIN s) = Len(s)
<1>1. Len(s) \in Nat /\ DOMAIN s = 1 .. Len(s)
  OBVIOUS
<1>2. IsFiniteSet(1 .. Len(s)) /\ Cardinality(1 .. Len(s)) = IF 1 > Len(s) THEN 0 ELSE Len(s) - 1 + 1
  BY <1>1, FS_Interval
<1> QED BY <1>1, <1>2

\* Ranks are numbers of events ...
LEMMA RankType ==
  ASSUME NEW s \in Seq(Event), NEW i \in DOMAIN s
  PROVE  Rank(s, i) \in DOMAIN s
<1> DEFINE A == {j \in DOMAIN s : Precedes(s, j, i)}
<1>1. A \subseteq DOMAIN s /\ i \in A
  BY PrecedesIsAnOrder
<1> HIDE DEF A
<1>2. IsFiniteSet(A) /\ Cardinality(A) <= Len(s) /\ Cardinality(A) \in Nat
  BY <1>1, SequenceDomain, FS_Subset, FS_CardinalityType
<1>3. Cardinality(A) # 0
  BY <1>1, <1>2, FS_EmptySet
<1> QED BY <1>2, <1>3, SequenceDomain DEF Rank, A

\* ... and grow with the order.
LEMMA RankGrows ==
  ASSUME NEW s \in Seq(Event), NEW i \in DOMAIN s, NEW j \in DOMAIN s,
         Precedes(s, i, j), i # j
  PROVE  Rank(s, i) < Rank(s, j)
<1> DEFINE A == {k \in DOMAIN s : Precedes(s, k, i)}
           B == {k \in DOMAIN s : Precedes(s, k, j)}
<1>1. A \subseteq B /\ j \in B /\ B \subseteq DOMAIN s
  BY PrecedesIsAnOrder
<1>2. j \notin A
  BY PrecedesIsAnOrder
<1> HIDE DEF A, B
<1>3. IsFiniteSet(B)
  BY <1>1, SequenceDomain, FS_Subset
<1>4. IsFiniteSet(A) /\ Cardinality(A) <= Cardinality(B) /\ (Cardinality(B) = Cardinality(A) => B = A)
  BY <1>1, <1>3, FS_Subset
<1>5. Cardinality(A) \in Nat /\ Cardinality(B) \in Nat
  BY <1>3, <1>4, FS_CardinalityType
<1> QED BY <1>1, <1>2, <1>4, <1>5 DEF Rank, A, B

\* So the ranks are the positions 1 .. Len(s), each taken once.
LEMMA RankTakesAll ==
  ASSUME NEW s \in Seq(Event), NEW k \in DOMAIN s
  PROVE  \E i \in DOMAIN s : Rank(s, i) = k
<1> DEFINE rank == [i \in DOMAIN s |-> Rank(s, i)]
<1>1. rank \in [DOMAIN s -> DOMAIN s]
  BY RankType
<1>2. ASSUME NEW i \in DOMAIN s, NEW j \in DOMAIN s, rank[i] = rank[j] PROVE i = j
  <2>1. Rank(s, i) = Rank(s, j) /\ Rank(s, i) \in Int
    BY <1>2, RankType, SequenceDomain
  <2> QED BY <2>1, RankGrows, PrecedesIsAnOrder
<1>3. rank \in Injection(DOMAIN s, DOMAIN s)
  BY <1>1, <1>2 DEF Injection, IsInjective
<1>4. rank \in Surjection(DOMAIN s, DOMAIN s)
  BY <1>3, SequenceDomain, FS_Injection
<1> QED BY <1>4 DEF Surjection

\* The sort moves every event to its rank: it loses none, doubles none and puts none
\* before one that comes earlier in the order.
LEMMA SortedByRank ==
  ASSUME NEW s \in Seq(Event)
  PROVE  /\ Sorted(s) \in Seq(Event) /\ Len(Sorted(s)) = Len(s)
         /\ \A i \in DOMAIN s : Sorted(s)[Rank(s, i)] = s[i]
         /\ \A k \in DOMAIN s : \E i \in DOMAIN s : Rank(s, i) = k
         /\ \A j, k \in DOMAIN s : j <= k => EventOrder(Sorted(s)[j], Sorted(s)[k])
<1> DEFINE at(k) == CHOOSE i \in DOMAIN s : Rank(s, i) = k
<1>1. ASSUME NEW k \in DOMAIN s
      PROVE  at(k) \in DOMAIN s /\ Rank(s, at(k)) = k
  BY RankTakesAll
<1> HIDE DEF at
<1>2. Sorted(s) = [k \in DOMAIN s |-> s[at(k)]]
  BY DEF Sorted, at
<1>3. Sorted(s) \in Seq(Event) /\ Len(Sorted(s)) = Len(s)
  <2>1. Sorted(s) \in [1 .. Len(s) -> Event]
    BY <1>1, <1>2
  <2> QED BY <2>1
<1>4. ASSUME NEW i \in DOMAIN s PROVE Sorted(s)[Rank(s, i)] = s[i]
  <2>1. Rank(s, i) \in DOMAIN s /\ Rank(s, i) \in Int
    BY RankType, SequenceDomain
  <2>2. at(Rank(s, i)) \in DOMAIN s /\ Rank(s, at(Rank(s, i))) = Rank(s, i)
    BY <1>1, <2>1
  <2>3. at(Rank(s, i)) = i
    <3> DEFINE j == at(Rank(s, i))
    <3>1. j \in DOMAIN s /\ Rank(s, j) = Rank(s, i)
      BY <2>2
    <3> HIDE DEF j
    <3>2. j = i
      BY <2>1, <3>1, RankGrows, PrecedesIsAnOrder
    <3> QED BY <3>2 DEF j
  <2> QED BY <1>2, <2>1, <2>3
<1>5. ASSUME NEW j \in DOMAIN s, NEW k \in DOMAIN s, j <= k
      PROVE  EventOrder(Sorted(s)[j], Sorted(s)[k])
  <2>1. PICK x \in DOMAIN s, y \in DOMAIN s : x = at(j) /\ y = at(k)
    BY <1>1
  <2>2. Rank(s, x) = j /\ Rank(s, y) = k /\ Sorted(s)[j] = s[x] /\ Sorted(s)[k] = s[y]
    BY <1>1, <1>2, <2>1
  <2>3. Precedes(s, x, y)
    <3>1. j \in Int /\ k \in Int
      BY SequenceDomain
    <3>2. ASSUME ~Precedes(s, x, y) PROVE FALSE
      <4>1. Precedes(s, y, x) /\ x # y
        BY <3>2, PrecedesIsAnOrder
      <4>2. Rank(s, y) < Rank(s, x)
        BY <4>1, RankGrows
      <4> QED BY <1>5, <2>2, <3>1, <4>2
    <3> QED BY <3>2
  <2> QED BY <2>2, <2>3 DEF Precedes
<1> QED BY <1>3, <1>4, <1>5, RankTakesAll
-----------------------------------------------------------------------------
\* The part of interval i that lies in the period.
From(i) == Later(intervals[i].start, start_time)
To(i)   == Earlier(intervals[i].end, end_time)

ArgsOK ==
  /\ start_time \in Instants /\ end_time \in Instants /\ start_time < end_time
  /\ total_units \in 0 .. MaxUnits
  /\ \E n \in 0 .. MaxIntervals : intervals \in [1 .. n -> Overlapping(start_time, end_time)]

LEMMA IntervalDomain ==
  ASSUME ArgsOK
  PROVE  /\ Len(intervals) \in 0 .. MaxIntervals /\ DOMAIN intervals = 1 .. Len(intervals)
         /\ IsFiniteSet(DOMAIN intervals) /\ Cardinality(DOMAIN intervals) = Len(intervals)
<1>1. PICK n \in 0 .. MaxIntervals : intervals \in [1 .. n -> Overlapping(start_time, end_time)]
  BY DEF ArgsOK
<1>2. n \in Nat
  BY SweepAssumption
<1>3. DOMAIN intervals = 1 .. n /\ Len(intervals) = n
  BY <1>1, <1>2
<1>4. IsFiniteSet(1 .. n) /\ Cardinality(1 .. n) = IF 1 > n THEN 0 ELSE n - 1 + 1
  BY <1>2, FS_Interval
<1> QED BY <1>2, <1>3, <1>4

\* Every interval has a part in the period, and is open at an instant of the period
\* iff this part is.
LEMMA ClampedInterval ==
  ASSUME ArgsOK, NEW i \in DOMAIN intervals
  PROVE  /\ start_time \in Int /\ end_time \in Int
         /\ From(i) \in Int /\ To(i) \in Int /\ From(i) \in Instants /\ To(i) \in Instants
         /\ start_time <= From(i) /\ From(i) < To(i) /\ To(i) <= end_time
         /\ \A t \in start_time .. (end_time - 1) :
              i \in Open(t) <=> From(i) <= t /\ t < To(i)
<1>1. intervals[i] \in Overlapping(start_time, end_time)
  BY DEF ArgsOK
<1>2. /\ intervals[i].start \in Instants /\ intervals[i].end \in Instants
      /\ intervals[i].start < intervals[i].end
      /\ intervals[i].start < end_time /\ intervals[i].end > start_time
  BY <1>1 DEF Overlapping, Periods
<1>3. /\ intervals[i].start \in Int /\ intervals[i].end \in Int
      /\ start_time \in Int /\ end_time \in Int /\ start_time < end_time
  BY <1>2, SweepAssumption DEF ArgsOK, Instants
<1>4. /\ From(i) \in Int /\ To(i) \in Int /\ From(i) \in Instants /\ To(i) \in Instants
      /\ start_time <= From(i) /\ From(i) < To(i) /\ To(i) <= end_time
  BY <1>2, <1>3 DEF From, To, Later, Earlier, ArgsOK
<1>5. ASSUME NEW t \in start_time .. (end_time - 1)
      PROVE  i \in Open(t) <=> From(i) <= t /\ t < To(i)
  <2>1. t \in Int /\ start_time <= t /\ t < end_time
    BY <1>3
  <2> QED BY <1>3, <2>1 DEF Open, From, To, Later, Earlier
<1> QED BY <1>3, <1>4, <1>5

LEMMA OpenFinite ==
  ASSUME ArgsOK, NEW t
  PROVE  IsFiniteSet(Open(t)) /\ Cardinality(Open(t)) \in Nat
<1>1. Open(t) \subseteq DOMAIN intervals
  BY DEF Open
<1> QED BY <1>1, IntervalDomain, FS_Subset, FS_CardinalityType
-----------------------------------------------------------------------------
\* The first d intervals are events, two each.
Collected(d) ==
  /\ Len(events) = 2 * d
  /\ \A i \in 1 .. d : /\ events[2 * i - 1] = [at |-> From(i), change |-> 1]
                       /\ events[2 * i] = [at |-> To(i), change |-> -1]

\* The events are in order, and the two of interval i are at first[i] and last[i].
Placed(first, last) ==
  /\ first \in [DOMAIN intervals -> DOMAIN events]
  /\ last \in [DOMAIN intervals -> DOMAIN events]
  /\ \A i \in DOMAIN intervals : /\ events[first[i]] = [at |-> From(i), change |-> 1]
                                 /\ events[last[i]] = [at |-> To(i), change |-> -1]
  /\ \A i, j \in DOMAIN intervals : /\ first[i] = first[j] => i = j
                                    /\ last[i] = last[j] => i = j
  /\ \A k \in DOMAIN events : \E i \in DOMAIN intervals : k = first[i] \/ k = last[i]
  /\ \A j, k \in DOMAIN events : j <= k => EventOrder(events[j], events[k])

\* The intervals that have begun and not ended among the first d events.
Inside(first, last, d) == {i \in DOMAIN intervals : first[i] <= d /\ d < last[i]}

LEMMA InsideFinite ==
  ASSUME ArgsOK, NEW first, NEW last, NEW d
  PROVE  /\ IsFiniteSet(Inside(first, last, d))
         /\ Cardinality(Inside(first, last, d)) \in 0 .. MaxIntervals
<1> DEFINE in == Inside(first, last, d)
<1>1. in \subseteq DOMAIN intervals
  BY DEF Inside
<1> HIDE DEF in
<1>2. /\ IsFiniteSet(in) /\ Cardinality(in) <= Cardinality(DOMAIN intervals)
      /\ Cardinality(in) \in Nat
  BY <1>1, IntervalDomain, FS_Subset, FS_CardinalityType
<1>3. Cardinality(DOMAIN intervals) \in Int /\ Cardinality(DOMAIN intervals) <= MaxIntervals
  BY IntervalDomain, SweepAssumption
<1> QED BY <1>2, <1>3, SweepAssumption DEF in

LEMMA PlacedFacts ==
  ASSUME ArgsOK, events \in Seq(Event), NEW first, NEW last, Placed(first, last),
         NEW i \in DOMAIN intervals
  PROVE  /\ first[i] \in DOMAIN events /\ last[i] \in DOMAIN events
         /\ first[i] \in Int /\ last[i] \in Int
         /\ events[first[i]].at = From(i) /\ events[first[i]].change = 1
         /\ events[last[i]].at = To(i) /\ events[last[i]].change = -1
         /\ first[i] < last[i]
<1>1. /\ first[i] \in DOMAIN events /\ last[i] \in DOMAIN events
      /\ events[first[i]].at = From(i) /\ events[first[i]].change = 1
      /\ events[last[i]].at = To(i) /\ events[last[i]].change = -1
  <2>1. /\ events[first[i]] = [at |-> From(i), change |-> 1]
        /\ events[last[i]] = [at |-> To(i), change |-> -1]
    BY DEF Placed
  <2>2. first[i] \in DOMAIN events /\ last[i] \in DOMAIN events
    BY DEF Placed
  <2> QED BY <2>1, <2>2
<1>2. first[i] \in Int /\ last[i] \in Int
  BY <1>1, SequenceDomain
<1>3. ASSUME last[i] <= first[i] PROVE FALSE
  <2>1. EventOrder(events[last[i]], events[first[i]])
    BY <1>1, <1>3 DEF Placed
  <2> QED BY <1>1, <2>1, ClampedInterval DEF EventOrder
<1> QED BY <1>1, <1>2, <1>3

\* When the pass has taken just the events up to an instant of the period, the
\* intervals inside are those that are open at the instant.
LEMMA InsideIsOpen ==
  ASSUME ArgsOK, events \in Seq(Event), NEW first, NEW last, Placed(first, last),
         NEW t \in start_time .. (end_time - 1), NEW d \in Int,
         \A k \in DOMAIN events : k <= d <=> events[k].at <= t
  PROVE  Inside(first, last, d) = Open(t)
<1>1. ASSUME NEW i \in DOMAIN intervals
      PROVE  i \in Inside(first, last, d) <=> i \in Open(t)
  <2>1. /\ start_time \in Int /\ end_time \in Int /\ From(i) \in Int /\ To(i) \in Int
        /\ i \in Open(t) <=> From(i) <= t /\ t < To(i)
    BY ClampedInterval
  <2>2. t \in Int
    BY <2>1
  <2>3. /\ first[i] <= d <=> From(i) <= t
        /\ last[i] <= d <=> To(i) <= t
    BY PlacedFacts
  <2>4. last[i] \in Int
    BY PlacedFacts
  <2> QED BY <2>1, <2>2, <2>3, <2>4 DEF Inside
<1> QED BY <1>1 DEF Inside, Open

\* At the start of an interval, what has begun and not ended is open.
LEMMA InsideAtStart ==
  ASSUME ArgsOK, events \in Seq(Event), NEW first, NEW last, Placed(first, last),
         NEW k \in DOMAIN events, events[k].change = 1
  PROVE  /\ events[k].at \in start_time .. (end_time - 1)
         /\ Inside(first, last, k) \subseteq Open(events[k].at)
<1> DEFINE t == events[k].at
<1>1. t \in start_time .. (end_time - 1)
  <2>1. PICK j \in DOMAIN intervals : k = first[j] \/ k = last[j]
    BY DEF Placed
  <2>2. k = first[j] /\ t = From(j)
    BY <2>1, PlacedFacts
  <2> QED BY <2>2, ClampedInterval
<1>2. ASSUME NEW i \in Inside(first, last, k) PROVE i \in Open(t)
  <2>1. /\ i \in DOMAIN intervals /\ first[i] <= k /\ k < last[i]
    BY DEF Inside
  <2>2. k \in Int /\ last[i] \in Int /\ k <= last[i]
    BY <2>1, SequenceDomain, PlacedFacts
  <2>3. EventOrder(events[first[i]], events[k]) /\ EventOrder(events[k], events[last[i]])
    BY <2>1, <2>2, PlacedFacts DEF Placed
  <2>4. From(i) <= t /\ t < To(i)
    <3>1. From(i) \in Int /\ To(i) \in Int /\ t \in Int
      BY <1>1, <2>1, ClampedInterval
    <3> QED BY <2>1, <2>3, <3>1, PlacedFacts DEF EventOrder
  <2> QED BY <1>1, <2>1, <2>4, ClampedInterval
<1> QED BY <1>1, <1>2

\* One event more: an interval begins or ends.
LEMMA InsideStep ==
  ASSUME ArgsOK, events \in Seq(Event), NEW first, NEW last, Placed(first, last),
         NEW d \in Nat, d + 1 \in DOMAIN events
  PROVE  Cardinality(Inside(first, last, d + 1))
           = Cardinality(Inside(first, last, d)) + events[d + 1].change
<1> DEFINE now == Inside(first, last, d)
           next == Inside(first, last, d + 1)
<1>1. PICK i \in DOMAIN intervals : d + 1 = first[i] \/ d + 1 = last[i]
  BY DEF Placed
<1>2. \A j \in DOMAIN intervals : first[j] \in Int /\ last[j] \in Int /\ first[j] < last[j]
  BY PlacedFacts
<1>3. IsFiniteSet(now) /\ Cardinality(now) \in Nat
  BY InsideFinite
<1>4. CASE d + 1 = first[i]
  <2>1. next = now \cup {i} /\ i \notin now
    <3>1. \A j \in DOMAIN intervals : j # i => first[j] # d + 1
      BY <1>4 DEF Placed
    <3>2. \A j \in DOMAIN intervals : last[j] # d + 1
      <4>1. events[d + 1].change = 1
        BY <1>4, PlacedFacts
      <4> QED BY <4>1, PlacedFacts
    <3>3. ASSUME NEW j \in DOMAIN intervals PROVE j \in next <=> j \in now \/ j = i
      BY <1>2, <1>4, <3>1, <3>2 DEF Inside
    <3>4. i \notin now
      BY <1>2, <1>4 DEF Inside
    <3> QED BY <3>3, <3>4 DEF Inside
  <2> HIDE DEF now, next
  <2>2. Cardinality(next) = Cardinality(now) + 1
    BY <1>3, <2>1, FS_AddElement
  <2>3. events[d + 1].change = 1
    BY <1>4, PlacedFacts
  <2> QED BY <2>2, <2>3 DEF now, next
<1>5. CASE d + 1 = last[i]
  <2>1. next = now \ {i} /\ i \in now
    <3>1. \A j \in DOMAIN intervals : j # i => last[j] # d + 1
      BY <1>5 DEF Placed
    <3>2. \A j \in DOMAIN intervals : first[j] # d + 1
      <4>1. events[d + 1].change = -1
        BY <1>5, PlacedFacts
      <4> QED BY <4>1, PlacedFacts
    <3>3. ASSUME NEW j \in DOMAIN intervals PROVE j \in next <=> j \in now /\ j # i
      BY <1>2, <1>5, <3>1, <3>2 DEF Inside
    <3>4. i \in now
      BY <1>2, <1>5 DEF Inside
    <3> QED BY <3>3, <3>4 DEF Inside
  <2> HIDE DEF now, next
  <2>2. Cardinality(next) = Cardinality(now) - 1
    BY <1>3, <2>1, FS_RemoveElement
  <2>3. events[d + 1].change = -1
    BY <1>5, PlacedFacts
  <2> QED BY <1>3, <2>2, <2>3 DEF now, next
<1> QED BY <1>1, <1>4, <1>5
-----------------------------------------------------------------------------
\* The sort puts the two events of every interval somewhere, in order.
LEMMA RankInjective ==
  ASSUME NEW s \in Seq(Event), NEW i \in DOMAIN s, NEW j \in DOMAIN s, Rank(s, i) = Rank(s, j)
  PROVE  i = j
<1>1. Rank(s, i) \in Int /\ Rank(s, j) \in Int
  BY RankType, SequenceDomain
<1> QED BY <1>1, RankGrows, PrecedesIsAnOrder

LEMMA SortPlaces ==
  ASSUME ArgsOK, events \in Seq(Event), Collected(Len(intervals)),
         events' = Sorted(events), UNCHANGED args
  PROVE  /\ events' \in Seq(Event) /\ Len(events') = Len(events)
         /\ \E first, last : Placed(first, last)'
<1>0. /\ events' \in Seq(Event) /\ Len(events') = Len(events) /\ DOMAIN events' = DOMAIN events
      /\ DOMAIN events = 1 .. 2 * Len(intervals) /\ Len(intervals) \in Nat
      /\ DOMAIN intervals = 1 .. Len(intervals)
  BY SortedByRank, SequenceDomain, IntervalDomain DEF Collected
<1>1. PICK first : first = [i \in DOMAIN intervals |-> Rank(events, 2 * i - 1)]
  OBVIOUS
<1>2. PICK last : last = [i \in DOMAIN intervals |-> Rank(events, 2 * i)]
  OBVIOUS
<1>3. ASSUME NEW i \in DOMAIN intervals
      PROVE  2 * i - 1 \in DOMAIN events /\ 2 * i \in DOMAIN events /\ i \in Int
  BY <1>0
<1>4. /\ first \in [DOMAIN intervals -> DOMAIN events]
      /\ last \in [DOMAIN intervals -> DOMAIN events]
  BY <1>1, <1>2, <1>3, RankType
<1>5. ASSUME NEW i \in DOMAIN intervals
      PROVE  /\ events'[first[i]] = [at |-> From(i), change |-> 1]
             /\ events'[last[i]] = [at |-> To(i), change |-> -1]
  <2>1. events'[first[i]] = events[2 * i - 1] /\ events'[last[i]] = events[2 * i]
    BY <1>1, <1>2, <1>3, SortedByRank
  <2>2. i \in 1 .. Len(intervals)
    BY <1>0
  <2> QED BY <2>1, <2>2 DEF Collected
<1>6. ASSUME NEW i \in DOMAIN intervals, NEW j \in DOMAIN intervals
      PROVE  (first[i] = first[j] => i = j) /\ (last[i] = last[j] => i = j)
  <2>1. /\ first[i] = first[j] => 2 * i - 1 = 2 * j - 1
        /\ last[i] = last[j] => 2 * i = 2 * j
    BY <1>1, <1>2, <1>3, RankInjective
  <2> QED BY <1>3, <2>1
<1>7. ASSUME NEW k \in DOMAIN events
      PROVE  \E i \in DOMAIN intervals : k = first[i] \/ k = last[i]
  <2>1. PICK x \in DOMAIN events : Rank(events, x) = k
    BY SortedByRank
  <2>2. \E i \in DOMAIN intervals : x = 2 * i - 1 \/ x = 2 * i
    <3>1. x \in Int /\ 1 <= x /\ x <= 2 * Len(intervals)
      BY <1>0
    <3>2. PICK i \in Int : x = 2 * i - 1 \/ x = 2 * i
      <4> DEFINE c == (x + 1) \div 2
      <4>1. c \in Int /\ 2 * c <= x + 1 /\ x + 1 < 2 * (c + 1)
        BY <3>1
      <4> HIDE DEF c
      <4>2. x = 2 * c - 1 \/ x = 2 * c
        BY <3>1, <4>1
      <4> QED BY <4>1, <4>2
    <3>3. i \in 1 .. Len(intervals)
      BY <1>0, <3>1, <3>2
    <3> QED BY <1>0, <3>2, <3>3
  <2> QED BY <1>1, <1>2, <2>1, <2>2
<1>8. \A j, k \in DOMAIN events : j <= k => EventOrder(events'[j], events'[k])
  BY SortedByRank
<1>9. Placed(first, last)'
  BY <1>0, <1>4, <1>5, <1>6, <1>7, <1>8 DEF Placed, args, From, To
<1> QED BY <1>0, <1>9
-----------------------------------------------------------------------------
\* The counter of the pass: what has begun and not ended among the events taken.
Counting ==
  /\ done \in 0 .. Len(events) /\ Len(events) = 2 * Len(intervals)
  /\ \E first, last : /\ Placed(first, last)
                      /\ current_occupancy = Cardinality(Inside(first, last, done))

\* While the pass goes on, a unit is left at every instant all of whose events it
\* has taken.
RoomSoFar ==
  /\ current_occupancy < total_units
  /\ \A t \in start_time .. (end_time - 1) :
       (\A k \in DOMAIN events : events[k].at <= t => k <= done)
         => Cardinality(Open(t)) < total_units

SweepInv ==
  /\ ArgsOK /\ events \in Seq(Event)
  /\ pc \in {"start", "collect", "count", "returned"} /\ result \in BOOLEAN
  /\ pc = "start" => events = <<>> /\ current_occupancy = 0 /\ done = 0
  /\ pc \in {"collect", "count"} => total_units > 0
  /\ pc = "collect" => /\ done \in 0 .. Len(intervals) /\ Collected(done)
                       /\ current_occupancy = 0
  /\ pc = "count" => Counting /\ RoomSoFar
  /\ pc = "returned" => /\ VerdictIsExact
                        /\ Counting \/ (events = <<>> /\ current_occupancy = 0 /\ done = 0)

LEMMA CountingKept ==
  ASSUME Counting, UNCHANGED <<args, events, current_occupancy, done>> PROVE Counting'
<1>1. PICK first, last : /\ Placed(first, last)
                         /\ current_occupancy = Cardinality(Inside(first, last, done))
  BY DEF Counting
<1>2. Placed(first, last)'
  BY <1>1 DEF Placed, From, To, args
<1>3. current_occupancy' = Cardinality(Inside(first, last, done)')
  BY <1>1 DEF Inside, args
<1> QED BY <1>2, <1>3 DEF Counting, args

\* The reference asks about the intervals that are open.
LEMMA ReferenceIsOpen ==
  HasAvailableUnit(intervals, DOMAIN intervals, total_units, start_time, end_time)
    <=> /\ total_units > 0
        /\ \A t \in start_time .. (end_time - 1) : Cardinality(Open(t)) < total_units
BY DEF HasAvailableUnit, Open

LEMMA RefuseStep ==
  ASSUME SweepInv, RefuseWithoutUnits PROVE SweepInv'
<1>1. /\ pc = "start" /\ pc' = "returned" /\ result' = FALSE
      /\ UNCHANGED <<args, events, current_occupancy, done>> /\ ~(total_units > 0)
  <2>1. total_units \in Int
    BY SweepAssumption DEF SweepInv, ArgsOK
  <2> QED BY <2>1 DEF RefuseWithoutUnits, Return
<1>2. ~HasAvailableUnit(intervals, DOMAIN intervals, total_units, start_time, end_time)
  BY <1>1, ReferenceIsOpen
<1>3. VerdictIsExact'
  BY <1>1, <1>2 DEF VerdictIsExact, args, HasAvailableUnit
<1> QED BY <1>1, <1>3 DEF SweepInv, ArgsOK, args

LEMMA StartStep ==
  ASSUME SweepInv, StartCollecting PROVE SweepInv'
<1>1. /\ pc = "start" /\ pc' = "collect" /\ total_units > 0 /\ events = <<>>
      /\ current_occupancy = 0 /\ done = 0
      /\ UNCHANGED <<args, events, current_occupancy, done, result>>
  BY DEF StartCollecting, SweepInv
<1>2. Collected(done)'
  BY <1>1 DEF Collected
<1>3. (done \in 0 .. Len(intervals))'
  BY <1>1, IntervalDomain, SweepAssumption DEF SweepInv, args
<1> QED BY <1>1, <1>2, <1>3 DEF SweepInv, ArgsOK, args

LEMMA CollectStep ==
  ASSUME SweepInv, CollectInterval PROVE SweepInv'
<1> DEFINE i == done + 1
           a == [at |-> From(i), change |-> 1]
           b == [at |-> To(i), change |-> -1]
<1>0. /\ pc = "collect" /\ done \in Nat /\ i \in 1 .. Len(intervals) /\ i \in DOMAIN intervals
      /\ Collected(done) /\ events \in Seq(Event) /\ current_occupancy = 0 /\ ArgsOK
      /\ UNCHANGED <<args, current_occupancy, pc, result>> /\ done' = i
  BY IntervalDomain, SweepAssumption DEF CollectInterval, SweepInv
<1>1. /\ From(i) \in Instants /\ To(i) \in Instants /\ From(i) < To(i)
  BY <1>0, ClampedInterval
<1>2. a \in Event /\ b \in Event
  BY <1>1 DEF Event
<1>3. events' = events \o <<a, b>>
  BY <1>0, <1>1 DEF CollectInterval, From, To
<1> HIDE DEF a, b
<1>4. /\ events' \in Seq(Event) /\ Len(events') = Len(events) + 2
      /\ \A k \in 1 .. Len(events) : events'[k] = events[k]
      /\ events'[Len(events) + 1] = a /\ events'[Len(events) + 2] = b
  BY <1>0, <1>2, <1>3
<1>5. Collected(done)'
  <2>1. Len(events') = 2 * i /\ Len(events) = 2 * done
    BY <1>0, <1>4 DEF Collected
  <2>2. ASSUME NEW j \in 1 .. i
        PROVE  /\ events'[2 * j - 1] = [at |-> From(j), change |-> 1]
               /\ events'[2 * j] = [at |-> To(j), change |-> -1]
    <3>1. CASE j = i
      <4>1. 2 * j - 1 = Len(events) + 1 /\ 2 * j = Len(events) + 2
        BY <1>0, <2>1, <3>1
      <4> QED BY <1>4, <3>1, <4>1 DEF a, b
    <3>2. CASE j # i
      <4>1. j \in 1 .. done /\ 2 * j - 1 \in 1 .. Len(events) /\ 2 * j \in 1 .. Len(events)
        BY <1>0, <2>1, <3>2
      <4> QED BY <1>0, <1>4, <4>1 DEF Collected
    <3> QED BY <3>1, <3>2
  <2> QED BY <1>0, <2>1, <2>2 DEF Collected, From, To, args
<1>6. done' \in 0 .. Len(intervals)
  BY <1>0, IntervalDomain, SweepAssumption
<1> QED BY <1>0, <1>4, <1>5, <1>6 DEF SweepInv, ArgsOK, args

LEMMA SortStep ==
  ASSUME SweepInv, SortEvents PROVE SweepInv'
<1>0. /\ pc = "collect" /\ pc' = "count" /\ done' = 0 /\ events' = Sorted(events)
      /\ UNCHANGED <<args, current_occupancy, result>> /\ current_occupancy = 0
      /\ Collected(Len(intervals)) /\ events \in Seq(Event) /\ ArgsOK /\ total_units > 0
  BY DEF SortEvents, SweepInv
<1>1. /\ events' \in Seq(Event) /\ Len(events') = Len(events)
      /\ \E first, last : Placed(first, last)'
  BY <1>0, SortPlaces
<1>2. PICK first, last : Placed(first, last)'
  BY <1>1
<1>3. ArgsOK'
  BY <1>0 DEF ArgsOK, args
<1>4. Inside(first, last, 0)' = {}
  <2>1. \A i \in DOMAIN intervals' : first[i] \in DOMAIN events'
    BY <1>2 DEF Placed
  <2>2. DOMAIN events' = 1 .. Len(events') /\ Len(events') \in Nat
    BY <1>1
  <2>3. \A i \in DOMAIN intervals' : ~(first[i] <= 0)
    BY <2>1, <2>2
  <2> QED BY <2>3 DEF Inside
<1>5. Counting'
  <2>1. current_occupancy' = Cardinality(Inside(first, last, done)')
    BY <1>0, <1>4, FS_EmptySet DEF Inside
  <2>2. Len(events') = 2 * Len(intervals') /\ done' \in 0 .. Len(events')
    <3>1. Len(events') \in Nat
      BY <1>1
    <3> QED BY <1>0, <1>1, <3>1 DEF Collected, args
  <2> QED BY <1>2, <2>1, <2>2 DEF Counting
<1>6. ASSUME NEW t \in start_time' .. (end_time' - 1),
             \A k \in DOMAIN events' : events'[k].at <= t => k <= done'
      PROVE  Cardinality(Open(t)') < total_units'
  <2>1. \A k \in DOMAIN events' : ~(k <= 0) /\ ~(events'[k].at <= t)
    BY <1>0, <1>1, <1>6
  <2>2. ASSUME NEW n \in DOMAIN intervals PROVE n \notin Open(t)
    <3>1. first[n] \in DOMAIN events' /\ events'[first[n]] = [at |-> From(n), change |-> 1]
      BY <1>0, <1>2 DEF Placed, From, args
    <3>2. ~(From(n) <= t)
      BY <2>1, <3>1
    <3>3. t \in start_time .. (end_time - 1)
      BY <1>0 DEF args
    <3> QED BY <1>0, <3>2, <3>3, ClampedInterval
  <2>3. Open(t)' = {}
    BY <1>0, <2>2 DEF Open, args
  <2> QED BY <1>0, <2>3, FS_EmptySet DEF args
<1>7. RoomSoFar'
  BY <1>0, <1>6 DEF RoomSoFar, args
<1> QED BY <1>0, <1>1, <1>3, <1>5, <1>7 DEF SweepInv, args

\* One event is counted.
LEMMA CountStep ==
  ASSUME SweepInv, CountEvent PROVE SweepInv'
<1> DEFINE d == done + 1
<1>0. /\ pc = "count" /\ d \in DOMAIN events /\ done \in Nat /\ done' = d
      /\ UNCHANGED <<args, events>> /\ events \in Seq(Event) /\ ArgsOK
      /\ current_occupancy' = current_occupancy + events[d].change
      /\ d \in 0 .. Len(events) /\ Len(events) = 2 * Len(intervals) /\ RoomSoFar
      /\ total_units > 0
  <2>1. /\ pc = "count" /\ Counting /\ done < Len(events) /\ events \in Seq(Event)
    BY DEF CountEvent, SweepInv
  <2>2. Len(events) \in Nat /\ done \in 0 .. Len(events) /\ DOMAIN events = 1 .. Len(events)
    BY <2>1 DEF Counting
  <2> QED BY <2>1, <2>2 DEF CountEvent, SweepInv, Counting
<1>1. PICK first, last : /\ Placed(first, last)
                         /\ current_occupancy = Cardinality(Inside(first, last, done))
  BY <1>0 DEF SweepInv, Counting
<1>2. current_occupancy' = Cardinality(Inside(first, last, d))
  BY <1>0, <1>1, InsideStep
<1>3. Counting'
  <2>1. Placed(first, last)'
    BY <1>0, <1>1 DEF Placed, From, To, args
  <2>2. current_occupancy' = Cardinality(Inside(first, last, done)')
    BY <1>0, <1>2 DEF Inside, args
  <2> QED BY <1>0, <2>1, <2>2 DEF Counting, args
<1>4. /\ current_occupancy \in Int /\ current_occupancy' \in Int /\ total_units \in Int
      /\ events[d].at \in Int /\ events[d].change \in {1, -1}
      /\ start_time \in Int /\ end_time \in Int
  <2>1. events[d] \in Event
    BY <1>0
  <2>2. current_occupancy \in 0 .. MaxIntervals /\ current_occupancy' \in 0 .. MaxIntervals
    BY <1>0, <1>1, <1>2, InsideFinite
  <2> QED BY <1>0, <2>1, <2>2, SweepAssumption DEF Event, Instants, ArgsOK
<1>5. CASE current_occupancy' >= total_units
  <2>1. pc' = "returned" /\ result' = FALSE
    BY <1>0, <1>5 DEF CountEvent, Return
  <2>2. events[d].change = 1
    BY <1>0, <1>4, <1>5 DEF RoomSoFar
  <2> DEFINE t == events[d].at
  <2>3. t \in start_time .. (end_time - 1) /\ Inside(first, last, d) \subseteq Open(t)
    BY <1>0, <1>1, <2>2, InsideAtStart
  <2>4. Cardinality(Inside(first, last, d)) <= Cardinality(Open(t))
    BY <1>0, <2>3, OpenFinite, FS_Subset
  <2>5. ~(Cardinality(Open(t)) < total_units)
    BY <1>0, <1>2, <1>4, <1>5, <2>4, OpenFinite
  <2>6. ~HasAvailableUnit(intervals, DOMAIN intervals, total_units, start_time, end_time)
    BY <2>3, <2>5, ReferenceIsOpen
  <2>7. VerdictIsExact'
    BY <1>0, <2>1, <2>6 DEF VerdictIsExact, args, HasAvailableUnit
  <2> QED BY <1>0, <1>3, <2>1, <2>7 DEF SweepInv, ArgsOK, args
<1>6. CASE ~(current_occupancy' >= total_units)
  <2>1. UNCHANGED <<pc, result>>
    BY <1>0, <1>6 DEF CountEvent
  <2>2. ASSUME NEW t \in start_time .. (end_time - 1),
               \A k \in DOMAIN events : events[k].at <= t => k <= d
        PROVE  Cardinality(Open(t)) < total_units
    <3>1. CASE \A k \in DOMAIN events : events[k].at <= t => k <= done
      BY <1>0, <3>1 DEF RoomSoFar
    <3>2. CASE \E k \in DOMAIN events : events[k].at <= t /\ ~(k <= done)
      <4>1. DOMAIN events \subseteq Int /\ \A k \in DOMAIN events : events[k].at \in Int
        <5>1. \A k \in DOMAIN events : events[k] \in Event
          BY <1>0
        <5> QED BY <1>0, <5>1, SequenceDomain, SweepAssumption DEF Event, Instants
      <4>2. events[d].at <= t
        BY <1>0, <2>2, <3>2, <4>1
      <4>3. \A k \in DOMAIN events : k <= d => events[k].at <= t
        <5>1. ASSUME NEW k \in DOMAIN events, k <= d PROVE events[k].at <= events[d].at
          <6>1. EventOrder(events[k], events[d])
            BY <1>0, <1>1, <5>1 DEF Placed
          <6> QED BY <1>0, <4>1, <6>1 DEF EventOrder
        <5> QED BY <1>4, <4>1, <4>2, <5>1
      <4>4. Inside(first, last, d) = Open(t)
        BY <1>0, <1>1, <2>2, <4>3, InsideIsOpen
      <4> QED BY <1>2, <1>4, <1>6, <4>4
    <3> QED BY <3>1, <3>2
  <2>3. RoomSoFar'
    <3>1. current_occupancy' < total_units
      BY <1>4, <1>6
    <3>2. ASSUME NEW t \in start_time .. (end_time - 1) PROVE Open(t)' = Open(t)
      BY <1>0 DEF Open, args
    <3> QED BY <1>0, <2>2, <3>1, <3>2 DEF RoomSoFar, args
  <2> QED BY <1>0, <1>3, <2>1, <2>3 DEF SweepInv, ArgsOK, args
<1> QED BY <1>5, <1>6

\* When all events are counted, a unit is left at every instant.
LEMMA ReturnStep ==
  ASSUME SweepInv, AllCounted PROVE SweepInv'
<1>0. /\ pc = "count" /\ done = Len(events) /\ pc' = "returned" /\ result' = TRUE
      /\ UNCHANGED <<args, events, current_occupancy, done>>
      /\ Counting /\ RoomSoFar /\ events \in Seq(Event) /\ total_units > 0
  BY DEF AllCounted, Return, SweepInv
<1>1. \A k \in DOMAIN events : k <= done
  BY <1>0
<1>2. HasAvailableUnit(intervals, DOMAIN intervals, total_units, start_time, end_time)
  BY <1>0, <1>1, ReferenceIsOpen DEF RoomSoFar
<1>3. VerdictIsExact'
  BY <1>0, <1>2 DEF VerdictIsExact, args, HasAvailableUnit
<1>4. Counting'
  BY <1>0, CountingKept
<1> QED BY <1>0, <1>3, <1>4 DEF SweepInv, ArgsOK, args

LEMMA SweepStep == SweepInv /\ [Next]_vars => SweepInv'
<1>1. ASSUME SweepInv, UNCHANGED vars PROVE SweepInv'
  <2>1. Counting => Counting'
    BY <1>1, CountingKept DEF vars
  <2>2. RoomSoFar => RoomSoFar'
    BY <1>1 DEF vars, args, RoomSoFar, Open
  <2>3. \A d : Collected(d) => Collected(d)'
    BY <1>1 DEF vars, args, Collected, From, To
  <2>4. VerdictIsExact => VerdictIsExact'
    BY <1>1 DEF vars, args, VerdictIsExact, HasAvailableUnit
  <2>5. ArgsOK => ArgsOK'
    BY <1>1 DEF vars, args, ArgsOK
  <2> QED BY <1>1, <2>1, <2>2, <2>3, <2>4, <2>5 DEF SweepInv, vars, args
<1> QED BY <1>1, RefuseStep, StartStep, CollectStep, SortStep, CountStep, ReturnStep DEF Next

LEMMA SweepKeepsInv == Spec => []SweepInv
<1>1. Init => SweepInv
  <2> SUFFICES ASSUME Init PROVE SweepInv
    OBVIOUS
  <2>1. ArgsOK
    <3>1. PICK p \in Periods : start_time = p.start /\ end_time = p.end
      BY DEF Init
    <3> QED BY <3>1 DEF Init, ArgsOK, Periods
  <2>2. pc = "start" /\ events = <<>> /\ current_occupancy = 0 /\ done = 0 /\ result = FALSE
    BY DEF Init
  <2>3. events \in Seq(Event)
    BY <2>2
  <2> QED BY <2>1, <2>2, <2>3 DEF SweepInv
<1> QED BY <1>1, SweepStep, PTL DEF Spec

\* The locals are of their types, and the counter is never negative or above the
\* number of intervals.
THEOREM TypeCorrect == Spec => []TypeOK
<1>1. SweepInv => TypeOK
  <2> SUFFICES ASSUME SweepInv PROVE TypeOK
    OBVIOUS
  <2>1. ArgsOK /\ Len(intervals) \in Int /\ 0 <= Len(intervals) /\ Len(intervals) <= MaxIntervals
    BY IntervalDomain, SweepAssumption DEF SweepInv
  <2>2. ASSUME Counting PROVE current_occupancy \in 0 .. MaxIntervals /\ done \in 0 .. 2 * MaxIntervals
    BY <2>1, <2>2, InsideFinite, SweepAssumption DEF Counting
  <2>3. /\ current_occupancy \in 0 .. MaxIntervals
        /\ done \in 0 .. 2 * MaxIntervals
    <3>1. pc \in {"start", "collect"} => current_occupancy = 0 /\ done \in 0 .. Len(intervals)
      BY <2>1 DEF SweepInv
    <3>2. pc \in {"count", "returned"} => Counting \/ (current_occupancy = 0 /\ done = 0)
      BY DEF SweepInv
    <3>3. 0 \in 0 .. MaxIntervals /\ 0 .. Len(intervals) \subseteq 0 .. 2 * MaxIntervals
      BY <2>1, SweepAssumption
    <3> QED BY <2>2, <3>1, <3>2, <3>3, SweepAssumption DEF SweepInv
  <2> QED BY <2>3 DEF SweepInv, TypeOK
<1> QED BY <1>1, SweepKeepsInv, PTL

\* has_available_unit answers exactly what the reference asks, for every period,
\* every list of overlapping intervals in any order and every number of units.
THEOREM SweepIsExact == Spec => []VerdictIsExact
<1>1. SweepInv => VerdictIsExact
  BY DEF SweepInv, VerdictIsExact
<1> QED BY <1>1, SweepKeepsInv, PTL

\* Whenever the pass has taken all events up to an instant, the counter is the
\* number of intervals open at it.
THEOREM CounterExact == Spec => []CounterIsExact
<1>1. SweepInv => CounterIsExact
  <2> SUFFICES ASSUME SweepInv, pc \in {"count", "returned"}, done > 0
               PROVE  LET t == events[done].at
                          all_of_t == done = Len(events) \/ events[done + 1].at > t
                      IN /\ current_occupancy >= 0
                         /\ all_of_t /\ t < end_time
                              => current_occupancy = Cardinality(Open(t))
    BY DEF CounterIsExact
  <2> DEFINE t == events[done].at
  <2>1. Counting /\ ArgsOK /\ events \in Seq(Event)
    BY DEF SweepInv
  <2>2. PICK first, last : /\ Placed(first, last)
                           /\ current_occupancy = Cardinality(Inside(first, last, done))
    BY <2>1 DEF Counting
  <2>3. current_occupancy >= 0
    BY <2>1, <2>2, InsideFinite, SweepAssumption
  <2>4. /\ DOMAIN events = 1 .. Len(events) /\ Len(events) \in Nat
        /\ done \in DOMAIN events /\ done \in Int
    BY <2>1 DEF Counting
  <2>5. \A k \in DOMAIN events : events[k].at \in Int
    <3>1. \A k \in DOMAIN events : events[k] \in Event
      BY <2>1
    <3> QED BY <3>1, SweepAssumption DEF Event, Instants
  <2>6. ASSUME done = Len(events) \/ events[done + 1].at > t, t < end_time
        PROVE  current_occupancy = Cardinality(Open(t))
    <3>1. start_time <= t /\ start_time \in Int /\ end_time \in Int
      <4>1. PICK i \in DOMAIN intervals : done = first[i] \/ done = last[i]
        BY <2>2, <2>4 DEF Placed
      <4>2. t = From(i) \/ t = To(i)
        BY <2>1, <2>2, <4>1, PlacedFacts
      <4> QED BY <2>1, <4>1, <4>2, ClampedInterval
    <3>2. t \in start_time .. (end_time - 1)
      BY <2>4, <2>5, <2>6, <3>1
    <3>3. ASSUME NEW k \in DOMAIN events PROVE k <= done <=> events[k].at <= t
      <4>1. k \in Int
        BY <2>4
      <4>2. CASE k <= done
        <5>1. EventOrder(events[k], events[done])
          BY <2>2, <2>4, <4>2 DEF Placed
        <5> QED BY <2>4, <2>5, <4>2, <5>1 DEF EventOrder
      <4>3. CASE ~(k <= done)
        <5>1. done + 1 \in DOMAIN events /\ done + 1 <= k /\ events[done + 1].at > t
          BY <2>4, <2>6, <4>1, <4>3
        <5>2. EventOrder(events[done + 1], events[k])
          BY <2>2, <5>1 DEF Placed
        <5>3. events[done + 1].at \in Int /\ events[k].at \in Int /\ t \in Int
          BY <2>4, <2>5, <5>1
        <5> QED BY <4>3, <5>1, <5>2, <5>3 DEF EventOrder
      <4> QED BY <4>2, <4>3
    <3>4. Inside(first, last, done) = Open(t)
      BY <2>1, <2>2, <2>4, <3>2, <3>3, InsideIsOpen
    <3> QED BY <2>2, <3>4
  <2> QED BY <2>3, <2>6
<1> QED BY <1>1, SweepKeepsInv, PTL
=============================================================================
