\* All periods, all lists of at most three overlapping intervals, 0 to 3 units.
SPECIFICATION Spec
CONSTANTS
  MaxTime = 4
  MaxIntervals = 3
  MaxUnits = 3
INVARIANTS TypeOK VerdictIsExact CounterIsExact
CHECK_DEADLOCK FALSE
