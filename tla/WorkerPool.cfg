\* Levels 4, 5 and 6, re-evaluated every third job.
SPECIFICATION FairSpec
CONSTANTS
  MinC = 4
  MaxC = 6
  ReevalInterval = 3
  MaxGoroutines = 8
INVARIANTS TypeOK SlotsAccounted
PROPERTIES ClaimedJobRuns StopsWhenCancelled
\* Run returns after the signal.
CHECK_DEADLOCK FALSE
