SPECIFICATION Spec
CONSTANTS
  Window = 3
  MaxTime = 9
INVARIANTS TypeOK AcceptsOnlyFresh RejectsOnlyStale
CHECK_DEADLOCK FALSE
