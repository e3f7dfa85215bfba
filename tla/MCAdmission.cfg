\* Two requests at a time and four in all, two per window of three, a quota of
\* one: late checks, both stores, quotas read together.
CONSTANTS
  c1 = c1
  c2 = c2
  Calls <- MCCalls
  Limit = 2
  Window = 3
  DailyLimit = 1
  MaxDelay = 1
  MaxTime = 4
  MaxArrivals = 4
SYMMETRY Symmetric
SPECIFICATION Spec
CHECK_DEADLOCK FALSE
INVARIANTS
  TypeOK
  WindowHolds
  OverrunIsBounded
PROPERTY RefusalsAreDue
