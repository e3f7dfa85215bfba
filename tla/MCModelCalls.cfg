\* Two calls of the sync client, one of the async client, a slot each, three
\* attempts; three failures open the circuit for two ticks.
CONSTANTS
  s1 = s1
  s2 = s2
  a1 = a1
  Calls <- MCCalls
  Async <- MCAsync
  Slots = 1
  Attempts = 3
  Threshold = 3
  Reset = 2
SPECIFICATION FairSpec
INVARIANT TypeOK
PROPERTIES
  TurnedAwayForAReason
  Recovers
  CallSettles
