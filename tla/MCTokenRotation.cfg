\* Two tabs, two requests at a time, four tokens: concurrent refreshes, logouts,
\* lost answers and replays.
CONSTANTS
  b1 = b1
  b2 = b2
  c1 = c1
  c2 = c2
  Tabs <- MCTabs
  Calls <- MCCalls
  NoCall = NoCall
  Nobody = Nobody
  MaxTokens = 4
SYMMETRY Symmetric
SPECIFICATION Spec
INVARIANTS
  TypeOK
  OneUsableToken
  RevokedForAReason
PROPERTIES
  ImplementsFamily
