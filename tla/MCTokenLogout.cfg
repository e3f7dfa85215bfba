\* A logout that races a rotation leaves its replacement usable.
CONSTANTS
  b1 = b1
  b2 = b2
  c1 = c1
  c2 = c2
  Tabs <- MCTabs
  Calls <- MCCalls
  NoCall = NoCall
  Nobody = Nobody
  MaxTokens = 2
SYMMETRY Symmetric
SPECIFICATION Spec
INVARIANT RevocationIsWhole
