\* Two questions in one scope, two loads on their way: late histories and streams.
CONSTANTS
  Global = Global
  m1 = m1
  Scopes <- OneScope
  MaxTurns = 2
  l1 = l1
  l2 = l2
  Loads <- MCLoads
  NoLoad = NoLoad
  LeftOver <- None
  KeepsLegacy = FALSE
SPECIFICATION Spec
SYMMETRY LoadSlots
INVARIANTS
  TypeOK
  OneConversation
