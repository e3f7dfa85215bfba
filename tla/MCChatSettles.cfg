\* One question, two scopes, two loads, a deletion, entries of an earlier account in
\* the browser.
CONSTANTS
  Global = Global
  m1 = m1
  Scopes <- MCScopes
  MaxTurns = 1
  l1 = l1
  l2 = l2
  Loads <- MCLoads
  NoLoad = NoLoad
  LeftOver <- Material
  KeepsLegacy = TRUE
SPECIFICATION FairSpec
INVARIANTS
  ScopeIsolated
  DoneIsSaved
PROPERTY ComposerComesBack
