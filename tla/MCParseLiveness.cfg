\* Liveness: two materials contend for a batch of one; the agent may fail,
\* the database does not.
CONSTANTS
  N = 2
  FileMaterials <- OneFile
  w1 = w1
  w2 = w2
  c1 = c1
  c2 = c2
  Workers = {w1}
  Calls = {c1}
  NoCall = NoCall
  MaxAttempts = 2
  BatchSize = 1
  MaxGen = 1
  MaxCrashes = 1
  AgentFaults = TRUE
  DbFaults = FALSE
SPECIFICATION FairSpec
PROPERTY EverySettles
