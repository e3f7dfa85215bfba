\* A docx/pdf material whose content a user edits.
CONSTANTS
  N = 1
  FileMaterials <- OneFile
  w1 = w1
  w2 = w2
  c1 = c1
  c2 = c2
  Workers <- MCWorkers
  Calls <- MCCalls
  NoCall = NoCall
  MaxAttempts = 2
  BatchSize = 1
  MaxGen = 2
  MaxCrashes = 0
  AgentFaults = FALSE
  DbFaults = FALSE
SPECIFICATION Spec
INVARIANT EditReachesIndex
