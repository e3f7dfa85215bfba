\* Safety: one text material, overlapping workers and late requests.
CONSTANTS
  N = 1
  FileMaterials <- NoFiles
  w1 = w1
  w2 = w2
  c1 = c1
  c2 = c2
  Workers <- MCWorkers
  Calls <- MCCalls
  NoCall = NoCall
  MaxAttempts = 2
  BatchSize = 1
  MaxGen = 2
  MaxCrashes = 1
  AgentFaults = TRUE
  DbFaults = TRUE
SPECIFICATION Spec
SYMMETRY Slots
INVARIANTS
  TypeOK
  DoneMeansIndexed
  EditNeverLost
  OneWorkerPerGeneration
  StaleAnswerIsSuperseded
  AlertedGenerationIsDead
PROPERTIES
  IndexNeverGoesBack
  ImplementsLifecycle
