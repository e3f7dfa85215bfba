\* A question, two join requests, three materials, limits of a few chunks; a stage that
\* times out leaves no time.
CONSTANTS
  student = student
  teacher = teacher
  class = class
  own = own
  public = public
  lesson = lesson
  note = note
  book = book
  h1 = h1
  h2 = h2
  j1 = j1
  j2 = j2
  None = None
  Users = {student}
  TeamIds = {class, own, public}
  Materials = {lesson, note, book}
  TypeOf <- MCTypeOf
  OwnerOf <- MCOwnerOf
  TeamOf <- MCTeamOf
  Joins = {j1, j2}
  Asker = student
  MaxGen = 2
  Body <- MCBody
  Signals <- MCSignals
  VectorTopK = 2
  LexicalTopK = 1
  DefaultTopK = 3
  RRFConstant = 60
  TopN = 2
  MaxMaterials = 2
  MaxChunks = 3
  MaxTokens = 7
  Total = 1
  AnalyzeLimit = 1
  SearchLimit = 1
  RerankLimit = 1
SYMMETRY Symmetric
SPECIFICATION Spec
INVARIANTS
  TypeOK
  ContextWithinLimits
PROPERTIES
  ReadsOnlyVisible
  ContextIsOrdered
  BestMaterialInContext
  RecallSurvives
  ApprovalStays
