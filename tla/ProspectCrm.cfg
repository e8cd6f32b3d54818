SPECIFICATION Spec
CONSTANTS
  Ids = {i1, i2}
  e1 = e1
  e2 = e2
  Emails = {e1, e2}
  DraftIds = {d1, d2}
  Handlers = {h1, h2}
  Texts = {"texte"}
  LlmAnswers = {"texte"}
  ClientStatuses <- MCStatuses
  Files <- MCFiles
  BadLine = BadLine
  ErrDraft = ErrDraft
  NULL = NULL
  Unused = Unused
  Gone = Gone
SYMMETRY Symmetric
INVARIANTS
  TypeOK
  DraftReachesItsProspect
PROPERTIES
  DeletedStaysDeleted
  RemovesOnlyItsProspectsDrafts
  ImportComplete
  ImplementsLifecycle
