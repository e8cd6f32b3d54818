SPECIFICATION FairSpec
CONSTANTS
  Ids = {i1, i2}
  e1 = e1
  e2 = e2
  Emails = {e1}
  DraftIds = {d1}
  Handlers = {h1, h2}
  Texts = {"texte"}
  LlmAnswers = {"texte", NULL}
  ClientStatuses <- MCStatuses
  Files <- MCFile
  BadLine = BadLine
  ErrDraft = ErrDraft
  NULL = NULL
  Unused = Unused
  Gone = Gone
PROPERTIES
  EveryRequestEnds
