SPECIFICATION Spec
CONSTANTS
  Ids = {i1, i2}
  e1 = e1
  e2 = e2
  Emails = {e1}
  DraftIds = {d1, d2}
  Handlers = {h1}
  Texts = {"texte", "retouche"}
  LlmAnswers = {"texte"}
  ClientStatuses = {}
  Files <- MCFile
  BadLine = BadLine
  ErrDraft = ErrDraft
  NULL = NULL
  Unused = Unused
  Gone = Gone
INVARIANTS
  DraftHoldsThePitch
