SPECIFICATION FairSpec
CONSTANTS
  e1 = e1
  e2 = e2
  Ids = {i1, i2}
  Emails = {e1, e2}
  DraftIds = {d1, d2}
  Runs = {r1, r2}
  CsvFile <- MCCsvFile
  Files <- MCFiles
  Choices <- MCChoices
  NULL = NULL
  Unused = Unused
INVARIANTS TypeOK ReportIsComplete DraftsAreOnRecord
PROPERTIES NoDraftOverASettledOne KeepsLifecycle EveryRunEnds
CHECK_DEADLOCK FALSE
