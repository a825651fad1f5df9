CONSTANTS
  c1 = c1
  c2 = c2
  h1 = h1
  h2 = h2
  Client = {c1, c2}
  Threads <- BigAndSmall
  Stable = {c2}
  Http = {h1}
  Main = Main
  Watcher = Watcher
  None = None
  ReportDisconnects = TRUE
  DiskFails = TRUE
  Limits = {0, 1}
  SlotModulus = 16
  MaxSearches = 2
  MaxChunks = 2
  MaxScanErrors = 0
  MaxMatches = 1
SPECIFICATION Spec
INVARIANTS AnswersMatch NoDuplicates ChunkAccounting NoStrandedWork FileWithinLimit
CHECK_DEADLOCK FALSE
