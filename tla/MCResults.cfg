CONSTANTS
  c1 = c1
  c2 = c2
  h1 = h1
  h2 = h2
  Client = {c1}
  Threads <- OneOfTwo
  Stable = {c1}
  Http = {h1, h2}
  Main = Main
  Watcher = Watcher
  None = None
  ReportDisconnects = FALSE
  DiskFails = FALSE
  Limits = {0, 2}
  SlotModulus = 16
  MaxSearches = 2
  MaxChunks = 2
  MaxScanErrors = 0
  MaxMatches = 2
SPECIFICATION Spec
INVARIANTS LinesExact DoneMeansOnDisk
PROPERTIES DoneIsFinal ImplementsSearchService
CHECK_DEADLOCK FALSE
