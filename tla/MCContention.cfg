CONSTANTS
  c1 = c1
  c2 = c2
  h1 = h1
  h2 = h2
  Client = {c1}
  Threads <- OneOfTwo
  Stable = {}
  Http = {h1, h2}
  Main = Main
  Watcher = Watcher
  None = None
  ReportDisconnects = TRUE
  DiskFails = FALSE
  Limits = {0}
  SlotModulus = 16
  MaxSearches = 3
  MaxChunks = 3
  MaxScanErrors = 0
  MaxMatches = 0
SPECIFICATION Spec
SYMMETRY HttpSymmetry
INVARIANTS SlotAccounting IdleInSync
CHECK_DEADLOCK FALSE
