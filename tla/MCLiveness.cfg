CONSTANTS
  c1 = c1
  c2 = c2
  h1 = h1
  h2 = h2
  Client = {c1, c2}
  Threads <- BigAndSmall
  Stable = {c1, c2}
  Http = {h1, h2}
  Main = Main
  Watcher = Watcher
  None = None
  ReportDisconnects = FALSE
  DiskFails = FALSE
  Limits = {0}
  SlotModulus = 16
  MaxSearches = 2
  MaxChunks = 2
  MaxScanErrors = 0
  MaxMatches = 0
SPECIFICATION FairSpec
PROPERTIES SearchCompletes StartSearchReturns
CHECK_DEADLOCK FALSE
