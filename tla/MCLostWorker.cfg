CONSTANTS
  c1 = c1
  c2 = c2
  h1 = h1
  h2 = h2
  Client = {c1, c2}
  Threads <- BigAndSmall
  Stable = {c1}
  Http = {h1}
  Main = Main
  Watcher = Watcher
  None = None
  ReportDisconnects = FALSE
  DiskFails = FALSE
  Limits = {1}
  SlotModulus = 16
  MaxSearches = 1
  MaxChunks = 2
  MaxScanErrors = 0
  MaxMatches = 1
SPECIFICATION FairSpec
PROPERTIES SearchCompletes
CHECK_DEADLOCK FALSE
