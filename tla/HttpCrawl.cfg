\* Four recorded pages of budget for a site of six, two workers.
CONSTANTS
  Worker = {w1, w2}
  Url <- MCUrl
  Page <- MCPage
  NoPage <- MCNoPage
  Normalize <- MCNormalize
  InScope <- MCInScope
  MaxDepth = 3
  Dfs = TRUE
  NoEntry = NoEntry
  Seed = "s"
  Links <- MCLinks
  MaxPages = 4
SPECIFICATION Spec
INVARIANTS RecordsFetchedPages OvershootBounded CutsAreExplained CompleteUnlessCut
PROPERTIES KeepsFrontierProtocol ImplementsCrawl
