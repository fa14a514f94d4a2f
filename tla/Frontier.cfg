\* Breadth-first, three workers, a site of four pages.
CONSTANTS
  Worker = {w1, w2, w3}
  Url <- MCUrl
  Page <- MCPage
  NoPage <- MCNoPage
  Normalize <- MCNormalize
  InScope <- MCInScope
  MaxDepth = 2
  Dfs = FALSE
  NoEntry = NoEntry
  Seed = "s"
  Links <- MCLinks
SPECIFICATION FairSpec
INVARIANTS TypeOK NoLostWakeup ActiveCountsHolders EachPageOnce DepthHasChain
PROPERTIES DrainedIsFinal Terminates
