\* What the help text of --max-pages says, on two workers.
CONSTANTS
  Worker = {w1, w2}
  Url <- MCUrl
  Page <- MCPage
  NoPage <- MCNoPage
  Normalize <- MCNormalize
  InScope <- MCInScope
  MaxDepth = 3
  Dfs = TRUE
  NoEntry = NoEntry
  Seed = "s"
  Links <- MCLinks
  MaxPages = 2
SPECIFICATION Spec
INVARIANT InFlightPagesFinish
