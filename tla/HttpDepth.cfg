\* What the documentation of Depth says, on one worker with ample budget.
CONSTANTS
  Worker = {w1}
  Url <- ShadowUrl
  Page <- ShadowPage
  NoPage <- MCNoPage
  Normalize <- ShadowNormalize
  InScope <- ShadowInScope
  MaxDepth = 3
  Dfs = TRUE
  NoEntry = NoEntry
  Seed = "s"
  Links <- ShadowLinks
  MaxPages = 9
SPECIFICATION Spec
INVARIANT DepthIsHops
