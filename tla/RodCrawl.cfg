\* Four pages of budget for a site of five, two workers.
CONSTANTS
  Worker = {w1, w2}
  Url <- MCUrl
  Page <- MCPage
  NoPage <- MCNoPage
  Normalize <- MCNormalize
  InScope <- MCInScope
  MaxDepth = 3
  Dfs = FALSE
  NoEntry = NoEntry
  Seed = "s"
  Links <- MCLinks
  MaxPages = 4
  MaxRequests = 1
SPECIFICATION Spec
INVARIANTS BudgetExact InFlightPagesFinalize CompleteUnlessCut CancelIsPrompt
PROPERTIES KeepsFrontierProtocol ImplementsCrawl
