SPECIFICATION Spec
CONSTANTS
  MaxQueryParamValues = 2
  MaxQueryParamKeys = 2
  MaxConcatArgList = 30
  MaxConcatChainSpan = 30
  MaxConcatChainOperands = 2
  MaxConcatPaths = 3
  MaxBundlePrefixes = 1
  Words <- MCWords
  CrawledPrefixes = {}
  Origins = {"site", "cdn", "internal"}
  CredentialOrigins = {}
  Inputs <- MCInputs
  Sources <- MCSources
  Scripts <- MCScripts
  Served <- MCServed
  RedirectTargets <- MCRedirects
  PrivateOrigins = {"internal"}
  MaxEndpoints = 2
  MaxJSRedirects = 1
INVARIANTS
  HeadersStayHome
  ReplayIsAdditive
  BudgetForTheAllowed
  ReadsBack
PROPERTIES
  ReplayEnds
