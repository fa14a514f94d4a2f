SPECIFICATION Spec
CONSTANTS
  MaxQueryParamValues = 2
  MaxQueryParamKeys = 2
  MaxForms = 2
  MaxFields = 2
  MaxValue = 1
  SensitiveNames <- MCSensitive
  MaxEndpointsPerBundle = 3
  ConcatMinReserve = 2
  MaxBundleSize = 5
  FetchSourcemaps = TRUE
  AllowPrivate = FALSE
  Workers = {w1, w2}
  Captures <- MCCaptures
  Bundles <- MCBundles
  Tokens <- MCTokens
  MaxTokens = 5
INVARIANTS
  BundlesAccounted
  EndpointsExplained
  AnalysedOnce
  FormSecretsBlank
PROPERTIES
  AnalysisReturns
