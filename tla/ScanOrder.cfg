SPECIFICATION Spec
CHECK_DEADLOCK FALSE
CONSTANTS
  MaxQueryParamValues = 3
  MaxQueryParamKeys = 2
  Words <- MCWords
  Traits <- MCTraits
  Singular <- MCSingular
  MaxPromotionRounds = 8
  Bodies <- MCBodies
  MaxSchemaDepth = 2
  MaxFormFields = 2
  MaxMultipartParts = 2
  WSDLQueries = {}
  Reads <- MCReads
  Jobs <- MCBundles
INVARIANT
  IdenticalSpecEveryRun
