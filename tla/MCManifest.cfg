SPECIFICATION Spec
CONSTANTS
  LB = LB
  RB = RB
  CO = CO
  CM = CM
  NL = NL
  None = None
  dependencies = dependencies
  project = project
  name = name
  build = build
  url = url
  oboe = oboe
  alpha = alpha
  beta = beta
  v1 = v1
  v2 = v2
  Words <- MCWords
  Documents <- MCDocuments
  Packages = {alpha, beta, oboe}
  Constraints = {v1, v2}
  Transient = FALSE
  MaxEdits = 2
INVARIANTS Separated
PROPERTIES EditsTheMap
CHECK_DEADLOCK FALSE
