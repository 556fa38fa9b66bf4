SPECIFICATION Spec
CONSTANTS
  MaxFeatures = 2
  Langs = {"cs", "php"}
  Expect <- MCExpect
  MaxTunnels = 1
  ConnMayBreak = FALSE
INVARIANTS
  SuccessMeansRun
