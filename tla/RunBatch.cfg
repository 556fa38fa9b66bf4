SPECIFICATION Spec
CONSTANTS
  MaxFeatures = 2
  Langs = {"golocal", "go", "java", "ts", "php", "py", "cs", "rb"}
  Expect <- MCExpect
  MaxTunnels = 2
  ConnMayBreak = TRUE
INVARIANTS
  TypeOK
  SummaryExact
  SuccessMeansPassed
  SuccessMeansVerified
  SkipsLeftAlone
  ProxyVerified
PROPERTIES
  BatchReturns
  KeepsVerdict
