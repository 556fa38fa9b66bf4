SPECIFICATION Spec
CONSTANTS
  MaxFeatures = 1
  Langs = {"golocal", "go", "java", "rb"}
  Expect <- MCExpect
  MaxTunnels = 1
  ConnMayBreak = FALSE
INVARIANTS
  ReportingHarnessHeard
