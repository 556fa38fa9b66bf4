SPECIFICATION Spec
CONSTANTS
  Langs = {"go", "java", "ts", "php", "py", "cs", "rb"}
  Kinds = {"default", "release", "path"}
  Procs = {p1, p2, p3}
  Prepared = prepared
SYMMETRY Symmetry
INVARIANTS TypeOK RunsAskedSDK HalfBuiltNeverRuns
CHECK_DEADLOCK FALSE
