SPECIFICATION Spec
CONSTANTS
  Langs = {"py"}
  Kinds = {"default", "release"}
  Procs = {p1}
  Prepared = prepared
INVARIANT RequestedSDK
CHECK_DEADLOCK FALSE
