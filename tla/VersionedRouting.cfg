CONSTANTS
  Features <- MCFeatures
  Faults <- MCFaults
SPECIFICATION Spec
INVARIANTS TypeOK NoFalseAlarm MisroutingDetected WithholdingDetected PassIsItsOwn
PROPERTY FeatureEnds
CHECK_DEADLOCK FALSE
