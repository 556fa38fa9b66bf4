SPECIFICATION Spec
CONSTANTS
  NumExecs = 2
  NumTypes = 2
  Inputs = {1, 2}
  Features <- MCFeatures
  Revisions = {1, 2}
  Replayable <- ReplayableForward
  Versions = {1, 2}
  MaxRuns = 2
  MaxPolls = 2
  MaxRepeats = 1
INVARIANTS
  TypeOK
  OnlyWholeHistories
  VerdictIsRight
  OldHistoriesReplay
  TornNeverPasses
PROPERTIES
  GenerationUnderCheckChangesNothing
CHECK_DEADLOCK FALSE
