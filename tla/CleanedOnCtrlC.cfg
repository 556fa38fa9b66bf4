SPECIFICATION Spec
CONSTANTS
  MaxVariants = 1
  MaxNexus = 1
  Builders = {"cleaning"}
INVARIANTS
  CleanedOnCtrlC
