SPECIFICATION Spec
CONSTANTS
  MaxVariants = 2
  MaxNexus = 2
  Builders = {"local", "cleaning", "leaving"}
INVARIANTS
  TypeOK
  ReturnReleasesAll
  HarnessOnOwnServer
  NexusReady
  ProgramOnDisk
PROPERTIES
  EndpointsGoFirst
  RunEnds
