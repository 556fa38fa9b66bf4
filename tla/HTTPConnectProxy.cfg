SPECIFICATION Spec
CONSTANTS
  Conns = {c1}
  MaxPackets = 3
INVARIANTS
  TypeOK
  CountedWhenUsed
  ClientSpeaksFirst
  StreamsInOrder
PROPERTIES
  TunnelCarries
CHECK_DEADLOCK FALSE
