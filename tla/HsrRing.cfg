SPECIFICATION Spec
CONSTANTS
  N = 3
  ListSize = 1
  MaxFrames = 2
  MaxOfKind = 1
  Traffic <- MCTraffic
INVARIANTS
  PortsStayOpen
  RingInv
PROPERTIES
  ImplementsService
  ComesToRest
CHECK_DEADLOCK FALSE
