SPECIFICATION TSpec
CONSTANTS
  schedID = "A"
  schedmode = "RING_FIRST"
  framebyteLimit <- NoLimit
  TimeslotsOn = FALSE
  FragmentMin = 128
  FrameKind <- TimedKinds
  MaxFrames = 3
INVARIANTS
  ExpressIsServedInTime
  FrontIsLongEnough
PROPERTY SideOrder
CHECK_DEADLOCK FALSE
