SPECIFICATION TSpec
CONSTANTS
  schedID = "A"
  schedmode = "FCFS"
  framebyteLimit <- NoLimit
  TimeslotsOn = FALSE
  FragmentMin = 128
  FrameKind <- ShortestKinds
  MaxFrames = 2
INVARIANT NoFragmentIsTooSmall
CHECK_DEADLOCK FALSE
