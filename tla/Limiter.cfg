SPECIFICATION MCSpec
CONSTANTS
  schedID = "A"
  schedmode = "FCFS"
  framebyteLimit = 12500
  TimeslotsOn = FALSE
  FragmentMin = 128
  FrameKind <- OneLowFrame
  MaxFrames = 1
INVARIANT OnlyGeneratedTokensAreSpent
CHECK_DEADLOCK FALSE
