SPECIFICATION Spec
CONSTANTS
  schedID = "B"
  schedmode = "FCFS"
  framebyteLimit = 3
  TimeslotsOn = TRUE
  FragmentMin = 2
  FrameKind <- LimitedKinds
  MaxFrames = 3
INVARIANTS
  TypeOK
  TimersMatchFlags
  LimiterNeverThrows
  NoLostWakeup
  LockTracksInterface
  OnlyLongFramesArePreempted
  ExpressFlagIsFresh
PROPERTIES
  StrictPriority
  FirstComeFirstServed
  EveryFrameIsSent
CHECK_DEADLOCK FALSE
