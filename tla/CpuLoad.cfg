SPECIFICATION Spec
CONSTANTS
  Node <- CpuNode
  Configuration <- CpuConfiguration
  MaxDelay = 3
INVARIANTS
  OnlyNegativeLoadsThrow
  SentOnSchedule
  LoadIsKept
  EachFrameIsLoggedOnce
  FramesStayWhole
  EndsInTime
  PatternsAreUnderstoodAlike
CHECK_DEADLOCK FALSE
