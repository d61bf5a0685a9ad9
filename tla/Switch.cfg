SPECIFICATION Spec
CONSTANTS
  schedmode = "ZIPPER"
  framebyteLimit = 1
  TimeslotsOn = TRUE
  FragmentMin = 2
  MaxFrames = 2
  Traffic <- MixedTraffic
INVARIANTS
  NoPortForgets
PROPERTY
  PortsAreSchedulerPorts
CHECK_DEADLOCK FALSE
