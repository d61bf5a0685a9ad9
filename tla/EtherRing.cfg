SPECIFICATION Spec
CONSTANTS
  Node <- RingNode
  RedBox = {}
  redBoxCfg = "HSR"
  Peer <- RingPeer
  Configuration <- RingConfiguration
  MaxFrames = 3
  MaxErrors = 1
  txQueueLimit = 1
  ListSize = 3
  SeqModulus = 65536
INVARIANTS
  NothingIsThrown
  OneLossIsMasked
  AccountIsTrue
PROPERTIES
  ImplementsService
  ComesToRest
CHECK_DEADLOCK FALSE
