SPECIFICATION Spec
CONSTANTS
  Node <- CoupledNode
  RedBox <- CoupledNode
  redBoxCfg = "HSR"
  Peer <- CoupledPeer
  Configuration <- CoupledConfiguration
  MaxFrames = 1
  MaxErrors = 1
  txQueueLimit = 1
  ListSize = 2
  SeqModulus = 65536
INVARIANTS
  OneLossIsMasked
CHECK_DEADLOCK FALSE
