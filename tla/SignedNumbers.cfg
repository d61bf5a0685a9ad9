SPECIFICATION Spec
CONSTANTS
  Node <- RingNode
  RedBox = {}
  redBoxCfg = "HSR"
  Peer <- RingPeer
  Configuration <- RingConfiguration
  MaxFrames = 3
  MaxErrors = 1
  txQueueLimit = 1
  ListSize = 3
  SeqModulus = 4
INVARIANTS
  HeardOnce
CHECK_DEADLOCK FALSE
