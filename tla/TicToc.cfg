SPECIFICATION Spec
CONSTANTS
  Limits = {2, 5}
  DelayTimes = {1, 3}
  Networks <- MCNetworks
  MaxHops = 8
  MaxEvents = 5
  MaxSeq = 7
INVARIANTS
  NothingIsLostOrDoubled
  HopsAreCounted
PROPERTY ImplementsExchange
CHECK_DEADLOCK FALSE
