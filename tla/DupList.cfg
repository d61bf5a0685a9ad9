SPECIFICATION MCSpec
CONSTANTS
  Source = {s1, s2}
  NullSource = s0
  Sequence = {0, 1, 2}
  SeqModulus = 2
  ListSize = 3
  MacToLonglong <- SameNumber
  MaxForwards = 6
INVARIANTS
  TypeOK
  LimitCheckNeverThrows
  RepeatsAreFarApart
PROPERTY ImplementsWindow
