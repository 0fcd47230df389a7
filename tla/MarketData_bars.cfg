SPECIFICATION Spec
CONSTANTS
  Symbols = {y1, y2}
  Minutes = {m1, m2}
  Clients = {c1}
  Writer = Writer
  All = All
  None = None
  MaxQueue = 2
  MaxTicks = 4
  MaxRestarts = 1
SYMMETRY Symmetry
INVARIANTS
  TypeOK
  DeliveredInOrder
  NewestKept
  CandleIsWhole
  CandleOfItsMinute
