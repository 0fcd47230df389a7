SPECIFICATION FairSync
CONSTANTS
  b1 = b1
  b2 = b2
  x = x
  y = y
  Brokers = {b1, b2}
  Instruments = {x, y}
  MaxVersion = 2
  Contract <- MCContract
  None = None
INVARIANTS
  OkMeansComplete
PROPERTIES
  CatchesUp
