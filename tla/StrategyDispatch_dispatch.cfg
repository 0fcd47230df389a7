SPECIFICATION FairSpec
CONSTANTS
  Strategies = {s1, s2}
  x = x
  y = y
  Symbols = {x, y}
  SymbolLists <- MCLists
  Clients = {c1, c2}
  None = None
  Gone = Gone
INVARIANTS
  TypeOK
  StopsWithinASweep
PROPERTIES
  Dispatched
