SPECIFICATION FairSpec
CONSTANTS
  Sessions = {s1, s2}
  A = A
  B = B
  C = C
  Bulk = Bulk
  None = None
  Symbols = {A, B, C, Bulk}
  MaxLegs = 2
  MaxPositions = 4
  Requests <- MixedRequests
  Seed <- MCSeed
  SeedRows <- MCSeedRows
INVARIANTS
  TypeOK
  AtomicAllOrNone
  ReportedIsReal
  NoSilentOrphan
  LedgerUnlessOverwritten
  PositionExplained
PROPERTIES
  EveryRequestEnds
CHECK_DEADLOCK FALSE
