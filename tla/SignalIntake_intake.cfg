SPECIFICATION Spec
CONSTANTS
  Sources = {w1}
  Deliveries = {d1}
  MaxSignals = 2
  Results = {r1}
  Calls = {c1, c2, c3}
  MaxCrashes = 1
  None = None
INVARIANTS
  TypeOK
  EventTellsSignals
  PromotedLeadsToRequest
  PromotedOnce
