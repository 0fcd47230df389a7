SPECIFICATION FairSpec
CONSTANTS
  Handlers = {h1, h2, h3}
  OrderIds = {o1, o2}
  ApprovalIds = {a1}
  None = None
  Offered = {"approve", "reject", "place_gated", "scan", "cancel_all"}
  Overlap = FALSE
PROPERTIES
  KeepsThePromise
  CancelAllEnds
