SPECIFICATION Spec
CONSTANTS
  Handlers = {h1, h2}
  OrderIds = {o1, o2}
  ApprovalIds = {a1, a2}
  None = None
  Offered = {"approve", "reject", "scan"}
  Overlap = TRUE
SYMMETRY Symmetry
INVARIANTS
  RejectedNeverPlaced
