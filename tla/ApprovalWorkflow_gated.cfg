SPECIFICATION Spec
CONSTANTS
  Handlers = {h1, h2}
  OrderIds = {o1, o2}
  ApprovalIds = {a1, a2}
  None = None
  Offered = {"approve", "reject", "place_gated"}
  Overlap = TRUE
SYMMETRY Symmetry
PROPERTIES
  ApprovingSubmits
