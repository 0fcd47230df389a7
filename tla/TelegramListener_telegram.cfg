SPECIFICATION FairSpec
CONSTANTS
  Approvals = {a1}
  MaxUpdates = 3
  MaxFaults = 2
  None = None
INVARIANTS
  TypeOK
  ForgottenIsHandled
  CalledOnce
PROPERTIES
  Handled
