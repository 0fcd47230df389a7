SPECIFICATION FairSpec
CONSTANTS
  Accounts = {a1, a2}
  Clients = {c1}
  FAILURES_BEFORE_DISABLE = 3
  MaxLost = 1
  NotYet = NotYet
  Deleted = Deleted
INVARIANTS
  TypeOK
  NoAccountStranded
PROPERTIES
  DisabledAfterFailures
  Recovers
