\* One payment, authorised and not yet captured.
SPECIFICATION ReconciliationSpec
CONSTANTS
  Ids = {r1}
  Intents = {i1}
  Providers = {p1}
  MaxSent = 4
  None = None
INVARIANTS
  UnsettledAreListed
