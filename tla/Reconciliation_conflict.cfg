\* One payment, notifications in any order.
SPECIFICATION ReconciliationSpec
CONSTANTS
  Ids = {r1}
  Intents = {i1}
  Providers = {p1}
  MaxSent = 4
  None = None
PROPERTIES
  ConflictFlagged
