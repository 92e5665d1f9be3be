\* A payer in India who has nothing but crypto.
SPECIFICATION Spec
CONSTANTS
  Registry <- DefaultRegistry
  Intents <- CryptoToUpi
  Payments = {p1}
  Keepers = {}
  MaxRoutes = 5
  MaxRecovery = 10
  MaxOutcomes = 2
  None = None
INVARIANTS
  RoutesComply
CHECK_DEADLOCK FALSE
