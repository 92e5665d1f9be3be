\* A Visa payer and a receiver who takes UPI.
SPECIFICATION Spec
CONSTANTS
  Registry <- DefaultRegistry
  Intents <- VisaToUpi
  Payments = {p1}
  Keepers = {}
  MaxRoutes = 5
  MaxRecovery = 10
  MaxOutcomes = 2
  None = None
INVARIANTS
  BridgesAcceptBoth
CHECK_DEADLOCK FALSE
