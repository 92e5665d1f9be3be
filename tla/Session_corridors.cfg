\* One call that adds a party to the graph.
SPECIFICATION SessionSpec
CONSTANTS
  Registry <- DefaultRegistry
  Intents <- NarrowIntents
  Payments = {p1}
  Keepers = {}
  MaxRoutes = 5
  MaxRecovery = 10
  MaxOutcomes = 2
  None = None
  MaxHistory = 5
  Parties <- SomeParties
  MaxAdded = 1
INVARIANTS
  CorridorsWorkBothWays
CHECK_DEADLOCK FALSE
