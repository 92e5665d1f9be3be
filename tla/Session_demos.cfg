\* Two payments, six kinds of intent of at most ten routes each; a transaction
\* of at most 17 transitions; three calls that add a party to the graph.
SPECIFICATION SessionSpec
CONSTANTS
  Registry <- DefaultRegistry
  Intents <- NarrowIntents
  Payments = {p1, p2}
  Keepers = {p2}
  MaxRoutes = 5
  MaxRecovery = 10
  MaxOutcomes = 2
  None = None
  MaxHistory = 17
  Parties <- SomeParties
  MaxAdded = 3
INVARIANTS
  TypeOK
  AttemptsAcceptable
  NonCompliantIsLastResort
  RefusalsJustified
  AttemptsAccounted
  FourHopsSuffice
  
PROPERTIES
  FailuresDemote
  RetriesTakeNextBest
  GivesUpOnlyWhenExhausted
\* Every payment has ended or met MaxOutcomes, or no more parties are added.
CHECK_DEADLOCK FALSE
