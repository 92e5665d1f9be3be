\* Two handlers registering, resolving, creating, confirming and polling.
SPECIFICATION FairSpec
CONSTANTS
  bob = bob
  shop = shop
  None = None
  Threads = {t1, t2}
  Receivers <- MCReceivers
  Names <- MCReceivers
  Handles <- MCHandles
  DefaultReceivers <- MCDefaults
  Routes <- MCRoutes
  Choices <- MCChoices
  Offers <- MCOffers
  ListOffer <- MCListOffer
  IntentIds = {i1}
  MaxVersion = 2
  MaxIntentRoutes = 2
  MaxListRoutes = 3
INVARIANTS
  TypeOK
  HandlesResolve
  RoutesHonourReceiver
  IntentsUseFreshPreferences
  AtRest
PROPERTIES
  SerialConfirmsAdvance
  SerialConfirmsReport
  ConfirmedSettlesForGood
