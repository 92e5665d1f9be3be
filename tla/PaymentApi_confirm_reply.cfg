\* Two overlapping confirms: what does the later one answer?
SPECIFICATION Spec
CONSTANTS
  bob = bob
  shop = shop
  None = None
  Threads = {t1, t2}
  Receivers <- MCDefaults
  Names <- MCDefaults
  Handles = {}
  DefaultReceivers <- MCDefaults
  Routes <- MCRoutes
  Choices <- OneChoice
  Offers <- MCOffers
  ListOffer <- MCListOffer
  IntentIds = {i1}
  MaxVersion = 0
  MaxIntentRoutes = 2
  MaxListRoutes = 3
INVARIANTS
  ConfirmReportsSettled
