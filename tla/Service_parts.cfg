\* Each part of the process with two threads, connections or records.
SPECIFICATION ServiceSpec
CONSTANTS
  None = None
  Keys = {k1}
  Limit = 2
  WindowSeconds = 2
  TicksPerSecond = 2000
  Instants <- ClockReadings
  MaxStale = 1000
  Threads = {t1, t2}
  Workers = {w1, w2}
  MaxFailures = 1
  Connections = {c1, c2}
  Faults <- AllFaults
  MaxDropped = 1
  Buyers = {c1}
  MaxTries = 2
  Handlers = {h1, h2}
  Pairs = {usd_inr}
  Ttl = 3
  MaxFetch = 1
  MaxInstant = 6
  Ids = {r1, r2}
  Intents = {i1, i2}
  Providers <- Processors
  MaxSent = 3
  Deployments <- SomeDeployments
INVARIANTS
  TypeOK
  WindowBound
  RetryAfterHonoured
  FixedWindowBound
  RetryLandsLater
  LeaksCostFailures
  GaugeDriftsByDrops
  BodyLeftOnRefusal
  DuplicatesAreLostReplies
  RatesAreRecent
  
  IndexesComplete
  ViewIsCurrent
  FlaggedOnUnknown
  EventsMatchRecords
PROPERTIES
  ImplementsSlidingWindow
SYMMETRY Alike
