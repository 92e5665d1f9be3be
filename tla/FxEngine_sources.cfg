\* Two handlers, sources that answer, fail or answer nonsense.
SPECIFICATION FxSpec
CONSTANTS
  Handlers = {h1, h2}
  Pairs = {usd_inr}
  Ttl = 3
  MaxFetch = 1
  MaxInstant = 6
  None = None
INVARIANTS
  EverySourceAsked
SYMMETRY ThreadSymmetry
