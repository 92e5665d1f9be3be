\* Webhooks the providers signed, with every secret set.
SPECIFICATION NSpec
CONSTANTS
  Ids = {r1}
  Intents = {i1}
  Providers <- Processors
  MaxSent = 3
  None = None
  Deployments <- SomeDeployments
INVARIANTS
  SignedAreVerified
