SPECIFICATION FairSpec
CONSTANTS
  free = free
  paid = paid
  Refs <- MCRefs
  ProviderOf <- MCProviderOf
  Free = {free}
  Listed = {free, paid}
  Hard <- MCHard
  Soft <- MCSoft
  MaxReset = 3
  Day = 3
  HealthDecay = 1
  UnhealthyAt = 2
  CostMuxAtHit = 2
  MaxHits = 3
  MaxMux = 2
INVARIANT RateLimitInv
PROPERTIES
  NoEarlyRearm
  SecondChance
