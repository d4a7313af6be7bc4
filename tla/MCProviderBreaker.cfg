SPECIFICATION FairSpec
CONSTANTS
  ollama = ollama
  requesty = requesty
  l1 = l1
  l2 = l2
  c1 = c1
  c2 = c2
  c3 = c3
  Providers <- MCProviders
  Models <- MCModels
  ProviderOf <- MCProviderOf
  Local <- MCLocal
  MinModels <- MCMinModels
  Window = 2
  Ladder <- MCLadder
  LadderTop = 3
  Kinds <- MCKinds
  Texts <- MCTexts
INVARIANT BreakerInv
PROPERTIES
  NeverProlonged
  CoolsDown
  ImplementsCircuitBreaker
