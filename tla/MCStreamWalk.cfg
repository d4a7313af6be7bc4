SPECIFICATION FairSpec
CONSTANTS
  w0 = w0
  w1 = w1
  w2 = w2
  local = local
  cloud = cloud
  free = free
  near = near
  far = far
  Walks = {w0, w1, w2}
  Refs = {local, cloud, free, near, far}
  ProviderOf <- MCProviderOf
  Ollama = {local, near}
  Free = {free}
  Groups <- MCGroups
  CandidatesOf <- MCCandidatesOf
  FallbackOrder <- MCFallbackOrder
  StartGroup <- MCStartGroup
  Unregistered = {}
  LocalLimit = 1
  KnownSmall = {local, cloud, free}
  WaitEnabled = TRUE
  OverflowTexts <- MCOverflowTexts
  Casts <- MCCasts
INVARIANTS
  WalkInv
  ProxyTerminated
  NoGroupTwice
PROPERTY WalksReturn
