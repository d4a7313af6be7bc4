SPECIFICATION RegSpec
CONSTANTS
  both = both
  low = low
  high = high
  curated = curated
  dropped = dropped
  estimated = estimated
  claude = claude
  zai = zai
  ghost = ghost
  gift = gift
  gemma = gemma
  latest_gemma = latest_gemma
  nemo = nemo
  None = None
  Slugs <- MCSlugs
  Key <- MCKey
  Refs <- MCRefs
  Kind <- MCKind
  Provider <- MCProvider
  Twin <- MCTwin
  Same <- MCSame
  Scenes <- MCScenes
  Plain <- MCPlain
  Names = {"coding", "planning", "zai"}
  PiOwn = {"zai"}
INVARIANTS ScoresRank PricesHonest
PROPERTY PiKeeps
