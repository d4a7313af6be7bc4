SPECIFICATION ProbedSpec
CONSTANTS
  c1 = c1
  c2 = c2
  yes = yes
  ask = ask
  none = none
  None = none
  Calls = {c1, c2}
  Prompts <- MCPrompts
  Short = {yes}
  Marked = {ask}
  Words <- MCWords
  Categories = {"code_complex"}
  Configs <- MCConfigs
  Cloud <- MCCloud
  Local <- MCLocal
  MaxPrice = 2
  MaxGdpval = 9
  MaxCandidates = 2
  CacheSize = 1
  MaxLocal = 2
  MaxWorking = 2
  MaxLocalWorking = 2
INVARIANTS OwnContext
PROPERTIES CacheRouted EveryoneReturns ProbesServe
CHECK_DEADLOCK FALSE
