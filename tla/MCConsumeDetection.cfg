SPECIFICATION FairSpec
CONSTANTS
  AttemptCount = 2
  Events = 3
INVARIANTS
  ConsumeInv
  SuccessDelivered
  MarkupWithheld
PROPERTIES
  NoLateOutput
  ProxyEnds
