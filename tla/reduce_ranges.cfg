SPECIFICATION Spec
CONSTANTS
  UnsignedMax = 7
  PulseBound = 6
  Reductions <- PairsAndTriples
INVARIANTS
  TypeOK
  WrapPrefix
  StagesMeetStreams
  OutputMeetsStages
  NoFeedAfterReduced
  StagesReached
PROPERTY
  StaysReduced
