SPECIFICATION FairSpec
CONSTANTS
  UnsignedMax = 7
  PulseBound = 6
  StreamLength = 3
  Reductions <- Outside
INVARIANTS
  OutputMeetsStreams
  EffectsMeetStreams
  ReadsNoFurther
PROPERTY
  Returns
