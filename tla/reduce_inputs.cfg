SPECIFICATION FairSpec
CONSTANTS
  UnsignedMax = 7
  PulseBound = 6
  Reductions <- Various
INVARIANTS
  OutputMeetsStreams
  StagesMeetStreams
  ThrowsWhenReached
  ThrowsOnArrival
PROPERTY
  Returns
