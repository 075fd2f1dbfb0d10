SPECIFICATION Spec
CONSTANTS
  UnsignedMax = 7
  PulseBound = 6
  Reductions <- SteppedRanges
INVARIANT
  RangeCovers
