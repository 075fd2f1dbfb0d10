SPECIFICATION Spec
CONSTANTS
  UnsignedMax = 7
  PulseBound = 12
  MaxIndex = 4
  MaxCalls = 13
  Iterators = {i1, i2}
  Nobody = Nobody
  Sequences <- Cycled
INVARIANT
  OwnData
