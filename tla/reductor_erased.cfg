SPECIFICATION Spec
CONSTANTS
  UnsignedMax = 7
  r1 = r1
  r2 = r2
  Reductors = {r1, r2}
  Nobody = Nobody
  MaxPushed = 2
  MaxChanges = 1
  Inputs <- TwoInputs
  Values <- NewValue
  Transducers <- Erased
INVARIANT
  NeverOops
