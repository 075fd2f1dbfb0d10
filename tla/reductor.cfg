SPECIFICATION Spec
CONSTANTS
  UnsignedMax = 7
  r1 = r1
  r2 = r2
  Reductors = {r1, r2}
  Nobody = Nobody
  MaxPushed = 3
  MaxChanges = 1
  Inputs <- TwoInputs
  Values <- NewValue
  Transducers <- Held
SYMMETRY Names
INVARIANTS
  TypeOK
  StatesSound
  NoFeedAfterReduced
  CurrentMeetsStreams
  CompleteMeetsStreams
  EndsWithStages
  CurrentMeetsStages
  CompleteMeetsStages
