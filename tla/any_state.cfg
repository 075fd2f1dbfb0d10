SPECIFICATION Spec
CONSTANTS
  int = int
  pair = pair
  string = string
  Objects = {o1, o2, o3}
  Values = {int, pair, string}
  Buffers = {b1, b2, b3}
  Nothing = Nothing
  Moved = Moved
  Unborn = Unborn
  Static = Static
  SizeOf <- Sizes
  HolderSize <- HolderSizes
  CopiesEmpty = FALSE
INVARIANTS
  TypeOK
  OneOwner
PROPERTY
  Implements
SYMMETRY Symmetry
