\* Requests of up to two frames.
CONSTANTS
  MaxBlocks = 5
  BlockSize = 2
  WordBits = 4
  UintMod = 32
  MapEnd = 3
  RegionStart = 3
  MaxRequest = 2
  Spare = 1
SPECIFICATION Spec
INVARIANT NoOverlap
