\* Seven frames in words of two bits; regions of one to six frames.
CONSTANTS
  MaxBlocks = 7
  BlockSize = 2
  WordBits = 2
  UintMod = 16
  MapEnd = 3
  RegionStart = 3
  MaxRequest = 1
  Spare = 1
SPECIFICATION Spec
INVARIANTS TypeOK NoOverlap NothingLeaks FreeCountExact NullMeansFull
PROPERTY PromiseSpec
