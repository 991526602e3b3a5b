\* Two keys, three bytes; a line buffer that one character fills; a screen small
\* enough that the repeated bytes soon leave the cursor in a corner. The controllers
\* are QEMU's.
CONSTANTS
  ModeBit = FALSE
  Key = {"d", "2"}
  BufferSize = 2
  CoordModulus = 2
  MaxX = 1
  MaxY = 1
  KeyCode <- MCKeyCode
  MaxBytes = 3
SPECIFICATION FairSpec
INVARIANTS TypeOK OnlyGates OneByteLost
PROPERTIES RoutineAsSpecified PortDrains
