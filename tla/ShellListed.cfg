\* The help menu lists ld, whose d is taken by the movement keys.
CONSTANTS
  Key = {"h", "i", "l", "d", "w", "Enter", "Backspace"}
  BufferSize = 6
  CoordModulus = 3
  MaxLine = 4
SPECIFICATION Spec

PROPERTY ListedLineRuns
