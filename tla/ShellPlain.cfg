\* Commands hi (plain) and ld (with a movement's letter) can be typed, before
\* and after the verification.  The buffer holds four characters, so it fills
\* after two commands; a kept line is as long as the longest spelling that can
\* be typed, so a line counts by its end.
CONSTANTS
  Key = {"h", "i", "l", "d", "s", "Enter"}
  BufferSize = 5
  CoordModulus = 1
  MaxLine = 3
SPECIFICATION Spec
INVARIANT ShellTypeOK
PROPERTIES PlainLineRuns MoveCommandsAreEarly BufferWearsOut
