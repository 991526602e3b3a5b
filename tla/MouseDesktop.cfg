\* A small screen and the packets of MCMouse.
\* The keyboard's byte is the release of Enter, as after the boot menu.
CONSTANTS
  MaxX = 12
  MaxY = 8
  Report <- MCReport
  Scancode = {156}
  StartConfig = 101
  MaxReports = 2
  MaxKeys = 1
SPECIFICATION FairSpec
INVARIANTS TypeOK ConfigurationKept
PROPERTIES PacketsWhole CursorRests
