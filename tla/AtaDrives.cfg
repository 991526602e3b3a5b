\* Both kinds of drive and a CD-ROM. Block 17 lies on the third cylinder, 127
\* is the last of 28-bit mode, 130 is addressed in 48-bit mode, 255 wraps the
\* range check.
CONSTANTS
  Byte = 4
  Nibble = 2
  SectorsPerTrack = 3
  Heads = 2
  Machines <- MCMachines
  Lba = {17, 127, 130, 255}
  Count = {1, 2}
  DiskSize = 200
  OldSize = 90
  BadIdentify = {"fault"}
SPECIFICATION FairSpec
INVARIANTS TypeOK ReadReturnsData WriteIsDone
PROPERTIES OnlyWantedWritten CallsReturn
