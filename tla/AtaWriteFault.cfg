\* One drive.
CONSTANTS
  Byte = 4
  Nibble = 2
  SectorsPerTrack = 3
  Heads = 2
  Machines <- OneDisk
  Lba = {17}
  Count = {1}
  DiskSize = 200
  OldSize = 90
  BadIdentify = {"fault"}
SPECIFICATION Spec
INVARIANT WriteReportsFailure
