\* Registers of four values: the sixth sector is the last block but two of a
\* disk of nine. Blank and installed disks, one boot and one more.
CONSTANTS
  Byte = 4
  Nibble = 2
  SectorsPerTrack = 3
  Heads = 2
  Machines <- MCMachines
  Lba = {1}
  Count = {1}
  DiskSize = 9
  OldSize = 9
  BadIdentify = {"error", "fault"}
  Build = {TRUE, FALSE}
  StartDisk = {{}, {1, 2}, {1, 2, 3, 4, 5, 6}}
  MaxBoots = 2
SPECIFICATION FairBoot
INVARIANTS BootTypeOK PreviewIsWritten
PROPERTIES KernelSpec BootEnds
