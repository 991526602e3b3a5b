\* The installer, with and without a drive.
CONSTANTS
  Key = {"1", "2", "l"}
  BufferSize = 4
  CoordModulus = 2
  Build = {FALSE}
  StartDisk = {{}}
  Drives = {"none", "good", "faulty"}
  MaxBoots = 1
SPECIFICATION Spec
INVARIANT SuccessMeansInstalled
