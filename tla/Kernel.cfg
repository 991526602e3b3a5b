\* Both images; no drive, a working one and one that fails; blank and installed
\* disks, one with a desktop.cfg of the user's own; a first boot and one more
\* after the power went off. Four keys reach every page; x means nothing but on
\* the last one. Three characters fill the buffer after the installation.
CONSTANTS
  Key = {"1", "2", "l", "x"}
  BufferSize = 4
  CoordModulus = 2
  Build = {TRUE, FALSE}
  StartDisk = {{}, {1, 2, 3, 4, 5}, {1, 2, 3, 4, 5, 6}}
  Drives = {"none", "good", "faulty"}
  MaxBoots = 2
SPECIFICATION FairSpec
INVARIANTS TypeOK InstallNeedsConsent QuitStopsSetup ImageBeforeLoop MarkerAfterMetadata CommittedImageIsDeaf
PROPERTIES FirstPageComes ImageIsWritten
