------------------------------- MODULE Kernel -------------------------------
(***************************************************************************)
(* kmain (init/main.c): the boot, the installer and the desktop loop, with *)
(* the keyboard's interrupt service routine (Keyboard.tla) between any two *)
(* of its steps, and the power going off at any of them.                   *)
(*                                                                         *)
(* A step of the main thread touches at most one of the variables it       *)
(* shares with the routine.  What is only drawn is left out, and so are    *)
(* the mouse and the six sectors' contents: a sector either holds what     *)
(* ViaOS writes to it or it does not.                                      *)
(***************************************************************************)
EXTENDS Keyboard

CONSTANTS
  Build,        \* the initial values isInstalled is compiled with: as
                \* committed {TRUE}, {FALSE} makes the installer's image
  StartDisk,    \* what may be on the disk before the first boot
  Drives,       \* the drives the machine may have: "none", "good", "faulty"
  MaxBoots      \* bound: how many times the machine is switched on

Sector == 1 .. 6   \* LBA of metadata and data of boot.sys, welcome.txt, desktop.cfg
Metadata == 1      \* boot.sys, metadata
Marker   == 2      \* boot.sys, "INSTALLED\n/\n"

ASSUME KernelAssumption ==
  /\ Build \subseteq BOOLEAN
  /\ StartDisk \subseteq SUBSET Sector
  /\ Drives \subseteq {"none", "good", "faulty"}
  /\ MaxBoots \in Nat

VARIABLES
  pc,             \* what the main thread does next
  sector,         \* the next sector the boot writes
  stop1, stop2, stop3, stop6, stop7, serviceAgreed,
  disk,           \* the sectors that hold what ViaOS writes to them
  drive,          \* the drive with the model ViaOS looks for; a faulty one may
                  \* fail any read or write
  build,          \* the isInstalled this image is compiled with
  boots,
  agreed          \* history: a key was taken while the last page was shown

mainVars == << pc, sector, stop1, stop2, stop3, stop6, stop7, serviceAgreed >>
outside  == << drive, build >>
vars == << keyboardVars, mainVars, disk, outside, boots, agreed >>

(* The variables only the main thread assigns and the routine reads. *)
shared == << isInstalled, servicePage, agreePage, agreePage2 >>
(* The variables only the routine assigns. *)
input == << irq1, kbI, poweroff_sys, isInput, continueSetup, pageNumber,
            input_buffer, mx, my, ran >>

BootPc == {"hardware", "verify", "write"}
LoopPc == {"welcome", "page1", "page1Shown", "page4", "page4Shown", "page5",
           "page5Shown", "install", "installMetadata", "installMarker",
           "installed", "desktop"}

-----------------------------------------------------------------------------
(* What a boot starts from: the image's initialised data. *)
InitRAM ==
  /\ InitKeyboard
  /\ isInstalled = build
  /\ pc = "hardware" /\ sector = 1
  /\ stop1 = FALSE /\ stop2 = FALSE /\ stop3 = FALSE
  /\ stop6 = FALSE /\ stop7 = FALSE /\ serviceAgreed = FALSE
  /\ agreed = FALSE

Init ==
  /\ build \in Build
  /\ drive \in Drives
  /\ disk \in StartDisk
  /\ boots = 1
  /\ InitRAM

(* The main thread goes from one step to the next. *)
Go(from, to) == pc = from /\ pc' = to

(* A mutant of Hardware: every image opens IRQ 1. *)
HardwareOpen ==
  /\ Go("hardware", "verify")
  /\ irq1' = "open"
  /\ UNCHANGED << kbI, poweroff_sys, isInput, continueSetup, pageNumber,
                  input_buffer, mx, my, ran, shared, sector, stop1, stop2,
                  stop3, stop6, stop7, serviceAgreed, disk, outside, boots,
                  agreed >>

(* init_idt masks every line; kb_init opens IRQ 1; then the kernel sti's. *)
Hardware ==
  /\ Go("hardware", "verify")
  /\ irq1' = IF isInstalled THEN "masked" ELSE "open"
  /\ UNCHANGED << kbI, poweroff_sys, isInput, continueSetup, pageNumber,
                  input_buffer, mx, my, ran, shared, sector, stop1, stop2,
                  stop3, stop6, stop7, serviceAgreed, disk, outside, boots,
                  agreed >>

(* Reads the marker.  A drive that is absent or fails leaves the buffer    *)
(* zeroed, and the disk counts as one without the marker.                  *)
Verify ==
  /\ Go("verify", "write")
  /\ \/ isInstalled' = IF drive # "none" /\ Marker \in disk THEN TRUE ELSE isInstalled
     \/ drive = "faulty" /\ isInstalled' = isInstalled
  /\ UNCHANGED << input, servicePage, agreePage, agreePage2, sector, stop1,
                  stop2, stop3, stop6, stop7, serviceAgreed, disk, outside,
                  boots, agreed >>

(* ide_write_sectors: its result is not looked at. *)
PutSector(s) ==
  \/ disk' = IF drive = "none" THEN disk ELSE disk \cup {s}
  \/ drive = "faulty" /\ disk' \in {disk, disk \ {s}}

(* Mutants of WriteSector: sector is not reset, the last sector is left    *)
(* out, the sectors are written from the last to the first.                *)
WriteSectorNoReset ==
  /\ Go("write", IF sector = 6 THEN "welcome" ELSE "write")
  /\ sector' = sector + 1
  /\ PutSector(sector)
  /\ UNCHANGED << input, shared, stop1, stop2, stop3, stop6, stop7,
                  serviceAgreed, outside, boots, agreed >>

WriteSectorShort ==
  /\ Go("write", IF sector = 5 THEN "welcome" ELSE "write")
  /\ sector' = IF sector = 5 THEN 1 ELSE sector + 1
  /\ PutSector(sector)
  /\ UNCHANGED << input, shared, stop1, stop2, stop3, stop6, stop7,
                  serviceAgreed, outside, boots, agreed >>

WriteSectorReversed ==
  /\ Go("write", IF sector = 6 THEN "welcome" ELSE "write")
  /\ sector' = IF sector = 6 THEN 1 ELSE sector + 1
  /\ PutSector(7 - sector)
  /\ UNCHANGED << input, shared, stop1, stop2, stop3, stop6, stop7,
                  serviceAgreed, outside, boots, agreed >>

(* Every boot writes the six sectors in order, installed or not. *)
WriteSector ==
  /\ Go("write", IF sector = 6 THEN "welcome" ELSE "write")
  /\ sector' = IF sector = 6 THEN 1 ELSE sector + 1
  /\ PutSector(sector)
  /\ UNCHANGED << input, shared, stop1, stop2, stop3, stop6, stop7,
                  serviceAgreed, outside, boots, agreed >>

-----------------------------------------------------------------------------
(* The loop: every block tests its condition and then does its body.  A    *)
(* body's flags are set after the page is drawn.                           *)
Welcome ==
  /\ Go("welcome", "page1")
  /\ stop1' = (stop1 \/ ~ isInstalled)
  /\ UNCHANGED << input, shared, sector, stop2, stop3, stop6, stop7,
                  serviceAgreed, disk, outside, boots, agreed >>

Test(from, condition, body, next) ==
  /\ Go(from, IF condition THEN body ELSE next)
  /\ UNCHANGED << input, shared, sector, stop1, stop2, stop3, stop6, stop7,
                  serviceAgreed, disk, outside, boots, agreed >>

(* Mutants: the first page waits for the power as well; the third page     *)
(* does not wait for its number.                                           *)
Page1TestPowered ==
  Test("page1", pageNumber = 1 /\ ~ stop2 /\ ~ poweroff_sys, "page1Shown", "page4")
Page4TestEarly == Test("page4", ~ stop6, "page4Shown", "page5")

Page1Test   == Test("page1", pageNumber = 1 /\ ~ stop2, "page1Shown", "page4")
Page4Test   == Test("page4", pageNumber = 4 /\ ~ stop6, "page4Shown", "page5")
Page5Test   == Test("page5", pageNumber = 5 /\ ~ stop7, "page5Shown", "install")
InstallTest == Test("install", serviceAgreed /\ pageNumber = 2 /\ ~ stop3,
                    "installMetadata", "desktop")

Page1Shown ==
  /\ Go("page1Shown", "page4")
  /\ servicePage' = TRUE /\ stop2' = TRUE
  /\ UNCHANGED << input, isInstalled, agreePage, agreePage2, sector, stop1,
                  stop3, stop6, stop7, serviceAgreed, disk, outside, boots,
                  agreed >>

Page4Shown ==
  /\ Go("page4Shown", "page5")
  /\ agreePage' = TRUE /\ stop6' = TRUE
  /\ UNCHANGED << input, isInstalled, servicePage, agreePage2, sector, stop1,
                  stop2, stop3, stop7, serviceAgreed, disk, outside, boots,
                  agreed >>

Page5Shown ==
  /\ Go("page5Shown", "install")
  /\ agreePage2' = TRUE /\ serviceAgreed' = TRUE /\ stop7' = TRUE
  /\ UNCHANGED << input, isInstalled, servicePage, agreePage, sector, stop1,
                  stop2, stop3, stop6, disk, outside, boots, agreed >>

InstallSector(from, s, to) ==
  /\ Go(from, to)
  /\ PutSector(s)
  /\ UNCHANGED << input, shared, sector, stop1, stop2, stop3, stop6, stop7,
                  serviceAgreed, outside, boots, agreed >>

InstallMetadata == InstallSector("installMetadata", Metadata, "installMarker")
InstallMarker   == InstallSector("installMarker", Marker, "installed")

(* "We have successfully installed your system, Please reboot." *)
Installed ==
  /\ Go("installed", "desktop")
  /\ stop3' = TRUE
  /\ UNCHANGED << input, shared, sector, stop1, stop2, stop6, stop7,
                  serviceAgreed, disk, outside, boots, agreed >>

(* Draws one frame on an installed system and starts the loop over. *)
Desktop == Test("desktop", isInstalled, "welcome", "welcome")

Main ==
  \/ Hardware \/ Verify \/ WriteSector
  \/ Welcome \/ Page1Test \/ Page1Shown \/ Page4Test \/ Page4Shown
  \/ Page5Test \/ Page5Shown
  \/ InstallTest \/ InstallMetadata \/ InstallMarker \/ Installed
  \/ Desktop

-----------------------------------------------------------------------------
(* The routine interrupts the main thread between any two of its steps.    *)
Key1(k) ==
  /\ Press(k)
  /\ agreed' = (agreed \/ (agreePage2 /\ ~ isInstalled /\ ~ BufferFull))
  /\ UNCHANGED << mainVars, disk, outside, boots >>

NoCharacter ==
  /\ NoKey \/ AfterPoweroff
  /\ UNCHANGED << mainVars, disk, outside, boots, agreed >>

(* The machine is switched off and on: only the disk keeps anything. *)
PowerCycle ==
  /\ boots < MaxBoots
  /\ boots' = boots + 1
  /\ ResetKeyboard
  /\ isInstalled' = build
  /\ pc' = "hardware" /\ sector' = 1
  /\ stop1' = FALSE /\ stop2' = FALSE /\ stop3' = FALSE
  /\ stop6' = FALSE /\ stop7' = FALSE /\ serviceAgreed' = FALSE
  /\ agreed' = FALSE
  /\ UNCHANGED << disk, outside >>

Next == Main \/ (\E k \in Key : Key1(k)) \/ NoCharacter \/ PowerCycle

Spec == Init /\ [][Next]_vars

(* The processor returns from every interrupt to the main thread. *)
FairSpec == Spec /\ WF_vars(Main)

-----------------------------------------------------------------------------
(***************************************************************************)
(* What holds.                                                             *)
(***************************************************************************)

(* Every variable has its type. *)
TypeOK ==
  /\ KeyboardTypeOK
  /\ pc \in BootPc \cup LoopPc /\ sector \in Sector
  /\ stop1 \in BOOLEAN /\ stop2 \in BOOLEAN /\ stop3 \in BOOLEAN
  /\ stop6 \in BOOLEAN /\ stop7 \in BOOLEAN /\ serviceAgreed \in BOOLEAN
  /\ disk \subseteq Sector /\ drive \in Drives
  /\ build \in BOOLEAN /\ boots \in Nat
  /\ agreed \in BOOLEAN

InstallPc == {"installMetadata", "installMarker", "installed"}

(* The three pages of the terms are shown in order and the installation    *)
(* follows a key taken on the last one, in whatever order keys arrive      *)
(* between the tests of pageNumber in kmain's loop and however often the   *)
(* machine is switched off.                                                *)
InstallNeedsConsent ==
  /\ stop3 \/ pc \in InstallPc => agreed
  /\ agreed => stop7
  /\ stop7 => stop6
  /\ stop6 => stop2

(* However a boot was cut short, the next one that reaches the loop has    *)
(* put the whole image on a drive that works (the six writes of kmain).    *)
ImageBeforeLoop ==
  drive = "good" /\ pc \in LoopPc => disk = Sector

(* Who leaves setup from the welcome page is shown the first page of the   *)
(* terms at most, and nothing is installed: the keys that follow are not   *)
(* taken, and the page asked for before leads no further.                  *)
QuitStopsSetup == ~ isInput => ~ stop6 /\ pc \notin InstallPc

(* The marker is never on the disk without boot.sys's metadata: both times *)
(* kmain writes the metadata first.                                        *)
MarkerAfterMetadata == drive # "faulty" /\ Marker \in disk => Metadata \in disk

(* The image as committed never opens IRQ 1 (kb_init is for the installer  *)
(* alone): no key is ever taken, so none of the installer's pages shows.   *)
CommittedImageIsDeaf ==
  build => irq1 = "masked" /\ ~ kbI /\ ~ stop1 /\ ~ stop2 /\ ~ agreed

(* A request for the first page is never lost to another key: the page     *)
(* comes, unless the power goes first.                                     *)
FirstPageComes == pageNumber = 1 ~> stop2 \/ pageNumber = 0

(* A machine with a working drive ends with the whole image on the disk,   *)
(* whatever keys are pressed.                                              *)
ImageIsWritten == drive = "good" => <>[](disk = Sector)

-----------------------------------------------------------------------------
(***************************************************************************)
(* What the repository says and the code does not do.                      *)
(***************************************************************************)

(* "We have successfully installed your system": nobody looked whether the *)
(* two sectors were written.                                               *)
SuccessMeansInstalled == stop3 => {Metadata, Marker} \subseteq disk
=============================================================================
