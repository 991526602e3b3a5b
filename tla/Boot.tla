-------------------------------- MODULE Boot ---------------------------------
(***************************************************************************)
(* kmain's boot (init/main.c) over the ATA driver: ata_init, the reading   *)
(* of the marker, the six writes, the four sectors read back, and then the *)
(* sector that the file previewer reads in every frame of the desktop.     *)
(* Each is a call of Ata.tla's driver with the drive at work between its   *)
(* steps, and the power may go off at any of them.                         *)
(*                                                                         *)
(* Kernel.tla takes a sector to be written in one step.  That it may is    *)
(* shown here: this module implements it (KernelSpec).  No key is pressed: *)
(* the keyboard's routine never calls the driver.                          *)
(***************************************************************************)
EXTENDS Ata

CONSTANTS Build, StartDisk, MaxBoots   \* as in Kernel.tla

(* A disk holds the sectors of the boot; none is smaller in practice.      *)
ASSUME BootAssumption ==
  /\ Build \subseteq BOOLEAN
  /\ StartDisk \subseteq SUBSET (1 .. 6)
  /\ MaxBoots \in Nat \ {0}
  /\ DiskSize > 6 /\ OldSize > 6

VARIABLES
  isInstalled,
  build,        \* the isInstalled this image is compiled with
  call,         \* which of the boot's calls is next, or under way
  calling,      \* it is under way
  boots,
  mayFail,      \* the drives of this machine may fail
  preview,      \* what the previewer shows: "none" yet, "empty", "file" or "other"
  landed        \* history: the call under way has put its sector on the drive

bootVars == << isInstalled, build, call, calling, boots, mayFail, preview, landed >>
allVars  == << vars, bootVars >>

Marker == 2
DesktopCfg == 6
DRIVE == ata_get_drive_by_model("QEMU HARDDISK")

(* The calls of kmain before its loop: the marker is read, the six sectors *)
(* are written, welcome.txt and desktop.cfg are read back.                 *)
CallsOf(sectors) == << [op |-> "read", lba |-> Marker] >>
                 \o [s \in sectors |-> [op |-> "write", lba |-> s]]
                 \o [s \in 1 .. 4 |-> [op |-> "read", lba |-> s + 2]]

(* A mutant of Calls: the last sector is left out. *)
CallsShort == CallsOf(1 .. 5)

Calls == CallsOf(1 .. 6)

InLoop == call > Len(Calls)

-----------------------------------------------------------------------------
BootInit ==
  /\ machine \in Machines
  /\ written \in StartDisk
  /\ PowerOn
  /\ build \in Build /\ isInstalled = build
  /\ call = 1 /\ calling = FALSE /\ preview = "none" /\ landed = FALSE
  /\ boots = 1
  /\ mayFail \in BOOLEAN

(* ide_read_sectors or ide_write_sectors is called; only a disk has the    *)
(* model name, so the drive is never a packet device.                      *)
CallFor(op, lba) ==
  /\ ~ calling /\ calling' = TRUE
  /\ LET r == [op |-> op, lba |-> lba, n |-> 1, drive |-> DRIVE]
     IN  Refused(r) \/ Access(r)
  /\ UNCHANGED << isInstalled, build, call, boots, mayFail, preview, landed >>

BootCall == ~ InLoop /\ CallFor(Calls[call].op, Calls[call].lba)

(* buf is zeroed before a sector is read, so it holds the marker only if   *)
(* the drive gave it.                                                      *)
HoldsMarker(buf) == buf = << << Marker, TRUE >> >>

(* What the calls return is looked at by nobody, what the first one read   *)
(* decides whether the system counts as installed.                         *)
BootReturn ==
  /\ pc = "idle" /\ calling /\ ~ InLoop
  /\ isInstalled' = (isInstalled \/ (call = 1 /\ HoldsMarker(buffer)))
  /\ call' = call + 1 /\ calling' = FALSE /\ landed' = FALSE
  /\ UNCHANGED << vars, build, boots, mayFail, preview >>

(* A frame of the desktop: NPproc reads desktop.cfg.  Its buffer is not    *)
(* zeroed but for the first four bytes, which make it an empty string.     *)
Frame == InLoop /\ isInstalled /\ CallFor("read", DesktopCfg)

FrameReturn ==
  /\ pc = "idle" /\ calling /\ InLoop
  /\ preview' = IF buffer = << >> THEN "empty"
                ELSE IF buffer = << << DesktopCfg, TRUE >> >> THEN "file" ELSE "other"
  /\ calling' = FALSE
  /\ UNCHANGED << vars, isInstalled, build, call, boots, mayFail, landed >>

(* The installer's loop. *)
Installer == InLoop /\ ~ isInstalled /\ UNCHANGED allVars

Processor ==
  \/ Driver /\ UNCHANGED bootVars
  \/ BootCall \/ BootReturn \/ Frame \/ FrameReturn \/ Installer

DriveStep ==
  \/ (DriveIdentified \/ DriveReady \/ DriveFlushes) /\ UNCHANGED bootVars
  \/ mayFail /\ DriveFails /\ UNCHANGED bootVars
  \/ /\ DriveWrites
     /\ landed' = TRUE
     /\ UNCHANGED << isInstalled, build, call, calling, boots, mayFail, preview >>

(* The machine is switched off and on: only the drive's blocks are kept,   *)
(* the one it was about to write is not among them.                        *)
PowerCycle ==
  /\ boots < MaxBoots
  /\ boots' = boots + 1
  /\ g_ide_devices' = << >>
  /\ pc' = "probe" /\ position' = 1
  /\ req' = NoRequest /\ i' = 0 /\ buffer' = << >> /\ result' = 0
  /\ status' = "idle" /\ job' = NoJob /\ sent' = FALSE
  /\ failed' = FALSE /\ flushed' = FALSE
  /\ isInstalled' = build
  /\ call' = 1 /\ calling' = FALSE /\ preview' = "none" /\ landed' = FALSE
  /\ UNCHANGED << machine, written, build, mayFail >>

BootNext == Processor \/ DriveStep \/ PowerCycle

BootSpec == BootInit /\ [][BootNext]_allVars

(* As in Ata.tla: the processor goes on, and a drive answers in the end.   *)
FairBoot == BootSpec /\ WF_allVars(Processor) /\ WF_allVars(DriveStep)

-----------------------------------------------------------------------------
(***************************************************************************)
(* The kernel this implements.  A write counts as done there when its      *)
(* sector is on the drive, or else when the call returns.  A drive that a  *)
(* packet device hides from ide_init is one that may fail.                 *)
(***************************************************************************)
Done == call - 2 + (IF landed THEN 1 ELSE 0)
Writing == call \in 2 .. 7 /\ Done < 6

KernelPc == IF pc \in {"probe", "identify"} THEN "hardware"
            ELSE IF call = 1 THEN "verify"
            ELSE IF Writing THEN "write"
            ELSE "welcome"

Hidden(p) == Slave(p) /\ machine[p - 1] = "cdrom"
Disks == {p \in 1 .. 4 : ModelOf(machine[p]) = "QEMU HARDDISK" /\ machine[p] \notin {"none", "other"}}

KernelDrive == IF Disks = {} THEN "none"
               ELSE IF mayFail \/ \A p \in Disks : Hidden(p) THEN "faulty"
               ELSE "good"

K == INSTANCE Kernel WITH
  Key <- {}, BufferSize <- 1, CoordModulus <- 1,
  Drives <- {"none", "good", "faulty"},
  irq1 <- IF KernelPc = "hardware" \/ build THEN "masked" ELSE "open",
  kbI <- FALSE, poweroff_sys <- FALSE, isInput <- TRUE, continueSetup <- FALSE,
  servicePage <- FALSE, agreePage <- FALSE, agreePage2 <- FALSE,
  pageNumber <- 0, input_buffer <- << >>, mx <- 0, my <- 0, ran <- "none",
  pc <- KernelPc, sector <- IF Writing THEN Done + 1 ELSE 1,
  stop1 <- FALSE, stop2 <- FALSE, stop3 <- FALSE, stop6 <- FALSE,
  stop7 <- FALSE, serviceAgreed <- FALSE,
  disk <- written, drive <- KernelDrive, agreed <- FALSE

(* The kernel's promise of Kernel.tla, that a sector is written and the    *)
(* marker read in one step each, is kept by the driver's many: over a      *)
(* drive that works a write has landed before the next call and a read     *)
(* tells what is there, however a boot is cut short.                       *)
KernelSpec == K!Spec

(* Every boot reaches the loop and every frame ends, with a drive that     *)
(* works, fails or is not there, unless a fault is all that a drive        *)
(* answers to IDENTIFY: no call of the driver keeps it.                    *)
BootEnds == []<>((InLoop /\ ~ calling) \/ Hung)

(* On a drive that works the previewer never shows anything but what ViaOS *)
(* writes to desktop.cfg, although the writes' results are looked at by    *)
(* nobody and earlier boots were cut short.  Every boot writes the same to *)
(* the sector, so which boot's it is cannot be seen.                       *)
PreviewIsWritten == KernelDrive = "good" => preview \in {"none", "file"}

(* Every variable has its type; no call is made before the drives are      *)
(* known, and only a write lands.                                          *)
BootTypeOK ==
  /\ TypeOK
  /\ isInstalled \in BOOLEAN /\ build \in BOOLEAN /\ mayFail \in BOOLEAN
  /\ call \in 1 .. Len(Calls) + 1 /\ boots \in 1 .. MaxBoots
  /\ calling \in BOOLEAN /\ landed \in BOOLEAN
  /\ preview \in {"none", "empty", "file", "other"}
  /\ calling => pc \notin {"probe", "identify"}
  /\ landed => calling /\ ~ InLoop /\ Calls[call].op = "write"
=============================================================================
