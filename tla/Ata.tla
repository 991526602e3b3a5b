-------------------------------- MODULE Ata ---------------------------------
(***************************************************************************)
(* The ATA driver (drivers/independent/disk/ata/IDE.c): ide_init finds the *)
(* drives, ide_read_sectors and ide_write_sectors move sectors by polled   *)
(* I/O.  The drive works on its own between the driver's looks at its      *)
(* status register, and may fail at each sector.                           *)
(*                                                                         *)
(* The driver is called by one thread and leaves a drive only when it is   *)
(* not busy, a packet device it identifies apart, so one status stands for *)
(* that of the channel in use.                                             *)
(*                                                                         *)
(* The bytes meant to switch the drives' interrupts off (lines 252 and     *)
(* 367) do not reach their control registers: line 83 sends them two ports *)
(* above those that lines 233 and 235 name.  They are left out; drives'    *)
(* interrupts are masked at the interrupt controller.                      *)
(***************************************************************************)
EXTENDS AtaAddress, SequencesExt

CONSTANTS
  Machines,   \* what may be attached: sequences of four Kinds, by position
  Lba,        \* the block addresses callers pass
  Count,      \* the sector counts callers pass
  DiskSize,   \* sectors of the drive that takes logical block addresses
  OldSize,    \* sectors of the one that takes cylinders, heads and sectors
  BadIdentify \* how a drive may fail IDENTIFY: "error", "fault"

Kind == {"none", "disk", "oldDisk", "cdrom", "other"}

ASSUME AtaAssumption ==
  /\ Machines \subseteq [1 .. 4 -> Kind]
  /\ Lba \subseteq 0 .. LbaMod - 1
  /\ Count \subseteq 1 .. Byte - 1
  /\ DiskSize \in 1 .. LbaMod - 1
  /\ OldSize \in 1 .. ChsLimit
  /\ BadIdentify \subseteq {"error", "fault"}

VARIABLES
  machine,         \* what is attached
  g_ide_devices,   \* the slots ide_init filled
  pc,              \* "probe", "identify", "idle", and the steps of an access
  position,        \* the position ide_init probes: 2 * channel + drive + 1
  req,             \* the last call: [op, drive, lba, n]
  i,               \* sectors moved
  buffer,          \* sectors read
  result,          \* what the last call returned
  status,          \* the drive: "idle", "busy", "ready" (DRQ), "error", "fault"
  job,             \* the drive's command: [op, at, left], at the block it is at
  sent,            \* the drive has the data of block job.at to write
  written,         \* the blocks written since the start
  failed,          \* history: the drive reported a failure during the call
  flushed          \* history: the drive took the call's flush command

driverVars == << g_ide_devices, pc, position, req, i, buffer, result >>
driveVars  == << status, job, sent, written, failed, flushed >>
vars == << machine, driverVars, driveVars >>

-----------------------------------------------------------------------------
ModelOf(kind) == IF kind = "cdrom" THEN "QEMU DVD-ROM" ELSE "QEMU HARDDISK"

(* What IDENTIFY tells of a drive. *)
Identified(p) ==
  [channel |-> (p - 1) \div 2,
   drive   |-> (p - 1) % 2,
   type    |-> IF machine[p] = "cdrom" THEN "IDE_ATAPI" ELSE "IDE_ATA",
   lba     |-> machine[p] = "disk",
   size    |-> CASE machine[p] = "disk"    -> DiskSize
                 [] machine[p] = "oldDisk" -> OldSize
                 [] OTHER                  -> 0,
   model   |-> ModelOf(machine[p])]

MAXIMUM_IDE_DEVICES == 5

(* -1 is no slot; the callers keep it in a uint8_t. *)
ata_get_drive_by_model(model) ==
  LET slots == {d \in DOMAIN g_ide_devices : g_ide_devices[d].model = model}
  IN  IF slots = {} THEN 255
      ELSE (CHOOSE d \in slots : \A e \in slots : d <= e) - 1

Slot(d) == g_ide_devices[d + 1]
Present(d) == d <= MAXIMUM_IDE_DEVICES /\ d + 1 \in DOMAIN g_ide_devices

Registers(r) == TaskFile(r.lba, Slot(r.drive).lba)

NoRequest == [op |-> "none", drive |-> 255, lba |-> 0, n |-> 0]
NoJob     == [op |-> "none", at |-> 0, left |-> 0]

-----------------------------------------------------------------------------
(* What the driver and the drive start from when the power comes on. *)
PowerOn ==
  /\ g_ide_devices = << >>
  /\ pc = "probe" /\ position = 1
  /\ req = NoRequest /\ i = 0 /\ buffer = << >> /\ result = 0
  /\ status = "idle" /\ job = NoJob /\ sent = FALSE
  /\ failed = FALSE /\ flushed = FALSE

Init == machine \in Machines /\ written = {} /\ PowerOn

(***************************************************************************)
(* ide_init: a round of its loops for each position.  Nobody waits for the *)
(* answer of a packet device: it may still be busy with it when the next   *)
(* drive of its channel is selected, and then hears of neither selection   *)
(* nor command, so the next answer read is the packet device's.            *)
(***************************************************************************)
Slave(p) == p % 2 = 0

NextPosition ==
  /\ position' = IF position = 4 THEN 1 ELSE position + 1
  /\ pc' = IF position = 4 THEN "idle" ELSE "probe"

(* The packet device that shares the position's channel is at its answer.  *)
Occupied == status = "busy" /\ Slave(position) /\ job.at = position - 1

(* A drive that is not there answers with status 0. *)
Identify ==
  /\ pc = "probe"
  /\ IF Occupied
     THEN pc' = "identify" /\ UNCHANGED << position, status, job >>
     ELSE IF machine[position] = "none"
     THEN NextPosition /\ UNCHANGED << status, job >>
     ELSE /\ pc' = "identify" /\ status' = "busy"
          /\ job' = [op |-> "identify", at |-> position, left |-> 0]
          /\ UNCHANGED position
  /\ UNCHANGED << machine, g_ide_devices, req, i, buffer, result, sent,
                  written, failed, flushed >>

(* Found(p): the slot is filled with the answer of the drive at p. *)
Found(p, type) ==
  g_ide_devices' = Append(g_ide_devices,
    [Identified(p) EXCEPT !.type = type, !.drive = (position - 1) % 2])

Answered ==
  /\ pc = "identify" /\ status = "ready"
  /\ Found(job.at, "IDE_ATA")
  /\ status' = "idle" /\ job' = NoJob
  /\ NextPosition
  /\ UNCHANGED << machine, req, i, buffer, result, sent, written,
                  failed, flushed >>

(* ERR: by its signature a packet device, whose answer is read at once; or *)
(* unknown, and passed over.                                               *)
NotAta ==
  /\ pc = "identify" /\ status = "error"
  /\ IF machine[job.at] = "cdrom" /\ job.op = "identify"
     THEN /\ Found(job.at, "IDE_ATAPI")
          /\ status' = "busy" /\ job' = [job EXCEPT !.op = "packet"]
     ELSE status' = "idle" /\ job' = NoJob /\ UNCHANGED g_ide_devices
  /\ NextPosition
  /\ UNCHANGED << machine, req, i, buffer, result, sent, written,
                  failed, flushed >>

(* The loop looks for ERR and for DRQ alone. *)
Hung == pc = "identify" /\ status = "fault"

LoopForever == Hung /\ UNCHANGED vars

ide_init == Identify \/ Answered \/ NotAta \/ LoopForever

(* ide_print_error's code for what polling returned, by the bits of the    *)
(* error register: the last one tested that is set decides.                *)
ErrorCode == [fault |-> {19}, error |-> {2, 7, 3, 20, 21, 22, 13}, idle |-> {23}]

(***************************************************************************)
(* ide_read_sectors and ide_write_sectors.  The sum of the range check is  *)
(* a uint32_t.  For a packet device err is never assigned: 0 may be        *)
(* returned or a code, of which 19 stands for all.                         *)
(***************************************************************************)
OutOfRange(r) == (r.lba + r.n) % LbaMod > Slot(r.drive).size

Call(r) ==
  /\ pc = "idle"
  /\ req' = r /\ i' = 0 /\ buffer' = << >>
  /\ failed' = FALSE /\ flushed' = FALSE
  /\ UNCHANGED << machine, g_ide_devices, position, status, job, sent, written >>

Refused(r) ==
  /\ Call(r)
  /\ \/ ~ Present(r.drive) /\ result' = -1
     \/ /\ Present(r.drive)
        /\ Slot(r.drive).type = "IDE_ATA" /\ OutOfRange(r)
        /\ result' = -2
  /\ UNCHANGED pc

PacketDevice(r) ==
  /\ Call(r)
  /\ Present(r.drive) /\ Slot(r.drive).type = "IDE_ATAPI"
  /\ result' \in {0, 19}
  /\ UNCHANGED pc

Access(r) ==
  /\ Call(r)
  /\ Present(r.drive) /\ Slot(r.drive).type = "IDE_ATA" /\ ~ OutOfRange(r)
  /\ pc' = "command"
  /\ UNCHANGED result

(* Waits while busy, then selects the drive, fills the task file and sends *)
(* the command.                                                            *)
SendCommand ==
  /\ pc = "command" /\ status # "busy"
  /\ job' = [op |-> req.op, left |-> req.n, at |-> Addressed(Registers(req))]
  /\ status' = "busy" /\ sent' = FALSE
  /\ pc' = IF req.op = "read" THEN "pollRead" ELSE "pollWrite"
  /\ UNCHANGED << machine, g_ide_devices, position, req, i, buffer,
                  result, written, failed, flushed >>

Return(code) == pc' = "idle" /\ result' = code

Content(block) == << block, block \in written >>

(* A mutant of ReadSector: the sector is not counted. *)
ReadSectorUncounted ==
  /\ pc = "pollRead" /\ status = "ready"
  /\ buffer' = Append(buffer, Content(job.at))
  /\ job' = [job EXCEPT !.left = @ - 1, !.at = @ + 1]
  /\ status' = IF job.left > 1 THEN "busy" ELSE "idle"
  /\ IF i + 1 = req.n THEN Return(0) ELSE UNCHANGED << pc, result >>
  /\ UNCHANGED << machine, g_ide_devices, position, req, i, sent,
                  written, failed, flushed >>

(* ide_polling(channel, 1), and the sector when there is one. *)
ReadSector ==
  /\ pc = "pollRead" /\ status = "ready"
  /\ buffer' = Append(buffer, Content(job.at))
  /\ i' = i + 1
  /\ job' = [job EXCEPT !.left = @ - 1, !.at = @ + 1]
  /\ status' = IF job.left > 1 THEN "busy" ELSE "idle"
  /\ IF i + 1 = req.n THEN Return(0) ELSE UNCHANGED << pc, result >>
  /\ UNCHANGED << machine, g_ide_devices, position, req, sent, written,
                  failed, flushed >>

(* A mutant of ReadFails: only the error bit ends the polling. *)
ReadFailsOnError ==
  /\ pc = "pollRead" /\ status \in DOMAIN ErrorCode
  /\ IF status = "error" THEN \E code \in ErrorCode[status] : Return(code)
     ELSE UNCHANGED << pc, result >>
  /\ UNCHANGED << machine, g_ide_devices, position, req, i, buffer,
                  driveVars >>

ReadFails ==
  /\ pc = "pollRead" /\ status \in DOMAIN ErrorCode
  /\ \E code \in ErrorCode[status] : Return(code)
  /\ UNCHANGED << machine, g_ide_devices, position, req, i, buffer,
                  driveVars >>

(* ide_polling(channel, 0) waits and looks no further; a drive that does   *)
(* not ask for data does not take it.                                      *)
WriteSector ==
  /\ pc = "pollWrite" /\ status # "busy"
  /\ i' = i + 1
  /\ sent' = (status = "ready")
  /\ status' = IF status = "ready" THEN "busy" ELSE status
  /\ pc' = IF i + 1 = req.n THEN "flush" ELSE "pollWrite"
  /\ UNCHANGED << machine, g_ide_devices, position, req, buffer, result,
                  job, written, failed, flushed >>

(* The flush command goes out at once, and a busy drive takes no command. *)
Flush ==
  /\ pc = "flush"
  /\ pc' = "pollFlush"
  /\ IF status = "busy" THEN UNCHANGED << status, job, sent >>
     ELSE status' = "busy" /\ job' = [NoJob EXCEPT !.op = "flush"] /\ sent' = FALSE
  /\ UNCHANGED << machine, g_ide_devices, position, req, i, buffer,
                  result, written, failed, flushed >>

(* A mutant of WriteReturns: the poll after the flush is left out. *)
WriteReturnsAtOnce ==
  /\ pc = "pollFlush"
  /\ Return(0)
  /\ UNCHANGED << machine, g_ide_devices, position, req, i, buffer,
                  driveVars >>

WriteReturns ==
  /\ pc = "pollFlush" /\ status # "busy"
  /\ Return(0)
  /\ UNCHANGED << machine, g_ide_devices, position, req, i, buffer,
                  driveVars >>

Driver ==
  \/ ide_init \/ SendCommand \/ ReadSector \/ ReadFails
  \/ WriteSector \/ Flush \/ WriteReturns

(* The calls: the kernel's own drive, by its model, or any other. *)
CallDriver ==
  \E op \in {"read", "write"}, lba \in Lba, n \in Count,
     drive \in 0 .. 3 \cup {ata_get_drive_by_model("QEMU HARDDISK")} :
    LET r == [op |-> op, drive |-> drive, lba |-> lba, n |-> n]
    IN  Refused(r) \/ PacketDevice(r) \/ Access(r)

-----------------------------------------------------------------------------
(* The drive: works on its command until it has something to say.          *)
CanAddress ==
  /\ job.at < Slot(req.drive).size
  /\ Registers(req).mode # "LBA48" => job.at < Lba28Limit

(* Asks for, or offers, the sector it is at. *)
DriveIdentified ==
  /\ status = "busy" /\ job.op \in {"identify", "packet"}
  /\ status' = IF job.op = "packet" \/ machine[job.at] \in {"disk", "oldDisk"}
               THEN "ready" ELSE "error"
  /\ UNCHANGED << machine, driverVars, job, sent, written, failed, flushed >>

DriveReady ==
  /\ status = "busy" /\ job.op \in {"read", "write"} /\ ~ sent /\ CanAddress
  /\ status' = "ready"
  /\ UNCHANGED << machine, driverVars, job, sent, written, failed, flushed >>

DriveWrites ==
  /\ status = "busy" /\ sent
  /\ written' = written \cup {job.at}
  /\ sent' = FALSE
  /\ job' = [job EXCEPT !.left = @ - 1, !.at = @ + 1]
  /\ status' = IF job.left > 1 THEN "busy" ELSE "idle"
  /\ UNCHANGED << machine, driverVars, failed, flushed >>

DriveFlushes ==
  /\ status = "busy" /\ job.op = "flush"
  /\ flushed' = TRUE /\ status' = "idle"
  /\ UNCHANGED << machine, driverVars, job, sent, written, failed >>

DriveFails ==
  /\ status = "busy"
  /\ status' \in IF pc \in {"probe", "identify"} THEN BadIdentify ELSE {"error", "fault"}
  /\ failed' = TRUE /\ sent' = FALSE
  /\ UNCHANGED << machine, driverVars, job, written, flushed >>

Drive == DriveIdentified \/ DriveReady \/ DriveWrites \/ DriveFlushes \/ DriveFails

Next == Driver \/ CallDriver \/ Drive

Spec == Init /\ [][Next]_vars

(* The processor runs the driver on, and a drive answers in the end.       *)
FairSpec == Spec /\ WF_vars(Driver) /\ WF_vars(Drive)

-----------------------------------------------------------------------------
(***************************************************************************)
(* What holds.                                                             *)
(***************************************************************************)

(* Every variable has its type. *)
TypeOK ==
  /\ machine \in Machines
  /\ Len(g_ide_devices) <= 4
  /\ pc \in {"probe", "identify", "idle", "command", "pollRead", "pollWrite", "flush", "pollFlush"}
  /\ position \in 1 .. 4
  /\ i \in 0 .. Byte - 1 /\ Len(buffer) <= i
  /\ result \in {-1, -2, 0} \cup UNION {ErrorCode[s] : s \in DOMAIN ErrorCode}
  /\ status \in {"idle", "busy", "ready", "error", "fault"}
  /\ job.op \in {"none", "identify", "packet", "read", "write", "flush"}
  /\ job.left \in 0 .. Byte - 1
  /\ {sent, failed, flushed} \subseteq BOOLEAN

Returned(op) == pc = "idle" /\ req.op = op /\ result = 0
Wanted == req.lba .. req.lba + req.n - 1

(* A read that returns 0 has filled the buffer with the blocks asked for,  *)
(* in order and as last written, in every addressing mode and whichever    *)
(* calls failed before it (ide_ata_access, ide_polling).                   *)
ReadReturnsData ==
  Returned("read") /\ Slot(req.drive).type = "IDE_ATA"
    => buffer = [k \in 1 .. req.n |-> Content(req.lba + k - 1)]

(* A write to a drive that does not fail is done when it returns, although *)
(* the last sector is never polled for: the poll after the flush waits.    *)
WriteIsDone ==
  Returned("write") /\ Slot(req.drive).type = "IDE_ATA" /\ ~ failed
    => Wanted \subseteq written

(* No call ever writes a block its caller did not ask to write. *)
OnlyWantedWritten ==
  [][\A b \in written' : b \in written \/ (req.op = "write" /\ b \in Wanted)]_vars

(* Whatever the drive reports, every call returns (the loops of ide_init,  *)
(* ide_ata_access and ide_polling), unless a drive answers IDENTIFY with a *)
(* fault and nothing else.                                                 *)
CallsReturn == pc # "idle" ~> pc = "idle" \/ Hung

-----------------------------------------------------------------------------
(***************************************************************************)
(* What the comments say and the code does not do.                         *)
(***************************************************************************)

(* "print if any error in writing": a write the drive failed does not      *)
(* return 0.  While it writes, the driver does not look at what polling    *)
(* answers.                                                                *)
WriteReportsFailure == failed => ~ Returned("write")
=============================================================================
