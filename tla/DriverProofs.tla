---------------------------- MODULE DriverProofs ----------------------------
(***************************************************************************)
(* Proofs about the ATA driver (Ata.tla), for every machine, every block   *)
(* address and every width of the registers: the drive is sent to the      *)
(* blocks asked for, a read returns them, a write is done when it returns  *)
(* and no other block is ever written; and, below, about the boot over it  *)
(* (Boot.tla), for any number of boots: on a drive that works the          *)
(* previewer shows what was written, and the boot implements Kernel.tla.   *)
(***************************************************************************)
EXTENDS Boot, SequenceTheorems, TLAPS

-----------------------------------------------------------------------------
(***************************************************************************)
(* Division.                                                               *)
(***************************************************************************)
LEMMA Division ==
  ASSUME NEW d \in Nat \ {0}, NEW n \in Nat
  PROVE  /\ n \div d \in Nat /\ n % d \in 0 .. d - 1
         /\ n = d * (n \div d) + (n % d)
BY SMT

LEMMA QuotientUnique ==
  ASSUME NEW d \in Nat \ {0}, NEW q \in Nat, NEW r \in Nat, r < d
  PROVE  (d * q + r) \div d = q /\ (d * q + r) % d = r
BY SMT

LEMMA SmallRest ==
  ASSUME NEW d \in Nat \ {0}, NEW n \in Nat, n < d
  PROVE  n % d = n
BY SMT

LEMMA QuotientBelow ==
  ASSUME NEW d \in Nat \ {0}, NEW e \in Nat, NEW n \in Nat, n < d * e
  PROVE  n \div d < e
<1>1. n \div d \in Nat /\ d * (n \div d) <= n
  BY Division
<1>2. ASSUME NEW q \in Nat, q >= e PROVE d * q >= d * e
  BY <1>2, SMT
<1> QED BY <1>1, <1>2

(* Dividing by d * e is dividing by d and then by e. *)
LEMMA Quotients ==
  ASSUME NEW d \in Nat \ {0}, NEW e \in Nat \ {0}, NEW n \in Nat
  PROVE  /\ n \div (d * e) = (n \div d) \div e
         /\ n % (d * e) = d * ((n \div d) % e) + (n % d)
BY SMT

-----------------------------------------------------------------------------
(***************************************************************************)
(* The drive is sent to the block asked for.                               *)
(***************************************************************************)
LEMMA Powers ==
  /\ Byte \in Nat \ {0, 1} /\ Byte2 \in Nat \ {0} /\ Byte3 \in Nat \ {0}
  /\ Byte2 = Byte * Byte /\ Byte3 = Byte2 * Byte
  /\ LbaMod = Byte3 * Byte /\ Lba28Limit = Byte3 * Nibble
  /\ Nibble \in Nat \ {0} /\ Nibble < Byte
  /\ LbaMod \in Nat /\ Lba28Limit \in Nat
BY AtaAddressAssumption DEF Byte2, Byte3, LbaMod, Lba28Limit

(* The bytes of a number make the number. *)
LEMMA Bytes ==
  ASSUME NEW n \in Nat
  PROVE  /\ n = Low(n) + Byte * Second(n) + Byte2 * Third(n) + Byte3 * (n \div Byte3)
         /\ Low(n) \in Nat /\ Second(n) \in Nat /\ Third(n) \in Nat /\ n \div Byte3 \in Nat
<1>1. Byte \in Nat \ {0} /\ Byte2 \in Nat \ {0}
  BY Powers
<1>2. /\ n \div Byte \in Nat /\ n % Byte \in Nat
      /\ n = Byte * (n \div Byte) + (n % Byte)
  BY <1>1, Division
<1>3. PICK q1 \in Nat : q1 = n \div Byte
  BY <1>2
<1>4. /\ q1 \div Byte \in Nat /\ q1 % Byte \in Nat
      /\ q1 = Byte * (q1 \div Byte) + (q1 % Byte)
  BY <1>1, Division
<1>5. PICK q2 \in Nat : q2 = q1 \div Byte
  BY <1>4
<1>6. /\ q2 \div Byte \in Nat /\ q2 % Byte \in Nat
      /\ q2 = Byte * (q2 \div Byte) + (q2 % Byte)
  BY <1>1, Division
<1>7. PICK q3 \in Nat : q3 = q2 \div Byte
  BY <1>6
<1>8. n \div Byte2 = q2
  <2>1. n \div (Byte * Byte) = (n \div Byte) \div Byte
    BY <1>1, Quotients
  <2> QED BY <1>3, <1>5, <2>1 DEF Byte2
<1>9. n \div Byte3 = q3
  <2>1. n \div (Byte2 * Byte) = (n \div Byte2) \div Byte
    BY <1>1, Quotients
  <2>2. Byte3 = Byte2 * Byte
    BY Powers
  <2> QED BY <1>7, <1>8, <2>1, <2>2
<1>10. Low(n) = n % Byte /\ Second(n) = q1 % Byte /\ Third(n) = q2 % Byte
  BY <1>3, <1>8 DEF Low, Second, Third
<1>11. n = Byte * (Byte * (Byte * q3 + Third(n)) + Second(n)) + Low(n)
  BY <1>2, <1>3, <1>4, <1>5, <1>6, <1>7, <1>10
<1>12. Byte * (Byte * (Byte * q3 + Third(n)) + Second(n))
        = Byte * Second(n) + Byte2 * Third(n) + Byte3 * q3
  BY <1>10, Powers
<1>13. Byte * Second(n) \in Nat /\ Byte2 * Third(n) \in Nat /\ Byte3 * q3 \in Nat
  BY <1>10, Powers
<1> QED BY <1>2, <1>4, <1>6, <1>9, <1>10, <1>11, <1>12, <1>13

LEMMA TwoBytes ==
  ASSUME NEW n \in Nat, n < Byte2
  PROVE  Low(n) + Byte * Second(n) = n
<1>1. n = Byte * (n \div Byte) + Low(n) /\ n \div Byte \in Nat /\ Low(n) \in Nat
  BY Powers, Division DEF Low
<1>3. Second(n) = n \div Byte
  BY Powers DEF Second
<1> QED BY <1>1, <1>3, Powers, SMT

LEMMA LbaModes ==
  ASSUME NEW lba \in Nat
  PROVE  /\ lba < Lba28Limit => Addressed(lba28(lba)) = lba
         /\ lba < LbaMod => Addressed(lba48(lba)) = lba
<1>1. lba < Lba28Limit => (lba \div Byte3) % Nibble = lba \div Byte3
  <2>1. lba < Lba28Limit => lba \div Byte3 < Nibble
    BY Powers, QuotientBelow
  <2> QED BY <2>1, SmallRest, Bytes, Powers
<1>2. lba < LbaMod => High(lba) = lba \div Byte3
  <2>1. lba < LbaMod => lba \div Byte3 < Byte
    BY Powers, QuotientBelow
  <2> QED BY <2>1, SmallRest, Powers DEF High
<1>3. Addressed(lba28(lba))
        = Low(lba) + Byte * Second(lba) + Byte2 * Third(lba) + Byte3 * ((lba \div Byte3) % Nibble)
  BY DEF Addressed, lba28
<1>4. Addressed(lba48(lba))
        = Low(lba) + Byte * Second(lba) + Byte2 * Third(lba) + Byte3 * High(lba)
  BY DEF Addressed, lba48
<1> QED BY <1>1, <1>2, <1>3, <1>4, Bytes

(* Sector, head and cylinder of a block lead back to it. *)
LEMMA ChsMode ==
  ASSUME NEW lba \in Nat, lba < ChsLimit
  PROVE  Addressed(chs(lba)) = lba
<1>1. PICK s \in Nat \ {0}, h \in Nat \ {0} : s = SectorsPerTrack /\ h = Heads
  BY AtaAddressAssumption
<1>3. lba \div s \in Nat /\ lba % s \in 0 .. s - 1 /\ lba = s * (lba \div s) + (lba % s)
  BY Division
<1>4. PICK track \in Nat : track = lba \div s
  BY <1>3
<1>5. track \div h \in Nat /\ track % h \in 0 .. h - 1 /\ track = h * (track \div h) + (track % h)
  BY Division
<1>6. PICK c \in Nat, head \in Nat : c = track \div h /\ head = track % h
  BY <1>5
<1>7. PICK t \in Nat : t = s * track
  BY SMT
<1>8. Sect(lba) = (lba % s) + 1 /\ lba + 1 - Sect(lba) = t
  <2>1. Sect(lba) = (lba % s) + 1
    BY <1>1 DEF Sect
  <2> QED BY <1>3, <1>4, <1>7, <2>1
<1>9. t \div s = track /\ t % s = 0
  BY <1>7, QuotientUnique
<1>10. t \div (s * h) = c /\ t % (s * h) = s * head
  <2>1. t \div (s * h) = (t \div s) \div h /\ t % (s * h) = s * ((t \div s) % h) + (t % s)
    BY Quotients
  <2>2. s * head \in Nat
    BY SMT
  <2> QED BY <1>6, <1>9, <2>1, <2>2
<1>11. HeadOf(lba) = head
  <2>1. HeadOf(lba) = (s * head) \div s
    BY <1>1, <1>8, <1>10 DEF HeadOf
  <2>2. (s * head + 0) \div s = head
    BY QuotientUnique
  <2>3. s * head \in Nat
    BY SMT
  <2> QED BY <2>1, <2>2, <2>3
<1>12. c < Byte2
  <2>1. lba < s * (h * Byte2) /\ h * Byte2 \in Nat
    BY <1>1, Powers, SMT DEF ChsLimit
  <2>2. track < h * Byte2
    BY <1>4, <2>1, QuotientBelow
  <2> QED BY <1>6, <2>2, Powers, QuotientBelow
<1>13. Cyl(lba) = c
  <2>1. Cyl(lba) = c % Byte2
    BY <1>1, <1>8, <1>10 DEF Cyl
  <2> QED BY <1>12, <2>1, Powers, SmallRest
<1>14. Low(c) + Byte * Second(c) = c
  BY <1>12, TwoBytes
<1>15. Addressed(chs(lba)) = (c * h + head) * s + Sect(lba) - 1
  <2>1. Addressed(chs(lba))
          = ((Low(Cyl(lba)) + Byte * Second(Cyl(lba))) * Heads + HeadOf(lba)) * SectorsPerTrack
              + Sect(lba) - 1
    BY DEF Addressed, chs
  <2> QED BY <1>1, <1>11, <1>13, <1>14, <2>1
<1>16. (c * h + head) * s = t
  <2>1. c * h + head = track
    BY <1>5, <1>6, SMT
  <2> QED BY <1>7, <2>1, SMT
<1> QED BY <1>8, <1>15, <1>16

(* In the mode ide_ata_access chooses, the drive is sent to the block its  *)
(* caller asked for, whatever the block and the widths of the registers; a *)
(* drive without LBA as long as its registers reach the block.             *)
THEOREM AddressReachesBlock ==
  ASSUME NEW lba \in 0 .. LbaMod - 1, NEW supportsLBA \in BOOLEAN,
         supportsLBA \/ lba >= Lba28Limit \/ lba < ChsLimit
  PROVE  Addressed(TaskFile(lba, supportsLBA)) = lba
<1>1. lba \in Nat /\ lba < LbaMod
  BY Powers
<1>2. CASE lba >= Lba28Limit
  BY <1>1, <1>2, LbaModes DEF TaskFile
<1>3. CASE ~ (lba >= Lba28Limit) /\ supportsLBA
  BY <1>3, LbaModes, Powers DEF TaskFile
<1>4. CASE ~ (lba >= Lba28Limit) /\ ~ supportsLBA
  BY <1>1, <1>4, ChsMode DEF TaskFile
<1> QED BY <1>2, <1>3, <1>4
-----------------------------------------------------------------------------
(***************************************************************************)
(* The inductive invariant of the driver and its drive.                    *)
(***************************************************************************)
Slots ==
  [channel : {0, 1}, drive : {0, 1}, type : {"IDE_ATA", "IDE_ATAPI"}, lba : BOOLEAN,
   size : Nat, model : {"QEMU DVD-ROM", "QEMU HARDDISK"}]

Requests ==
  [op : {"none", "read", "write"}, drive : Nat, lba : 0 .. LbaMod - 1, n : 0 .. Byte - 1]

Jobs ==
  [op : {"none", "identify", "packet", "read", "write", "flush"},
   at : Nat, left : 0 .. Byte - 1]

Codes == {-2, -1, 0, 2, 3, 7, 13, 19, 20, 21, 22, 23}

ProbePc == {"probe", "identify"}
WritePc == {"pollWrite", "flush", "pollFlush"}
AccessPc == {"command", "pollRead"} \cup WritePc

Types ==
  /\ machine \in Machines
  /\ g_ide_devices \in Seq(Slots) /\ Len(g_ide_devices) <= 4
  /\ pc \in ProbePc \cup {"idle"} \cup AccessPc
  /\ position \in 1 .. 4
  /\ req \in Requests /\ i \in 0 .. Byte - 1 /\ Len(buffer) <= i
  /\ buffer \in Seq(Nat \X BOOLEAN)
  /\ result \in Codes
  /\ status \in {"idle", "busy", "ready", "error", "fault"}
  /\ job \in Jobs
  /\ sent \in BOOLEAN /\ failed \in BOOLEAN /\ flushed \in BOOLEAN
  /\ written \subseteq Nat

(* A drive that takes no logical block addresses has no block that its     *)
(* registers cannot name.                                                  *)
Reachable ==
  \A d \in DOMAIN g_ide_devices : ~ g_ide_devices[d].lba => g_ide_devices[d].size <= ChsLimit

(* While the drives are looked for nothing is asked of them, and a drive   *)
(* found so far stands for each slot; then only an answer that nobody      *)
(* waits for keeps a drive busy between the calls.                         *)
Probing ==
  /\ pc \in ProbePc => req = NoRequest /\ i = 0 /\ Len(g_ide_devices) < position
  /\ pc = "identify" => job.op \in {"identify", "packet"} /\ job.at \in 1 .. 4
  /\ pc \notin AccessPc \ {"command"} /\ status = "busy"
       => job.op \in {"identify", "packet"} /\ job.at \in 1 .. 4

(* The data of a sector are with the drive only while it works on a write. *)
Sending == sent => pc \in WritePc /\ status = "busy" /\ job.op = "write"

(* A call under way has passed the tests. *)
Accessing ==
  pc \in AccessPc =>
    /\ Present(req.drive) /\ Slot(req.drive).type = "IDE_ATA" /\ ~ OutOfRange(req)
    /\ req.op = (IF pc = "command" THEN req.op ELSE IF pc = "pollRead" THEN "read" ELSE "write")
    /\ req.op # "none" /\ req.n # 0
    /\ pc = "command" => i = 0 /\ buffer = << >>

(* The blocks a read of the first m sectors returns. *)
Blocks(m) == [k \in 1 .. m |-> Content(req.lba + k - 1)]

(* While it reads, driver and drive are at the same sector. *)
InRead ==
  pc = "pollRead" =>
    /\ i < req.n
    /\ job = [op |-> "read", at |-> req.lba + i, left |-> req.n - i]
    /\ buffer = Blocks(i)

(* While it writes, the drive is no further than the driver, and just as   *)
(* far unless it has failed.                                               *)
Pending == req.n - i + (IF sent THEN 1 ELSE 0)

InWrite ==
  /\ pc \in WritePc /\ job.op = "write" =>
       /\ job.at >= req.lba /\ job.at + job.left = req.lba + req.n
       /\ job.left >= Pending
       /\ ~ failed =>
            /\ job.left = Pending
            /\ req.lba .. job.at - 1 \subseteq written
            /\ status \in IF job.left = 0 THEN {"idle"} ELSE {"busy", "ready"}
  /\ pc \in {"pollWrite", "flush"} => job.op = "write"
  /\ pc = "pollWrite" => i < req.n
  /\ pc \in {"flush", "pollFlush"} => i = req.n
  /\ pc = "pollFlush" =>
       /\ job.op \in {"write", "flush"}
       /\ job.op = "flush" /\ ~ failed => Wanted \subseteq written

Inv ==
  /\ Types /\ Reachable /\ Probing /\ Sending /\ Accessing /\ InRead /\ InWrite
  /\ ReadReturnsData /\ WriteIsDone
-----------------------------------------------------------------------------
(***************************************************************************)
(* Lemmas on the operators.                                                *)
(***************************************************************************)

(* A call that passed the tests of ide_read_sectors reaches its block: a   *)
(* sum that wrapped around was of a block beyond those of 28-bit mode.     *)
LEMMA Reaches ==
  ASSUME Types, Reachable, Present(req.drive), ~ OutOfRange(req), req.n # 0
  PROVE  Addressed(Registers(req)) = req.lba
<1>1. PICK s \in Slots : s = Slot(req.drive) /\ (~ s.lba => s.size <= ChsLimit)
  BY DEF Types, Reachable, Present, Slot
<1>2. req.lba \in 0 .. LbaMod - 1 /\ req.n \in 1 .. Byte - 1
  BY DEF Types, Requests
<1>3. s.lba \in BOOLEAN /\ s.size \in Nat /\ ChsLimit \in Nat
  <2>1. ChsLimit \in Nat
    BY AtaAddressAssumption, Powers, SMT DEF ChsLimit
  <2> QED BY <2>1 DEF Slots
<1>4. (req.lba + req.n) % LbaMod <= s.size
  BY <1>1, <1>2, <1>3, Powers DEF OutOfRange
<1>5. CASE req.lba + req.n < LbaMod
  <2>1. (req.lba + req.n) % LbaMod = req.lba + req.n
    BY <1>2, <1>5, Powers, SmallRest
  <2>2. s.lba \/ req.lba < ChsLimit
    BY <1>1, <1>2, <1>3, <1>4, <2>1
  <2> QED BY <1>1, <1>2, <1>3, <2>2, AddressReachesBlock DEF Registers
<1>6. CASE ~ (req.lba + req.n < LbaMod)
  <2>3. req.lba >= Lba28Limit
    BY <1>2, <1>6, Powers
  <2> QED BY <1>1, <1>2, <1>3, <2>3, AddressReachesBlock DEF Registers
<1> QED BY <1>5, <1>6

(* The first of the slots with the model, if there is one. *)
LEMMA FirstSlot ==
  ASSUME Types, NEW model, NEW S,
         S = {d \in DOMAIN g_ide_devices : g_ide_devices[d].model = model}, S # {}
  PROVE  \E d \in S : ata_get_drive_by_model(model) = d - 1
<1>1. S \subseteq 1 .. 4
  BY DEF Types
<1>2. \E d \in S : \A e \in S : d <= e
  <2>1. CASE 1 \in S
    BY <1>1, <2>1
  <2>2. CASE 1 \notin S /\ 2 \in S
    BY <1>1, <2>2
  <2>3. CASE 1 \notin S /\ 2 \notin S /\ 3 \in S
    BY <1>1, <2>3
  <2>4. CASE 1 \notin S /\ 2 \notin S /\ 3 \notin S
    <3>1. \A d \in S : d = 4
      BY <1>1, <2>4
    <3> QED BY <3>1
  <2> QED BY <2>1, <2>2, <2>3, <2>4
<1>3. PICK d : d = (CHOOSE f \in S : \A e \in S : f <= e)
  OBVIOUS
<1>4. d \in S
  BY <1>2, <1>3
<1>5. ata_get_drive_by_model(model) = d - 1
  BY <1>3 DEF ata_get_drive_by_model
<1> QED BY <1>4, <1>5

(* ata_get_drive_by_model answers with a number a uint8_t holds. *)
LEMMA DriveNumber ==
  ASSUME Types, NEW model
  PROVE  ata_get_drive_by_model(model) \in Nat
<1> DEFINE S == {d \in DOMAIN g_ide_devices : g_ide_devices[d].model = model}
<1>1. CASE S = {}
  BY <1>1 DEF ata_get_drive_by_model
<1>2. CASE S # {}
  <2>1. PICK d \in S : ata_get_drive_by_model(model) = d - 1
    BY <1>2, FirstSlot
  <2>2. d \in 1 .. 4
    BY DEF Types
  <2> QED BY <2>1, <2>2
<1> QED BY <1>1, <1>2

-----------------------------------------------------------------------------
(***************************************************************************)
(* The steps of the driver and of the drive.                               *)
(***************************************************************************)
LEMMA Widths == Byte \in Nat \ {0, 1} /\ LbaMod \in Nat
  BY Powers

LEMMA CallNumbers ==
  ASSUME Types
  PROVE  /\ req.lba \in Nat /\ req.n \in 0 .. Byte - 1 /\ req.n \in Nat /\ i \in Nat
         /\ job.at \in Nat /\ job.left \in Nat /\ job.left \in 0 .. Byte - 1
<1>1. Byte \in Nat /\ LbaMod \in Nat
  BY Powers
<1> QED BY <1>1 DEF Types, Requests, Jobs

(* The command of a drive that goes on to the next block. *)
LEMMA NextJob ==
  ASSUME NEW j \in Jobs, j.left \in 1 .. Byte - 1
  PROVE  /\ [j EXCEPT !.left = @ - 1, !.at = @ + 1] \in Jobs
         /\ [j EXCEPT !.left = @ - 1, !.at = @ + 1]
              = [op |-> j.op, at |-> j.at + 1, left |-> j.left - 1]
<1>1. j = [op |-> j.op, at |-> j.at, left |-> j.left] /\ j.at \in Nat /\ j.left \in Nat
  BY Widths DEF Jobs
<1>2. [j EXCEPT !.left = @ - 1, !.at = @ + 1] = [op |-> j.op, at |-> j.at + 1, left |-> j.left - 1]
  <2>1. ASSUME NEW o, NEW a \in Nat, NEW l \in Nat
        PROVE  [[op |-> o, at |-> a, left |-> l] EXCEPT !.left = @ - 1, !.at = @ + 1]
                 = [op |-> o, at |-> a + 1, left |-> l - 1]
    <3>1. [[op |-> o, at |-> a, left |-> l] EXCEPT !.left = @ - 1]
            = [op |-> o, at |-> a, left |-> l - 1]
      OBVIOUS
    <3>2. [[op |-> o, at |-> a, left |-> l - 1] EXCEPT !.at = @ + 1]
            = [op |-> o, at |-> a + 1, left |-> l - 1]
      OBVIOUS
    <3>3. [[op |-> o, at |-> a, left |-> l] EXCEPT !.left = @ - 1, !.at = @ + 1]
            = [[[op |-> o, at |-> a, left |-> l] EXCEPT !.left = @ - 1] EXCEPT !.at = @ + 1]
      OBVIOUS
    <3> QED BY <3>1, <3>2, <3>3
  <2> QED BY <1>1, <2>1, Zenon
<1>3. j.left - 1 \in 0 .. Byte - 1 /\ j.at + 1 \in Nat
  BY <1>1, Widths
<1> QED BY <1>1, <1>2, <1>3 DEF Jobs

LEMMA NoJobs == NoJob \in Jobs /\ [NoJob EXCEPT !.op = "flush"] \in Jobs
  BY Powers DEF NoJob, Jobs

LEMMA ASlot ==
  ASSUME NEW c \in {0, 1}, NEW d \in {0, 1}, NEW t \in {"IDE_ATA", "IDE_ATAPI"},
         NEW b \in BOOLEAN, NEW n \in Nat, NEW m \in {"QEMU DVD-ROM", "QEMU HARDDISK"}
  PROVE  [channel |-> c, drive |-> d, type |-> t, lba |-> b, size |-> n, model |-> m] \in Slots
BY DEF Slots

(* The slot that is filled with an answer. *)
LEMMA NewSlot ==
  ASSUME Inv, pc = "identify", NEW type \in {"IDE_ATA", "IDE_ATAPI"}, Found(job.at, type)
  PROVE  \E s \in Slots :
           /\ g_ide_devices' = Append(g_ide_devices, s)
           /\ s.type = type /\ s.model = ModelOf(machine[job.at])
           /\ s.size = Identified(job.at).size
           /\ ~ s.lba => s.size <= ChsLimit
<1> DEFINE s == [Identified(job.at) EXCEPT !.type = type, !.drive = (position - 1) % 2]
<1>1. job.at \in 1 .. 4 /\ position \in 1 .. 4
  BY DEF Inv, Types, Probing, ProbePc
<1>2. (job.at - 1) \div 2 \in {0, 1} /\ (job.at - 1) % 2 \in {0, 1} /\ (position - 1) % 2 \in {0, 1}
  BY <1>1
<1>3. DiskSize \in Nat /\ OldSize \in Nat /\ OldSize <= ChsLimit /\ 0 <= ChsLimit
  BY AtaAssumption, AtaAddressAssumption, Powers DEF ChsLimit
<1>4. PICK byBlock \in BOOLEAN : byBlock = (machine[job.at] = "disk")
  OBVIOUS
<1>5. /\ Identified(job.at).size \in Nat
      /\ machine[job.at] # "disk" => Identified(job.at).size <= ChsLimit
      /\ Identified(job.at).type \in {"IDE_ATA", "IDE_ATAPI"}
      /\ Identified(job.at).lba = byBlock
  BY <1>3, <1>4 DEF Identified
<1>6. ModelOf(machine[job.at]) \in {"QEMU DVD-ROM", "QEMU HARDDISK"}
  BY DEF ModelOf
<1>7. PICK t, n : t = Identified(job.at).type /\ n = Identified(job.at).size
  OBVIOUS
<1>8. Identified(job.at) \in Slots
  <2>1. PICK c \in {0, 1}, d \in {0, 1}, m \in {"QEMU DVD-ROM", "QEMU HARDDISK"} :
          /\ c = (job.at - 1) \div 2 /\ d = (job.at - 1) % 2
          /\ m = ModelOf(machine[job.at])
    BY <1>2, <1>6
  <2>2. Identified(job.at)
          = [channel |-> c, drive |-> d, type |-> t, lba |-> byBlock, size |-> n, model |-> m]
    BY <1>4, <1>7, <2>1 DEF Identified
  <2>3. t \in {"IDE_ATA", "IDE_ATAPI"} /\ n \in Nat
    BY <1>5, <1>7
  <2>4. [channel |-> c, drive |-> d, type |-> t, lba |-> byBlock, size |-> n, model |-> m] \in Slots
    BY <2>3, ASlot
  <2> QED BY <2>2, <2>4
<1>9. Identified(job.at).model = ModelOf(machine[job.at])
  BY DEF Identified
<1>10. /\ s \in Slots /\ s.type = type
       /\ s.lba = Identified(job.at).lba /\ s.size = Identified(job.at).size
       /\ s.model = Identified(job.at).model
  BY <1>2, <1>8 DEF Slots
<1>11. g_ide_devices' = Append(g_ide_devices, s)
  BY DEF Found
<1> HIDE DEF s
<1>12. ~ s.lba => s.size <= ChsLimit
  BY <1>4, <1>5, <1>10
<1> QED BY <1>9, <1>10, <1>11, <1>12

LEMMA FoundSlot ==
  ASSUME Inv, pc = "identify", NEW type \in {"IDE_ATA", "IDE_ATAPI"}, Found(job.at, type)
  PROVE  /\ g_ide_devices' \in Seq(Slots)
         /\ Len(g_ide_devices') = Len(g_ide_devices) + 1 /\ Len(g_ide_devices) < position
         /\ Reachable'
<1>1. PICK s \in Slots : g_ide_devices' = Append(g_ide_devices, s) /\ (~ s.lba => s.size <= ChsLimit)
  BY NewSlot
<1>2. g_ide_devices \in Seq(Slots)
  BY DEF Inv, Types
<1>3. Len(g_ide_devices) < position
  BY DEF Inv, Probing, ProbePc
<1> QED BY <1>1, <1>2, <1>3 DEF Inv, Reachable

LEMMA IdentifyStep ==
  ASSUME Inv, Identify
  PROVE  Inv'
<1>1. Types'
  <2>1. job' \in Jobs /\ status' \in {"idle", "busy", "ready", "error", "fault"}
    BY Powers DEF Inv, Types, Jobs, Identify
  <2>2. position' \in 1 .. 4 /\ pc' \in ProbePc \cup {"idle"}
    BY DEF Inv, Types, Identify, NextPosition, ProbePc
  <2> QED BY <2>1, <2>2 DEF Inv, Types, Identify
<1>2. Reachable'
  BY DEF Inv, Reachable, Identify
<1>3. Probing'
  BY DEF Inv, Types, Probing, Accessing, ProbePc, NoRequest, Identify, NextPosition,
     Occupied
<1>4. Sending'
  BY DEF Inv, Sending, WritePc, Identify
<1>5. Accessing'
  BY DEF Accessing, AccessPc, WritePc, Identify, NextPosition
<1>6. InRead'
  BY DEF InRead, Identify, NextPosition
<1>7. InWrite'
  BY DEF InWrite, WritePc, Identify, NextPosition
<1>8. ReadReturnsData'
  BY DEF Inv, Types, ReadReturnsData, AccessPc, WritePc, Probing, NoRequest, Identify
<1>9. WriteIsDone'
  BY DEF Inv, WriteIsDone, Returned, Probing, NoRequest, ProbePc, Identify
<1> QED BY <1>1, <1>2, <1>3, <1>4, <1>5, <1>6, <1>7, <1>8, <1>9 DEF Inv

LEMMA AnsweredStep ==
  ASSUME Inv, Answered
  PROVE  Inv'
<1>1. Types'
  <2>1. job' \in Jobs
    BY NoJobs DEF Answered
  <2>2. position' \in 1 .. 4 /\ pc' \in ProbePc \cup {"idle"}
    BY DEF Inv, Types, Answered, NextPosition, ProbePc
  <2>3. g_ide_devices' \in Seq(Slots) /\ Len(g_ide_devices') <= 4
    BY FoundSlot DEF Inv, Types, Answered
  <2> QED BY <2>1, <2>2, <2>3 DEF Inv, Types, Answered
<1>2. Reachable'
  BY FoundSlot DEF Answered
<1>3. Probing'
  BY DEF Inv, Types, Probing, ProbePc, Answered, NextPosition, Found
<1>4. Sending'
  BY DEF Inv, Sending, Answered
<1>5. Accessing'
  BY DEF Accessing, AccessPc, WritePc, Answered, NextPosition
<1>6. InRead'
  BY DEF InRead, Answered, NextPosition
<1>7. InWrite'
  BY DEF InWrite, WritePc, Answered, NextPosition
<1>8. ReadReturnsData'
  BY DEF Inv, Types, ReadReturnsData, AccessPc, WritePc, Probing, NoRequest, Answered
<1>9. WriteIsDone'
  BY DEF Inv, WriteIsDone, Returned, Probing, NoRequest, ProbePc, Answered
<1> QED BY <1>1, <1>2, <1>3, <1>4, <1>5, <1>6, <1>7, <1>8, <1>9 DEF Inv

LEMMA NotAtaStep ==
  ASSUME Inv, NotAta
  PROVE  Inv'
<1>1. Types'
  <2>1. job' \in Jobs
    <3>1. [job EXCEPT !.op = "packet"] \in Jobs
      BY DEF Inv, Types, Jobs
    <3> QED BY <3>1, NoJobs DEF NotAta
  <2>2. position' \in 1 .. 4 /\ pc' \in ProbePc \cup {"idle"}
    BY DEF Inv, Types, NotAta, NextPosition, ProbePc
  <2>3. g_ide_devices' \in Seq(Slots) /\ Len(g_ide_devices') <= 4
    BY FoundSlot DEF Inv, Types, NotAta
  <2> QED BY <2>1, <2>2, <2>3 DEF Inv, Types, NotAta
<1>2. Reachable'
  BY FoundSlot DEF Inv, Reachable, NotAta
<1>3. Probing'
  BY DEF Inv, Types, Probing, ProbePc, Jobs, NotAta, NextPosition, Found
<1>4. Sending'
  BY DEF Inv, Sending, NotAta
<1>5. Accessing'
  BY DEF Accessing, AccessPc, WritePc, NotAta, NextPosition
<1>6. InRead'
  BY DEF InRead, NotAta, NextPosition
<1>7. InWrite'
  BY DEF InWrite, WritePc, NotAta, NextPosition
<1>8. ReadReturnsData'
  BY DEF Inv, Types, ReadReturnsData, AccessPc, WritePc, Probing, NoRequest, NotAta
<1>9. WriteIsDone'
  BY DEF Inv, WriteIsDone, Returned, Probing, NoRequest, ProbePc, NotAta
<1> QED BY <1>1, <1>2, <1>3, <1>4, <1>5, <1>6, <1>7, <1>8, <1>9 DEF Inv

LEMMA SendCommandStep ==
  ASSUME Inv, SendCommand
  PROVE  Inv'
<1>1. Types'
  <2>1. Addressed(Registers(req)) = req.lba
    BY Reaches DEF Inv, Accessing, AccessPc, SendCommand
  <2>2. job' \in Jobs
    BY <2>1 DEF Inv, Types, Requests, Jobs, SendCommand
  <2> QED BY <2>2 DEF Inv, Types, SendCommand, AccessPc, WritePc
<1>2. Reachable'
  BY DEF Inv, Types, Reachable, SendCommand
<1>3. Probing'
  BY DEF Probing, ProbePc, AccessPc, WritePc, SendCommand
<1>4. Sending'
  BY DEF Sending, SendCommand
<1>5. Accessing'
  BY DEF Inv, Types, Accessing, Requests, Present, Slot, OutOfRange, ProbePc, SendCommand
<1>6. InRead'
  <2> SUFFICES ASSUME pc' = "pollRead" PROVE InRead'
    BY DEF InRead
  <2>1. Addressed(Registers(req)) = req.lba
    BY Reaches DEF Inv, Accessing, AccessPc, SendCommand
  <2>2. req.op = "read" /\ i = 0 /\ buffer = << >> /\ req.n \in 1 .. Byte - 1 /\ req.lba \in Nat
    BY DEF Inv, Types, Requests, Accessing, AccessPc, SendCommand
  <2>3. Blocks(0)' = << >>
    BY DEF Blocks
  <2> QED BY <2>1, <2>2, <2>3 DEF InRead, SendCommand
<1>7. InWrite'
  <2>1. Addressed(Registers(req)) = req.lba
    BY Reaches DEF Inv, Accessing, AccessPc, SendCommand
  <2>2. i = 0 /\ req.n \in 1 .. Byte - 1 /\ req.lba \in Nat
    BY DEF Inv, Types, Requests, Accessing, AccessPc, SendCommand
  <2>3. /\ job'.at = req.lba /\ job'.left = req.n /\ job'.op = req.op
        /\ req' = req /\ i' = 0 /\ ~ sent' /\ status' = "busy"
        /\ pc' = "pollRead" \/ (pc' = "pollWrite" /\ req.op = "write")
    BY <2>1 DEF Inv, Types, Requests, Accessing, AccessPc, SendCommand
  <2>4. Pending' = req.n /\ req.lba .. job'.at - 1 = {}
    BY <2>2, <2>3 DEF Pending
  <2> QED BY <2>2, <2>3, <2>4 DEF InWrite
<1>8. ReadReturnsData'
  BY DEF ReadReturnsData, Returned, SendCommand
<1>9. WriteIsDone'
  BY DEF WriteIsDone, Returned, SendCommand
<1> QED BY <1>1, <1>2, <1>3, <1>4, <1>5, <1>6, <1>7, <1>8, <1>9 DEF Inv

(* What the buffer holds after the next sector. *)
LEMMA BlocksAsSeq ==
  ASSUME NEW m \in Nat, req.lba \in Nat
  PROVE  /\ Blocks(m) \in Seq(Nat \X BOOLEAN) /\ Len(Blocks(m)) = m
         /\ \A k \in 1 .. m : Blocks(m)[k] = Content(req.lba + k - 1)
<1>1. ASSUME NEW b \in Nat PROVE Content(b) \in Nat \X BOOLEAN
  <2>1. CASE b \in written
    BY <2>1 DEF Content
  <2>2. CASE b \notin written
    <3>1. (b \in written) = FALSE
      BY <2>2
    <3> QED BY <3>1 DEF Content
  <2> QED BY <2>1, <2>2
<1>2. \A k \in 1 .. m : req.lba + k - 1 \in Nat
  OBVIOUS
<1>3. Blocks(m) \in [1 .. m -> Nat \X BOOLEAN]
  BY <1>1, <1>2 DEF Blocks
<1>4. \A k \in 1 .. m : Blocks(m)[k] = Content(req.lba + k - 1)
  BY DEF Blocks
<1> QED BY <1>3, <1>4

LEMMA NextBlock ==
  ASSUME Inv, ReadSector
  PROVE  /\ buffer' \in Seq(Nat \X BOOLEAN) /\ Len(buffer') = i + 1
         /\ buffer' = Blocks(i)'
<1>1. i \in Nat /\ req.lba \in Nat /\ req.n \in Nat /\ i + 1 \in Nat
  BY CallNumbers DEF Inv
<1>2. /\ job.at = req.lba + i /\ buffer = Blocks(i)
      /\ buffer' = Append(buffer, Content(job.at)) /\ req' = req /\ written' = written
  BY DEF Inv, InRead, ReadSector
<1>3. Blocks(i)' = Blocks(i + 1)
  <2>1. req' = req /\ written' = written /\ i' = i + 1
    BY DEF ReadSector
  <2> QED BY <2>1 DEF Blocks, Content
<1>4. /\ Blocks(i) \in Seq(Nat \X BOOLEAN) /\ Len(Blocks(i)) = i
      /\ \A k \in 1 .. i : Blocks(i)[k] = Content(req.lba + k - 1)
  BY <1>1, BlocksAsSeq
<1>5. /\ Blocks(i + 1) \in Seq(Nat \X BOOLEAN) /\ Len(Blocks(i + 1)) = i + 1
      /\ \A k \in 1 .. i + 1 : Blocks(i + 1)[k] = Content(req.lba + k - 1)
  BY <1>1, BlocksAsSeq
<1>6. Append(Blocks(i), Content(req.lba + i)) = Blocks(i + 1)
  <2>1. ASSUME NEW k \in 1 .. i PROVE Blocks(i + 1)[k] = Blocks(i)[k]
    <3>1. k \in 1 .. i + 1
      BY <1>1
    <3> QED BY <1>4, <1>5, <3>1
  <2>2. Blocks(i + 1)[i + 1] = Content(req.lba + i)
    <3>1. req.lba + (i + 1) - 1 = req.lba + i /\ i + 1 \in 1 .. i + 1
      BY <1>1
    <3> QED BY <1>5, <3>1
  <2>3. Append(Blocks(i), Blocks(i + 1)[i + 1]) = Blocks(i + 1)
    BY <1>4, <1>5, <2>1
  <2> QED BY <2>2, <2>3
<1> QED BY <1>2, <1>3, <1>5, <1>6

LEMMA ReadSectorStep ==
  ASSUME Inv, ReadSector
  PROVE  Inv'
<1>1. Types'
  <2>1. pc = "pollRead" /\ i' = i + 1 /\ job' = [job EXCEPT !.left = @ - 1, !.at = @ + 1]
    BY DEF ReadSector
  <2>2. job.left \in 1 .. Byte - 1 /\ i' \in 0 .. Byte - 1
    BY <2>1, CallNumbers, Widths DEF Inv, InRead
  <2>3. job' \in Jobs
    BY <2>1, <2>2, NextJob DEF Inv, Types
  <2>4. buffer' \in Seq(Nat \X BOOLEAN) /\ Len(buffer') <= i'
    BY <2>1, <2>2, NextBlock
  <2>5. pc' \in {"idle", "pollRead"} /\ result' \in Codes
    BY DEF Inv, Types, Codes, ReadSector, Return
  <2> QED BY <2>2, <2>3, <2>4, <2>5 DEF Inv, Types, ReadSector
<1>2. Reachable'
  BY DEF Inv, Reachable, ReadSector
<1>3. Probing'
  BY DEF Inv, Types, Probing, InRead, ProbePc, ReadSector, Return
<1>4. Sending'
  BY DEF Inv, Sending, ReadSector
<1>5. Accessing'
  BY DEF Inv, Accessing, AccessPc, WritePc, Present, Slot, OutOfRange, ReadSector, Return
<1>6. InRead'
  <2>1. CASE i + 1 = req.n
    BY <2>1 DEF InRead, ReadSector, Return
  <2>2. CASE i + 1 # req.n
    <3>1. /\ i < req.n /\ i \in Nat /\ req.n \in 0 .. Byte - 1 /\ req.lba \in Nat
          /\ job.op = "read" /\ job.at = req.lba + i /\ job.left = req.n - i
      BY CallNumbers DEF Inv, InRead, ReadSector
    <3>2. i + 1 < req.n /\ job.left \in 1 .. Byte - 1
      BY <2>2, <3>1, Widths
    <3>3. job' = [op |-> "read", at |-> req.lba + (i + 1), left |-> req.n - (i + 1)]
      <4>1. job' = [op |-> job.op, at |-> job.at + 1, left |-> job.left - 1]
        BY <3>2, NextJob DEF Inv, Types, ReadSector
      <4>2. job.at + 1 = req.lba + (i + 1) /\ job.left - 1 = req.n - (i + 1)
        BY <3>1
      <4> QED BY <3>1, <4>1, <4>2
    <3>4. i' = i + 1 /\ req' = req
      BY DEF ReadSector
    <3>5. buffer' = Blocks(i)'
      BY NextBlock
    <3> QED BY <3>2, <3>3, <3>4, <3>5 DEF InRead
  <2> QED BY <2>1, <2>2
<1>7. InWrite'
  BY DEF InWrite, WritePc, ReadSector, Return
<1>8. ReadReturnsData'
  <2>1. CASE i + 1 = req.n
    <3>1. i' = req'.n /\ buffer' = Blocks(i)'
      BY <2>1, NextBlock DEF ReadSector
    <3> QED BY <3>1 DEF ReadReturnsData, Blocks
  <2>2. CASE i + 1 # req.n
    BY <2>2 DEF ReadReturnsData, Returned, ReadSector
  <2> QED BY <2>1, <2>2
<1>9. WriteIsDone'
  BY DEF Inv, WriteIsDone, Returned, Accessing, AccessPc, ReadSector
<1> QED BY <1>1, <1>2, <1>3, <1>4, <1>5, <1>6, <1>7, <1>8, <1>9 DEF Inv

LEMMA ReadFailsStep ==
  ASSUME Inv, ReadFails
  PROVE  Inv'
<1>1. Types'
  <2>1. \A s \in DOMAIN ErrorCode : ErrorCode[s] \subseteq Codes
    BY DEF ErrorCode, Codes
  <2>2. result' \in Codes
    BY <2>1 DEF ReadFails, Return
  <2> QED BY <2>2 DEF Inv, Types, ReadFails, Return, driveVars
<1>2. Reachable'
  BY DEF Inv, Reachable, ReadFails
<1>3. Probing'
  BY DEF Probing, ProbePc, ReadFails, Return, driveVars, ErrorCode
<1>4. Sending'
  BY DEF Inv, Sending, WritePc, ReadFails, driveVars
<1>5. Accessing'
  BY DEF Accessing, AccessPc, WritePc, ReadFails, Return
<1>6. InRead'
  BY DEF InRead, ReadFails, Return
<1>7. InWrite'
  BY DEF InWrite, WritePc, ReadFails, Return
<1>8. ReadReturnsData'
  <2>1. \A s \in DOMAIN ErrorCode : 0 \notin ErrorCode[s]
    BY DEF ErrorCode
  <2>2. result' # 0
    BY <2>1 DEF ReadFails, Return
  <2> QED BY <2>2 DEF ReadReturnsData, Returned
<1>9. WriteIsDone'
  BY DEF WriteIsDone, Returned, ReadFails, Return, ErrorCode
<1> QED BY <1>1, <1>2, <1>3, <1>4, <1>5, <1>6, <1>7, <1>8, <1>9 DEF Inv

LEMMA WriteSectorStep ==
  ASSUME Inv, WriteSector
  PROVE  Inv'
<1>1. Types'
  <2>1. i' \in 0 .. Byte - 1 /\ Len(buffer') <= i'
    BY Powers DEF Inv, Types, InWrite, Requests, WriteSector
  <2> QED BY <2>1 DEF Inv, Types, WriteSector, AccessPc, WritePc
<1>2. Reachable'
  BY DEF Inv, Types, Reachable, WriteSector
<1>3. Probing'
  BY DEF Probing, ProbePc, AccessPc, WritePc, WriteSector
<1>4. Sending'
  BY DEF Inv, Sending, InWrite, WritePc, WriteSector
<1>5. Accessing'
  BY DEF Inv, Types, Accessing, Present, Slot, OutOfRange, ProbePc, WriteSector
<1>6. InRead'
  BY DEF InRead, WriteSector
<1>7. InWrite'
  <2>1. /\ req.lba \in Nat /\ req.n \in Nat /\ i \in Nat /\ job.at \in Nat /\ job.left \in Nat
    BY CallNumbers DEF Inv
  <2>2. /\ i < req.n /\ job.op = "write"
        /\ job.at >= req.lba /\ job.at + job.left = req.lba + req.n
        /\ job.left >= Pending
        /\ ~ failed => /\ job.left = Pending
                        /\ req.lba .. job.at - 1 \subseteq written
                        /\ status \in IF job.left = 0 THEN {"idle"} ELSE {"busy", "ready"}
    BY DEF Inv, InWrite, WritePc, WriteSector
  <2>3. ~ sent /\ status # "busy"
    BY DEF Inv, Types, Sending, WriteSector
  <2>4. Pending = req.n - i /\ (~ failed => status = "ready")
    BY <2>1, <2>2, <2>3 DEF Pending
  <2>5. /\ req' = req /\ job' = job /\ written' = written /\ failed' = failed /\ i' = i + 1
        /\ sent' = (status = "ready")
        /\ status' = (IF status = "ready" THEN "busy" ELSE status)
        /\ pc' = (IF i + 1 = req.n THEN "flush" ELSE "pollWrite")
    BY DEF WriteSector
  <2>6. Pending' = req.n - (i + 1) + (IF status = "ready" THEN 1 ELSE 0)
    BY <2>5 DEF Pending
  <2>7. /\ job'.left >= Pending'
        /\ ~ failed' => /\ job'.left = Pending'
                         /\ status' \in IF job'.left = 0 THEN {"idle"} ELSE {"busy", "ready"}
    BY <2>1, <2>2, <2>4, <2>5, <2>6
  <2> QED BY <2>1, <2>2, <2>5, <2>7 DEF InWrite
<1>8. ReadReturnsData'
  BY DEF ReadReturnsData, Returned, WriteSector
<1>9. WriteIsDone'
  BY DEF WriteIsDone, Returned, WriteSector
<1> QED BY <1>1, <1>2, <1>3, <1>4, <1>5, <1>6, <1>7, <1>8, <1>9 DEF Inv

LEMMA FlushStep ==
  ASSUME Inv, Flush
  PROVE  Inv'
<1>1. Types'
  <2>1. job' \in Jobs
    BY NoJobs DEF Inv, Types, Flush
  <2> QED BY <2>1 DEF Inv, Types, Flush, AccessPc, WritePc
<1>2. Reachable'
  BY DEF Inv, Reachable, Flush
<1>3. Probing'
  BY DEF Probing, ProbePc, AccessPc, WritePc, Flush
<1>4. Sending'
  BY DEF Inv, Sending, WritePc, Flush
<1>5. Accessing'
  BY DEF Inv, Types, Accessing, Present, Slot, OutOfRange, ProbePc, Flush
<1>6. InRead'
  BY DEF InRead, Flush
<1>7. InWrite'
  BY DEF Inv, Types, InWrite, Sending, Requests, Jobs, Pending, Wanted, WritePc, Flush,
     NoJob
<1>8. ReadReturnsData'
  BY DEF ReadReturnsData, Returned, Flush
<1>9. WriteIsDone'
  BY DEF WriteIsDone, Returned, Flush
<1> QED BY <1>1, <1>2, <1>3, <1>4, <1>5, <1>6, <1>7, <1>8, <1>9 DEF Inv

LEMMA WriteReturnsStep ==
  ASSUME Inv, WriteReturns
  PROVE  Inv'
<1>1. Types'
  BY DEF Inv, Types, WriteReturns, Return, driveVars, Codes
<1>2. Reachable'
  BY DEF Inv, Reachable, WriteReturns
<1>3. Probing'
  BY DEF Probing, ProbePc, WriteReturns, Return, driveVars
<1>4. Sending'
  BY DEF Inv, Sending, WriteReturns, driveVars
<1>5. Accessing'
  BY DEF Accessing, AccessPc, WritePc, WriteReturns, Return
<1>6. InRead'
  BY DEF InRead, WriteReturns, Return
<1>7. InWrite'
  BY DEF InWrite, WritePc, WriteReturns, Return
<1>8. ReadReturnsData'
  BY DEF Inv, Types, ReadReturnsData, Returned, Accessing, Probing, NoRequest, WriteReturns
<1>9. WriteIsDone'
  <2>1. /\ req.lba \in Nat /\ req.n \in Nat /\ i \in Nat /\ job.at \in Nat /\ job.left \in Nat
    BY CallNumbers DEF Inv
  <2>2. SUFFICES ASSUME req.op = "write", ~ failed PROVE Wanted \subseteq written
    BY DEF WriteIsDone, Returned, Wanted, WriteReturns, driveVars
  <2>3. i = req.n /\ job.op \in {"write", "flush"} /\ status # "busy" /\ ~ sent
    BY DEF Inv, Sending, InWrite, WriteReturns
  <2>4. CASE job.op = "flush"
    BY <2>2, <2>4 DEF Inv, InWrite, WriteReturns
  <2>5. CASE job.op = "write"
    <3>1. /\ job.left = Pending /\ job.at + job.left = req.lba + req.n
          /\ req.lba .. job.at - 1 \subseteq written
      BY <2>2, <2>5 DEF Inv, InWrite, WritePc, WriteReturns
    <3>2. Pending = 0
      BY <2>1, <2>3 DEF Pending
    <3>3. job.at - 1 = req.lba + req.n - 1
      BY <2>1, <3>1, <3>2
    <3> QED BY <3>1, <3>3 DEF Wanted
  <2> QED BY <2>3, <2>4, <2>5
<1> QED BY <1>1, <1>2, <1>3, <1>4, <1>5, <1>6, <1>7, <1>8, <1>9 DEF Inv

LEMMA DriveIdentifiedStep ==
  ASSUME Inv, DriveIdentified
  PROVE  Inv'
<1>1. Types'
  BY DEF Inv, Types, DriveIdentified, driverVars
<1>2. Reachable'
  BY DEF Inv, Reachable, DriveIdentified, driverVars
<1>3. Probing'
  BY DEF Inv, Probing, DriveIdentified, driverVars
<1>4. Sending'
  BY DEF Inv, Sending, DriveIdentified
<1>5. Accessing'
  BY DEF Inv, Accessing, Present, Slot, OutOfRange, DriveIdentified, driverVars
<1>6. InRead'
  BY DEF Inv, InRead, DriveIdentified, driverVars
<1>7. InWrite'
  BY DEF Inv, InWrite, DriveIdentified, driverVars
<1>8. ReadReturnsData'
  BY DEF Inv, ReadReturnsData, Returned, Content, Slot, DriveIdentified, driverVars
<1>9. WriteIsDone'
  BY DEF Inv, WriteIsDone, Returned, Wanted, Slot, DriveIdentified, driverVars
<1> QED BY <1>1, <1>2, <1>3, <1>4, <1>5, <1>6, <1>7, <1>8, <1>9 DEF Inv

LEMMA DriveReadyStep ==
  ASSUME Inv, DriveReady
  PROVE  Inv'
<1>1. Types'
  BY DEF Inv, Types, DriveReady, driverVars
<1>2. Reachable'
  BY DEF Inv, Reachable, DriveReady, driverVars
<1>3. Probing'
  BY DEF Inv, Probing, DriveReady, driverVars
<1>4. Sending'
  BY DEF Sending, DriveReady
<1>5. Accessing'
  BY DEF Inv, Accessing, Present, Slot, OutOfRange, DriveReady, driverVars
<1>6. InRead'
  BY DEF Inv, InRead, Blocks, Content, DriveReady, driverVars
<1>7. InWrite'
  BY DEF Inv, InWrite, Pending, DriveReady, driverVars
<1>8. ReadReturnsData'
  BY DEF Inv, ReadReturnsData, Returned, AccessPc, WritePc, Probing, DriveReady, driverVars
<1>9. WriteIsDone'
  BY DEF Inv, WriteIsDone, Returned, Probing, AccessPc, WritePc, DriveReady, driverVars
<1> QED BY <1>1, <1>2, <1>3, <1>4, <1>5, <1>6, <1>7, <1>8, <1>9 DEF Inv

LEMMA DriveWritesStep ==
  ASSUME Inv, DriveWrites
  PROVE  Inv'
<1>1. Types'
  <2>1. job.left \in 1 .. Byte - 1
    <3>1. /\ pc \in WritePc /\ job.op = "write" /\ sent /\ job.left >= Pending /\ i <= req.n
      BY CallNumbers DEF Inv, Sending, InWrite, WritePc, DriveWrites
    <3> QED BY <3>1, CallNumbers DEF Inv, Pending
  <2>2. job' \in Jobs /\ job.at \in Nat
    BY <2>1, NextJob DEF Inv, Types, Jobs, DriveWrites
  <2> QED BY <2>2 DEF Inv, Types, DriveWrites, driverVars
<1>2. Reachable'
  BY DEF Inv, Reachable, DriveWrites, driverVars
<1>3. Probing'
  BY DEF Inv, Probing, Sending, DriveWrites, driverVars
<1>4. Sending'
  BY DEF Sending, DriveWrites
<1>5. Accessing'
  BY DEF Inv, Accessing, Present, Slot, OutOfRange, DriveWrites, driverVars
<1>6. InRead'
  BY DEF Inv, InRead, Sending, DriveWrites, driverVars
<1>7. InWrite'
  <2>1. /\ req.lba \in Nat /\ req.n \in Nat /\ i \in Nat /\ job.at \in Nat /\ job.left \in Nat
    BY CallNumbers DEF Inv
  <2>2. /\ pc \in WritePc /\ job.op = "write" /\ sent
        /\ job.at >= req.lba /\ job.at + job.left = req.lba + req.n
        /\ job.left >= Pending
        /\ ~ failed => job.left = Pending /\ req.lba .. job.at - 1 \subseteq written
        /\ i <= req.n
    BY <2>1 DEF Inv, Sending, InWrite, WritePc, DriveWrites
  <2>3. Pending = req.n - i + 1 /\ job.left \in 1 .. Byte - 1
    BY <2>1, <2>2 DEF Inv, Types, Jobs, Pending
  <2>4. /\ job'.op = "write" /\ job'.at = job.at + 1 /\ job'.left = job.left - 1
        /\ status' = (IF job.left > 1 THEN "busy" ELSE "idle") /\ ~ sent'
        /\ written' = written \cup {job.at}
        /\ req' = req /\ i' = i /\ pc' = pc /\ failed' = failed
    BY <2>2 DEF DriveWrites, driverVars
  <2>5. Pending' = req.n - i
    BY <2>1, <2>4 DEF Pending
  <2>6. ~ failed => req.lba .. job'.at - 1 \subseteq written'
    BY <2>1, <2>2, <2>4
  <2>7. job'.at >= req.lba /\ job'.at + job'.left = req.lba + req.n /\ job'.left >= Pending'
    BY <2>1, <2>2, <2>3, <2>4, <2>5
  <2>8. ~ failed => /\ job'.left = Pending'
                    /\ status' \in IF job'.left = 0 THEN {"idle"} ELSE {"busy", "ready"}
    BY <2>2, <2>3, <2>4, <2>5
  <2>9. /\ pc = "pollWrite" => i < req.n
        /\ pc \in {"flush", "pollFlush"} => i = req.n
    BY DEF Inv, InWrite
  <2> QED BY <2>4, <2>6, <2>7, <2>8, <2>9 DEF InWrite
<1>8. ReadReturnsData'
  BY DEF Inv, ReadReturnsData, Returned, WritePc, Sending, DriveWrites, driverVars
<1>9. WriteIsDone'
  BY DEF Inv, WriteIsDone, Returned, WritePc, Sending, DriveWrites, driverVars
<1> QED BY <1>1, <1>2, <1>3, <1>4, <1>5, <1>6, <1>7, <1>8, <1>9 DEF Inv

LEMMA DriveFlushesStep ==
  ASSUME Inv, DriveFlushes
  PROVE  Inv'
<1>1. Types'
  BY DEF Inv, Types, DriveFlushes, driverVars
<1>2. Reachable'
  BY DEF Inv, Reachable, DriveFlushes, driverVars
<1>3. Probing'
  BY DEF Inv, Probing, DriveFlushes, driverVars
<1>4. Sending'
  BY DEF Inv, Sending, DriveFlushes
<1>5. Accessing'
  BY DEF Inv, Accessing, Present, Slot, OutOfRange, DriveFlushes, driverVars
<1>6. InRead'
  BY DEF Inv, InRead, DriveFlushes, driverVars
<1>7. InWrite'
  BY DEF Inv, InWrite, Wanted, DriveFlushes, driverVars
<1>8. ReadReturnsData'
  BY DEF Inv, ReadReturnsData, Returned, AccessPc, WritePc, Probing, DriveFlushes,
     driverVars
<1>9. WriteIsDone'
  BY DEF Inv, WriteIsDone, Returned, Probing, AccessPc, WritePc, DriveFlushes, driverVars
<1> QED BY <1>1, <1>2, <1>3, <1>4, <1>5, <1>6, <1>7, <1>8, <1>9 DEF Inv

LEMMA DriveFailsStep ==
  ASSUME Inv, DriveFails
  PROVE  Inv'
<1>1. Types'
  BY AtaAssumption DEF Inv, Types, DriveFails, driverVars
<1>2. Reachable'
  BY DEF Inv, Reachable, DriveFails, driverVars
<1>3. Probing'
  BY DEF Inv, Probing, DriveFails, driverVars
<1>4. Sending'
  BY DEF Sending, DriveFails
<1>5. Accessing'
  BY DEF Inv, Accessing, Present, Slot, OutOfRange, DriveFails, driverVars
<1>6. InRead'
  BY DEF Inv, InRead, Blocks, Content, DriveFails, driverVars
<1>7. InWrite'
  BY DEF Inv, Types, InWrite, Requests, Jobs, Pending, DriveFails, driverVars
<1>8. ReadReturnsData'
  BY DEF Inv, ReadReturnsData, Returned, Content, Slot, DriveFails, driverVars
<1>9. WriteIsDone'
  BY DEF WriteIsDone, DriveFails
<1> QED BY <1>1, <1>2, <1>3, <1>4, <1>5, <1>6, <1>7, <1>8, <1>9 DEF Inv

-----------------------------------------------------------------------------
(***************************************************************************)
(* The calls, and the power coming on.                                     *)
(***************************************************************************)
Asked ==
  [op : {"read", "write"}, drive : Nat, lba : 0 .. LbaMod - 1, n : 1 .. Byte - 1]

LEMMA CallStep ==
  ASSUME Inv, NEW r \in Asked, Refused(r) \/ PacketDevice(r) \/ Access(r)
  PROVE  Inv'
<1>1. /\ pc = "idle" /\ req' = r /\ i' = 0 /\ buffer' = << >> /\ failed' = FALSE
      /\ UNCHANGED << machine, g_ide_devices, position, status, job, sent, written >>
      /\ flushed' = FALSE
  BY DEF Refused, PacketDevice, Access, Call
<1>2. /\ r \in Requests /\ r.op \in {"read", "write"} /\ r.n # 0
  BY Widths DEF Asked, Requests
<1>3. \/ pc' = "idle" /\ result' \in {-1, -2}
      \/ pc' = "idle" /\ result' \in {0, 19} /\ Slot(r.drive).type = "IDE_ATAPI"
      \/ /\ pc' = "command" /\ result' = result
         /\ Present(r.drive) /\ Slot(r.drive).type = "IDE_ATA" /\ ~ OutOfRange(r)
  BY <1>1 DEF Refused, PacketDevice, Access
<1>4. ~ sent
  BY <1>1 DEF Inv, Sending, WritePc
<1>5. Types'
  <2>1. result' \in Codes
    BY <1>3 DEF Inv, Types, Codes
  <2>2. pc' \in {"idle", "command"}
    BY <1>3
  <2>3. i' \in 0 .. Byte - 1
    BY <1>1, Widths
  <2>4. buffer' \in Seq(Nat \X BOOLEAN) /\ Len(buffer') <= i'
    BY <1>1, EmptySeq
  <2>5. pc' \in ProbePc \cup {"idle"} \cup AccessPc
    BY <2>2 DEF AccessPc
  <2>6. /\ machine' \in Machines
        /\ g_ide_devices' \in Seq(Slots) /\ Len(g_ide_devices') <= 4
        /\ position' \in 1 .. 4 /\ req' \in Requests
        /\ status' \in {"idle", "busy", "ready", "error", "fault"}
        /\ job' \in Jobs /\ written' \subseteq Nat
        /\ sent' \in BOOLEAN /\ failed' \in BOOLEAN /\ flushed' \in BOOLEAN
    BY <1>1, <1>2 DEF Inv, Types
  <2> QED BY <2>1, <2>3, <2>4, <2>5, <2>6 DEF Types
<1>6. Reachable'
  BY <1>1 DEF Inv, Reachable
<1>7. Probing'
  BY <1>1, <1>3 DEF Inv, Probing, ProbePc, AccessPc, WritePc
<1>8. Sending'
  BY <1>1, <1>4 DEF Sending
<1>9. Accessing'
  <2>1. CASE pc' = "idle"
    BY <2>1 DEF Accessing, AccessPc, WritePc
  <2>2. CASE pc' # "idle"
    <3>1. /\ pc' = "command"
          /\ Present(r.drive) /\ Slot(r.drive).type = "IDE_ATA" /\ ~ OutOfRange(r)
      BY <1>3, <2>2
    <3>2. Present(req.drive)' /\ (Slot(req.drive).type = "IDE_ATA")' /\ ~ OutOfRange(req)'
      BY <1>1, <3>1 DEF Present, Slot, OutOfRange
    <3> QED BY <1>1, <1>2, <3>1, <3>2 DEF Accessing
  <2> QED BY <2>1, <2>2
<1>10. InRead' /\ InWrite'
  BY <1>3 DEF InRead, InWrite, WritePc
<1>11. ReadReturnsData'
  BY <1>1, <1>3 DEF ReadReturnsData, Returned, Slot
<1>12. WriteIsDone'
  BY <1>1, <1>3 DEF WriteIsDone, Returned, Slot
<1> QED BY <1>5, <1>6, <1>7, <1>8, <1>9, <1>10, <1>11, <1>12 DEF Inv

LEMMA PowerOnInv == machine \in Machines /\ written \subseteq Nat /\ PowerOn => Inv
<1> SUFFICES ASSUME machine \in Machines, written \subseteq Nat, PowerOn
             PROVE  Inv
  OBVIOUS
<1>1. /\ g_ide_devices = << >> /\ pc = "probe" /\ position = 1 /\ req = NoRequest
      /\ i = 0 /\ buffer = << >> /\ result = 0 /\ status = "idle" /\ job = NoJob
      /\ sent = FALSE /\ failed = FALSE /\ flushed = FALSE
  BY DEF PowerOn
<1>2. NoRequest \in Requests /\ NoJob \in Jobs /\ 0 \in 0 .. Byte - 1
  <2>1. 0 \in 0 .. LbaMod - 1 /\ 0 \in 0 .. Byte - 1
    BY Powers, SMT
  <2> QED BY <2>1, NoJobs DEF NoRequest, Requests
<1>3. Types
  <2>1. /\ g_ide_devices \in Seq(Slots) /\ Len(g_ide_devices) <= 4
        /\ buffer \in Seq(Nat \X BOOLEAN) /\ Len(buffer) <= i
    BY <1>1, EmptySeq
  <2>2. position \in 1 .. 4 /\ result \in Codes /\ i \in 0 .. Byte - 1
    BY <1>1, <1>2 DEF Codes
  <2> QED BY <1>1, <1>2, <2>1, <2>2 DEF Types, ProbePc
<1>4. Reachable /\ Probing /\ Sending /\ Accessing /\ InRead /\ InWrite
  BY <1>1 DEF Reachable, Probing, Sending, Accessing, InRead, InWrite, AccessPc, WritePc
<1>5. ReadReturnsData /\ WriteIsDone
  BY <1>1 DEF ReadReturnsData, WriteIsDone, Returned
<1> QED BY <1>3, <1>4, <1>5 DEF Inv

LEMMA Stutter == ASSUME Inv, UNCHANGED vars PROVE Inv'
<1> USE DEF vars, driverVars, driveVars
<1>1. Types'
  BY DEF Inv, Types
<1>2. Reachable' /\ Probing' /\ Sending'
  BY DEF Inv, Reachable, Probing, Sending
<1>3. Accessing'
  BY DEF Inv, Accessing, Present, Slot, OutOfRange
<1>4. InRead'
  BY DEF Inv, InRead, Blocks, Content
<1>5. InWrite'
  BY DEF Inv, InWrite, Pending, Wanted
<1>6. ReadReturnsData' /\ WriteIsDone'
  BY DEF Inv, ReadReturnsData, WriteIsDone, Returned, Slot, Content, Wanted
<1> QED BY <1>1, <1>2, <1>3, <1>4, <1>5, <1>6 DEF Inv

(* No step of the driver or of the drive disturbs the invariant. *)
LEMMA DriverKeeps == ASSUME Inv, Driver PROVE Inv'
  BY Stutter, IdentifyStep, AnsweredStep, NotAtaStep, SendCommandStep, ReadSectorStep,
     ReadFailsStep, WriteSectorStep, FlushStep, WriteReturnsStep
     DEF Driver, ide_init, LoopForever

LEMMA DriveKeeps == ASSUME Inv, Drive PROVE Inv'
  BY DriveIdentifiedStep, DriveReadyStep, DriveWritesStep, DriveFlushesStep, DriveFailsStep
     DEF Drive

LEMMA CallsKeep == ASSUME Inv, CallDriver PROVE Inv'
<1>1. PICK d \in Nat : d = ata_get_drive_by_model("QEMU HARDDISK")
  BY DriveNumber DEF Inv
<1>2. PICK op \in {"read", "write"}, lba \in Lba, n \in Count, drive \in 0 .. 3 \cup {d} :
        LET r == [op |-> op, drive |-> drive, lba |-> lba, n |-> n]
        IN  Refused(r) \/ PacketDevice(r) \/ Access(r)
  BY <1>1 DEF CallDriver
<1>3. drive \in Nat /\ lba \in 0 .. LbaMod - 1 /\ n \in 1 .. Byte - 1
  BY AtaAssumption
<1>4. [op |-> op, drive |-> drive, lba |-> lba, n |-> n] \in Asked
  BY <1>3 DEF Asked
<1> QED BY <1>2, <1>4, CallStep

-----------------------------------------------------------------------------
(***************************************************************************)
(* The theorems.                                                           *)
(***************************************************************************)
LEMMA Invariant == Spec => []Inv
<1>1. Init => Inv
  BY PowerOnInv DEF Init
<1>2. Inv /\ [Next]_vars => Inv'
  BY Stutter, DriverKeeps, DriveKeeps, CallsKeep DEF Next
<1> QED BY <1>1, <1>2, PTL DEF Spec

LEMMA InvTypeOK == Inv => TypeOK
<1> SUFFICES ASSUME Inv PROVE TypeOK
  OBVIOUS
<1>1. result \in {-1, -2, 0} \cup UNION {ErrorCode[s] : s \in DOMAIN ErrorCode}
  <2>1. UNION {ErrorCode[s] : s \in DOMAIN ErrorCode} = {2, 3, 7, 13, 19, 20, 21, 22, 23}
    BY DEF ErrorCode
  <2> QED BY <2>1 DEF Inv, Types, Codes
<1>2. job.op \in {"none", "identify", "packet", "read", "write", "flush"}
      /\ job.left \in 0 .. Byte - 1
  BY DEF Inv, Types, Jobs
<1> QED BY <1>1, <1>2 DEF Inv, Types, TypeOK, ProbePc, AccessPc, WritePc

(* Every variable has its type: in particular no more than four slots are  *)
(* filled, and a buffer never holds more than the sectors counted, for     *)
(* every machine and every width of the registers.                         *)
THEOREM AtaTypeCorrect == Spec => []TypeOK
BY InvTypeOK, Invariant, PTL

(* A read that returns 0 has filled the buffer with the blocks asked for,  *)
(* in order and as last written (ide_ata_access), for every block, count,  *)
(* drive and width of the registers, however the calls before it ended.    *)
THEOREM ReadSafety == Spec => []ReadReturnsData
<1>1. Inv => ReadReturnsData
  BY DEF Inv
<1> QED BY <1>1, Invariant, PTL

(* A write to a drive that does not fail is done when it returns: the poll *)
(* after the flush waits for the last sector.                              *)
THEOREM WriteSafety == Spec => []WriteIsDone
<1>1. Inv => WriteIsDone
  BY DEF Inv
<1> QED BY <1>1, Invariant, PTL

(* A write puts nothing anywhere but where its caller asked, whatever the  *)
(* drive reports, and a read nothing at all.                               *)
THEOREM WritesWanted == Spec => OnlyWantedWritten
<1> DEFINE A == \A b \in written' : b \in written \/ (req.op = "write" /\ b \in Wanted)
<1>1. Inv /\ [Next]_vars => [A]_vars
  <2> SUFFICES ASSUME Inv, Next PROVE A
    OBVIOUS
  <2>1. CASE DriveWrites
    <3>1. /\ req.lba \in Nat /\ req.n \in Nat /\ i \in Nat /\ job.at \in Nat /\ job.left \in Nat
      BY CallNumbers DEF Inv
    <3>2. sent /\ pc \in WritePc /\ job.op = "write" /\ written' = written \cup {job.at}
      BY <2>1 DEF Inv, Sending, DriveWrites
    <3>3. /\ job.at >= req.lba /\ job.at + job.left = req.lba + req.n
          /\ job.left >= Pending /\ i <= req.n
      BY <3>1, <3>2 DEF Inv, InWrite, WritePc
    <3>4. job.left >= 1
      BY <3>1, <3>2, <3>3 DEF Pending
    <3>5. job.at \in Wanted
      BY <3>1, <3>3, <3>4 DEF Wanted
    <3>6. req.op = "write"
      BY <3>2 DEF Inv, Accessing, AccessPc, WritePc
    <3> QED BY <3>2, <3>5, <3>6
  <2>2. CASE ~ DriveWrites
    <3>1. CASE Driver
      BY <3>1 DEF Driver, ide_init, Identify, Answered, NotAta, LoopForever, vars,
         driveVars, SendCommand, ReadSector, ReadFails, WriteSector, Flush, WriteReturns
    <3>2. CASE CallDriver
      <4>1. PICK r : Refused(r) \/ PacketDevice(r) \/ Access(r)
        BY <3>2 DEF CallDriver
      <4> QED BY <4>1 DEF Refused, PacketDevice, Access, Call
    <3>3. CASE Drive
      BY <2>2, <3>3 DEF Drive, DriveIdentified, DriveReady, DriveFlushes, DriveFails
    <3> QED BY <3>1, <3>2, <3>3 DEF Next
  <2> QED BY <2>1, <2>2
<1> QED BY <1>1, Invariant, PTL DEF Spec, OnlyWantedWritten

-----------------------------------------------------------------------------
(***************************************************************************)
(* The boot over the driver.                                               *)
(***************************************************************************)
HardDisk == "QEMU HARDDISK"

-----------------------------------------------------------------------------
(***************************************************************************)
(* The inductive invariant, beside that of the driver.                     *)
(***************************************************************************)
(* The call that is next, or under way. *)
NextCall == IF InLoop THEN [op |-> "read", lba |-> DesktopCfg] ELSE Calls[call]

BootTypes ==
  /\ isInstalled \in BOOLEAN /\ build \in BOOLEAN /\ mayFail \in BOOLEAN
  /\ call \in 1 .. 12 /\ boots \in 1 .. MaxBoots
  /\ calling \in BOOLEAN /\ landed \in BOOLEAN
  /\ preview \in {"none", "empty", "file", "other"}

(* A slot with the model name is that of a disk, which holds the sectors.  *)
Seen == \E d \in DOMAIN g_ide_devices : g_ide_devices[d].model = HardDisk

DiskSlots ==
  \A d \in DOMAIN g_ide_devices : g_ide_devices[d].model = HardDisk =>
    Disks # {} /\ g_ide_devices[d].type = "IDE_ATA" /\ g_ide_devices[d].size > 6

(* Who answers while the drives are looked for. *)
Answers ==
  /\ job.op = "packet" => machine[job.at] = "cdrom"
  /\ status = "busy" /\ job.op = "identify" => pc = "identify"
  /\ pc = "identify" /\ job.op = "identify" => job.at = position
  /\ pc = "identify" /\ job.op = "identify" /\ status = "ready"
       => machine[job.at] \in {"disk", "oldDisk"}

(* A disk that works and that no packet device hides is found. *)
DiskFound ==
  ~ mayFail =>
    \A p \in Disks : ~ Hidden(p) =>
      /\ pc \notin ProbePc \/ position > p => Seen
      /\ pc = "identify" /\ position = p
           => job.op = "identify" /\ status \in {"busy", "ready"}

(* Without failures nothing but a probed packet device reports an error.   *)
Faultless ==
  ~ mayFail =>
    /\ ~ failed /\ status # "fault"
    /\ status = "error" => pc = "identify"
    /\ pc = "pollRead" => status \in {"busy", "ready"}

(* The driver is at the boot's call, or at none. *)
Calling ==
  /\ IF calling
     THEN /\ pc \notin ProbePc
          /\ req = [op |-> NextCall.op, lba |-> NextCall.lba, n |-> 1, drive |-> DRIVE]
     ELSE pc \in ProbePc \cup {"idle"} /\ ~ landed
  /\ pc \in ProbePc => call = 1 /\ isInstalled = build /\ preview = "none"
  /\ landed => call \in 2 .. 7 /\ pc \notin {"command", "pollWrite"} /\ ~ sent

(* What a call has come to when the driver has returned. *)
Outcome ==
  /\ Disks = {} => buffer = << >>
  /\ calling /\ pc = "idle" /\ NextCall.op = "read"
       => buffer \in {<< >>, << Content(NextCall.lba) >>}
  /\ calling /\ pc = "idle" /\ KernelDrive = "good"
       => IF NextCall.op = "read" THEN buffer # << >> ELSE NextCall.lba \in written

(* A good drive holds the sectors whose calls have ended. *)
OnDisk ==
  KernelDrive = "good" =>
    /\ \A s \in 1 .. 6 : s + 1 < call => s \in written
    /\ preview \in {"none", "file"}

BootInv ==
  /\ Inv /\ BootTypes /\ DiskSlots /\ Answers /\ DiskFound
  /\ Faultless /\ Calling /\ Outcome /\ OnDisk

-----------------------------------------------------------------------------
(***************************************************************************)
(* The boot's calls and its drive.                                         *)
(***************************************************************************)
CallRecords == [op : {"read", "write"}, lba : 1 .. 6]

LEMMA CallTable ==
  /\ Len(Calls) = 11
  /\ \A c \in 1 .. 11 :
       Calls[c] = IF c = 1 THEN [op |-> "read", lba |-> 2]
                  ELSE IF c <= 7 THEN [op |-> "write", lba |-> c - 1]
                  ELSE [op |-> "read", lba |-> c - 5]
<1> DEFINE first == << [op |-> "read", lba |-> Marker] >>
           writes == [s \in 1 .. 6 |-> [op |-> "write", lba |-> s]]
           reads == [s \in 1 .. 4 |-> [op |-> "read", lba |-> s + 2]]
<1>1. first \in Seq(CallRecords) /\ Len(first) = 1 /\ first[1] = [op |-> "read", lba |-> 2]
  BY DEF CallRecords, Marker
<1>2. writes \in Seq(CallRecords) /\ Len(writes) = 6
      /\ \A s \in 1 .. 6 : writes[s] = [op |-> "write", lba |-> s]
  <2>1. \A s \in 1 .. 6 : writes[s] \in CallRecords
    BY DEF CallRecords
  <2> QED BY <2>1, IsASeq
<1>3. reads \in Seq(CallRecords) /\ Len(reads) = 4
      /\ \A s \in 1 .. 4 : reads[s] = [op |-> "read", lba |-> s + 2]
  <2>1. \A s \in 1 .. 4 : reads[s] \in CallRecords
    BY DEF CallRecords
  <2> QED BY <2>1, IsASeq
<1>4. Calls = first \o writes \o reads
  BY DEF Calls, CallsOf
<1> HIDE DEF first, writes, reads
<1>5. PICK half : half = first \o writes
  OBVIOUS
<1>6. half \in Seq(CallRecords) /\ Len(half) = 7
      /\ \A c \in 1 .. 7 : half[c] = IF c <= 1 THEN first[c] ELSE writes[c - 1]
  <2>1. /\ half \in Seq(CallRecords) /\ Len(half) = Len(first) + Len(writes)
        /\ \A c \in 1 .. Len(first) + Len(writes) :
             half[c] = IF c <= Len(first) THEN first[c] ELSE writes[c - Len(first)]
    BY <1>1, <1>2, <1>5, ConcatProperties
  <2>2. Len(first) + Len(writes) = 7
    BY <1>1, <1>2
  <2> QED BY <1>1, <2>1, <2>2
<1>7. /\ Len(Calls) = 11
      /\ \A c \in 1 .. 11 : Calls[c] = IF c <= 7 THEN half[c] ELSE reads[c - 7]
  <2>1. Calls = half \o reads
    BY <1>4, <1>5
  <2>2. /\ Len(half \o reads) = Len(half) + Len(reads)
        /\ \A c \in 1 .. Len(half) + Len(reads) :
             (half \o reads)[c] = IF c <= Len(half) THEN half[c] ELSE reads[c - Len(half)]
    BY <1>3, <1>6, ConcatProperties
  <2>3. Len(half) + Len(reads) = 11
    BY <1>3, <1>6
  <2> QED BY <1>6, <2>1, <2>2, <2>3
<1>8. ASSUME NEW c \in 1 .. 11
      PROVE  Calls[c] = IF c = 1 THEN [op |-> "read", lba |-> 2]
                        ELSE IF c <= 7 THEN [op |-> "write", lba |-> c - 1]
                        ELSE [op |-> "read", lba |-> c - 5]
  <2>1. CASE c = 1
    BY <1>1, <1>6, <1>7, <2>1
  <2>2. CASE c \in 2 .. 7
    <3>1. c - 1 \in 1 .. 6 /\ ~ (c <= 1) /\ c <= 7 /\ c \in 1 .. 7
      BY <2>2
    <3>2. Calls[c] = writes[c - 1]
      BY <1>6, <1>7, <3>1
    <3> QED BY <1>2, <3>1, <3>2, <2>2
  <2>3. CASE c \in 8 .. 11
    <3>1. c - 7 \in 1 .. 4 /\ ~ (c <= 7) /\ (c - 7) + 2 = c - 5 /\ c # 1
      BY <2>3
    <3>2. Calls[c] = reads[c - 7]
      BY <1>7, <3>1
    <3> QED BY <1>3, <3>1, <3>2
  <2> QED BY <2>1, <2>2, <2>3
<1> QED BY <1>7, <1>8

(* The call at hand. *)
LEMMA NextCallIs ==
  call \in 1 .. 12 =>
    /\ NextCall.op \in {"read", "write"} /\ NextCall.lba \in 1 .. 6
    /\ NextCall.op = "write" <=> call \in 2 .. 7
    /\ NextCall.op = "write" => NextCall.lba = call - 1
    /\ call = 1 => NextCall.lba = 2
    /\ call = 12 => NextCall.lba = 6
    /\ InLoop <=> call = 12
<1> SUFFICES ASSUME call \in 1 .. 12
             PROVE  /\ NextCall.op \in {"read", "write"} /\ NextCall.lba \in 1 .. 6
                    /\ NextCall.op = "write" <=> call \in 2 .. 7
                    /\ NextCall.op = "write" => NextCall.lba = call - 1
                    /\ call = 1 => NextCall.lba = 2
                    /\ call = 12 => NextCall.lba = 6
                    /\ InLoop <=> call = 12
  OBVIOUS
<1>1. InLoop <=> call = 12
  BY CallTable DEF InLoop
<1>2. CASE call = 12
  BY <1>1, <1>2 DEF NextCall, DesktopCfg
<1>3. CASE call # 12
  <2>1. call \in 1 .. 11
    BY <1>3
  <2>2. NextCall = IF call = 1 THEN [op |-> "read", lba |-> 2]
                   ELSE IF call <= 7 THEN [op |-> "write", lba |-> call - 1]
                   ELSE [op |-> "read", lba |-> call - 5]
    BY <1>1, <2>1, CallTable DEF NextCall
  <2> QED BY <1>1, <1>3, <2>1, <2>2
<1> QED BY <1>2, <1>3

(* The slot the kernel's calls go to, if a disk was seen. *)
LEMMA TheDrive ==
  Types =>
    /\ DRIVE \in Nat
    /\ Seen => Present(DRIVE) /\ Slot(DRIVE).model = HardDisk /\ DRIVE + 1 \in DOMAIN g_ide_devices
    /\ ~ Seen => ~ Present(DRIVE)
<1> SUFFICES ASSUME Types
             PROVE  /\ DRIVE \in Nat
                    /\ Seen => /\ Present(DRIVE) /\ Slot(DRIVE).model = HardDisk
                               /\ DRIVE + 1 \in DOMAIN g_ide_devices
                    /\ ~ Seen => ~ Present(DRIVE)
  OBVIOUS
<1> DEFINE S == {d \in DOMAIN g_ide_devices : g_ide_devices[d].model = HardDisk}
<1>2. CASE S = {}
  <2>1. DRIVE = 255
    BY <1>2 DEF DRIVE, ata_get_drive_by_model, HardDisk
  <2>2. ~ Seen
    BY <1>2 DEF Seen
  <2> QED BY <2>1, <2>2 DEF Present, MAXIMUM_IDE_DEVICES
<1>3. CASE S # {}
  <2>1. PICK d \in S : DRIVE = d - 1
    BY <1>3, FirstSlot DEF DRIVE, HardDisk
  <2>2. d \in 1 .. 4 /\ DRIVE + 1 = d /\ DRIVE <= 3
    BY <2>1 DEF Types
  <2>3. Seen
    BY <1>3 DEF Seen
  <2> QED BY <2>1, <2>2, <2>3 DEF Present, Slot, MAXIMUM_IDE_DEVICES
<1> QED BY <1>2, <1>3

-----------------------------------------------------------------------------
(***************************************************************************)
(* The steps of the driver and of the drive.                               *)
(***************************************************************************)
LEMMA SameCall ==
  ASSUME UNCHANGED << g_ide_devices, call >>
  PROVE  NextCall' = NextCall /\ DRIVE' = DRIVE /\ InLoop' = InLoop /\ (Seen <=> Seen')
BY DEF NextCall, InLoop, DRIVE, ata_get_drive_by_model, Seen

LEMMA SameDrive ==
  ASSUME UNCHANGED << machine, mayFail >>
  PROVE  KernelDrive' = KernelDrive /\ Disks' = Disks /\ \A p : Hidden(p)' <=> Hidden(p)
BY DEF KernelDrive, Disks, Hidden

(* The drive of a call under way was seen. *)
LEMMA AtDrive ==
  ASSUME BootInv, pc \in AccessPc
  PROVE  /\ calling /\ req.op = NextCall.op /\ req.lba = NextCall.lba /\ req.n = 1 /\ req.drive = DRIVE
         /\ Seen /\ Slot(DRIVE).type = "IDE_ATA" /\ Disks # {}
<1>1. calling
  BY DEF BootInv, Calling, AccessPc, ProbePc, WritePc
<1>2. req.op = NextCall.op /\ req.lba = NextCall.lba /\ req.n = 1 /\ req.drive = DRIVE
  BY <1>1 DEF BootInv, Calling
<1>3. Present(DRIVE) /\ Slot(DRIVE).type = "IDE_ATA"
  BY <1>2 DEF BootInv, Inv, Accessing
<1>4. Seen /\ DRIVE + 1 \in DOMAIN g_ide_devices /\ Slot(DRIVE).model = HardDisk
  BY <1>3, TheDrive DEF BootInv, Inv
<1>5. Disks # {}
  BY <1>4 DEF BootInv, DiskSlots, Slot
<1> QED BY <1>1, <1>2, <1>3, <1>4, <1>5

(* A drive that counts as good does not fail, and ide_init finds it. *)
LEMMA GoodDrive ==
  KernelDrive = "good" => ~ mayFail /\ \E p \in Disks : ~ Hidden(p)
BY DEF KernelDrive

LEMMA DiskKinds ==
  ASSUME Types, NEW p
  PROVE  p \in Disks <=> p \in 1 .. 4 /\ machine[p] \in {"disk", "oldDisk"}
<1>1. ASSUME p \in 1 .. 4 PROVE machine[p] \in Kind
  BY <1>1, AtaAssumption DEF Types
<1> QED BY <1>1 DEF Disks, ModelOf, Kind

(* The slots with one more. *)
LEMMA SlotAdded ==
  ASSUME Types, NEW s \in Slots, g_ide_devices' = Append(g_ide_devices, s)
  PROVE  /\ DOMAIN g_ide_devices' = DOMAIN g_ide_devices \cup {Len(g_ide_devices) + 1}
         /\ \A d \in DOMAIN g_ide_devices : g_ide_devices'[d] = g_ide_devices[d]
         /\ g_ide_devices'[Len(g_ide_devices) + 1] = s
BY DEF Types

LEMMA SeenStays ==
  ASSUME Types, NEW s \in Slots, g_ide_devices' = Append(g_ide_devices, s)
  PROVE  (Seen => Seen') /\ (s.model = HardDisk => Seen')
BY SlotAdded DEF Seen

(* A buffer of at most one sector. *)
LEMMA OneOrNone ==
  ASSUME NEW c, NEW m, NEW buf \in {<< >>, << c >>}
  PROVE  buf = << m >> <=> buf # << >> /\ c = m
<1>1. << >> # << m >> /\ << >> # << c >>
  OBVIOUS
<1>2. << c >> = << m >> <=> c = m
  <2>1. << c >>[1] = c /\ << m >>[1] = m
    OBVIOUS
  <2> QED BY <2>1
<1> QED BY <1>1, <1>2

LEMMA BootSendCommand ==
  ASSUME BootInv, SendCommand, UNCHANGED bootVars
  PROVE  BootInv'
<1>1. Inv'
  BY SendCommandStep DEF BootInv
<1>2. BootTypes'
  BY DEF BootInv, BootTypes, bootVars
<1>3. DiskSlots'
  BY SameDrive DEF BootInv, DiskSlots, SendCommand, bootVars
<1>4. Answers'
  <2>1. job'.op \in {"read", "write"}
    BY DEF BootInv, Inv, Types, Requests, Accessing, AccessPc, SendCommand
  <2>2. job'.op # "packet" /\ job'.op # "identify"
    BY <2>1
  <2> QED BY <2>2 DEF Answers
<1>5. DiskFound'
  BY SameDrive, SameCall DEF BootInv, DiskFound, ProbePc, SendCommand, bootVars
<1>6. Faultless'
  BY DEF BootInv, Faultless, SendCommand, bootVars
<1>7. Calling'
  BY SameCall DEF BootInv, Calling, ProbePc, SendCommand, bootVars
<1>8. Outcome'
  BY SameDrive DEF BootInv, Outcome, SendCommand, bootVars
<1>9. OnDisk'
  BY SameDrive DEF BootInv, OnDisk, SendCommand, bootVars
<1> QED BY <1>1, <1>2, <1>3, <1>4, <1>5, <1>6, <1>7, <1>8, <1>9 DEF BootInv

LEMMA BootReadSector ==
  ASSUME BootInv, ReadSector, UNCHANGED bootVars
  PROVE  BootInv'
<1>1. Inv'
  BY ReadSectorStep DEF BootInv
<1>2. BootTypes'
  BY DEF BootInv, BootTypes, bootVars
<1>3. DiskSlots'
  BY SameDrive DEF BootInv, DiskSlots, ReadSector, bootVars
<1>4. Answers'
  BY DEF BootInv, Inv, Answers, InRead, ReadSector
<1>5. DiskFound'
  BY SameDrive, SameCall DEF BootInv, DiskFound, ProbePc, ReadSector, Return, bootVars
<1>6. Faultless'
  <2>1. pc' = "idle" /\ status' = "idle" /\ failed' = failed /\ mayFail' = mayFail
    <3>1. req.n = 1 /\ i = 0 /\ job.left = 1
      BY AtDrive, CallNumbers DEF BootInv, Inv, InRead, ReadSector, AccessPc
    <3> QED BY <3>1 DEF ReadSector, Return, bootVars
  <2> QED BY <2>1 DEF BootInv, Faultless
<1>7. Calling'
  BY SameCall DEF BootInv, Calling, ProbePc, ReadSector, Return, bootVars
<1>8. Outcome'
  <2>1. /\ pc = "pollRead" /\ pc \in AccessPc /\ req.op = "read"
    BY DEF BootInv, Inv, Accessing, ReadSector, AccessPc
  <2>2. req.n = 1 /\ req.lba = NextCall.lba /\ req.op = NextCall.op /\ Disks # {} /\ req.lba \in Nat
    BY <2>1, AtDrive, CallNumbers DEF BootInv, Inv
  <2>3. i = 0 /\ job.at = req.lba /\ buffer = Blocks(0)
    BY <2>1, <2>2, CallNumbers DEF BootInv, Inv, InRead
  <2>4. buffer = << >>
    BY <2>2, <2>3, BlocksAsSeq
  <2>5. buffer' = << Content(NextCall.lba) >> /\ written' = written
    <3>1. PICK c : c = Content(NextCall.lba)
      OBVIOUS
    <3>2. buffer' = Append(<< >>, c) /\ written' = written
      BY <2>2, <2>3, <2>4, <3>1 DEF ReadSector
    <3> QED BY <3>1, <3>2
  <2>6. /\ NextCall' = NextCall /\ Disks' = Disks
        /\ Content(NextCall.lba)' = Content(NextCall.lba)
    BY SameCall, SameDrive DEF ReadSector, bootVars, Content
  <2> QED BY <2>1, <2>2, <2>5, <2>6 DEF Outcome
<1>9. OnDisk'
  BY SameDrive DEF BootInv, OnDisk, ReadSector, bootVars
<1> QED BY <1>1, <1>2, <1>3, <1>4, <1>5, <1>6, <1>7, <1>8, <1>9 DEF BootInv

LEMMA BootReadFails ==
  ASSUME BootInv, ReadFails, UNCHANGED bootVars
  PROVE  BootInv'
<1>1. Inv'
  BY ReadFailsStep DEF BootInv
<1>2. BootTypes'
  BY DEF BootInv, BootTypes, bootVars
<1>3. DiskSlots'
  BY SameDrive DEF BootInv, DiskSlots, ReadFails, bootVars
<1>4. Answers'
  BY DEF BootInv, Answers, ReadFails, Return, driveVars
<1>5. DiskFound'
  BY SameDrive, SameCall DEF BootInv, DiskFound, ProbePc, ReadFails, Return, bootVars
<1>6. Faultless'
  BY DEF BootInv, Faultless, ReadFails, ErrorCode, bootVars
<1>7. Calling'
  BY SameCall DEF BootInv, Calling, ProbePc, ReadFails, Return, bootVars, driveVars
<1>8. Outcome'
  <2>1. /\ pc = "pollRead" /\ pc \in AccessPc /\ req.op = "read"
    BY DEF BootInv, Inv, Accessing, ReadFails, AccessPc
  <2>2. req.n = 1 /\ req.op = NextCall.op /\ Disks # {} /\ req.lba \in Nat
    BY <2>1, AtDrive, CallNumbers DEF BootInv, Inv
  <2>3. i = 0 /\ buffer = Blocks(0)
    BY <2>1, <2>2, CallNumbers DEF BootInv, Inv, InRead
  <2>4. buffer' = << >>
    BY <2>2, <2>3, BlocksAsSeq DEF ReadFails
  <2>5. KernelDrive # "good"
    BY GoodDrive DEF BootInv, Faultless, ReadFails, ErrorCode
  <2>6. NextCall' = NextCall /\ Disks' = Disks /\ KernelDrive' = KernelDrive
    BY SameCall, SameDrive DEF ReadFails, bootVars
  <2> QED BY <2>4, <2>5, <2>6 DEF Outcome
<1>9. OnDisk'
  BY SameDrive DEF BootInv, OnDisk, ReadFails, bootVars, driveVars
<1> QED BY <1>1, <1>2, <1>3, <1>4, <1>5, <1>6, <1>7, <1>8, <1>9 DEF BootInv

LEMMA BootWriteSector ==
  ASSUME BootInv, WriteSector, UNCHANGED bootVars
  PROVE  BootInv'
<1>1. Inv'
  BY WriteSectorStep DEF BootInv
<1>2. BootTypes'
  BY DEF BootInv, BootTypes, bootVars
<1>3. DiskSlots'
  BY SameDrive DEF BootInv, DiskSlots, WriteSector, bootVars
<1>4. Answers'
  BY DEF BootInv, Inv, Answers, InWrite, WriteSector
<1>5. DiskFound'
  BY SameDrive, SameCall DEF BootInv, DiskFound, ProbePc, WriteSector, bootVars
<1>6. Faultless'
  BY DEF BootInv, Faultless, WriteSector, bootVars
<1>7. Calling'
  BY SameCall DEF BootInv, Calling, ProbePc, WriteSector, bootVars
<1>8. Outcome'
  BY SameDrive DEF BootInv, Outcome, WriteSector, bootVars
<1>9. OnDisk'
  BY SameDrive DEF BootInv, OnDisk, WriteSector, bootVars
<1> QED BY <1>1, <1>2, <1>3, <1>4, <1>5, <1>6, <1>7, <1>8, <1>9 DEF BootInv

LEMMA BootFlush ==
  ASSUME BootInv, Flush, UNCHANGED bootVars
  PROVE  BootInv'
<1>1. Inv'
  BY FlushStep DEF BootInv
<1>2. BootTypes'
  BY DEF BootInv, BootTypes, bootVars
<1>3. DiskSlots'
  BY SameDrive DEF BootInv, DiskSlots, Flush, bootVars
<1>4. Answers'
  BY DEF BootInv, Answers, Flush, NoJob
<1>5. DiskFound'
  BY SameDrive, SameCall DEF BootInv, DiskFound, ProbePc, Flush, bootVars
<1>6. Faultless'
  BY DEF BootInv, Faultless, Flush, bootVars
<1>7. Calling'
  BY SameCall DEF BootInv, Calling, ProbePc, Flush, bootVars
<1>8. Outcome'
  BY SameDrive DEF BootInv, Outcome, Flush, bootVars
<1>9. OnDisk'
  BY SameDrive DEF BootInv, OnDisk, Flush, bootVars
<1> QED BY <1>1, <1>2, <1>3, <1>4, <1>5, <1>6, <1>7, <1>8, <1>9 DEF BootInv

LEMMA BootWriteReturns ==
  ASSUME BootInv, WriteReturns, UNCHANGED bootVars
  PROVE  BootInv'
<1>1. Inv'
  BY WriteReturnsStep DEF BootInv
<1>2. BootTypes'
  BY DEF BootInv, BootTypes, bootVars
<1>3. DiskSlots'
  BY SameDrive DEF BootInv, DiskSlots, WriteReturns, bootVars
<1>4. Answers'
  BY DEF BootInv, Answers, WriteReturns, Return, driveVars
<1>5. DiskFound'
  BY SameDrive, SameCall DEF BootInv, DiskFound, ProbePc, WriteReturns, Return, bootVars
<1>6. Faultless'
  BY DEF BootInv, Faultless, WriteReturns, Return, bootVars, driveVars
<1>7. Calling'
  BY SameCall DEF BootInv, Calling, ProbePc, WriteReturns, Return, bootVars, driveVars
<1>8. Outcome'
  <2>1. pc = "pollFlush" /\ pc \in AccessPc /\ req.op = "write"
    BY DEF BootInv, Inv, Accessing, WriteReturns, AccessPc, WritePc
  <2>2. /\ req.n = 1 /\ req.lba = NextCall.lba /\ req.op = NextCall.op /\ Disks # {}
        /\ Slot(req.drive).type = "IDE_ATA" /\ req.lba \in Nat
    BY <2>1, AtDrive, CallNumbers DEF BootInv, Inv
  <2>3. /\ UNCHANGED << req, g_ide_devices, failed, written, buffer >>
        /\ pc' = "idle" /\ result' = 0
    BY DEF WriteReturns, Return, driveVars
  <2>4. ~ failed => Wanted \subseteq written
    <3>1. WriteIsDone'
      BY <1>1 DEF Inv
    <3> QED BY <2>1, <2>2, <2>3, <3>1 DEF WriteIsDone, Returned, Slot, Wanted
  <2>5. NextCall.lba \in Wanted
    BY <2>2 DEF Wanted
  <2>6. KernelDrive = "good" => NextCall.lba \in written
    BY <2>4, <2>5, GoodDrive DEF BootInv, Faultless
  <2>7. NextCall' = NextCall /\ Disks' = Disks /\ KernelDrive' = KernelDrive
    BY SameCall, SameDrive DEF WriteReturns, bootVars
  <2> QED BY <2>1, <2>2, <2>3, <2>6, <2>7 DEF Outcome
<1>9. OnDisk'
  BY SameDrive DEF BootInv, OnDisk, WriteReturns, bootVars, driveVars
<1> QED BY <1>1, <1>2, <1>3, <1>4, <1>5, <1>6, <1>7, <1>8, <1>9 DEF BootInv

LEMMA BootDriveReady ==
  ASSUME BootInv, DriveReady, UNCHANGED bootVars
  PROVE  BootInv'
<1>1. Inv'
  BY DriveReadyStep DEF BootInv
<1>2. BootTypes'
  BY DEF BootInv, BootTypes, bootVars
<1>3. DiskSlots'
  BY SameDrive DEF BootInv, DiskSlots, DriveReady, bootVars, driverVars
<1>4. Answers'
  BY DEF Answers, DriveReady
<1>5. DiskFound'
  BY SameDrive, SameCall DEF BootInv, DiskFound, DriveReady, bootVars, driverVars
<1>6. Faultless'
  BY DEF BootInv, Faultless, DriveReady, bootVars
<1>7. Calling'
  BY SameCall DEF BootInv, Calling, DriveReady, bootVars, driverVars
<1>8. Outcome'
  BY SameCall, SameDrive DEF BootInv, Outcome, Content, DriveReady, bootVars, driverVars
<1>9. OnDisk'
  BY SameDrive DEF BootInv, OnDisk, DriveReady, bootVars
<1> QED BY <1>1, <1>2, <1>3, <1>4, <1>5, <1>6, <1>7, <1>8, <1>9 DEF BootInv

LEMMA BootDriveFlushes ==
  ASSUME BootInv, DriveFlushes, UNCHANGED bootVars
  PROVE  BootInv'
<1>1. Inv'
  BY DriveFlushesStep DEF BootInv
<1>2. BootTypes'
  BY DEF BootInv, BootTypes, bootVars
<1>3. DiskSlots'
  BY SameDrive DEF BootInv, DiskSlots, DriveFlushes, bootVars, driverVars
<1>4. Answers'
  BY DEF Answers, DriveFlushes
<1>5. DiskFound'
  BY SameDrive, SameCall DEF BootInv, DiskFound, DriveFlushes, bootVars, driverVars
<1>6. Faultless'
  BY DEF BootInv, Inv, InRead, Faultless, DriveFlushes, bootVars, driverVars
<1>7. Calling'
  BY SameCall DEF BootInv, Calling, DriveFlushes, bootVars, driverVars
<1>8. Outcome'
  BY SameCall, SameDrive DEF BootInv, Outcome, Content, DriveFlushes, bootVars, driverVars
<1>9. OnDisk'
  BY SameDrive DEF BootInv, OnDisk, DriveFlushes, bootVars
<1> QED BY <1>1, <1>2, <1>3, <1>4, <1>5, <1>6, <1>7, <1>8, <1>9 DEF BootInv

LEMMA BootDriveFails ==
  ASSUME BootInv, mayFail, DriveFails, UNCHANGED bootVars
  PROVE  BootInv'
<1>1. Inv'
  BY DriveFailsStep DEF BootInv
<1>2. BootTypes'
  BY DEF BootInv, BootTypes, bootVars
<1>3. DiskSlots'
  BY SameDrive DEF BootInv, DiskSlots, DriveFails, bootVars, driverVars
<1>4. Answers'
  <2>1. status' \in {"error", "fault"}
    BY AtaAssumption DEF DriveFails
  <2>2. UNCHANGED << job, pc, position, machine >>
    BY DEF DriveFails, driverVars
  <2> QED BY <2>1, <2>2 DEF BootInv, Answers
<1>5. DiskFound'
  BY DEF DiskFound, bootVars
<1>6. Faultless'
  BY DEF Faultless, bootVars
<1>7. Calling'
  BY SameCall DEF BootInv, Calling, DriveFails, bootVars, driverVars
<1>8. Outcome'
  BY SameCall, SameDrive DEF BootInv, Outcome, Content, DriveFails, bootVars, driverVars
<1>9. OnDisk'
  BY SameDrive DEF BootInv, OnDisk, DriveFails, bootVars
<1> QED BY <1>1, <1>2, <1>3, <1>4, <1>5, <1>6, <1>7, <1>8, <1>9 DEF BootInv

LEMMA BootDriveWrites ==
  ASSUME BootInv, DriveWrites, landed' = TRUE,
         UNCHANGED << isInstalled, build, call, calling, boots, mayFail, preview >>
  PROVE  BootInv'
<1>1. Inv'
  BY DriveWritesStep DEF BootInv
<1>2. BootTypes'
  BY DEF BootInv, BootTypes, bootVars
<1>3. DiskSlots'
  BY SameDrive DEF BootInv, DiskSlots, DriveWrites, driverVars
<1>4. Answers'
  BY DEF BootInv, Inv, Answers, Sending, DriveWrites
<1>5. DiskFound'
  <2>1. pc \notin ProbePc /\ UNCHANGED << pc, position >>
    BY DEF BootInv, Inv, Sending, DriveWrites, driverVars, WritePc, ProbePc
  <2> QED BY <2>1, SameDrive, SameCall DEF BootInv, DiskFound, DriveWrites, driverVars,
             ProbePc
<1>6. Faultless'
  BY DEF BootInv, Inv, Sending, Faultless, WritePc, DriveWrites, driverVars
<1>7. Calling'
  <2>1. pc \in WritePc /\ job.op = "write" /\ sent /\ req.op = "write"
    BY DEF BootInv, Inv, Sending, Accessing, DriveWrites, AccessPc, WritePc
  <2>2. calling /\ NextCall.op = "write" /\ req.n = 1
    BY <2>1, AtDrive DEF AccessPc
  <2>3. call \in 2 .. 7
    BY <2>2, NextCallIs DEF BootInv, BootTypes
  <2>4. pc # "pollWrite"
    BY <2>1, <2>2, CallNumbers DEF BootInv, Inv, InWrite, Pending
  <2>5. pc \notin {"command", "pollWrite"} \cup ProbePc
    BY <2>1, <2>4 DEF WritePc, ProbePc
  <2>6. /\ UNCHANGED << pc, req, calling, call, isInstalled, build, preview >> /\ ~ sent'
        /\ NextCall' = NextCall /\ DRIVE' = DRIVE
    BY SameCall DEF DriveWrites, driverVars
  <2> QED BY <2>2, <2>3, <2>5, <2>6 DEF BootInv, Calling
<1>8. Outcome'
  <2>1. pc' # "idle" /\ buffer' = buffer
    BY DEF BootInv, Inv, Sending, DriveWrites, driverVars, WritePc
  <2>2. Disks' = Disks
    BY SameDrive DEF DriveWrites
  <2> QED BY <2>1, <2>2 DEF BootInv, Outcome
<1>9. OnDisk'
  BY SameDrive DEF BootInv, OnDisk, DriveWrites
<1> QED BY <1>1, <1>2, <1>3, <1>4, <1>5, <1>6, <1>7, <1>8, <1>9 DEF BootInv

LEMMA BootDriveIdentified ==
  ASSUME BootInv, DriveIdentified, UNCHANGED bootVars
  PROVE  BootInv'
<1>1. Inv'
  BY DriveIdentifiedStep DEF BootInv
<1>2. BootTypes'
  BY DEF BootInv, BootTypes, bootVars
<1>3. DiskSlots'
  BY SameDrive DEF BootInv, DiskSlots, DriveIdentified, bootVars, driverVars
<1>4. Answers'
  BY DEF BootInv, Answers, DriveIdentified, driverVars
<1>5. DiskFound'
  <2>1. /\ UNCHANGED << mayFail, pc, position, job, machine, g_ide_devices >>
        /\ status = "busy"
        /\ machine[job.at] \in {"disk", "oldDisk"} => status' = "ready"
    BY DEF DriveIdentified, driverVars, bootVars
  <2>2. Disks' = Disks /\ (\A p : Hidden(p)' <=> Hidden(p)) /\ (Seen <=> Seen')
    BY <2>1, SameDrive DEF Seen
  <2>3. ASSUME NEW p \in Disks, job.op = "identify", pc = "identify", position = p
        PROVE  status' = "ready"
    BY <2>1, <2>3, DiskKinds DEF BootInv, Inv, Answers
  <2> QED BY <2>1, <2>2, <2>3 DEF BootInv, DiskFound
<1>6. Faultless'
  <2>1. /\ UNCHANGED << mayFail, pc, failed, job >> /\ status = "busy"
        /\ status' = IF job.op = "packet" \/ machine[job.at] \in {"disk", "oldDisk"}
                     THEN "ready" ELSE "error"
        /\ job.op \in {"identify", "packet"}
    BY DEF DriveIdentified, driverVars, bootVars
  <2>2. status' = "error" => pc = "identify"
    BY <2>1 DEF BootInv, Answers
  <2> QED BY <2>1, <2>2 DEF BootInv, Faultless
<1>7. Calling'
  BY SameCall DEF BootInv, Calling, DriveIdentified, bootVars, driverVars
<1>8. Outcome'
  BY SameCall, SameDrive DEF BootInv, Outcome, Content, DriveIdentified, bootVars,
     driverVars
<1>9. OnDisk'
  BY SameDrive DEF BootInv, OnDisk, DriveIdentified, bootVars
<1> QED BY <1>1, <1>2, <1>3, <1>4, <1>5, <1>6, <1>7, <1>8, <1>9 DEF BootInv

LEMMA BootIdentify ==
  ASSUME BootInv, Identify, UNCHANGED bootVars
  PROVE  BootInv'
<1>1. Inv'
  BY IdentifyStep DEF BootInv
<1>2. BootTypes'
  BY DEF BootInv, BootTypes, bootVars
<1>3. DiskSlots'
  BY SameDrive DEF BootInv, DiskSlots, Identify, bootVars
<1>4. Answers'
  BY DEF BootInv, Answers, Identify, NextPosition, Occupied
<1>5. DiskFound'
  <2>1. /\ UNCHANGED << mayFail, machine, g_ide_devices >> /\ pc = "probe"
    BY DEF Identify, bootVars
  <2>2. Disks' = Disks /\ (\A p : Hidden(p)' <=> Hidden(p)) /\ (Seen <=> Seen')
    BY <2>1, SameDrive DEF Seen
  <2>3. ASSUME NEW p \in Disks, ~ Hidden(p), ~ mayFail
        PROVE  /\ pc' \notin ProbePc \/ position' > p => Seen
               /\ pc' = "identify" /\ position' = p
                    => job'.op = "identify" /\ status' \in {"busy", "ready"}
    <3>1. p \in 1 .. 4 /\ position \in 1 .. 4 /\ machine[p] # "none"
          /\ (position > p => Seen)
      BY <2>3, DiskKinds DEF BootInv, Inv, Types, DiskFound
    <3>2. position = p => ~ Occupied
      BY <2>1, <2>3 DEF Occupied, Hidden, BootInv, Inv, Probing, Answers, AccessPc, WritePc
    <3>3. CASE position = p
      BY <3>1, <3>2, <3>3 DEF Identify, ProbePc
    <3>4. CASE position # p
      BY <3>1, <3>4 DEF Identify, NextPosition, ProbePc
    <3> QED BY <3>3, <3>4
  <2> QED BY <2>1, <2>2, <2>3 DEF DiskFound
<1>6. Faultless'
  BY DEF BootInv, Faultless, Identify, NextPosition, bootVars
<1>7. Calling'
  BY DEF BootInv, Calling, ProbePc, Identify, NextPosition, bootVars
<1>8. Outcome'
  <2>1. ~ calling /\ UNCHANGED << calling, buffer, machine, mayFail >>
    BY DEF BootInv, Calling, ProbePc, Identify, bootVars
  <2> QED BY <2>1, SameDrive DEF BootInv, Outcome
<1>9. OnDisk'
  BY SameDrive DEF BootInv, OnDisk, Identify, bootVars
<1> QED BY <1>1, <1>2, <1>3, <1>4, <1>5, <1>6, <1>7, <1>8, <1>9 DEF BootInv

LEMMA BootAnswered ==
  ASSUME BootInv, Answered, UNCHANGED bootVars
  PROVE  BootInv'
<1>1. Inv'
  BY AnsweredStep DEF BootInv
<1>2. BootTypes'
  BY DEF BootInv, BootTypes, bootVars
<1>3. DiskSlots'
  <2>1. PICK s \in Slots :
          /\ g_ide_devices' = Append(g_ide_devices, s)
          /\ s.type = "IDE_ATA" /\ s.model = ModelOf(machine[job.at])
          /\ s.size = Identified(job.at).size
    BY NewSlot DEF BootInv, Answered
  <2>2. ASSUME s.model = HardDisk PROVE Disks # {} /\ s.size > 6
    <3>1. job.op \in {"identify", "packet"} /\ job.at \in 1 .. 4 /\ machine[job.at] # "cdrom"
      BY <2>1, <2>2 DEF BootInv, Inv, Probing, Answered, ModelOf, HardDisk
    <3>2. machine[job.at] \in {"disk", "oldDisk"}
      BY <3>1 DEF BootInv, Answers, Answered
    <3>3. job.at \in Disks
      BY <3>1, <3>2, DiskKinds DEF BootInv, Inv
    <3>4. s.size \in {DiskSize, OldSize}
      BY <2>1, <3>2 DEF Identified
    <3> QED BY <3>3, <3>4, BootAssumption
  <2>3. Disks' = Disks
    BY SameDrive DEF Answered, bootVars
  <2> QED BY <2>1, <2>2, <2>3 DEF BootInv, DiskSlots
<1>4. Answers'
  BY DEF Answers, Answered, NoJob
<1>5. DiskFound'
  <2>1. PICK s \in Slots :
          /\ g_ide_devices' = Append(g_ide_devices, s)
          /\ s.type = "IDE_ATA" /\ s.model = ModelOf(machine[job.at])
          /\ s.size = Identified(job.at).size
    BY NewSlot DEF BootInv, Answered
  <2>2. (Seen => Seen') /\ (s.model = HardDisk => Seen')
    BY <2>1, SeenStays DEF BootInv, Inv
  <2>3. Disks' = Disks /\ \A p : Hidden(p)' <=> Hidden(p)
    BY SameDrive DEF Answered, bootVars
  <2>4. ASSUME NEW p \in Disks, ~ Hidden(p), ~ mayFail
        PROVE  /\ pc' \notin ProbePc \/ position' > p => Seen'
               /\ pc' # "identify"
    <3>1. p \in 1 .. 4 /\ position \in 1 .. 4 /\ machine[p] \in {"disk", "oldDisk"}
      BY DiskKinds DEF BootInv, Inv, Types
    <3>2. position = p => job.at = p
      BY <2>4 DEF BootInv, DiskFound, Answers, Answered
    <3>3. position = p => Seen'
      BY <2>1, <2>2, <3>1, <3>2 DEF ModelOf, HardDisk
    <3>4. position > p => Seen'
      BY <2>2, <2>4 DEF BootInv, DiskFound
    <3> QED BY <3>1, <3>3, <3>4 DEF Answered, NextPosition, ProbePc
  <2>5. mayFail' = mayFail
    BY DEF bootVars
  <2> QED BY <2>3, <2>4, <2>5 DEF DiskFound
<1>6. Faultless'
  BY DEF BootInv, Faultless, Answered, NextPosition, bootVars
<1>7. Calling'
  BY DEF BootInv, Calling, ProbePc, Answered, NextPosition, bootVars
<1>8. Outcome'
  <2>1. ~ calling /\ UNCHANGED << calling, buffer, machine, mayFail >>
    BY DEF BootInv, Calling, ProbePc, Answered, bootVars
  <2> QED BY <2>1, SameDrive DEF BootInv, Outcome
<1>9. OnDisk'
  BY SameDrive DEF BootInv, OnDisk, Answered, bootVars
<1> QED BY <1>1, <1>2, <1>3, <1>4, <1>5, <1>6, <1>7, <1>8, <1>9 DEF BootInv

LEMMA BootNotAta ==
  ASSUME BootInv, NotAta, UNCHANGED bootVars
  PROVE  BootInv'
<1>1. Inv'
  BY NotAtaStep DEF BootInv
<1>2. BootTypes'
  BY DEF BootInv, BootTypes, bootVars
<1>3. DiskSlots'
  <2>1. Disks' = Disks
    BY SameDrive DEF NotAta, bootVars
  <2>2. CASE UNCHANGED g_ide_devices
    BY <2>1, <2>2 DEF BootInv, DiskSlots
  <2>3. CASE machine[job.at] = "cdrom" /\ Found(job.at, "IDE_ATAPI")
    <3>1. PICK s \in Slots :
            g_ide_devices' = Append(g_ide_devices, s) /\ s.model = ModelOf(machine[job.at])
      BY <2>3, NewSlot DEF BootInv, NotAta
    <3>2. s.model # HardDisk
      BY <2>3, <3>1 DEF ModelOf, HardDisk
    <3> QED BY <2>1, <3>1, <3>2 DEF BootInv, DiskSlots
  <2> QED BY <2>2, <2>3 DEF NotAta
<1>4. Answers'
  <2>1. UNCHANGED machine /\ pc' # "identify" /\ job'.op # "identify"
        /\ (job'.op = "packet" => machine[job'.at] = "cdrom")
    <3>1. CASE machine[job.at] = "cdrom" /\ job' = [job EXCEPT !.op = "packet"]
      BY <3>1 DEF NotAta, NextPosition
    <3>2. CASE job' = NoJob
      BY <3>2 DEF NotAta, NextPosition, NoJob
    <3> QED BY <3>1, <3>2 DEF NotAta
  <2> QED BY <2>1 DEF Answers
<1>5. DiskFound'
  <2>1. Seen => Seen'
    <3>1. CASE UNCHANGED g_ide_devices
      BY <3>1 DEF Seen
    <3>2. CASE Found(job.at, "IDE_ATAPI")
      <4>1. PICK s \in Slots : g_ide_devices' = Append(g_ide_devices, s)
        BY <3>2, NewSlot DEF BootInv, NotAta
      <4> QED BY <4>1, SeenStays DEF BootInv, Inv
    <3> QED BY <3>1, <3>2 DEF NotAta
  <2>2. Disks' = Disks /\ \A p : Hidden(p)' <=> Hidden(p)
    BY SameDrive DEF NotAta, bootVars
  <2>3. ASSUME NEW p \in Disks, ~ Hidden(p), ~ mayFail
        PROVE  /\ pc' \notin ProbePc \/ position' > p => Seen'
               /\ pc' # "identify"
    <3>1. p \in 1 .. 4 /\ position \in 1 .. 4
      BY DiskKinds DEF BootInv, Inv, Types
    <3>2. position # p
      BY <2>3 DEF BootInv, DiskFound, NotAta
    <3>3. position > p => Seen'
      BY <2>1, <2>3 DEF BootInv, DiskFound
    <3> QED BY <3>1, <3>2, <3>3 DEF NotAta, NextPosition, ProbePc
  <2>4. mayFail' = mayFail
    BY DEF bootVars
  <2> QED BY <2>2, <2>3, <2>4 DEF DiskFound
<1>6. Faultless'
  BY DEF BootInv, Faultless, NotAta, NextPosition, bootVars
<1>7. Calling'
  BY DEF BootInv, Calling, ProbePc, NotAta, NextPosition, bootVars
<1>8. Outcome'
  <2>1. ~ calling /\ UNCHANGED << calling, buffer, machine, mayFail >>
    BY DEF BootInv, Calling, ProbePc, NotAta, bootVars
  <2> QED BY <2>1, SameDrive DEF BootInv, Outcome
<1>9. OnDisk'
  BY SameDrive DEF BootInv, OnDisk, NotAta, bootVars
<1> QED BY <1>1, <1>2, <1>3, <1>4, <1>5, <1>6, <1>7, <1>8, <1>9 DEF BootInv

-----------------------------------------------------------------------------
(***************************************************************************)
(* The steps of kmain, and the power.                                      *)
(***************************************************************************)
LEMMA Room == LbaMod \in Nat /\ LbaMod > 7
<1>1. Byte2 \in Nat /\ Byte2 >= 4
  BY AtaAddressAssumption, SMT DEF Byte2
<1>2. Byte3 \in Nat /\ Byte3 >= 8
  BY <1>1, AtaAddressAssumption, SMT DEF Byte3
<1> QED BY <1>2, AtaAddressAssumption, SMT DEF LbaMod

(* A good drive refuses none of the boot's calls. *)
LEMMA GoodAccess ==
  ASSUME BootInv, KernelDrive = "good", pc = "idle",
         NEW r, r.lba \in 1 .. 6, r.n = 1, r.drive = DRIVE
  PROVE  ~ Refused(r)
<1>1. Seen
  BY GoodDrive DEF BootInv, DiskFound, ProbePc
<1>2. PICK d : d = DRIVE
  OBVIOUS
<1>3. Present(d) /\ Slot(d).model = HardDisk /\ d + 1 \in DOMAIN g_ide_devices
  BY <1>1, <1>2, TheDrive DEF BootInv, Inv
<1>4. Slot(d) \in Slots /\ Slot(d).size > 6
  BY <1>3 DEF BootInv, DiskSlots, Inv, Types, Slot
<1>5. Slot(d).size \in Nat
  BY <1>4 DEF Slots
<1>6. (r.lba + r.n) % LbaMod = r.lba + r.n
  BY Room, SmallRest
<1>7. ~ OutOfRange(r)
  BY <1>2, <1>4, <1>5, <1>6 DEF OutOfRange
<1> QED BY <1>2, <1>3, <1>7 DEF Refused

LEMMA CallForStep ==
  ASSUME BootInv, CallFor(NextCall.op, NextCall.lba)
  PROVE  BootInv'
<1> DEFINE r == [op |-> NextCall.op, lba |-> NextCall.lba, n |-> 1, drive |-> DRIVE]
<1>1. /\ ~ calling /\ calling' = TRUE /\ pc = "idle"
      /\ Refused(r) \/ Access(r)
      /\ UNCHANGED << isInstalled, build, call, boots, mayFail, preview, landed >>
  BY DEF CallFor, Refused, Access, Call
<1>2. /\ req' = r /\ buffer' = << >> /\ failed' = FALSE
      /\ UNCHANGED << machine, g_ide_devices, position, status, job, sent, written >>
  BY <1>1 DEF Refused, Access, Call
<1> HIDE DEF r
<1>3. pc' = "command" \/ (Refused(r) /\ pc' = "idle")
  <2>1. Refused(r) => pc' = pc
    BY DEF Refused
  <2>2. Access(r) => pc' = "command"
    BY DEF Access
  <2>3. CASE Refused(r)
    BY <1>1, <2>1, <2>3
  <2>4. CASE Access(r)
    BY <2>2, <2>4
  <2> QED BY <1>1, <2>3, <2>4
<1>4. NextCall.op \in {"read", "write"} /\ NextCall.lba \in 1 .. 6
  BY NextCallIs DEF BootInv, BootTypes
<1>5. NextCall' = NextCall /\ DRIVE' = DRIVE /\ (Seen <=> Seen')
  BY <1>1, <1>2, SameCall
<1>6. KernelDrive' = KernelDrive /\ Disks' = Disks /\ \A p : Hidden(p)' <=> Hidden(p)
  BY <1>1, <1>2, SameDrive
<1>7. Inv'
  <2>1. NextCall.lba \in 0 .. LbaMod - 1 /\ 1 \in 1 .. Byte - 1 /\ DRIVE \in Nat
    BY <1>4, Room, Widths, TheDrive DEF BootInv, Inv
  <2>2. r \in Asked
    BY <1>4, <2>1 DEF Asked, r
  <2> QED BY <1>1, <2>2, CallStep DEF BootInv
<1>8. BootTypes'
  BY <1>1 DEF BootInv, BootTypes
<1>9. DiskSlots' /\ Answers'
  BY <1>1, <1>2, <1>3, <1>6 DEF BootInv, DiskSlots, Answers
<1>10. DiskFound' /\ Faultless'
  BY <1>1, <1>2, <1>3, <1>5, <1>6 DEF BootInv, DiskFound, Faultless, ProbePc
<1>11. Calling'
  BY <1>1, <1>2, <1>3, <1>5 DEF BootInv, Calling, ProbePc, r
<1>12. Outcome'
  <2>1. KernelDrive = "good" => pc' # "idle"
    BY <1>1, <1>3, <1>4, GoodAccess DEF r
  <2> QED BY <1>2, <1>6, <2>1 DEF Outcome
<1>13. OnDisk'
  BY <1>1, <1>2, <1>6 DEF BootInv, OnDisk
<1> QED BY <1>7, <1>8, <1>9, <1>10, <1>11, <1>12, <1>13 DEF BootInv

LEMMA BootCallStep == ASSUME BootInv, BootCall PROVE BootInv'
BY CallForStep DEF BootCall, NextCall

LEMMA FrameStep == ASSUME BootInv, Frame PROVE BootInv'
BY CallForStep DEF Frame, NextCall

(* What the calls' results leave alone. *)
LEMMA SameDriver ==
  ASSUME BootInv, UNCHANGED << vars, mayFail >>
  PROVE  Inv' /\ DiskSlots' /\ Answers' /\ DiskFound' /\ Faultless'
<1>1. Disks' = Disks /\ \A p : Hidden(p)' <=> Hidden(p)
  BY SameDrive DEF vars
<1>2. Inv'
  BY Stutter DEF BootInv
<1>3. DiskSlots' /\ Answers' /\ Faultless'
  BY <1>1 DEF BootInv, DiskSlots, Answers, Faultless, vars, driverVars, driveVars
<1>4. DiskFound'
  BY <1>1 DEF BootInv, DiskFound, Seen, vars, driverVars, driveVars
<1> QED BY <1>2, <1>3, <1>4

LEMMA BootReturnStep == ASSUME BootInv, BootReturn PROVE BootInv'
<1>1. /\ pc = "idle" /\ calling /\ ~ InLoop /\ call' = call + 1
      /\ calling' = FALSE /\ landed' = FALSE
      /\ UNCHANGED << vars, build, boots, mayFail, preview >>
  BY DEF BootReturn
<1>2. call \in 1 .. 11
  BY <1>1, NextCallIs DEF BootInv, BootTypes
<1>3. KernelDrive' = KernelDrive /\ Disks' = Disks
  BY <1>1, SameDrive DEF vars
<1>4. Inv' /\ DiskSlots' /\ Answers' /\ DiskFound' /\ Faultless'
  BY <1>1, SameDriver
<1>5. BootTypes'
  <2>1. isInstalled' \in BOOLEAN
    BY DEF BootReturn, HoldsMarker
  <2>2. call' \in 1 .. 12
    BY <1>1, <1>2
  <2> QED BY <1>1, <2>1, <2>2 DEF BootInv, BootTypes
<1>6. Calling'
  BY <1>1 DEF Calling, ProbePc, vars, driverVars
<1>7. Outcome'
  BY <1>1, <1>3 DEF BootInv, Outcome, vars, driverVars
<1>8. OnDisk'
  <2>1. ASSUME NEW s \in 1 .. 6, s + 1 = call PROVE NextCall.op = "write" /\ NextCall.lba = s
    BY <1>2, <2>1, NextCallIs
  <2>2. ASSUME NEW s \in 1 .. 6, s + 1 < call + 1, KernelDrive = "good" PROVE s \in written
    BY <1>1, <1>2, <2>1, <2>2 DEF BootInv, Outcome, OnDisk
  <2> QED BY <1>1, <1>3, <2>2 DEF BootInv, OnDisk, vars, driveVars
<1> QED BY <1>4, <1>5, <1>6, <1>7, <1>8 DEF BootInv

LEMMA FrameReturnStep == ASSUME BootInv, FrameReturn PROVE BootInv'
<1>1. /\ pc = "idle" /\ calling /\ InLoop /\ calling' = FALSE
      /\ UNCHANGED << vars, isInstalled, build, call, boots, mayFail, landed >>
  BY DEF FrameReturn
<1>2. call = 12 /\ NextCall.op = "read" /\ NextCall.lba = 6
  BY <1>1, NextCallIs DEF BootInv, BootTypes
<1>3. KernelDrive' = KernelDrive /\ Disks' = Disks
  BY <1>1, SameDrive DEF vars
<1>4. Inv' /\ DiskSlots' /\ Answers' /\ DiskFound' /\ Faultless'
  BY <1>1, SameDriver
<1>5. BootTypes'
  BY <1>1 DEF BootInv, BootTypes, FrameReturn
<1>6. Calling'
  BY <1>1, <1>2 DEF BootInv, Calling, vars, driverVars
<1>7. Outcome'
  BY <1>1, <1>3 DEF BootInv, Outcome, vars, driverVars
<1>8. OnDisk'
  <2>1. KernelDrive = "good" => buffer = << << DesktopCfg, TRUE >> >>
    <3> SUFFICES ASSUME KernelDrive = "good" PROVE buffer = << << DesktopCfg, TRUE >> >>
      OBVIOUS
    <3>1. buffer = << Content(6) >>
      BY <1>1, <1>2 DEF BootInv, Outcome
    <3>2. 6 \in written
      BY <1>2 DEF BootInv, OnDisk
    <3> QED BY <3>1, <3>2 DEF Content, DesktopCfg
  <2>2. KernelDrive = "good" => preview' = "file"
    BY <2>1 DEF FrameReturn
  <2> QED BY <1>1, <1>3, <2>2 DEF BootInv, OnDisk, vars, driveVars
<1> QED BY <1>4, <1>5, <1>6, <1>7, <1>8 DEF BootInv

LEMMA BootStutter == ASSUME BootInv, UNCHANGED allVars PROVE BootInv'
<1>1. KernelDrive' = KernelDrive /\ Disks' = Disks
  BY SameDrive DEF allVars, vars, bootVars
<1>2. Inv' /\ DiskSlots' /\ Answers' /\ DiskFound' /\ Faultless'
  BY SameDriver DEF allVars, bootVars
<1>3. BootTypes'
  BY DEF BootInv, BootTypes, allVars, bootVars
<1>4. NextCall' = NextCall /\ DRIVE' = DRIVE
  BY SameCall DEF allVars, vars, driverVars, bootVars
<1>5. Calling'
  BY <1>4 DEF BootInv, Calling, allVars, vars, driverVars, driveVars, bootVars
<1>6. Outcome' /\ OnDisk'
  BY <1>1, <1>4 DEF BootInv, Outcome, OnDisk, Content, allVars, vars, driverVars,
     driveVars, bootVars
<1> QED BY <1>2, <1>3, <1>5, <1>6 DEF BootInv

(* What every boot starts from, the first and those after it. *)
SwitchedOn ==
  /\ machine \in Machines /\ written \subseteq Nat /\ PowerOn
  /\ build \in BOOLEAN /\ isInstalled = build /\ mayFail \in BOOLEAN
  /\ call = 1 /\ calling = FALSE /\ preview = "none" /\ landed = FALSE
  /\ boots \in 1 .. MaxBoots

LEMMA SwitchedOnInv == SwitchedOn => BootInv
<1> SUFFICES ASSUME SwitchedOn PROVE BootInv
  OBVIOUS
<1>1. Inv
  BY PowerOnInv DEF SwitchedOn
<1>2. BootTypes /\ DiskSlots
  <2>1. DOMAIN g_ide_devices = {}
    BY EmptySeq DEF SwitchedOn, PowerOn
  <2>2. DiskSlots
    BY <2>1 DEF DiskSlots
  <2>3. call \in 1 .. 12
    BY DEF SwitchedOn
  <2> QED BY <2>2, <2>3 DEF SwitchedOn, BootTypes
<1>3. Answers
  BY DEF SwitchedOn, PowerOn, NoJob, Answers
<1>4. DiskFound
  BY <1>1, DiskKinds DEF SwitchedOn, PowerOn, DiskFound, ProbePc, Inv
<1>5. Faultless /\ Calling /\ Outcome /\ OnDisk
  BY DEF SwitchedOn, PowerOn, Faultless, Calling, Outcome, OnDisk, ProbePc
<1> QED BY <1>1, <1>2, <1>3, <1>4, <1>5 DEF BootInv

LEMMA SwitchedOnAgain == SwitchedOn' => BootInv'
BY SwitchedOnInv, PTL

LEMMA PowerCycleStep == ASSUME BootInv, PowerCycle PROVE BootInv'
<1>1. boots' \in 1 .. MaxBoots
  BY BootAssumption DEF BootInv, BootTypes, PowerCycle
<1>2. PowerOn'
  BY DEF PowerCycle, PowerOn
<1>3. SwitchedOn'
  BY <1>1, <1>2 DEF SwitchedOn, PowerCycle, BootInv, BootTypes, Inv, Types
<1> QED BY <1>3, SwitchedOnAgain

LEMMA BootInvariant == BootSpec => []BootInv
<1>1. BootInit => BootInv
  BY SwitchedOnInv, BootAssumption DEF BootInit, SwitchedOn
<1>2. BootInv /\ [BootNext]_allVars => BootInv'
  <2> SUFFICES ASSUME BootInv, [BootNext]_allVars PROVE BootInv'
    OBVIOUS
  <2>1. CASE UNCHANGED allVars
    BY <2>1, BootStutter
  <2>2. CASE Driver /\ UNCHANGED bootVars
    BY <2>2, BootIdentify, BootAnswered, BootNotAta, BootSendCommand, BootReadSector,
       BootReadFails, BootWriteSector, BootFlush, BootWriteReturns, BootStutter
       DEF Driver, ide_init, LoopForever, allVars
  <2>3. CASE BootCall \/ BootReturn \/ Frame \/ FrameReturn \/ Installer
    BY <2>3, BootCallStep, BootReturnStep, FrameStep, FrameReturnStep,
       BootStutter DEF Installer
  <2>4. CASE DriveStep
    BY <2>4, BootDriveIdentified, BootDriveReady, BootDriveFlushes, BootDriveFails,
       BootDriveWrites
       DEF DriveStep
  <2>5. CASE PowerCycle
    BY <2>5, PowerCycleStep
  <2> QED BY <2>1, <2>2, <2>3, <2>4, <2>5 DEF BootNext, Processor
<1> QED BY <1>1, <1>2, PTL DEF BootSpec

(* Every variable of the boot has its type, no call is made before the     *)
(* drives are known, and only a write lands.                               *)
THEOREM BootTypeCorrect == BootSpec => []BootTypeOK
<1>1. BootInv => BootTypeOK
  <2> SUFFICES ASSUME BootInv PROVE BootTypeOK
    OBVIOUS
  <2>1. TypeOK
    BY InvTypeOK DEF BootInv
  <2>2. call \in 1 .. Len(Calls) + 1
    BY CallTable DEF BootInv, BootTypes
  <2>3. landed => calling /\ ~ InLoop /\ Calls[call].op = "write"
    BY NextCallIs DEF BootInv, Calling, NextCall
  <2>4. calling => pc \notin {"probe", "identify"}
    BY DEF BootInv, Calling, ProbePc
  <2> QED BY <2>1, <2>2, <2>3, <2>4 DEF BootInv, BootTypes, BootTypeOK
<1> QED BY <1>1, BootInvariant, PTL

(* On a drive that works the previewer shows what ViaOS writes to          *)
(* desktop.cfg or nothing yet, on every machine and however often the      *)
(* power goes off.                                                         *)
THEOREM PreviewCorrect == BootSpec => []PreviewIsWritten
<1>1. BootInv => PreviewIsWritten
  BY DEF BootInv, OnDisk, PreviewIsWritten
<1> QED BY <1>1, BootInvariant, PTL

-----------------------------------------------------------------------------
(***************************************************************************)
(* The kernel that the boot implements.                                    *)
(***************************************************************************)
Line == IF KernelPc = "hardware" \/ build THEN "masked" ELSE "open"
NextSector == IF Writing THEN Done + 1 ELSE 1

KernelStep == K!Next \/ UNCHANGED K!vars

LEMMA KernelStutters ==
  ASSUME UNCHANGED << KernelPc, NextSector, isInstalled, written, KernelDrive, build, boots >>
  PROVE  KernelStep
<1>2. UNCHANGED K!vars
  BY DEF K!vars, K!keyboardVars, K!mainVars, K!outside, NextSector
<1> QED BY <1>2 DEF KernelStep

LEMMA KernelHardware ==
  ASSUME KernelPc = "hardware", KernelPc' = "verify", isInstalled = build,
         UNCHANGED << NextSector, isInstalled, written, KernelDrive, build, boots >>
  PROVE  KernelStep
<1>2. K!Hardware
  BY DEF K!Hardware, K!Go, K!shared, K!outside, NextSector
<1> QED BY <1>2 DEF KernelStep, K!Next, K!Main

LEMMA KernelVerifies ==
  ASSUME KernelPc = "verify", KernelPc' = "write",
         \/ isInstalled' = (IF KernelDrive # "none" /\ 2 \in written THEN TRUE ELSE isInstalled)
         \/ KernelDrive = "faulty" /\ isInstalled' = isInstalled,
         UNCHANGED << NextSector, written, KernelDrive, build, boots >>
  PROVE  KernelStep
<1>2. K!Verify
  BY DEF K!Verify, K!Go, K!input, K!outside, K!Marker, NextSector
<1> QED BY <1>2 DEF KernelStep, K!Next, K!Main

LEMMA KernelWrites ==
  ASSUME NEW s \in 1 .. 6, NextSector = s, KernelPc = "write",
         KernelPc' = (IF s = 6 THEN "welcome" ELSE "write"),
         NextSector' = (IF s = 6 THEN 1 ELSE s + 1),
         \/ written' = (IF KernelDrive = "none" THEN written ELSE written \cup {s})
         \/ KernelDrive = "faulty" /\ written' = written,
         UNCHANGED << isInstalled, KernelDrive, build, boots >>
  PROVE  KernelStep
<1>2. K!PutSector(s)
  BY DEF K!PutSector
<1>3. K!WriteSector
  BY <1>2 DEF K!WriteSector, K!Go, K!input, K!shared, K!outside, NextSector
<1> QED BY <1>3 DEF KernelStep, K!Next, K!Main

LEMMA KernelCycles ==
  ASSUME boots < MaxBoots, boots' = boots + 1, isInstalled' = build,
         KernelPc' = "hardware", NextSector' = 1,
         UNCHANGED << written, KernelDrive, build >>
  PROVE  KernelStep
<1>2. K!PowerCycle
  BY DEF K!PowerCycle, K!ResetKeyboard, K!outside, NextSector
<1> QED BY <1>2 DEF KernelStep, K!Next

(* A step of the driver or the drive that writes nothing is one of the     *)
(* kernel's only when the last drive has been looked for.                  *)
LEMMA QuietStep ==
  ASSUME BootInv, UNCHANGED << bootVars, machine, written >>,
         pc \notin ProbePc => pc' \notin ProbePc
  PROVE  KernelStep
<1>1. KernelDrive' = KernelDrive /\ UNCHANGED << isInstalled, build, boots, call, landed >>
  BY SameDrive DEF bootVars
<1>2. NextSector' = NextSector /\ (Writing <=> Writing')
  BY <1>1 DEF NextSector, Writing, Done
<1>3. CASE pc \in ProbePc /\ pc' \notin ProbePc
  <2>1. call = 1 /\ isInstalled = build
    BY <1>3 DEF BootInv, Calling
  <2>2. KernelPc = "hardware" /\ KernelPc' = "verify"
    BY <1>1, <1>3, <2>1 DEF KernelPc, ProbePc
  <2> QED BY <1>1, <1>2, <2>1, <2>2, KernelHardware
<1>4. CASE pc \in ProbePc <=> pc' \in ProbePc
  <2>1. KernelPc' = KernelPc
    BY <1>1, <1>2, <1>4 DEF KernelPc, ProbePc
  <2> QED BY <1>1, <1>2, <2>1, KernelStutters
<1> QED BY <1>3, <1>4

(* The sector lands. *)
LEMMA LandingStep ==
  ASSUME BootInv, DriveWrites, landed' = TRUE,
         UNCHANGED << isInstalled, build, call, calling, boots, mayFail, preview >>
  PROVE  KernelStep
<1>1. pc \in WritePc /\ pc' = pc /\ sent /\ job.op = "write" /\ req.op = "write"
  BY DEF BootInv, Inv, Sending, Accessing, DriveWrites, driverVars, AccessPc, WritePc
<1>2. NextCall.op = "write" /\ req.n = 1 /\ req.lba = NextCall.lba /\ Disks # {}
  BY <1>1, AtDrive DEF AccessPc
<1>3. call \in 2 .. 7 /\ NextCall.lba = call - 1
  BY <1>2, NextCallIs DEF BootInv, BootTypes
<1>4. job.at = call - 1
  BY <1>1, <1>2, <1>3, CallNumbers DEF BootInv, Inv, InWrite, Pending, WritePc
<1>5. landed = FALSE
  BY <1>1 DEF BootInv, BootTypes, Calling
<1>6. /\ NextSector = call - 1 /\ KernelPc = "write"
      /\ KernelPc' = (IF call - 1 = 6 THEN "welcome" ELSE "write")
      /\ NextSector' = (IF call - 1 = 6 THEN 1 ELSE call - 1 + 1)
  <2>1. call' = call /\ landed' = TRUE
    OBVIOUS
  <2>2. Done = call - 2 /\ Done' = call - 1
    BY <1>3, <1>5, <2>1 DEF Done
  <2>3. Writing /\ (Writing' <=> call # 7)
    BY <1>3, <2>1, <2>2 DEF Writing
  <2>4. pc \notin {"probe", "identify"} /\ call # 1
    BY <1>1, <1>3 DEF WritePc
  <2> QED BY <1>1, <1>3, <2>2, <2>3, <2>4 DEF NextSector, KernelPc
<1>7. KernelDrive' = KernelDrive /\ KernelDrive # "none"
  BY <1>2, SameDrive DEF DriveWrites, KernelDrive
<1>8. written' = written \cup {call - 1}
  BY <1>4 DEF DriveWrites
<1> QED BY <1>3, <1>6, <1>7, <1>8, KernelWrites

(* The marker is read, a write that did not land is given up, or a call    *)
(* ends that the kernel's next step does not hang on.                      *)
LEMMA ReturningStep ==
  ASSUME BootInv, BootReturn
  PROVE  KernelStep
<1>1. /\ pc = "idle" /\ pc' = "idle" /\ calling /\ ~ InLoop /\ call' = call + 1
      /\ landed' = FALSE
      /\ UNCHANGED << written, build, boots >>
      /\ isInstalled' = (isInstalled \/ (call = 1 /\ HoldsMarker(buffer)))
  BY DEF BootReturn, vars, driverVars, driveVars
<1>2. call \in 1 .. 11
  BY <1>1, NextCallIs DEF BootInv, BootTypes
<1>3. KernelDrive' = KernelDrive
  BY SameDrive DEF BootReturn, vars
<1>4. CASE call = 1
  <2>2. ~ Writing /\ Writing' /\ Done' = 0
    BY <1>1, <1>4 DEF Writing, Done
  <2>3. KernelPc = "verify" /\ KernelPc' = "write" /\ NextSector = 1 /\ NextSector' = 1
    BY <1>1, <1>4, <2>2 DEF KernelPc, NextSector
  <2>4. NextCall.op = "read" /\ NextCall.lba = 2
    BY <1>2, <1>4, NextCallIs
  <2>5. buffer \in {<< >>, << Content(2) >>}
    BY <1>1, <2>4 DEF BootInv, Outcome
  <2>6. (KernelDrive = "none" => buffer = << >>) /\ (KernelDrive = "good" => buffer # << >>)
    BY <1>1, <2>4 DEF BootInv, Outcome, KernelDrive
  <2>7. HoldsMarker(buffer) <=> buffer # << >> /\ 2 \in written
    <3>1. Content(2) = << 2, TRUE >> <=> 2 \in written
      <4>1. CASE 2 \in written
        BY <4>1 DEF Content
      <4>2. CASE 2 \notin written
        <5>1. (2 \in written) = FALSE
          BY <4>2
        <5>2. Content(2) = << 2, FALSE >>
          BY <5>1 DEF Content
        <5>3. << 2, FALSE >> # << 2, TRUE >>
          OBVIOUS
        <5> QED BY <4>2, <5>2, <5>3
      <4> QED BY <4>1, <4>2
    <3>2. HoldsMarker(buffer) <=> buffer # << >> /\ Content(2) = << 2, TRUE >>
      BY <2>5, OneOrNone DEF HoldsMarker, Marker
    <3> QED BY <3>1, <3>2
  <2>8. KernelDrive \in {"none", "good", "faulty"} /\ isInstalled \in BOOLEAN
    BY DEF KernelDrive, BootInv, BootTypes
  <2>9. \/ isInstalled' = (IF KernelDrive # "none" /\ 2 \in written THEN TRUE ELSE isInstalled)
        \/ KernelDrive = "faulty" /\ isInstalled' = isInstalled
    BY <1>1, <1>4, <2>6, <2>7, <2>8
  <2> QED BY <1>1, <1>3, <2>3, <2>9, KernelVerifies
<1>5. CASE call \in 2 .. 7 /\ ~ landed
  <2>1. Done = call - 2 /\ Done' = call - 1
    BY <1>1, <1>5 DEF Done
  <2>2. Writing /\ (Writing' <=> call # 7)
    BY <1>1, <1>5, <2>1 DEF Writing
  <2>3. /\ NextSector = call - 1 /\ KernelPc = "write"
        /\ KernelPc' = (IF call - 1 = 6 THEN "welcome" ELSE "write")
        /\ NextSector' = (IF call - 1 = 6 THEN 1 ELSE call - 1 + 1)
    BY <1>1, <1>5, <2>1, <2>2 DEF NextSector, KernelPc
  <2>4. NextCall.op = "write" /\ NextCall.lba = call - 1
    BY <1>2, <1>5, NextCallIs
  <2>5. KernelDrive = "good" => call - 1 \in written
    BY <1>1, <2>4 DEF BootInv, Outcome
  <2>6. KernelDrive \in {"none", "good", "faulty"}
    BY DEF KernelDrive
  <2>7. isInstalled' = isInstalled
    BY <1>1, <1>5 DEF BootInv, BootTypes
  <2> QED BY <1>1, <1>3, <1>5, <2>3, <2>5, <2>6, <2>7, KernelWrites
<1>6. CASE call \in 8 .. 11 \/ (call \in 2 .. 7 /\ landed)
  <2>1. isInstalled' = isInstalled
    BY <1>1, <1>6 DEF BootInv, BootTypes
  <2>2. (Writing <=> Writing') /\ (Writing => Done' = Done)
    BY <1>1, <1>6 DEF Writing, Done
  <2>3. UNCHANGED << KernelPc, NextSector >>
    BY <1>1, <1>6, <2>2 DEF KernelPc, NextSector
  <2> QED BY <1>1, <1>3, <2>1, <2>3, KernelStutters
<1> QED BY <1>2, <1>4, <1>5, <1>6

LEMMA RestartStep ==
  ASSUME BootInv, PowerCycle
  PROVE  KernelStep
<1>1. KernelDrive' = KernelDrive
  BY SameDrive DEF PowerCycle
<1>2. KernelPc' = "hardware" /\ NextSector' = 1
  BY DEF PowerCycle, KernelPc, NextSector, Writing
<1> QED BY <1>1, <1>2, KernelCycles DEF PowerCycle

LEMMA StartsAsKernel == BootInit => K!Init
<1> SUFFICES ASSUME BootInit PROVE K!Init
  OBVIOUS
<1>1. KernelPc = "hardware" /\ NextSector = 1
  BY DEF BootInit, PowerOn, KernelPc, NextSector, Writing
<1>2. KernelDrive \in {"none", "good", "faulty"}
  BY DEF KernelDrive
<1> QED BY <1>1, <1>2 DEF BootInit, K!Init, K!InitRAM, K!InitKeyboard, NextSector

LEMMA StepsAsKernel == BootInv /\ [BootNext]_allVars => KernelStep
<1> SUFFICES ASSUME BootInv, [BootNext]_allVars PROVE KernelStep
  OBVIOUS
<1>1. CASE UNCHANGED allVars
  BY <1>1, QuietStep DEF allVars, vars, driverVars, driveVars
<1>2. CASE Driver /\ UNCHANGED bootVars
  <2>1. UNCHANGED << machine, written >>
    BY <1>2 DEF Driver, ide_init, Identify, Answered, NotAta, LoopForever, SendCommand,
       ReadSector, ReadFails, WriteSector, Flush, WriteReturns, vars, driveVars
  <2>2. pc \notin ProbePc => pc' \notin ProbePc
    BY <1>2 DEF Driver, ide_init, Identify, Answered, NotAta, LoopForever, SendCommand,
       ReadSector, ReadFails, WriteSector, Flush, WriteReturns, Return, ProbePc, vars,
       driverVars
  <2> QED BY <1>2, <2>1, <2>2, QuietStep
<1>3. CASE BootCall \/ Frame
  <2>1. PICK op, lba : CallFor(op, lba)
    BY <1>3 DEF BootCall, Frame
  <2>2. PICK r : Refused(r) \/ Access(r)
    BY <2>1 DEF CallFor
  <2>3. pc = "idle" /\ pc' \in {"idle", "command"} /\ UNCHANGED << machine, written >>
    BY <2>2 DEF Refused, Access, Call
  <2>4. KernelDrive' = KernelDrive /\ UNCHANGED << isInstalled, build, boots, call, landed >>
    BY <2>1, <2>3, SameDrive DEF CallFor
  <2>5. UNCHANGED << KernelPc, NextSector >>
    BY <2>3, <2>4 DEF KernelPc, NextSector, Writing, Done
  <2> QED BY <2>3, <2>4, <2>5, KernelStutters
<1>4. CASE BootReturn
  BY <1>4, ReturningStep
<1>5. CASE FrameReturn
  <2>1. UNCHANGED << vars, isInstalled, build, call, boots, mayFail, landed >>
    BY <1>5 DEF FrameReturn
  <2>2. KernelDrive' = KernelDrive
    BY <2>1, SameDrive DEF vars
  <2>3. UNCHANGED << KernelPc, NextSector, written >>
    BY <2>1 DEF KernelPc, NextSector, Writing, Done, vars, driverVars, driveVars
  <2> QED BY <2>1, <2>2, <2>3, KernelStutters
<1>6. CASE Installer
  BY <1>6, QuietStep DEF Installer, allVars, vars, driverVars, driveVars
<1>7. CASE DriveStep
  <2>1. CASE (DriveIdentified \/ DriveReady \/ DriveFlushes \/ DriveFails) /\ UNCHANGED bootVars
    <3>1. UNCHANGED << machine, written, pc >>
      BY <2>1 DEF DriveIdentified, DriveReady, DriveFlushes, DriveFails, driverVars
    <3> QED BY <2>1, <3>1, QuietStep
  <2> QED BY <1>7, <2>1, LandingStep DEF DriveStep
<1>8. CASE PowerCycle
  BY <1>8, RestartStep
<1> QED BY <1>1, <1>2, <1>3, <1>4, <1>5, <1>6, <1>7, <1>8 DEF BootNext, Processor

(* The driver's many steps keep the promise of Kernel.tla, that a sector   *)
(* is written and the marker read in one step each: what is shown of the   *)
(* kernel's disk holds of the one behind the driver, for every machine.    *)
THEOREM BootImplementsKernel == BootSpec => KernelSpec
<1>1. BootInv /\ [BootNext]_allVars => [K!Next]_(K!vars)
  BY StepsAsKernel DEF KernelStep
<1> QED BY <1>1, StartsAsKernel, BootInvariant, PTL DEF BootSpec, KernelSpec, K!Spec

-----------------------------------------------------------------------------
(***************************************************************************)
(* What is proved of Kernel.tla holds of the disk behind the driver.       *)
(***************************************************************************)
KP == INSTANCE KernelProofs WITH
  Key <- {}, BufferSize <- 1, CoordModulus <- 1,
  Drives <- {"none", "good", "faulty"},
  irq1 <- Line,
  kbI <- FALSE, poweroff_sys <- FALSE, isInput <- TRUE, continueSetup <- FALSE,
  servicePage <- FALSE, agreePage <- FALSE, agreePage2 <- FALSE,
  pageNumber <- 0, input_buffer <- << >>, mx <- 0, my <- 0, ran <- "none",
  pc <- KernelPc, sector <- NextSector,
  stop1 <- FALSE, stop2 <- FALSE, stop3 <- FALSE, stop6 <- FALSE,
  stop7 <- FALSE, serviceAgreed <- FALSE,
  disk <- written, drive <- KernelDrive, agreed <- FALSE

(* What Boot.tla takes from Kernel.tla and what is proved of it are the     *)
(* same, definition by definition.                                         *)
LEMMA SameInit == K!Init => KP!Init
BY DEF K!Init, KP!Init, K!InitRAM, KP!InitRAM, K!InitKeyboard, KP!InitKeyboard, Line,
   NextSector

(* The boot's constants are ones of Kernel.tla: there is no key. *)
LEMMA KernelConstants == KP!KernelAssumption /\ KP!KeyboardAssumption
BY BootAssumption DEF KP!KernelAssumption, KP!KeyboardAssumption, KP!Sector

LEMMA SameVars == UNCHANGED K!vars => UNCHANGED KP!vars
BY DEF K!vars, K!keyboardVars, K!mainVars, K!outside, KP!vars, KP!keyboardVars,
   KP!mainVars, KP!outside, Line, NextSector

LEMMA SameMain == K!Main => KP!Main
<1> USE DEF K!Go, KP!Go, K!shared, KP!shared, K!input, KP!input, K!outside, KP!outside,
            K!PutSector, KP!PutSector, Line, NextSector
<1>1. K!Hardware => KP!Hardware
  BY Zenon DEF K!Hardware, KP!Hardware
<1>2. K!Verify => KP!Verify
  BY Zenon DEF K!Verify, KP!Verify, K!Marker, KP!Marker
<1>3. K!WriteSector => KP!WriteSector
  BY Zenon DEF K!WriteSector, KP!WriteSector
<1>4. K!Welcome => KP!Welcome
  BY Zenon DEF K!Welcome, KP!Welcome
<1>5. K!Page1Test => KP!Page1Test
  BY Zenon DEF K!Page1Test, KP!Page1Test, K!Test, KP!Test
<1>6. K!Page1Shown => KP!Page1Shown
  BY Zenon DEF K!Page1Shown, KP!Page1Shown
<1>7. K!Page4Test => KP!Page4Test
  BY Zenon DEF K!Page4Test, KP!Page4Test, K!Test, KP!Test
<1>8. K!Page4Shown => KP!Page4Shown
  BY Zenon DEF K!Page4Shown, KP!Page4Shown
<1>9. K!Page5Test => KP!Page5Test
  BY Zenon DEF K!Page5Test, KP!Page5Test, K!Test, KP!Test
<1>10. K!Page5Shown => KP!Page5Shown
  BY Zenon DEF K!Page5Shown, KP!Page5Shown
<1>11. K!InstallTest => KP!InstallTest
  BY Zenon DEF K!InstallTest, KP!InstallTest, K!Test, KP!Test
<1>12. K!InstallMetadata => KP!InstallMetadata
  BY Zenon DEF K!InstallMetadata, KP!InstallMetadata, K!InstallSector, KP!InstallSector,
     K!Metadata, KP!Metadata
<1>13. K!InstallMarker => KP!InstallMarker
  BY Zenon DEF K!InstallMarker, KP!InstallMarker, K!InstallSector, KP!InstallSector,
     K!Marker, KP!Marker
<1>14. K!Installed => KP!Installed
  BY Zenon DEF K!Installed, KP!Installed
<1>15. K!Desktop => KP!Desktop
  BY Zenon DEF K!Desktop, KP!Desktop, K!Test, KP!Test
<1> QED BY <1>1, <1>2, <1>3, <1>4, <1>5, <1>6, <1>7, <1>8, <1>9, <1>10, <1>11, <1>12,
           <1>13, <1>14, <1>15 DEF K!Main, KP!Main

LEMMA SameNext == K!Next => KP!Next
<1>1. K!NoCharacter => KP!NoCharacter
  BY Zenon DEF K!NoCharacter, KP!NoCharacter, K!NoKey, KP!NoKey, K!AfterPoweroff,
     KP!AfterPoweroff, K!Ignore, KP!Ignore, K!mainVars, KP!mainVars, K!outside, KP!outside,
     Line, NextSector
<1>2. K!PowerCycle => KP!PowerCycle
  BY Zenon DEF K!PowerCycle, KP!PowerCycle, K!ResetKeyboard, KP!ResetKeyboard, K!outside,
     KP!outside, Line, NextSector
<1> QED BY <1>1, <1>2, SameMain DEF K!Next, KP!Next

LEMMA KeepsKernelPromise == KernelSpec => KP!Spec
<1>1. [K!Next]_(K!vars) => [KP!Next]_(KP!vars)
  BY SameNext, SameVars
<1> QED BY <1>1, SameInit, PTL DEF KernelSpec, K!Spec, KP!Spec

(* However earlier boots were cut short, between any two steps of the      *)
(* driver and the drive, a kernel that reaches its loop has all its        *)
(* sectors on a drive that works, on every machine.                        *)
THEOREM ImageBehindDriver == BootSpec => []K!ImageBeforeLoop
<1>1. KP!Spec => []KP!ImageBeforeLoop
  BY KernelConstants, KP!ImageSafety
<1>2. KP!ImageBeforeLoop => K!ImageBeforeLoop
  BY Zenon DEF K!ImageBeforeLoop, KP!ImageBeforeLoop, K!LoopPc, KP!LoopPc, K!Sector,
     KP!Sector
<1> QED BY <1>1, <1>2, BootImplementsKernel, KeepsKernelPromise, PTL

(* The marker is never on the drive without the metadata of boot.sys, if   *)
(* it was not before the first boot: not even while the driver is at the   *)
(* sector between them.                                                    *)
THEOREM MarkerBehindDriver ==
  ASSUME \A d \in StartDisk : Marker \in d => 1 \in d
  PROVE  BootSpec => []K!MarkerAfterMetadata
<1>1. KP!StartInOrder
  BY DEF KP!StartInOrder, KP!Marker, KP!Metadata, Marker
<1>2. KP!Spec => []KP!MarkerAfterMetadata
  BY <1>1, KernelConstants, KP!MarkerSafety
<1>3. KP!MarkerAfterMetadata => K!MarkerAfterMetadata
  BY Zenon DEF K!MarkerAfterMetadata, KP!MarkerAfterMetadata, K!Marker, KP!Marker,
     K!Metadata, KP!Metadata
<1> QED BY <1>2, <1>3, BootImplementsKernel, KeepsKernelPromise, PTL
=============================================================================
