----------------------------- MODULE AtaAddress -----------------------------
(***************************************************************************)
(* How ide_ata_access (ata/IDE.c) splits a block address into the bytes    *)
(* it writes to the task file, in each of the three addressing modes, and  *)
(* how the drive puts them together again.                                 *)
(***************************************************************************)
EXTENDS Integers

CONSTANTS
  Byte,             \* 256: a register holds one of Byte values
  Nibble,           \* 16: the four head bits of HDDEVSEL
  SectorsPerTrack,  \* 63
  Heads             \* 16

ASSUME AtaAddressAssumption ==
  /\ Byte \in Nat \ {0, 1} /\ Nibble \in 1 .. Byte - 1
  /\ SectorsPerTrack \in 1 .. Byte - 1
  /\ Heads \in 1 .. Nibble

Byte2 == Byte * Byte
Byte3 == Byte * Byte2

Lba28Limit == Nibble * Byte3   \* 0x10000000
LbaMod     == Byte * Byte3     \* lba is a uint32_t

(* The bytes of a number. *)
Low(n)    == n % Byte
Second(n) == (n \div Byte) % Byte
Third(n)  == (n \div Byte2) % Byte
High(n)   == (n \div Byte3) % Byte

(* A mutant of Sect: sectors counted from 0. *)
SectFromZero(lba) == lba % SectorsPerTrack

(* sect, cyl (a uint16_t) and head of the CHS branch. *)
Sect(lba) == (lba % SectorsPerTrack) + 1
Cyl(lba)  == ((lba + 1 - Sect(lba)) \div (Heads * SectorsPerTrack)) % Byte2
HeadOf(lba) ==
  ((lba + 1 - Sect(lba)) % (Heads * SectorsPerTrack)) \div SectorsPerTrack

(* lba_io and head, with the mode they are for. *)
chs(lba) ==
  [mode |-> "CHS", io |-> << Sect(lba), Low(Cyl(lba)), Second(Cyl(lba)), 0 >>,
   head |-> HeadOf(lba)]

lba28(lba) ==
  [mode |-> "LBA28", io |-> << Low(lba), Second(lba), Third(lba), 0 >>,
   head |-> (lba \div Byte3) % Nibble]

lba48(lba) ==
  [mode |-> "LBA48", io |-> << Low(lba), Second(lba), Third(lba), High(lba) >>,
   head |-> 0]

TaskFile(lba, supportsLBA) ==
  IF lba >= Lba28Limit THEN lba48(lba)
  ELSE IF supportsLBA THEN lba28(lba) ELSE chs(lba)

(* The drive's side: the block the registers address. *)
Addressed(t) ==
  IF t.mode = "CHS"
  THEN ((t.io[2] + Byte * t.io[3]) * Heads + t.head) * SectorsPerTrack + t.io[1] - 1
  ELSE t.io[1] + Byte * t.io[2] + Byte2 * t.io[3]
         + Byte3 * (IF t.mode = "LBA28" THEN t.head ELSE t.io[4])

(* The blocks a cylinder number of 16 bits reaches. *)
ChsLimit == Byte2 * Heads * SectorsPerTrack
=============================================================================
