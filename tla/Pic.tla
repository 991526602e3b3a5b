--------------------------------- MODULE Pic ---------------------------------
(***************************************************************************)
(* The two 8259 interrupt controllers and the words ViaOS sends them       *)
(* (init_idt and kb_init of init/main.c).                                  *)
(*                                                                         *)
(* A controller that was sent ICW1 takes what arrives at its data port as  *)
(* ICW2, ICW3 and ICW4 in this order, and as its mask from then on; it     *)
(* asks for no interrupt before.  Its lines are edge triggered: ICW1       *)
(* forgets the edges that came before it.  Two bits of ICW4 matter: an     *)
(* 8259A without the first answers as for an MCS-80/85 processor, and the  *)
(* second ends every interrupt as it is taken.  The others are about the   *)
(* bus and the second controller's requests, which never come.             *)
(***************************************************************************)
EXTENDS Naturals, FiniteSetsExt

CONSTANT
  ModeBit   \* the controllers heed ICW4's mode bit, as an 8259A does; not QEMU's

ASSUME PicAssumption == ModeBit \in BOOLEAN

Line == 0 .. 7

PIC1_COMMAND_PORT == 32
PIC1_DATA_PORT == 33
PIC2_COMMAND_PORT == 160
PIC2_DATA_PORT == 161

Has(word, bit) == (word \div bit) % 2 = 1
Lines(word) == {l \in Line : Has(word, 2 ^ l)}

(* What init_idt sends, as << port, word >>.  All but two words go to the  *)
(* first controller: it takes 32 for ICW2, 40 for ICW3, 0 for ICW4, and    *)
(* the rest for masks.                                                     *)
init_idt ==
  << << PIC1_COMMAND_PORT, 17 >>, << PIC2_COMMAND_PORT, 17 >>,    \* ICW1
     << PIC1_DATA_PORT, 32 >>,    << PIC1_DATA_PORT, 40 >>,       \* "ICW2"
     << PIC1_DATA_PORT, 0 >>,     << PIC2_DATA_PORT, 0 >>,        \* "ICW3"
     << PIC1_DATA_PORT, 1 >>,     << PIC1_DATA_PORT, 1 >>,        \* "ICW4"
     << PIC1_DATA_PORT, 255 >>,   << PIC1_DATA_PORT, 255 >> >>    \* masks

(* A mutant of kb_init: the timer's line is opened as well. *)
kb_initTimer == << << PIC1_DATA_PORT, 252 >> >>

kb_init == << << PIC1_DATA_PORT, 253 >> >>

(* The entries init_idt fills: the keyboard's and the disk's. *)
Gate == {33, 46}

-----------------------------------------------------------------------------
Expected == {"ICW2", "ICW3", "ICW4", "mask"}

Chip == [expects : Expected, base : 0 .. 255,
         mode8086 : BOOLEAN, autoEnd : BOOLEAN,
         imr : SUBSET Line, irr : SUBSET Line, isr : SUBSET Line]

(* As the firmware leaves a controller that it programmed at base. *)
Firmware(base, mask) ==
  [expects |-> "mask", base |-> base, mode8086 |-> TRUE, autoEnd |-> FALSE,
   imr |-> mask, irr |-> {}, isr |-> {}]

(* A word at the command port: ICW1, or the end of an interrupt. *)
Command(chip, word) ==
  IF Has(word, 16)
  THEN [chip EXCEPT !.expects = "ICW2", !.imr = {}, !.irr = {}, !.isr = {}]
  ELSE IF word = 32 /\ chip.isr # {} THEN [chip EXCEPT !.isr = @ \ {Min(@)}]
  ELSE chip

Data(chip, word) ==
  CASE chip.expects = "ICW2" -> [chip EXCEPT !.expects = "ICW3", !.base = word - (word % 8)]
    [] chip.expects = "ICW3" -> [chip EXCEPT !.expects = "ICW4"]
    [] chip.expects = "ICW4" -> [chip EXCEPT !.expects = "mask",
                                   !.mode8086 = Has(word, 1), !.autoEnd = Has(word, 2)]
    [] chip.expects = "mask" -> [chip EXCEPT !.imr = Lines(word)]

Sent(chips, port, word) ==
  CASE port = PIC1_COMMAND_PORT -> [chips EXCEPT ![1] = Command(@, word)]
    [] port = PIC2_COMMAND_PORT -> [chips EXCEPT ![2] = Command(@, word)]
    [] port = PIC1_DATA_PORT    -> [chips EXCEPT ![1] = Data(@, word)]
    [] port = PIC2_DATA_PORT    -> [chips EXCEPT ![2] = Data(@, word)]

(* A line rises. *)
Raised(chips, c, line) == [chips EXCEPT ![c].irr = @ \cup {line}]

(* The lines a controller asks for, and the vector it would answer with:   *)
(* without the mode of an 8086, the low byte of a call into the table that *)
(* ICW1 described, at 0 with eight bytes for each line.                    *)
Asking(chip) ==
  IF chip.expects # "mask" THEN {}
  ELSE {l \in chip.irr \ chip.imr : \A s \in chip.isr : l < s}

Vector(chip) ==
  IF ModeBit /\ ~ chip.mode8086
  THEN 8 * Min(Asking(chip))
  ELSE chip.base + Min(Asking(chip))

(* The processor takes the interrupt. *)
Taken(chip) ==
  LET l == Min(Asking(chip))
  IN  [chip EXCEPT !.irr = @ \ {l}, !.isr = IF chip.autoEnd THEN @ ELSE @ \cup {l}]
=============================================================================
