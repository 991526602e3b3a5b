------------------------------- MODULE Desktop -------------------------------
(***************************************************************************)
(* The installer's image on a machine where the keyboard's line, the       *)
(* interrupt routine and the desktop loop meet: init_idt and kb_init send  *)
(* their words to the interrupt controllers (Pic.tla), the routine         *)
(* (Keyboard.tla) takes the keyboard's bytes from port 0x60, and, if the   *)
(* disk holds a system, so does every frame of the desktop, for the mouse  *)
(* (Mouse.tla), until the first interrupt has set kbI.                     *)
(*                                                                         *)
(* mouse_init is not called on this image, so the mouse sends nothing.     *)
(* The installer's pages are in Kernel.tla: none is shown here.            *)
(***************************************************************************)
EXTENDS Pic, Integers, Sequences

CONSTANTS
  Key, BufferSize, CoordModulus,   \* as in Keyboard.tla
  MaxX, MaxY,                      \* as in Mouse.tla
  KeyCode,    \* the byte a key sends when pressed; its release adds 128
  MaxBytes    \* bound: bytes the keyboard sends

ASSUME DesktopAssumption ==
  /\ Key \subseteq STRING
  /\ BufferSize \in Nat \ {0} /\ CoordModulus \in Nat \ {0}
  /\ MaxX \in Nat /\ MaxY \in Nat
  /\ KeyCode \in [Key -> 0 .. 127]
  /\ MaxBytes \in Nat

VARIABLES
  pc,          \* the number of the next word to send, then one of those below
  marked,      \* the disk holds the marker of an installation
  sti,         \* the processor takes interrupts
  pic,         \* the two controllers
  data, full,  \* the byte at port 0x60, and whether it is a new one
  queue,       \* bytes the keyboard has to send
  sent,        \* bytes it has had to send
  kbI, poweroff_sys, isInput, continueSetup, isInstalled, pageNumber,
  input_buffer, mx, my, ran,        \* as in Keyboard.tla
  MousePacket, X, Y, bonzi,         \* as in Mouse.tla
  early,       \* history: the byte at the port came before ICW1
  stolen,      \* history: bytes a frame took while their interrupt was on its way
  latePolls    \* history: polls after the first interrupt

line    == << isInput, continueSetup, pageNumber, input_buffer, mx, my, ran >>
routine == << kbI, poweroff_sys, line >>
mouse   == << MousePacket, X, Y, bonzi >>
port    == << data, full, queue, sent, early >>
polls   == << stolen, latePolls >>
vars == << pc, marked, sti, pic, port, routine, isInstalled, mouse, polls >>

Words == init_idt \o kb_init

(* What the main thread does behind the words. *)
Sti      == Len(Words) + 1
Verified == Len(Words) + 2
Test     == Len(Words) + 3
PollPort == Len(Words) + 4

(* What the controllers and the processor make of IRQ 1. *)
irq1 == IF ~ sti \/ 1 \in pic[1].imr THEN "masked"
        ELSE IF 1 \in pic[1].isr THEN "inService"
        ELSE "open"

K == INSTANCE Keyboard WITH
  servicePage <- FALSE, agreePage <- FALSE, agreePage2 <- FALSE

M == INSTANCE Mouse WITH
  Report <- {}, Scancode <- {}, StartConfig <- 0, MaxReports <- 0, MaxKeys <- 0,
  step <- 0, status <- 0, config <- 0, queue <- << >>, reporting <- FALSE,
  reports <- 0, keys <- 0, late <- FALSE, stale <- FALSE

-----------------------------------------------------------------------------
(* The firmware leaves its own vectors and open lines behind, and possibly *)
(* the release of the key that chose the system, unread.                   *)
Init ==
  /\ pc = 1 /\ sti = FALSE
  /\ marked \in BOOLEAN
  /\ pic = << Firmware(8, {3}), Firmware(112, {}) >>
  /\ data \in {0, 156} /\ full = (data # 0) /\ early = full
  /\ queue = << >> /\ sent = 0
  /\ kbI = FALSE /\ poweroff_sys = FALSE /\ isInput = TRUE
  /\ continueSetup = FALSE /\ isInstalled = FALSE /\ pageNumber = 0
  /\ input_buffer = << >> /\ mx = 0 /\ my = 0 /\ ran = "none"
  /\ MousePacket = << >> /\ X = 0 /\ Y = 0 /\ bonzi = FALSE
  /\ stolen = 0 /\ latePolls = 0

Go(from, to) == pc = from /\ pc' = to

(* An interrupt is taken before the next instruction. *)
Undisturbed == ~ (sti /\ Asking(pic[1]) # {})

SendWord ==
  /\ pc \in DOMAIN Words
  /\ pic' = Sent(pic, Words[pc][1], Words[pc][2])
  /\ pc' = pc + 1
  /\ UNCHANGED << marked, sti, port, routine, isInstalled, mouse, polls >>

EnableInterrupts ==
  /\ Go(Sti, Verified)
  /\ sti' = TRUE
  /\ UNCHANGED << marked, pic, port, routine, isInstalled, mouse, polls >>

Verify ==
  /\ Undisturbed /\ Go(Verified, Test)
  /\ isInstalled' = marked
  /\ UNCHANGED << marked, sti, pic, port, routine, mouse, polls >>

(* A mutant of TestKbI: the flag is cleared, as line 1283 reads. *)
TestKbIClearing ==
  /\ Undisturbed /\ isInstalled
  /\ Go(Test, IF kbI THEN Test ELSE PollPort)
  /\ kbI' = FALSE
  /\ UNCHANGED << marked, sti, pic, port, poweroff_sys, line, isInstalled, mouse, polls >>

(* A frame of the desktop tests kbI; the installer's loop does not.        *)
(* "kbI == FALSE;" behind the test changes nothing.                        *)
TestKbI ==
  /\ Undisturbed /\ isInstalled
  /\ Go(Test, IF kbI THEN Test ELSE PollPort)
  /\ UNCHANGED << marked, sti, pic, port, routine, isInstalled, mouse, polls >>

(* The port is read, whatever is there.  A byte may come, and its          *)
(* interrupt be asked for, while the reading instruction is executed.      *)
Poll ==
  /\ Go(PollPort, Test)
  /\ M!HandlePS2Mouse(data)
  /\ full' = FALSE /\ early' = FALSE
  /\ stolen' = stolen + (IF full /\ 1 \in pic[1].irr THEN 1 ELSE 0)
  /\ latePolls' = latePolls + (IF kbI THEN 1 ELSE 0)
  /\ UNCHANGED << marked, sti, pic, data, queue, sent, routine, isInstalled >>

(* The installer's loop draws its pages. *)
Installer ==
  /\ Undisturbed /\ ~ isInstalled /\ pc = Test
  /\ UNCHANGED vars

Main == SendWord \/ EnableInterrupts \/ Verify \/ TestKbI \/ Poll \/ Installer

-----------------------------------------------------------------------------
(* The key whose press sent a byte, if it is one. *)
Pressed(b) == {k \in Key : KeyCode[k] = b}

(* The routine takes the byte if there is one: a press is a character, a   *)
(* release is not.                                                         *)
TakeByte ==
  /\ full' = FALSE /\ early' = FALSE
  /\ IF full /\ Pressed(data) # {}
     THEN \E k \in Pressed(data) : K!Receive(K!keyboard_map[k])
     ELSE K!Ignore

Served == Sent([pic EXCEPT ![1] = Taken(@)], PIC1_COMMAND_PORT, 32)

(* What the processor does at an entry that is not the keyboard's is not   *)
(* modelled: the machine goes no further.                                  *)
Entry ==
  /\ sti /\ Asking(pic[1]) # {} /\ Vector(pic[1]) = 33
  /\ kbI' = TRUE
  /\ UNCHANGED << pc, marked, sti, data, queue, sent, isInstalled, mouse, polls >>

(* Mutants: the routine goes on after a power-off; the controller is not   *)
(* told that the interrupt has ended.                                      *)
AfterPoweroffTaken ==
  /\ Entry /\ poweroff_sys
  /\ pic' = Served
  /\ TakeByte

InterruptUnended ==
  /\ Entry /\ ~ poweroff_sys
  /\ pic' = [pic EXCEPT ![1] = Taken(@)]
  /\ TakeByte

Interrupt ==
  /\ Entry /\ ~ poweroff_sys
  /\ pic' = Served
  /\ TakeByte

(* After a power-off the routine returns before the end of the interrupt   *)
(* is sent and before the byte is read.                                    *)
AfterPoweroff ==
  /\ Entry /\ poweroff_sys
  /\ pic' = [pic EXCEPT ![1] = Taken(@)]
  /\ K!Ignore
  /\ UNCHANGED << full, early >>

-----------------------------------------------------------------------------
(* A key is pressed or released. *)
KeyMoves ==
  /\ sent < MaxBytes
  /\ sent' = sent + 1
  /\ \E k \in Key, release \in {0, 128} : queue' = Append(queue, KeyCode[k] + release)
  /\ UNCHANGED << pc, marked, sti, pic, data, full, early, routine, isInstalled, mouse, polls >>

(* The next byte comes to the port when it is free, and IRQ 1 rises. *)
Deliver ==
  /\ ~ full /\ queue # << >>
  /\ data' = Head(queue) /\ queue' = Tail(queue)
  /\ full' = TRUE /\ early' = (pc = 1)
  /\ pic' = Raised(pic, 1, 1)
  /\ UNCHANGED << pc, marked, sti, sent, routine, isInstalled, mouse, polls >>

(* The timer and the drives raise theirs. *)
OtherDevices ==
  /\ \E l \in {<< 1, 0 >>, << 2, 6 >>} :
       /\ l[2] \notin pic[l[1]].irr
       /\ pic' = Raised(pic, l[1], l[2])
  /\ UNCHANGED << pc, marked, sti, port, routine, isInstalled, mouse, polls >>

Next ==
  \/ Main \/ Interrupt \/ AfterPoweroff
  \/ KeyMoves \/ Deliver \/ OtherDevices

Spec == Init /\ [][Next]_vars

(* The processor runs on and takes what is asked for, and the controller   *)
(* of the keyboard passes on what it has.                                  *)
FairSpec ==
  /\ Spec
  /\ WF_vars(Main) /\ WF_vars(Interrupt \/ AfterPoweroff) /\ WF_vars(Deliver)

-----------------------------------------------------------------------------
(* Every variable has its type. *)
TypeOK ==
  /\ K!KeyboardTypeOK
  /\ pc \in 1 .. PollPort
  /\ pic \in [1 .. 2 -> Chip]
  /\ data \in 0 .. 255 /\ Len(queue) <= MaxBytes
  /\ MousePacket \in Seq(0 .. 255) /\ Len(MousePacket) < 3
  /\ X \in 0 .. MaxX /\ Y \in 0 .. MaxY

(* No interrupt reaches an entry of the table that was not filled,         *)
(* although the words of the second controller went to the first.  It      *)
(* holds of controllers without ModeBit: an 8259A, which init_idt leaves   *)
(* in the mode of another processor, answers the first key with entry 8.   *)
OnlyGates == sti /\ Asking(pic[1]) # {} => Vector(pic[1]) \in Gate

(* The frame that had tested kbI before the first interrupt is the last to *)
(* poll, and the only one to take a byte from the keyboard's routine:      *)
(* because kbI is never cleared, no key is lost to the mouse after it.     *)
OneByteLost == stolen <= 1 /\ latePolls <= 1

(* The controllers serve the routine as Keyboard.tla has it: it runs when  *)
(* its line is open and never again once it has left it in service.        *)
OpensIrq1 ==
  /\ irq1 = "masked" /\ irq1' = "open"
  /\ UNCHANGED << routine, isInstalled >>

BecomesInstalled == isInstalled' /\ irq1' = irq1 /\ UNCHANGED routine

RoutineAsSpecified ==
  [][\/ \E k \in Key : K!Press(k)
     \/ K!NoKey \/ K!AfterPoweroff
     \/ OpensIrq1 \/ BecomesInstalled]_<< irq1, routine, isInstalled >>

(* Every byte is taken from the port, by the routine or by a frame, unless *)
(* the system was left from the welcome page, or the byte came before ICW1 *)
(* on a machine without an installation: its edge is forgotten, and nobody *)
(* polls.                                                                  *)
PortDrains == full ~> ~ full \/ poweroff_sys \/ (early /\ ~ marked)
=============================================================================
