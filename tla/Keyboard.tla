------------------------------ MODULE Keyboard ------------------------------
(***************************************************************************)
(* handle_keyboard_interrupt (init/main.c): the IRQ 1 service routine,     *)
(* which is also ViaOS's whole input side.  It keeps the line buffer and   *)
(* interprets it, either as the command line (isInstalled) or as the       *)
(* answers to the pages of the installer.                                  *)
(*                                                                         *)
(* IRQ 1 enters through an interrupt gate, so the routine runs with        *)
(* interrupts off: one interrupt is one step.  What the kernel's main      *)
(* thread does to the same variables between interrupts is in Kernel.tla.  *)
(***************************************************************************)
EXTENDS Naturals, SequencesExt

CONSTANTS
  Key,           \* the keys of the keyboard that get pressed
  BufferSize,    \* BUFFER_SIZE, 128 in the source
  CoordModulus   \* mx and my are uint16_t: 65536 in the source

ASSUME KeyboardAssumption ==
  /\ Key \subseteq STRING
  /\ BufferSize \in Nat \ {0}
  /\ CoordModulus \in Nat \ {0}

VARIABLES
  irq1,           \* how the 8259 treats IRQ 1: "masked", "open", "inService"
  kbI,
  poweroff_sys, isInput, continueSetup,
  isInstalled,
  servicePage, agreePage, agreePage2,   \* pages the main thread has shown
  pageNumber,
  input_buffer,   \* the characters below buffer_pos
  mx, my,
  ran             \* the command the last interrupt dispatched, or "none"

keyboardVars ==
  << irq1, kbI, poweroff_sys, isInput, continueSetup, isInstalled,
     servicePage, agreePage, agreePage2, pageNumber, input_buffer, mx, my, ran >>

(* Keys whose cap is not the character they produce. *)
ControlKey == {"Enter", "Backspace", "Shift", "Tab", "Escape"}

(* The character 0x08 the routine takes for a backspace. *)
BS == "BS"

(* keyboard_map: every control key but Enter produces a space. *)
keyboard_map ==
  [k \in Key |-> IF k = "Enter" THEN "\n"
                 ELSE IF k \in ControlKey THEN " " ELSE k]

Char == {keyboard_map[k] : k \in Key}

(* The command line: the spellings the routine compares the buffer with.   *)
Spelling ==
  [hi       |-> << "h", "i", "\n" >>,
   info     |-> << "i", "n", "f", "o", "\n" >>,
   help     |-> << "h", "e", "l", "p", "\n" >>,
   ld       |-> << "l", "d", "\n" >>,
   whoami   |-> << "w", "h", "o", "a", "m", "i", "\n" >>,
   shutdown |-> << "s", "h", "u", "t", "d", "o", "w", "n", "\n" >>,
   cd       |-> << "c", "d", "\n" >>]

Command == DOMAIN Spelling
MoveKey == {"d", "s", "w", "a"}

EndsIn(buf, c) == buf # << >> /\ Last(buf) = c

(* A mutant of Spells: the buffer is compared from its start. *)
SpellsWholeBuffer(c, buf) == buf = Spelling[c]

(* The buffer ends in the command and Enter. *)
Spells(c, buf) == IsSuffix(Spelling[c], buf)

(* A mutant of Consume: the movement's letter stays. *)
ConsumeNothing(buf, c) == buf

(* buffer_pos -= 1 when the last character is c. *)
Consume(buf, c) == IF EndsIn(buf, c) THEN Front(buf) ELSE buf

-----------------------------------------------------------------------------
InitKeyboard ==
  /\ irq1 = "masked"
  /\ kbI = FALSE
  /\ poweroff_sys = FALSE /\ isInput = TRUE /\ continueSetup = FALSE
  /\ servicePage = FALSE /\ agreePage = FALSE /\ agreePage2 = FALSE
  /\ pageNumber = 0
  /\ input_buffer = << >>
  /\ mx = 0 /\ my = 0
  /\ ran = "none"

(* The same values again, after the power was off. *)
ResetKeyboard ==
  /\ irq1' = "masked"
  /\ kbI' = FALSE
  /\ poweroff_sys' = FALSE /\ isInput' = TRUE /\ continueSetup' = FALSE
  /\ servicePage' = FALSE /\ agreePage' = FALSE /\ agreePage2' = FALSE
  /\ pageNumber' = 0
  /\ input_buffer' = << >>
  /\ mx' = 0 /\ my' = 0
  /\ ran' = "none"

(***************************************************************************)
(* A character on the command line.  No spelling is a suffix of another,   *)
(* what a command leaves in the buffer ends in no movement key, and        *)
(* shutdown returns at once: so at most one of the routine's tests of the  *)
(* buffer succeeds, except that the four movement tests run one after the  *)
(* other.  shutdown's disable_interrupts is undone by the iret that ends   *)
(* the routine.                                                            *)
(***************************************************************************)
(* A mutant of RunCommand: a command takes its whole line back. *)
RunCommandWhole(buf) ==
  \E c \in Command :
    /\ Spells(c, buf)
    /\ input_buffer' = SubSeq(buf, 1, Len(buf) - Len(Spelling[c]))
    /\ ran' = c
    /\ poweroff_sys' = (c = "shutdown")
    /\ UNCHANGED << mx, my >>

RunCommand(buf) ==
  \E c \in Command :
    /\ Spells(c, buf)
    /\ input_buffer' = SubSeq(buf, 1, Len(buf) - 2)
    /\ ran' = c
    /\ poweroff_sys' = (c = "shutdown")
    /\ UNCHANGED << mx, my >>

MoveCursor(buf) ==
  LET afterD == Consume(buf, "d")
      afterS == Consume(afterD, "s")
      afterW == Consume(afterS, "w")
      east   == IF EndsIn(buf, "d") THEN 1 ELSE 0
      south  == IF EndsIn(afterD, "s") THEN 1 ELSE 0
      north  == IF EndsIn(afterS, "w") THEN CoordModulus - 1 ELSE 0
      west   == IF EndsIn(afterW, "a") THEN CoordModulus - 1 ELSE 0
  IN  /\ \A c \in Command : ~ Spells(c, buf)
      /\ input_buffer' = Consume(afterW, "a")
      /\ mx' = (mx + east + west) % CoordModulus
      /\ my' = (my + south + north) % CoordModulus
      /\ ran' = "none"
      /\ UNCHANGED poweroff_sys

CommandLine(ch) ==
  /\ isInstalled
  /\ LET buf == Append(input_buffer, ch) IN RunCommand(buf) \/ MoveCursor(buf)
  /\ UNCHANGED << isInput, continueSetup, pageNumber >>

(***************************************************************************)
(* A character while the installer runs.  The four tests of the buffer run *)
(* one after the other, each on what the ones before it left.              *)
(***************************************************************************)
SetupPage(ch) ==
  LET typed    == Append(input_buffer, ch)
      continue == EndsIn(typed, "1") /\ ~ servicePage
      b1       == IF continue THEN Front(typed) ELSE typed
      quit     == EndsIn(b1, "2") /\ ~ servicePage
      b2       == IF quit THEN Front(b1) ELSE b1
      nextPage == servicePage /\ EndsIn(b2, "1")
      b3       == IF nextPage THEN Front(b2) ELSE b2
      lastPage == agreePage /\ EndsIn(b3, "l")
  IN  /\ ~ isInstalled
      /\ input_buffer' = IF lastPage THEN SubSeq(b3, 1, 1) ELSE b3
      /\ pageNumber' = IF lastPage THEN 5
                       ELSE IF nextPage THEN 4
                       ELSE IF continue THEN 1
                       ELSE IF agreePage2 THEN 2 ELSE pageNumber
      /\ continueSetup' = (continueSetup \/ continue)
      /\ isInput' = (isInput /\ ~ quit)
      /\ poweroff_sys' = quit
      /\ ran' = "none"
      /\ UNCHANGED << mx, my >>

(* A mutant of BufferFull: no room is kept for the terminating 0. *)
BufferFullLate == Len(input_buffer) >= BufferSize

(* The buffer has no room: buffer_pos < BUFFER_SIZE - 1 fails. *)
BufferFull == Len(input_buffer) >= BufferSize - 1

Erase ==
  /\ input_buffer' = IF input_buffer = << >> THEN << >> ELSE Front(input_buffer)
  /\ ran' = "none"
  /\ UNCHANGED << poweroff_sys, isInput, continueSetup, pageNumber, mx, my >>

Ignore ==
  /\ ran' = "none"
  /\ UNCHANGED << poweroff_sys, isInput, continueSetup, pageNumber,
                  input_buffer, mx, my >>

Receive(ch) ==
  IF ch = BS THEN Erase
  ELSE IF BufferFull THEN Ignore
  ELSE CommandLine(ch) \/ SetupPage(ch)

(***************************************************************************)
(* The interrupts.  A key press acknowledges IRQ 1 first; so does an       *)
(* interrupt that brings no key (the release of one, or an empty output    *)
(* buffer).  After a power-off the routine returns before acknowledging.   *)
(***************************************************************************)
(* A mutant of Press: the routine goes on after a power-off. *)
PressAfterPoweroff(k) ==
  /\ irq1 = "open"
  /\ kbI' = TRUE
  /\ Receive(keyboard_map[k])
  /\ UNCHANGED << irq1, isInstalled, servicePage, agreePage, agreePage2 >>

Press(k) ==
  /\ irq1 = "open" /\ ~ poweroff_sys
  /\ kbI' = TRUE
  /\ Receive(keyboard_map[k])
  /\ UNCHANGED << irq1, isInstalled, servicePage, agreePage, agreePage2 >>

NoKey ==
  /\ irq1 = "open" /\ ~ poweroff_sys
  /\ kbI' = TRUE
  /\ Ignore
  /\ UNCHANGED << irq1, isInstalled, servicePage, agreePage, agreePage2 >>

AfterPoweroff ==
  /\ irq1 = "open" /\ poweroff_sys
  /\ kbI' = TRUE
  /\ irq1' = "inService"
  /\ Ignore
  /\ UNCHANGED << isInstalled, servicePage, agreePage, agreePage2 >>

-----------------------------------------------------------------------------
(* Every variable has its type; in particular the buffer index stays where *)
(* input_buffer[buffer_pos] = 0 is inside the array.                       *)
KeyboardTypeOK ==
  /\ irq1 \in {"masked", "open", "inService"}
  /\ kbI \in BOOLEAN
  /\ poweroff_sys \in BOOLEAN /\ isInput \in BOOLEAN /\ continueSetup \in BOOLEAN
  /\ isInstalled \in BOOLEAN
  /\ servicePage \in BOOLEAN /\ agreePage \in BOOLEAN /\ agreePage2 \in BOOLEAN
  /\ pageNumber \in {0, 1, 2, 4, 5}
  /\ input_buffer \in Seq(Char) /\ Len(input_buffer) < BufferSize
  /\ mx \in 0 .. CoordModulus - 1 /\ my \in 0 .. CoordModulus - 1
  /\ ran \in Command \cup {"none"}
=============================================================================
