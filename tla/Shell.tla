------------------------------- MODULE Shell --------------------------------
(***************************************************************************)
(* The command line as its user sees it: Keyboard.tla with the line typed  *)
(* since the last Enter beside it.  The routine has no notion of a line,   *)
(* it only looks at the end of its buffer, so what a typed line does is a  *)
(* question about many interrupts.                                         *)
(*                                                                         *)
(* The image that opens IRQ 1 is the one compiled as not installed, and it *)
(* takes keys as the installer's from the moment the kernel enables        *)
(* interrupts to the moment it has verified the installation on the disk.  *)
(* What was typed by then is in the buffer the command line starts with.   *)
(* No page is drawn before the verification, and the routine looks at the  *)
(* pages' flags only while isInstalled is FALSE, so they stay FALSE here.  *)
(* A system that is not verified goes on as Kernel.tla has it.             *)
(***************************************************************************)
EXTENDS Keyboard

CONSTANT MaxLine   \* bound: the last characters of a line that are kept

ASSUME ShellAssumption == MaxLine \in Nat \ {0}

VARIABLES
  line,     \* the characters typed since the last Enter, with it
  early,    \* history: a movement's letter was in the buffer when the
            \*   installation was verified
  left,     \* history: the buffer as the last command left it
  lastRan   \* history: that command, or "none"

shellVars == << keyboardVars, line, early, left, lastRan >>

(* The commands whose spelling has none of the letters d, s, w, a. *)
PlainCommand ==
  {c \in Command : \A i \in 1 .. Len(Spelling[c]) : Spelling[c][i] \notin MoveKey}

Init ==
  /\ InitKeyboard
  /\ isInstalled = FALSE
  /\ line = << >> /\ early = FALSE
  /\ left = << >> /\ lastRan = "none"

(* kb_init and enable_interrupts. *)
OpenLine ==
  /\ irq1 = "masked"
  /\ irq1' = "open"
  /\ Ignore
  /\ UNCHANGED << kbI, isInstalled, servicePage, agreePage, agreePage2,
                  line, early, left, lastRan >>

(* The marker is on the disk. *)
Verified ==
  /\ irq1 # "masked" /\ ~ isInstalled
  /\ isInstalled' = TRUE
  /\ early' = \E i \in 1 .. Len(input_buffer) : input_buffer[i] \in MoveKey
  /\ Ignore
  /\ UNCHANGED << irq1, kbI, servicePage, agreePage, agreePage2,
                  line, left, lastRan >>

(* At most MaxLine characters: a longer line keeps its end. *)
Extended(ch) ==
  LET longer == IF EndsIn(line, "\n") THEN << ch >> ELSE Append(line, ch)
  IN  IF Len(longer) > MaxLine THEN Tail(longer) ELSE longer

TypeKey(k) ==
  /\ Press(k)
  /\ line' = Extended(keyboard_map[k])
  /\ left' = IF ran' = "none" THEN left ELSE input_buffer'
  /\ lastRan' = IF ran' = "none" THEN lastRan ELSE ran'
  /\ UNCHANGED early

Other ==
  /\ NoKey \/ AfterPoweroff
  /\ UNCHANGED << line, early, left, lastRan >>

Next == OpenLine \/ Verified \/ (\E k \in Key : TypeKey(k)) \/ Other
Spec == Init /\ [][Next]_shellVars

-----------------------------------------------------------------------------
ShellTypeOK ==
  /\ KeyboardTypeOK
  /\ line \in Seq(Char) /\ Len(line) <= MaxLine
  /\ early \in BOOLEAN
  /\ left \in Seq(Char)
  /\ lastRan \in Command \cup {"none"}

(* A line that spells a plain command runs it, whatever the lines before   *)
(* left in the buffer and whatever was typed before the verification, as   *)
(* long as there is room for its Enter (the tests of input_buffer in       *)
(* handle_keyboard_interrupt).                                             *)
PlainLineRuns ==
  [][\A c \in PlainCommand :
       isInstalled /\ ~ BufferFull /\ line' = Spelling[c] /\ line' # line
         => ran' = c]_shellVars

(* The help menu's promise for every command it lists: a line that spells  *)
(* the command runs it.                                                    *)
ListedLineRuns ==
  [][\A c \in Command :
       isInstalled /\ ~ BufferFull /\ line' = Spelling[c] /\ line' # line
         => ran' = c]_shellVars

(* The movement keys eat their letter as it is typed, so a command spelt   *)
(* with one runs only on letters typed before the installation was         *)
(* verified; and what any other command leaves is between those letters    *)
(* and the next line, so it is the session's first command or the last one *)
(* once more.                                                              *)
MoveCommandsAreEarly ==
  [][\A c \in Command \ PlainCommand :
       ran' = c => early /\ lastRan \in {"none", c}]_shellVars

(* What a command leaves at the front of the buffer is never taken away,   *)
(* neither by later commands nor by movements, and every plain command     *)
(* typed as a line of its own leaves more: the command line wears out.     *)
BufferWearsOut ==
  [][/\ IsPrefix(left, left')
     /\ \A c \in PlainCommand :
          isInstalled /\ ~ BufferFull /\ line' = Spelling[c] /\ line' # line
            => Len(left') > Len(left)]_shellVars
=============================================================================
