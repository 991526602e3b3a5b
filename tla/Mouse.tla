-------------------------------- MODULE Mouse --------------------------------
(***************************************************************************)
(* The PS/2 mouse (init/main.c): mouse_init talks to the mouse through the *)
(* 8042 controller, the desktop loop polls one byte per frame and moves    *)
(* the cursor with every third.  This is the committed image, on which the *)
(* keyboard's interrupt never comes (CommittedImageIsDeaf of Kernel.tla):  *)
(* kbI stays FALSE, and a pressed key's byte waits in the controller for   *)
(* whoever reads the port.                                                 *)
(*                                                                         *)
(* The controller and its two devices work on their own between the        *)
(* driver's steps.  It takes commands at once, so WaitMouse never waits;   *)
(* WaitInput ends with a byte or after its 100000 looks without one.       *)
(***************************************************************************)
EXTENDS Integers, Sequences

CONSTANTS
  MaxX, MaxY,    \* VGA_MAX_WIDTH - 8 and VGA_MAX_HEIGHT - 16: 312 and 184
  Report,        \* the packets the mouse may send: flags, x, y
  Scancode,      \* what the keyboard may send
  StartConfig,   \* the controller's configuration byte before the boot
  MaxReports,    \* bound: packets sent
  MaxKeys        \* bound: keys pressed

Byte == 0 .. 255
Packet == [1 .. 3 -> Byte]
Source == {"kbd", "aux", "ctl"}

ASSUME MouseAssumption ==
  /\ MaxX \in Nat /\ MaxY \in Nat
  /\ Report \subseteq Packet /\ Scancode \subseteq Byte /\ StartConfig \in Byte
  /\ MaxReports \in Nat /\ MaxKeys \in Nat

VARIABLES
  step,            \* the step of mouse_init, then Desktop
  status,          \* mouse_init's copy of the configuration byte
  MousePacket,     \* the bytes taken of a packet: MouseCycle is their number
  X, Y,            \* MousePosition
  bonzi,           \* the left button is down
  data, full,      \* the byte at port 0x60, and whether it is a new one
  config,          \* the controller's configuration byte
  queue,           \* what keyboard, mouse and controller have to send
  reporting,       \* the mouse sends packets on its own
  reports, keys,   \* history: packets sent, keys pressed
  late,            \* history: WaitInput gave up
  stale            \* history: the loop polled a byte that was not new

cursor     == << X, Y, bonzi >>
parser     == << MousePacket, cursor >>
controller == << config, queue, reporting >>
history    == << reports, keys, late, stale >>
vars == << step, status, parser, data, full, controller, history >>

-----------------------------------------------------------------------------
(* Bits of a byte, by the value of the bit. *)
Has(b, bit) == (b \div bit) % 2 = 1
With(b, bit) == IF Has(b, bit) THEN b ELSE b + bit
Without(b, bit) == IF Has(b, bit) THEN b - bit ELSE b

PS2Leftbutton == 1
PS2XSign == 16
PS2YSign == 32
PS2XOverflow == 64
PS2YOverflow == 128

ACK == 250
AuxInterrupt == 2   \* bits of the configuration byte
KbdOff == 16
AuxOff == 32

(* Mutants of mouse_init: the rate's second answer, the last answer is     *)
(* left unread.                                                            *)
mouse_initRateUnread ==
  << "enable", "rateToKbd", "ReadMouse", "rateToKbd", "askConfig",
     "readConfig", "writeConfig", "defaults", "ReadMouse", "report", "ReadMouse" >>

mouse_initLastUnread ==
  << "enable", "rateToKbd", "ReadMouse", "rateToKbd", "ReadMouse", "askConfig",
     "readConfig", "writeConfig", "defaults", "ReadMouse", "report" >>

(* The accesses of mouse_init in their order.  set_mouse_rate's two bytes  *)
(* go to the keyboard: nothing tells the controller they are the mouse's.  *)
mouse_init ==
  << "enable", "rateToKbd", "ReadMouse", "rateToKbd", "ReadMouse", "askConfig",
     "readConfig", "writeConfig", "defaults", "ReadMouse", "report", "ReadMouse" >>

Desktop == Len(mouse_init) + 1

At(action) == step <= Len(mouse_init) /\ mouse_init[step] = action

-----------------------------------------------------------------------------
Init ==
  /\ step = 1 /\ status = 0
  /\ MousePacket = << >>
  /\ X = 0 /\ Y = 0 /\ bonzi = FALSE
  /\ data = 0 /\ full = FALSE
  /\ config = StartConfig
  /\ queue = [from \in Source |-> << >>]
  /\ reporting = FALSE
  /\ reports = 0 /\ keys = 0 /\ late = FALSE /\ stale = FALSE

Off(from) ==
  (from = "kbd" /\ Has(config, KbdOff)) \/ (from = "aux" /\ Has(config, AuxOff))

Queued(from, b) == [queue EXCEPT ![from] = Append(@, b)]

(* A device that is switched off does not hear what is sent to it. *)
Answered(from) == queue' = IF Off(from) THEN queue ELSE Queued(from, ACK)

Advance == step' = step + 1

EnablePort ==
  /\ At("enable") /\ Advance
  /\ config' = Without(config, AuxOff)
  /\ UNCHANGED << status, parser, data, full, queue, reporting, history >>

RateToKbd ==
  /\ At("rateToKbd") /\ Advance
  /\ Answered("kbd")
  /\ UNCHANGED << status, parser, data, full, config, reporting, history >>

AskConfig ==
  /\ At("askConfig") /\ Advance
  /\ queue' = Queued("ctl", config)
  /\ UNCHANGED << status, parser, data, full, config, reporting, history >>

(* WaitInput and the read after it, which takes the old byte again if no   *)
(* new one came in time.                                                   *)
WaitInputAndRead ==
  /\ full' = FALSE
  /\ late' = (late \/ ~ full)
  /\ UNCHANGED << parser, data, controller, reports, keys, stale >>

ReadMouse == At("ReadMouse") /\ Advance /\ WaitInputAndRead /\ UNCHANGED status

ReadConfig ==
  /\ At("readConfig") /\ Advance
  /\ WaitInputAndRead
  /\ status' = With(data, AuxInterrupt)

WriteConfig ==
  /\ At("writeConfig") /\ Advance
  /\ config' = status
  /\ UNCHANGED << status, parser, data, full, queue, reporting, history >>

(* WriteMouse(0xF6) and WriteMouse(0xF4). *)
WriteMouse ==
  /\ At("defaults") \/ At("report")
  /\ Advance
  /\ Answered("aux")
  /\ reporting' = IF Off("aux") THEN reporting ELSE At("report")
  /\ UNCHANGED << status, parser, data, full, config, history >>

-----------------------------------------------------------------------------
(* ProcessMousePacket.  A packet's byte is negated in eight bits.          *)
Steps(flags, sign, overflow, b) ==
  LET far == IF Has(flags, overflow) THEN 255 ELSE 0
  IN  IF Has(flags, sign) THEN - ((256 - b) % 256) - far ELSE (b \div 5) + far

(* Mutants of Clamp: no upper edge; the cursor comes in on the other side. *)
ClampBelow(v, max) == IF v < 0 THEN 0 ELSE v
ClampAround(v, max) == IF v < 0 THEN max ELSE IF v > max THEN 0 ELSE v

Clamp(v, max) == IF v < 0 THEN 0 ELSE IF v > max THEN max ELSE v

ProcessMousePacket(p) ==
  /\ X' = Clamp(X + Steps(p[1], PS2XSign, PS2XOverflow, p[2]), MaxX)
  /\ Y' = Clamp(Y - Steps(p[1], PS2YSign, PS2YOverflow, p[3]), MaxY)
  /\ bonzi' = Has(p[1], PS2Leftbutton)

(* HandlePS2Mouse.  data & (0b1000 == 0) is 0 for every byte, so any byte  *)
(* starts a packet; and a whole one is processed before the next byte.     *)
HandlePS2Mouse(b) ==
  LET packet == Append(MousePacket, b)
  IN  IF Len(packet) = 3
      THEN MousePacket' = << >> /\ ProcessMousePacket(packet)
      ELSE MousePacket' = packet /\ UNCHANGED cursor

(* A frame of the desktop.  Nobody asks whether the byte is a new one, or  *)
(* whose it is.                                                            *)
Poll ==
  /\ step = Desktop
  /\ HandlePS2Mouse(data)
  /\ full' = FALSE
  /\ stale' = (stale \/ ~ full)
  /\ UNCHANGED << step, status, data, controller, reports, keys, late >>

Main ==
  \/ EnablePort \/ RateToKbd \/ AskConfig \/ ReadMouse \/ ReadConfig
  \/ WriteConfig \/ WriteMouse \/ Poll

-----------------------------------------------------------------------------
(* The devices. *)
KeyPressed ==
  /\ keys < MaxKeys /\ ~ Off("kbd")
  /\ keys' = keys + 1
  /\ \E b \in Scancode : queue' = Queued("kbd", b)
  /\ UNCHANGED << step, status, parser, data, full, config, reporting, reports, late, stale >>

Move ==
  /\ reporting /\ reports < MaxReports /\ ~ Off("aux")
  /\ reports' = reports + 1
  /\ \E p \in Report : queue' = [queue EXCEPT !["aux"] = @ \o p]
  /\ UNCHANGED << step, status, parser, data, full, config, reporting, keys, late, stale >>

(* The next byte of some source comes to the port when it is free. *)
Deliver ==
  /\ ~ full
  /\ \E from \in Source :
       /\ queue[from] # << >> /\ ~ Off(from)
       /\ data' = Head(queue[from])
       /\ queue' = [queue EXCEPT ![from] = Tail(@)]
  /\ full' = TRUE
  /\ UNCHANGED << step, status, parser, config, reporting, history >>

Next == Main \/ KeyPressed \/ Move \/ Deliver

Spec == Init /\ [][Next]_vars

(* The main thread goes on; there is nothing it could block on. *)
FairSpec == Spec /\ WF_vars(Main)

-----------------------------------------------------------------------------
(* Every variable has its type; in particular the square drawn at the      *)
(* cursor lies on the screen, whatever bytes came.                         *)
TypeOK ==
  /\ step \in 1 .. Desktop
  /\ status \in Byte /\ data \in Byte /\ config \in Byte
  /\ MousePacket \in Seq(Byte) /\ Len(MousePacket) < 3
  /\ X \in 0 .. MaxX /\ Y \in 0 .. MaxY
  /\ bonzi \in BOOLEAN /\ full \in BOOLEAN /\ reporting \in BOOLEAN
  /\ late \in BOOLEAN /\ stale \in BOOLEAN
  /\ queue \in [Source -> Seq(Byte)]
  /\ reports \in 0 .. MaxReports /\ keys \in 0 .. MaxKeys

Undisturbed == keys = 0 /\ ~ late

(* Without a key press and with answers in time, mouse_init writes no      *)
(* other configuration than the one it read with the mouse's interrupt     *)
(* added, and leaves it to the desktop with a mouse that reports.          *)
ConfigurationKept ==
  LET enabled == Without(StartConfig, AuxOff)
      kept    == With(enabled, AuxInterrupt)
  IN  Undisturbed => /\ config \in {StartConfig, enabled, kept}
                     /\ step = Desktop => config = kept /\ reporting

(* Until a frame polls too early, the packets the desktop processes are    *)
(* the ones the mouse sent: no answer to mouse_init is left over.          *)
PacketsWhole ==
  [][MousePacket' = << >> /\ MousePacket # << >> /\ Undisturbed /\ ~ stale'
       => Append(MousePacket, data) \in Report]_vars

(* The desktop takes the last byte again and again, for packets that were  *)
(* never sent: once the devices are silent these drive the cursor into a   *)
(* corner at most, where it rests.                                         *)
CursorRests == <>[][UNCHANGED cursor]_vars
=============================================================================
