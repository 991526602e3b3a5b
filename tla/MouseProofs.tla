----------------------------- MODULE MouseProofs -----------------------------
(***************************************************************************)
(* Theorems about Mouse.tla, for every screen, every mouse and keyboard    *)
(* and every number of packets and keys.                                   *)
(***************************************************************************)
EXTENDS Mouse, TLAPS, SequenceTheorems

(* What the bits of a configuration byte do.                               *)
LEMMA BitsOfAByte ==
  ASSUME NEW b \in Byte
  PROVE  /\ With(b, AuxInterrupt) \in Byte
         /\ Without(b, AuxOff) \in Byte
         /\ ~ Has(With(Without(b, AuxOff), AuxInterrupt), AuxOff)
<1>1. With(b, AuxInterrupt) \in Byte
  BY SMTT(30) DEF With, Has, AuxInterrupt, Byte
<1>2. Without(b, AuxOff) \in Byte /\ ~ Has(Without(b, AuxOff), AuxOff)
  BY SMTT(30) DEF Without, Has, AuxOff, Byte
<1>3. ASSUME NEW c \in Byte, ~ Has(c, AuxOff)
      PROVE  ~ Has(With(c, AuxInterrupt), AuxOff)
  BY <1>3, SMTT(30) DEF With, Has, AuxOff, AuxInterrupt, Byte
<1> QED
  BY <1>1, <1>2, <1>3

(* A cursor on the screen stays on it, however far a packet moves it.      *)
LEMMA CursorStays ==
  ASSUME NEW v \in Int, NEW max \in Nat
  PROVE  Clamp(v, max) \in 0 .. max
BY DEF Clamp

LEMMA StepsAreIntegers ==
  ASSUME NEW flags \in Byte, NEW sign \in {PS2XSign, PS2YSign},
         NEW overflow \in {PS2XOverflow, PS2YOverflow}, NEW b \in Byte
  PROVE  Steps(flags, sign, overflow, b) \in Int
<1>1. ((256 - b) % 256) \in Int /\ (b \div 5) \in Int
  BY DEF Byte
<1> QED
  BY <1>1 DEF Steps

LEMMA PacketIsSequence ==
  ASSUME NEW p \in Report
  PROVE  p \in Seq(Byte) /\ Len(p) = 3 /\ p = << p[1], p[2], p[3] >>
<1>1. p \in [1 .. 3 -> Byte]
  BY MouseAssumption DEF Packet
<1>2. p \in Seq(Byte)
  <2>1. [1 .. 3 -> Byte] \in {[1 .. n -> Byte] : n \in Nat}
    OBVIOUS
  <2> QED BY <1>1, <2>1, SeqDef, Zenon
<1>3. Len(p) = 3
  BY <1>1, <1>2
<1> QED BY <1>1, <1>2, <1>3

LEMMA ScriptLength == Len(mouse_init) = 12 /\ Desktop = 13
BY DEF mouse_init, Desktop

(* Every variable keeps its type; the cursor stays on the screen whatever  *)
(* bytes the desktop polls.                                                *)
THEOREM MouseTypeCorrect == Spec => []TypeOK
<1>1. Init => TypeOK
  <2> SUFFICES ASSUME Init PROVE TypeOK
    OBVIOUS
  <2>1. /\ MousePacket \in Seq(Byte) /\ Len(MousePacket) < 3
        /\ queue \in [Source -> Seq(Byte)]
    BY DEF Init
  <2>2. /\ X \in 0 .. MaxX /\ Y \in 0 .. MaxY
        /\ reports \in 0 .. MaxReports /\ keys \in 0 .. MaxKeys
        /\ step \in 1 .. Desktop
    BY MouseAssumption, ScriptLength DEF Init
  <2>3. status \in Byte /\ data \in Byte /\ config \in Byte
    BY MouseAssumption DEF Init, Byte
  <2> QED
    BY <2>1, <2>2, <2>3 DEF Init, TypeOK
<1>2. TypeOK /\ [Next]_vars => TypeOK'
  <2> SUFFICES ASSUME TypeOK, [Next]_vars
               PROVE  TypeOK'
    OBVIOUS
  <2> USE ScriptLength
  <2>a. \A from \in Source, b \in Byte :
           Queued(from, b) \in [Source -> Seq(Byte)]
    BY DEF TypeOK, Queued
  <2>b. ACK \in Byte
    BY DEF ACK, Byte
  <2>d. ASSUME NEW from \in {"kbd", "aux"}, Answered(from)
        PROVE  queue' \in [Source -> Seq(Byte)]
    <3>1. from \in Source /\ queue \in [Source -> Seq(Byte)]
      BY DEF Source, TypeOK
    <3>2. Queued(from, ACK) \in [Source -> Seq(Byte)]
      BY <3>1, <2>a, <2>b
    <3>3. queue' = queue \/ queue' = Queued(from, ACK)
      BY <2>d DEF Answered
    <3> QED
      BY <3>1, <3>2, <3>3
  <2>e. "ctl" \in Source
    BY DEF Source
  <2>1. CASE EnablePort
    BY <2>1, BitsOfAByte DEF EnablePort, TypeOK, Advance, At, parser, cursor, history
  <2>2. CASE RateToKbd
    BY <2>2, <2>d DEF RateToKbd, TypeOK, Advance, At, parser, cursor, history
  <2>3. CASE AskConfig
    BY <2>3, <2>a, <2>e DEF AskConfig, TypeOK, Advance, At, parser, cursor, history
  <2>c. ASSUME WaitInputAndRead PROVE  /\ late' \in BOOLEAN /\ full' \in BOOLEAN
                 /\ UNCHANGED << parser, data, controller, reports, keys, stale >>
    BY <2>c, Zenon DEF WaitInputAndRead, TypeOK
  <2>4. CASE ReadMouse
    BY <2>4, <2>c DEF ReadMouse, TypeOK, Advance, At, parser, cursor, controller
  <2>5. CASE ReadConfig
    BY <2>5, <2>c, BitsOfAByte DEF ReadConfig, TypeOK, Advance, At, parser, cursor, controller
  <2>6. CASE WriteConfig
    BY <2>6 DEF WriteConfig, TypeOK, Advance, At, parser, cursor, history
  <2>7. CASE WriteMouse
    <3>1. reporting' \in BOOLEAN
      BY <2>7, Zenon DEF WriteMouse, TypeOK, At
    <3>2. step' \in 1 .. Desktop
      BY <2>7 DEF WriteMouse, TypeOK, Advance, At
    <3> QED
      BY <2>7, <3>1, <3>2, <2>d DEF WriteMouse, TypeOK, parser, cursor, history
  <2>8. CASE Poll
    <3>1. /\ full' = FALSE /\ stale' \in BOOLEAN
          /\ UNCHANGED << step, status, data, config, queue, reporting, reports, keys, late >>
      BY <2>8 DEF Poll, TypeOK, controller
    <3>2. HandlePS2Mouse(data)
      BY <2>8 DEF Poll
    <3> DEFINE packet == Append(MousePacket, data)
    <3>3. packet \in Seq(Byte) /\ Len(packet) = Len(MousePacket) + 1 /\ Len(packet) \in 1 .. 3
      BY DEF TypeOK
    <3>4. CASE Len(packet) = 3
      <4>1. MousePacket' = << >> /\ ProcessMousePacket(packet)
        BY <3>2, <3>4 DEF HandlePS2Mouse
      <4>2. packet[1] \in Byte /\ packet[2] \in Byte /\ packet[3] \in Byte
        BY <3>3, <3>4
      <4>3. /\ Steps(packet[1], PS2XSign, PS2XOverflow, packet[2]) \in Int
            /\ Steps(packet[1], PS2YSign, PS2YOverflow, packet[3]) \in Int
        BY <4>2, StepsAreIntegers
      <4>4. X' \in 0 .. MaxX /\ Y' \in 0 .. MaxY
        <5> HIDE DEF packet
        <5>1. /\ X + Steps(packet[1], PS2XSign, PS2XOverflow, packet[2]) \in Int
              /\ Y - Steps(packet[1], PS2YSign, PS2YOverflow, packet[3]) \in Int
          BY <4>3 DEF TypeOK
        <5> QED
          BY <5>1, <4>1, CursorStays, MouseAssumption DEF ProcessMousePacket
      <4>5. bonzi' \in BOOLEAN
        BY <4>1 DEF ProcessMousePacket, Has
      <4>6. MousePacket' \in Seq(Byte) /\ Len(MousePacket') < 3
        BY <4>1
      <4> QED
        BY <3>1, <4>4, <4>5, <4>6 DEF TypeOK
    <3>5. CASE Len(packet) # 3
      <4>1. MousePacket' = packet /\ UNCHANGED cursor
        BY <3>2, <3>5 DEF HandlePS2Mouse
      <4>2. MousePacket' \in Seq(Byte) /\ Len(MousePacket') < 3
        BY <3>3, <3>5, <4>1
      <4>3. UNCHANGED << X, Y, bonzi >>
        BY <4>1 DEF cursor
      <4> QED
        BY <3>1, <4>2, <4>3 DEF TypeOK
    <3> QED
      BY <3>4, <3>5
  <2>9. CASE KeyPressed
    <3>1. queue' \in [Source -> Seq(Byte)]
      BY <2>9, <2>a, MouseAssumption DEF KeyPressed, Source
    <3>2. keys' \in 0 .. MaxKeys
      BY <2>9, MouseAssumption DEF KeyPressed, TypeOK
    <3> QED
      BY <2>9, <3>1, <3>2 DEF KeyPressed, TypeOK, parser, cursor
  <2>10. CASE Move
    <3>1. PICK p \in Report : queue' = [queue EXCEPT !["aux"] = @ \o p]
      BY <2>10 DEF Move
    <3>2. p \in Seq(Byte)
      <4>1. p \in [1 .. 3 -> Byte]
        BY <3>1, MouseAssumption DEF Packet
      <4>2. [1 .. 3 -> Byte] \in {[1 .. n -> Byte] : n \in Nat}
        OBVIOUS
      <4> QED
        BY <4>1, <4>2, SeqDef, Zenon
    <3>3. queue["aux"] \o p \in Seq(Byte)
      BY <3>2 DEF TypeOK, Source
    <3>4. queue' \in [Source -> Seq(Byte)]
      BY <3>1, <3>3 DEF TypeOK
    <3>5. reports' \in 0 .. MaxReports
      BY <2>10, MouseAssumption DEF Move, TypeOK
    <3> QED
      BY <2>10, <3>4, <3>5 DEF Move, TypeOK, parser, cursor
  <2>11. CASE Deliver
    <3>1. PICK from \in Source :
             /\ queue[from] # << >>
             /\ data' = Head(queue[from])
             /\ queue' = [queue EXCEPT ![from] = Tail(@)]
      BY <2>11 DEF Deliver
    <3>2. from \in Source /\ queue[from] \in Seq(Byte)
      BY <3>1 DEF TypeOK
    <3>3. Head(queue[from]) \in Byte /\ Tail(queue[from]) \in Seq(Byte)
      BY <3>1, <3>2
    <3>4. data' \in Byte /\ queue' \in [Source -> Seq(Byte)]
      BY <3>1, <3>2, <3>3 DEF TypeOK
    <3> QED
      BY <2>11, <3>4 DEF Deliver, TypeOK, parser, cursor, history
  <2>12. CASE UNCHANGED vars
    BY <2>12 DEF vars, TypeOK, parser, cursor, controller, history
  <2> QED
    BY <2>1, <2>2, <2>3, <2>4, <2>5, <2>6, <2>7, <2>8, <2>9, <2>10, <2>11, <2>12
       DEF Next, Main
<1> QED
  BY <1>1, <1>2, PTL DEF Spec

-----------------------------------------------------------------------------
(* mouse_init on an undisturbed machine: nothing is under way when it      *)
(* sends, and when it reads there is at most the answer it waits for.      *)
Nothing == [from \in Source |-> << >>]
Quiet == ~ full /\ queue = Nothing
Answering(from, b) ==
  \/ Quiet
  \/ full /\ data = b /\ queue = Nothing
  \/ ~ full /\ queue = [Nothing EXCEPT ![from] = << b >>]

Enabled == Without(StartConfig, AuxOff)
Kept    == With(Enabled, AuxInterrupt)

Handshake ==
  /\ step \in {1, 2, 4, 6, 8, 9, 11} => Quiet
  /\ step \in {3, 5} => Answering("kbd", ACK)
  /\ step = 7 => Answering("ctl", Enabled)
  /\ step = 10 => Answering("aux", ACK)
  /\ step = 1 => config = StartConfig
  /\ step \in 2 .. 8 => config = Enabled
  /\ step = 8 => status = Kept
  /\ step \in 9 .. 13 => config = Kept
  /\ step \in 12 .. 13 <=> reporting

ConfigInv == Undisturbed => Handshake

LEMMA KeptListens == ~ Has(Kept, AuxOff)
BY BitsOfAByte, MouseAssumption DEF Kept, Enabled

(* Which action each step of the script is. *)
LEMMA Script ==
  /\ \A n \in 1 .. 13 : n <= Len(mouse_init) <=> n # 13
  /\ mouse_init[1] = "enable"
  /\ mouse_init[2] = "rateToKbd" /\ mouse_init[3] = "ReadMouse"
  /\ mouse_init[4] = "rateToKbd" /\ mouse_init[5] = "ReadMouse"
  /\ mouse_init[6] = "askConfig" /\ mouse_init[7] = "readConfig"
  /\ mouse_init[8] = "writeConfig"
  /\ mouse_init[9] = "defaults" /\ mouse_init[10] = "ReadMouse"
  /\ mouse_init[11] = "report" /\ mouse_init[12] = "ReadMouse"
BY DEF mouse_init

(* The steps an action is taken at, and where it leads. *)
LEMMA Steppings ==
  ASSUME TypeOK
  PROVE  /\ At("enable") => step = 1
         /\ At("rateToKbd") => step \in {2, 4}
         /\ At("ReadMouse") => step \in {3, 5, 10, 12}
         /\ At("askConfig") => step = 6
         /\ At("readConfig") => step = 7
         /\ At("writeConfig") => step = 8
         /\ At("defaults") => step = 9
         /\ At("report") => step = 11
<1>1. step \in 1 .. 13
  BY ScriptLength DEF TypeOK
<1>2. step \in {1, 2, 3, 4, 5, 6, 7, 8, 9, 10, 11, 12, 13}
  BY <1>1
<1> QED
  BY <1>2, Script DEF At

(* Sending to a device with nothing under way leaves its answer at most.   *)
LEMMA Sending ==
  ASSUME NEW from \in Source, Quiet, Answered(from), UNCHANGED << data, full >>
  PROVE  Answering(from, ACK)'
<1>1. CASE Off(from)
  BY <1>1 DEF Answered, Quiet, Answering, Nothing
<1>2. CASE ~ Off(from)
  <2>1. queue' = [Nothing EXCEPT ![from] = Append(@, ACK)]
    BY <1>2 DEF Answered, Quiet, Queued
  <2>2. Nothing[from] = << >> /\ Append(<< >>, ACK) = << ACK >>
    BY DEF Nothing
  <2>3. queue' = [Nothing EXCEPT ![from] = << ACK >>]
    BY <2>1, <2>2 DEF Nothing
  <2> QED
    BY <2>3 DEF Quiet, Answering, Nothing
<1> QED
  BY <1>1, <1>2

(* The controller delivers nothing but the answer. *)
LEMMA Delivering ==
  ASSUME Deliver
  PROVE  /\ ~ Quiet
         /\ \A from \in Source : \A b : Answering(from, b) => Answering(from, b)'
<1>1. PICK s \in Source : /\ queue[s] # << >>
                         /\ data' = Head(queue[s])
                         /\ queue' = [queue EXCEPT ![s] = Tail(@)]
  BY DEF Deliver
<1>2. ~ full /\ full' = TRUE
  BY DEF Deliver
<1>3. queue # Nothing
  BY <1>1 DEF Nothing
<1>4. ASSUME NEW from \in Source, NEW b, Answering(from, b)
      PROVE  Answering(from, b)'
  <2>1. queue = [Nothing EXCEPT ![from] = << b >>]
    BY <1>2, <1>3, <1>4 DEF Answering, Quiet
  <2>2. s = from /\ queue[s] = << b >>
    BY <1>1, <2>1 DEF Nothing
  <2>3. data' = b /\ Tail(queue[s]) = << >>
    BY <1>1, <2>2
  <2>4. queue' = Nothing
    BY <1>1, <2>1, <2>2, <2>3 DEF Nothing
  <2> QED
    BY <1>2, <2>3, <2>4 DEF Answering, Nothing
<1> QED
  BY <1>3, <1>4 DEF Quiet

(* WaitInput, when a byte came, takes the answer: nothing is under way.    *)
LEMMA Taking ==
  ASSUME NEW from \in Source, NEW b, Answering(from, b), WaitInputAndRead,
         late' = FALSE, full \in BOOLEAN
  PROVE  Quiet' /\ data = b
<1>1. full
  BY DEF WaitInputAndRead
<1> QED
  BY <1>1 DEF Answering, Quiet, WaitInputAndRead, controller, Nothing

LEMMA ConfigStep == TypeOK /\ ConfigInv /\ [Next]_vars => ConfigInv'
<1> SUFFICES ASSUME TypeOK, ConfigInv, [Next]_vars, Undisturbed'
             PROVE  Handshake'
  BY DEF ConfigInv
<1> USE ScriptLength
<1>a. step \in 1 .. 13 /\ keys \in Nat
  BY MouseAssumption DEF TypeOK
<1>1. CASE EnablePort
  <2>1. step = 1 /\ step' = 2 /\ UNCHANGED << full, queue, reporting, keys, late >>
    BY <1>1, Steppings DEF EnablePort, Advance, history
  <2>2. Handshake
    BY <2>1 DEF ConfigInv, Undisturbed
  <2>3. config' = Enabled /\ Quiet' /\ ~ reporting'
    BY <1>1, <2>1, <2>2 DEF EnablePort, Handshake, Enabled, Quiet, Nothing
  <2> QED
    BY <2>1, <2>3 DEF Handshake
<1>2. CASE RateToKbd
  <2>1. /\ step \in {2, 4} /\ step' = step + 1
        /\ UNCHANGED << data, full, config, reporting, keys, late >>
        /\ Answered("kbd")
    BY <1>2, Steppings DEF RateToKbd, Advance, history
  <2>2. Handshake
    BY <2>1 DEF ConfigInv, Undisturbed
  <2>3. Answering("kbd", ACK)' /\ config' = Enabled /\ ~ reporting'
    BY <2>1, <2>2, Sending DEF Handshake, Source
  <2> QED
    BY <2>1, <2>3 DEF Handshake
<1>3. CASE AskConfig
  <2>1. /\ step = 6 /\ step' = 7 /\ UNCHANGED << full, config, reporting, keys, late >>
        /\ queue' = Queued("ctl", config)
    BY <1>3, Steppings DEF AskConfig, Advance, history
  <2>2. Handshake
    BY <2>1 DEF ConfigInv, Undisturbed
  <2>3. queue = Nothing /\ ~ full /\ config = Enabled /\ ~ reporting
    BY <2>1, <2>2 DEF Handshake, Quiet
  <2>4. queue' = [Nothing EXCEPT !["ctl"] = << Enabled >>]
    BY <2>1, <2>3 DEF Queued, Nothing, Source
  <2>5. Answering("ctl", Enabled)'
    BY <2>1, <2>3, <2>4 DEF Answering, Nothing, Enabled
  <2> QED
    BY <2>1, <2>3, <2>5 DEF Handshake
<1>4. CASE ReadMouse
  <2>1. /\ step \in {3, 5, 10, 12} /\ step' = step + 1 /\ WaitInputAndRead
        /\ UNCHANGED << config, reporting, keys, status >>
    BY <1>4, Steppings DEF ReadMouse, WaitInputAndRead, Advance, controller
  <2>2. late' = FALSE /\ late = FALSE /\ full \in BOOLEAN
    BY <2>1 DEF WaitInputAndRead, Undisturbed, TypeOK
  <2>3. Handshake
    BY <2>1, <2>2 DEF ConfigInv, Undisturbed
  <2>4. step # 12 => Quiet'
    BY <2>1, <2>2, <2>3, Taking DEF Handshake, Source
  <2> QED
    BY <2>1, <2>3, <2>4 DEF Handshake
<1>5. CASE ReadConfig
  <2>1. /\ step = 7 /\ step' = 8 /\ WaitInputAndRead
        /\ status' = With(data, AuxInterrupt)
        /\ UNCHANGED << config, reporting, keys >>
    BY <1>5, Steppings DEF ReadConfig, WaitInputAndRead, Advance, controller
  <2>2. late' = FALSE /\ late = FALSE /\ full \in BOOLEAN
    BY <2>1 DEF WaitInputAndRead, Undisturbed, TypeOK
  <2>3. Handshake
    BY <2>1, <2>2 DEF ConfigInv, Undisturbed
  <2>4. Quiet' /\ data = Enabled
    BY <2>1, <2>2, <2>3, Taking DEF Handshake, Source
  <2> QED
    BY <2>1, <2>3, <2>4 DEF Handshake, Kept
<1>6. CASE WriteConfig
  <2>1. /\ step = 8 /\ step' = 9 /\ config' = status
        /\ UNCHANGED << full, queue, reporting, keys, late >>
    BY <1>6, Steppings DEF WriteConfig, Advance, history
  <2>2. Handshake
    BY <2>1 DEF ConfigInv, Undisturbed
  <2>3. config' = Kept /\ Quiet' /\ ~ reporting'
    BY <2>1, <2>2 DEF Handshake, Quiet, Nothing
  <2> QED
    BY <2>1, <2>3 DEF Handshake
<1>7. CASE WriteMouse
  <2>1. /\ step \in {9, 11} /\ step' = step + 1
        /\ UNCHANGED << data, full, config, keys, late >>
        /\ Answered("aux")
    BY <1>7, Steppings DEF WriteMouse, Advance, history
  <2>2. Handshake
    BY <2>1 DEF ConfigInv, Undisturbed
  <2>3. ~ Off("aux") /\ config = Kept
    BY <2>1, <2>2, KeptListens DEF Handshake, Off
  <2>4. reporting' = At("report")
    BY <1>7, <2>3 DEF WriteMouse
  <2>5. At("report") <=> step = 11
    BY <2>1, Script DEF At
  <2>6. Answering("aux", ACK)'
    BY <2>1, <2>2, Sending DEF Handshake, Source
  <2>7. step' \in 12 .. 13 <=> reporting'
    BY <2>1, <2>4, <2>5
  <2> QED
    BY <2>1, <2>3, <2>6, <2>7 DEF Handshake
<1>8. CASE Poll
  <2>1. step = 13 /\ UNCHANGED << step, status, config, reporting, keys, late >>
    BY <1>8 DEF Poll, controller
  <2>2. Handshake
    BY <2>1 DEF ConfigInv, Undisturbed
  <2> QED
    BY <2>1, <2>2 DEF Handshake
<1>9. CASE KeyPressed
  BY <1>9, <1>a DEF KeyPressed, Undisturbed
<1>10. CASE Move
  <2>1. reporting /\ UNCHANGED << step, status, config, reporting, keys, late >>
    BY <1>10 DEF Move
  <2>2. Handshake
    BY <2>1 DEF ConfigInv, Undisturbed
  <2>3. step \in 12 .. 13
    BY <2>1, <2>2 DEF Handshake
  <2> QED
    BY <2>1, <2>2, <2>3 DEF Handshake
<1>11. CASE Deliver
  <2>1. UNCHANGED << step, status, config, reporting, keys, late >>
    BY <1>11 DEF Deliver, history
  <2>2. Handshake
    BY <2>1 DEF ConfigInv, Undisturbed
  <2>3. step \notin {1, 2, 4, 6, 8, 9, 11}
    BY <1>11, <2>2, Delivering DEF Handshake
  <2>4. /\ step \in {3, 5} => Answering("kbd", ACK)'
        /\ step = 7 => Answering("ctl", Enabled)'
        /\ step = 10 => Answering("aux", ACK)'
    BY <1>11, <2>2, Delivering DEF Handshake, Source
  <2> QED
    BY <2>1, <2>2, <2>3, <2>4 DEF Handshake
<1>12. CASE UNCHANGED vars
  <2>1. UNCHANGED << step, status, config, reporting, keys, late, data, full, queue >>
    BY <1>12 DEF vars, controller, history
  <2>2. Handshake
    BY <2>1 DEF ConfigInv, Undisturbed
  <2>3. /\ Quiet => Quiet'
        /\ \A from \in Source : \A b : Answering(from, b) => Answering(from, b)'
    BY <2>1 DEF Quiet, Answering, Nothing
  <2> QED
    BY <2>1, <2>2, <2>3 DEF Handshake, Source
<1> QED
  BY <1>1, <1>2, <1>3, <1>4, <1>5, <1>6, <1>7, <1>8, <1>9, <1>10, <1>11, <1>12
     DEF Next, Main

(* On every machine, without a key press and with answers in time,         *)
(* mouse_init leaves the controller as it was, the mouse's interrupt bit   *)
(* apart, and a mouse that reports.                                        *)
THEOREM ConfigurationSafety == Spec => []ConfigurationKept
<1>1. Init => ConfigInv
  BY DEF Init, ConfigInv, Handshake, Quiet, Nothing
<1>2. TypeOK /\ ConfigInv => ConfigurationKept
  <2> SUFFICES ASSUME TypeOK, ConfigInv, Undisturbed
               PROVE  /\ config \in {StartConfig, Enabled, Kept}
                      /\ step = Desktop => config = Kept /\ reporting
    BY DEF ConfigurationKept, Kept, Enabled
  <2> QED
    BY ScriptLength DEF TypeOK, ConfigInv, Handshake
<1> QED
  BY <1>1, <1>2, ConfigStep, MouseTypeCorrect, PTL DEF Spec

-----------------------------------------------------------------------------
(* From the mouse to the desktop: the bytes that are on their way are      *)
(* whole packets, the ones already taken of the first included.            *)
Whole(s) ==
  \E m \in Nat :
    /\ Len(s) = 3 * m
    /\ \A i \in 0 .. m - 1 : << s[3 * i + 1], s[3 * i + 2], s[3 * i + 3] >> \in Report

Arriving == (IF full THEN << data >> ELSE << >>) \o queue["aux"]

Stream ==
  /\ step < 12 => ~ stale
  /\ step < 13 => MousePacket = << >>
  /\ step \in 12 .. 13 => queue["kbd"] = << >> /\ queue["ctl"] = << >>
  /\ step = 12 => \E s \in Seq(Byte) : Arriving = << ACK >> \o s /\ Whole(s)
  /\ step = 13 => Whole(MousePacket \o Arriving)

StreamInv == Undisturbed /\ ~ stale => Stream

LEMMA NothingIsWhole == Whole(<< >>)
BY DEF Whole

LEMMA WholeAndPacket ==
  ASSUME NEW s \in Seq(Byte), Whole(s), NEW p \in Report
  PROVE  Whole(s \o p)
<1> DEFINE t == s \o p
<1>1. PICK m \in Nat :
        /\ Len(s) = 3 * m
        /\ \A i \in 0 .. m - 1 : << s[3 * i + 1], s[3 * i + 2], s[3 * i + 3] >> \in Report
  BY DEF Whole
<1>2. p \in Seq(Byte) /\ Len(p) = 3 /\ p = << p[1], p[2], p[3] >>
  BY PacketIsSequence
<1>3. /\ t \in Seq(Byte) /\ Len(t) = Len(s) + Len(p)
      /\ \A j \in 1 .. Len(s) + Len(p) : t[j] = IF j <= Len(s) THEN s[j] ELSE p[j - Len(s)]
  BY <1>2, ConcatProperties
<1> HIDE DEF t
<1>4. ASSUME NEW i \in 0 .. (m + 1) - 1
      PROVE  << t[3 * i + 1], t[3 * i + 2], t[3 * i + 3] >> \in Report
  <2>1. CASE i < m
    <3>1. t[3 * i + 1] = s[3 * i + 1] /\ t[3 * i + 2] = s[3 * i + 2] /\ t[3 * i + 3] = s[3 * i + 3]
      BY <1>1, <1>2, <1>3, <2>1
    <3>2. i \in 0 .. m - 1
      BY <2>1
    <3> QED BY <1>1, <3>1, <3>2, Zenon
  <2>2. CASE i = m
    <3>1. PICK n \in Nat : n = Len(s) /\ n = 3 * m
      BY <1>1, LenProperties
    <3>2. t[n + 1] = p[1] /\ t[n + 2] = p[2] /\ t[n + 3] = p[3]
      <4>0. \A j \in 1 .. n + 3 : t[j] = IF j <= n THEN s[j] ELSE p[j - n]
        BY <1>2, <1>3, <3>1
      <4>1. \A k \in 1 .. 3 :
              t[n + k] = IF n + k <= n THEN s[n + k] ELSE p[(n + k) - n]
        <5>1. \A k \in 1 .. 3 : n + k \in 1 .. n + 3
          BY <3>1
        <5> QED BY <4>0, <5>1, Zenon
      <4>2. \A k \in 1 .. 3 : ~ (n + k <= n) /\ (n + k) - n = k
        BY <3>1
      <4>3. \A k \in 1 .. 3 : t[n + k] = p[k]
        BY <4>1, <4>2, Zenon
      <4> QED BY <4>3
    <3>3. n + 1 = 3 * i + 1 /\ n + 2 = 3 * i + 2 /\ n + 3 = 3 * i + 3
      BY <2>2, <3>1
    <3> QED BY <1>2, <3>2, <3>3, Zenon
  <2> QED BY <2>1, <2>2
<1>5. Len(t) = 3 * (m + 1) /\ m + 1 \in Nat
  BY <1>1, <1>2, <1>3
<1>6. Whole(t)
  BY <1>4, <1>5 DEF Whole
<1> QED BY <1>6 DEF t

LEMMA PacketAndWhole ==
  ASSUME NEW p \in Seq(Byte), Len(p) = 3, NEW s \in Seq(Byte), Whole(p \o s)
  PROVE  p \in Report /\ Whole(s)
<1> DEFINE t == p \o s
<1>0. /\ t \in Seq(Byte) /\ Len(t) = Len(p) + Len(s)
      /\ \A j \in 1 .. Len(p) + Len(s) : t[j] = IF j <= Len(p) THEN p[j] ELSE s[j - Len(p)]
  BY ConcatProperties
<1>w. Whole(t)
  OBVIOUS
<1>p. p = << p[1], p[2], p[3] >>
  OBVIOUS
<1> HIDE DEF t
<1>1. PICK m \in Nat :
        /\ Len(t) = 3 * m
        /\ \A i \in 0 .. m - 1 :
             << t[3 * i + 1], t[3 * i + 2], t[3 * i + 3] >> \in Report
  BY <1>w DEF Whole
<1>2. Len(s) \in Nat /\ Len(s) = 3 * (m - 1) /\ m - 1 \in Nat
  BY <1>0, <1>1, LenProperties
<1>3. p \in Report
  <2>1. 0 \in 0 .. m - 1 /\ 3 * 0 + 1 = 1 /\ 3 * 0 + 2 = 2 /\ 3 * 0 + 3 = 3
    BY <1>2
  <2>2. << t[1], t[2], t[3] >> \in Report
    BY <1>1, <2>1, Zenon
  <2>3. t[1] = p[1] /\ t[2] = p[2] /\ t[3] = p[3]
    BY <1>0, <1>2
  <2> QED BY <2>2, <2>3, <1>p, Zenon
<1>4. ASSUME NEW i \in 0 .. (m - 1) - 1
      PROVE  << s[3 * i + 1], s[3 * i + 2], s[3 * i + 3] >> \in Report
  <2>1. << t[3 * (i + 1) + 1], t[3 * (i + 1) + 2], t[3 * (i + 1) + 3] >>
          \in Report
    <3>1. i + 1 \in 0 .. m - 1
      BY <1>2
    <3> QED BY <1>1, <3>1, Zenon
  <2>2. /\ t[3 * (i + 1) + 1] = s[3 * i + 1]
        /\ t[3 * (i + 1) + 2] = s[3 * i + 2]
        /\ t[3 * (i + 1) + 3] = s[3 * i + 3]
    BY <1>0, <1>2
  <2> QED BY <2>1, <2>2
<1> QED BY <1>2, <1>3, <1>4 DEF Whole

LEMMA InARow ==
  ASSUME NEW a \in Seq(Byte), NEW b \in Seq(Byte), NEW c \in Seq(Byte)
  PROVE  (a \o b) \o c = a \o (b \o c)
BY ConcatAssociative

LEMMA ArrivingBytes ==
  ASSUME TypeOK
  PROVE  /\ Arriving \in Seq(Byte)
         /\ full => Arriving = << data >> \o queue["aux"]
         /\ ~ full => Arriving = queue["aux"]
<1>1. data \in Byte /\ queue["aux"] \in Seq(Byte)
  BY DEF TypeOK, Source
<1>2. << >> \o queue["aux"] = queue["aux"]
  BY <1>1
<1>3. << data >> \o queue["aux"] \in Seq(Byte)
  BY <1>1
<1>4. CASE full
  BY <1>3, <1>4 DEF Arriving
<1>5. CASE ~ full
  BY <1>1, <1>2, <1>5 DEF Arriving
<1> QED BY <1>4, <1>5

(* Only the mouse has something to send, and the port keeps its order.     *)
LEMMA StreamDelivers ==
  ASSUME TypeOK, TypeOK', Deliver, queue["kbd"] = << >>, queue["ctl"] = << >>
  PROVE  /\ Arriving' = Arriving
         /\ queue'["kbd"] = << >> /\ queue'["ctl"] = << >>
<1>1. PICK s \in Source : /\ queue[s] # << >>
                         /\ data' = Head(queue[s])
                         /\ queue' = [queue EXCEPT ![s] = Tail(@)]
  BY DEF Deliver
<1>2. s = "aux"
  BY <1>1 DEF Source
<1>3. /\ queue["aux"] \in Seq(Byte) /\ queue["aux"] # << >>
      /\ data' = Head(queue["aux"]) /\ queue'["aux"] = Tail(queue["aux"])
      /\ queue'["kbd"] = << >> /\ queue'["ctl"] = << >>
  BY <1>1, <1>2 DEF TypeOK, Source
<1>4. << Head(queue["aux"]) >> \o Tail(queue["aux"]) = queue["aux"]
  BY <1>3
<1>5. ~ full /\ full' = TRUE
  BY DEF Deliver
<1> QED BY <1>3, <1>4, <1>5, ArrivingBytes DEF Arriving

(* The mouse adds a packet. *)
LEMMA StreamGrows ==
  ASSUME TypeOK, Move
  PROVE  \E p \in Report : /\ Arriving' = Arriving \o p
                           /\ queue'["kbd"] = queue["kbd"] /\ queue'["ctl"] = queue["ctl"]
<1>1. PICK p \in Report : queue' = [queue EXCEPT !["aux"] = @ \o p]
  BY DEF Move
<1>2. p \in Seq(Byte)
  BY PacketIsSequence
<1>3. /\ queue'["aux"] = queue["aux"] \o p
      /\ queue'["kbd"] = queue["kbd"] /\ queue'["ctl"] = queue["ctl"]
  BY <1>1 DEF TypeOK, Source
<1>4. UNCHANGED << data, full >>
  BY DEF Move
<1>5. queue["aux"] \in Seq(Byte) /\ data \in Byte
  BY DEF TypeOK, Source
<1>6. ASSUME NEW r \in Seq(Byte) PROVE (r \o queue["aux"]) \o p = r \o (queue["aux"] \o p)
  BY <1>2, <1>5, InARow
<1>7. Arriving' = Arriving \o p
  <2> DEFINE r == IF full THEN << data >> ELSE << >>
  <2>1. r \in Seq(Byte)
    BY <1>5
  <2>2. Arriving = r \o queue["aux"] /\ Arriving' = r \o queue'["aux"]
    BY <1>4 DEF Arriving
  <2> QED BY <1>3, <1>6, <2>1, <2>2
<1> QED BY <1>3, <1>7

(* A frame that takes a new byte. *)
LEMMA StreamPolled ==
  ASSUME TypeOK, Poll, ~ stale', Whole(MousePacket \o Arriving)
  PROVE  /\ ~ stale
         /\ queue' = queue
         /\ Whole(MousePacket' \o Arriving')
         /\ MousePacket' = << >> => Append(MousePacket, data) \in Report
<1>1. /\ full /\ ~ stale /\ full' = FALSE /\ queue' = queue
      /\ HandlePS2Mouse(data)
  BY DEF Poll, controller, TypeOK
<1>2. /\ data \in Byte /\ queue["aux"] \in Seq(Byte)
      /\ MousePacket \in Seq(Byte) /\ Len(MousePacket) < 3
  BY DEF TypeOK, Source
<1> DEFINE packet == Append(MousePacket, data)
<1>3. /\ packet \in Seq(Byte) /\ packet # << >>
      /\ packet \o queue["aux"] = MousePacket \o (<< data >> \o queue["aux"])
  <2>1. packet = MousePacket \o << data >> /\ packet \in Seq(Byte) /\ packet # << >>
    BY <1>2, AppendIsConcat, AppendProperties
  <2>2. << data >> \in Seq(Byte)
    BY <1>2
  <2>3. (MousePacket \o << data >>) \o queue["aux"] = MousePacket \o (<< data >> \o queue["aux"])
    BY <1>2, <2>2, InARow
  <2> QED BY <2>1, <2>3, Zenon
<1>4. Arriving = << data >> \o queue["aux"] /\ Arriving' = queue["aux"]
  BY <1>1, <1>2 DEF Arriving
<1>5. Whole(packet \o Arriving')
  BY <1>3, <1>4
<1>6. CASE Len(packet) = 3
  <2>1. MousePacket' = << >>
    BY <1>1, <1>6 DEF HandlePS2Mouse
  <2>2. packet \in Report /\ Whole(queue["aux"])
    BY <1>2, <1>3, <1>4, <1>5, <1>6, PacketAndWhole
  <2>3. << >> \o queue["aux"] = queue["aux"]
    BY <1>2
  <2> QED BY <1>1, <1>4, <2>1, <2>2, <2>3
<1>7. CASE Len(packet) # 3
  <2>1. MousePacket' = packet
    BY <1>1, <1>7 DEF HandlePS2Mouse
  <2> QED BY <1>1, <1>3, <1>5, <2>1
<1> QED BY <1>6, <1>7

LEMMA StreamStep ==
  TypeOK /\ TypeOK' /\ ConfigInv /\ StreamInv /\ [Next]_vars => StreamInv'
<1> SUFFICES ASSUME TypeOK, TypeOK', ConfigInv, StreamInv, [Next]_vars,
                    Undisturbed', ~ stale'
             PROVE  Stream'
  BY DEF StreamInv
<1> USE ScriptLength
<1>a. step \in 1 .. 13 /\ keys \in Nat /\ full \in BOOLEAN /\ stale \in BOOLEAN
  BY MouseAssumption DEF TypeOK
<1>b. ASSUME Undisturbed, ~ stale PROVE Handshake /\ Stream
  BY <1>b DEF ConfigInv, StreamInv
<1>1. CASE EnablePort
  <2>1. step = 1 /\ step' = 2 /\ UNCHANGED << MousePacket, keys, late, stale >>
    BY <1>1, Steppings DEF EnablePort, Advance, history, parser
  <2>2. Stream
    BY <1>b, <2>1 DEF Undisturbed
  <2> QED BY <2>1, <2>2 DEF Stream
<1>2. CASE RateToKbd
  <2>1. /\ step \in {2, 4} /\ step' = step + 1
        /\ UNCHANGED << MousePacket, keys, late, stale >>
    BY <1>2, Steppings DEF RateToKbd, Advance, history, parser
  <2>2. Stream
    BY <1>b, <2>1 DEF Undisturbed
  <2> QED BY <2>1, <2>2 DEF Stream
<1>3. CASE AskConfig
  <2>1. step = 6 /\ step' = 7 /\ UNCHANGED << MousePacket, keys, late, stale >>
    BY <1>3, Steppings DEF AskConfig, Advance, history, parser
  <2>2. Stream
    BY <1>b, <2>1 DEF Undisturbed
  <2> QED BY <2>1, <2>2 DEF Stream
<1>4. CASE ReadMouse
  <2>1. /\ step \in {3, 5, 10, 12} /\ step' = step + 1 /\ full' = FALSE
        /\ late' = (late \/ ~ full)
        /\ UNCHANGED << MousePacket, queue, keys, stale >>
    BY <1>4, Steppings DEF ReadMouse, WaitInputAndRead, Advance, controller, parser
  <2>2. full /\ Undisturbed
    BY <2>1, <1>a DEF Undisturbed
  <2>3. Stream
    BY <1>b, <2>1, <2>2
  <2>4. CASE step # 12
    BY <2>1, <2>3, <2>4 DEF Stream
  <2>5. CASE step = 12
    <3>1. PICK s \in Seq(Byte) : Arriving = << ACK >> \o s /\ Whole(s)
      BY <2>3, <2>5 DEF Stream
    <3>2. data \in Byte /\ queue["aux"] \in Seq(Byte)
      BY DEF TypeOK, Source
    <3>3. << data >> \o queue["aux"] = << ACK >> \o s
      BY <2>2, <3>1, ArrivingBytes
    <3>4. queue["aux"] = s
      <4>1. Tail(<< data >> \o queue["aux"]) = queue["aux"]
        BY <3>2
      <4>2. Tail(<< ACK >> \o s) = s
        BY <3>1 DEF ACK
      <4> QED BY <3>3, <4>1, <4>2
    <3>5. Arriving' = s /\ << >> \o s = s
      BY <2>1, <3>2, <3>4 DEF Arriving
    <3>6. MousePacket' = << >>
      BY <2>1, <2>3, <2>5 DEF Stream
    <3> QED BY <2>1, <2>3, <2>5, <3>1, <3>5, <3>6 DEF Stream
  <2> QED BY <2>4, <2>5
<1>5. CASE ReadConfig
  <2>1. /\ step = 7 /\ step' = 8 /\ late' = (late \/ ~ full)
        /\ UNCHANGED << MousePacket, keys, stale >>
    BY <1>5, Steppings DEF ReadConfig, WaitInputAndRead, Advance, controller, parser
  <2>2. Stream
    BY <1>b, <2>1 DEF Undisturbed
  <2> QED BY <2>1, <2>2 DEF Stream
<1>6. CASE WriteConfig
  <2>1. step = 8 /\ step' = 9 /\ UNCHANGED << MousePacket, keys, late, stale >>
    BY <1>6, Steppings DEF WriteConfig, Advance, history, parser
  <2>2. Stream
    BY <1>b, <2>1 DEF Undisturbed
  <2> QED BY <2>1, <2>2 DEF Stream
<1>7. CASE WriteMouse
  <2>1. /\ step \in {9, 11} /\ step' = step + 1
        /\ UNCHANGED << data, full, config, MousePacket, keys, late, stale >>
        /\ Answered("aux")
    BY <1>7, Steppings DEF WriteMouse, Advance, history, parser
  <2>2. Handshake /\ Stream
    BY <1>b, <2>1 DEF Undisturbed
  <2>3. CASE step = 9
    BY <2>1, <2>2, <2>3 DEF Stream
  <2>4. CASE step = 11
    <3>1. ~ full /\ queue = Nothing /\ ~ Off("aux")
      BY <2>1, <2>2, <2>4, KeptListens DEF Handshake, Off, Quiet
    <3>2. queue' = [Nothing EXCEPT !["aux"] = Append(@, ACK)]
      BY <2>1, <3>1 DEF Answered, Queued
    <3>3. /\ queue'["aux"] = Append(<< >>, ACK)
          /\ queue'["kbd"] = << >> /\ queue'["ctl"] = << >>
      BY <3>2 DEF Nothing, Source
    <3>4. Arriving' = << ACK >> \o << >>
      BY <2>1, <3>1, <3>3 DEF Arriving, ACK
    <3>5. \E r \in Seq(Byte) : Arriving' = << ACK >> \o r /\ Whole(r)
      <4>1. << >> \in Seq(Byte)
        OBVIOUS
      <4> QED BY <3>4, <4>1, NothingIsWhole, Zenon
    <3>6. step' = 12 /\ ~ stale' /\ MousePacket' = << >>
      BY <2>1, <2>2, <2>4 DEF Stream
    <3> QED BY <3>3, <3>5, <3>6 DEF Stream
  <2> QED BY <2>1, <2>3, <2>4
<1>8. CASE Poll
  <2>1. step = 13 /\ UNCHANGED << step, keys, late >>
    BY <1>8 DEF Poll
  <2>2. ~ stale
    BY <1>8, <1>a DEF Poll
  <2>3. Stream
    BY <1>b, <2>1, <2>2 DEF Undisturbed
  <2>4. queue' = queue /\ Whole(MousePacket' \o Arriving')
    BY <1>8, <2>1, <2>3, StreamPolled DEF Stream
  <2> QED BY <2>1, <2>3, <2>4 DEF Stream
<1>9. CASE KeyPressed
  BY <1>9, <1>a DEF KeyPressed, Undisturbed
<1>10. CASE Move
  <2>1. reporting /\ UNCHANGED << step, MousePacket, keys, late, stale >>
    BY <1>10 DEF Move, parser
  <2>2. Handshake /\ Stream
    BY <1>b, <2>1 DEF Undisturbed
  <2>3. step \in 12 .. 13
    BY <2>1, <2>2 DEF Handshake
  <2>4. PICK p \in Report : /\ Arriving' = Arriving \o p
                           /\ queue'["kbd"] = queue["kbd"] /\ queue'["ctl"] = queue["ctl"]
    BY <1>10, StreamGrows
  <2>5. p \in Seq(Byte) /\ Arriving \in Seq(Byte) /\ MousePacket \in Seq(Byte)
    BY ArrivingBytes, PacketIsSequence DEF TypeOK
  <2>6. CASE step = 12
    <3>1. PICK s \in Seq(Byte) : Arriving = << ACK >> \o s /\ Whole(s)
      BY <2>2, <2>6 DEF Stream
    <3>2. << ACK >> \in Seq(Byte)
      BY DEF ACK, Byte
    <3>3. Arriving' = << ACK >> \o (s \o p)
      BY <2>4, <2>5, <3>1, <3>2, InARow
    <3>4. s \o p \in Seq(Byte) /\ Whole(s \o p)
      BY <2>5, <3>1, WholeAndPacket, ConcatProperties
    <3>5. \E r \in Seq(Byte) : Arriving' = << ACK >> \o r /\ Whole(r)
      BY <3>3, <3>4
    <3>6. step' = 12 /\ MousePacket' = << >>
      BY <2>1, <2>2, <2>6 DEF Stream
    <3>7. queue'["kbd"] = << >> /\ queue'["ctl"] = << >>
      BY <2>2, <2>4, <2>6 DEF Stream
    <3> QED BY <3>5, <3>6, <3>7 DEF Stream
  <2>7. CASE step = 13
    <3>1. MousePacket \o Arriving \in Seq(Byte) /\ Whole(MousePacket \o Arriving)
      BY <2>2, <2>5, <2>7, ConcatProperties DEF Stream
    <3>2. Whole((MousePacket \o Arriving) \o p)
      BY <3>1, WholeAndPacket
    <3>3. MousePacket' \o Arriving' = (MousePacket \o Arriving) \o p
      BY <2>1, <2>4, <2>5, InARow
    <3> QED BY <2>1, <2>2, <2>4, <2>7, <3>2, <3>3 DEF Stream
  <2> QED BY <2>3, <2>6, <2>7
<1>11. CASE Deliver
  <2>1. UNCHANGED << step, MousePacket, keys, late, stale >>
    BY <1>11 DEF Deliver, history, parser
  <2>2. Stream
    BY <1>b, <2>1 DEF Undisturbed
  <2>3. CASE step < 12
    BY <2>1, <2>2, <2>3 DEF Stream
  <2>4. CASE step \in 12 .. 13
    <3>1. Arriving' = Arriving /\ queue'["kbd"] = << >> /\ queue'["ctl"] = << >>
      BY <1>11, <2>2, <2>4, StreamDelivers DEF Stream
    <3> QED BY <2>1, <2>2, <2>4, <3>1 DEF Stream
  <2> QED BY <1>a, <2>3, <2>4
<1>12. CASE UNCHANGED vars
  <2>1. UNCHANGED << step, MousePacket, keys, late, stale, data, full, queue >>
    BY <1>12 DEF vars, controller, history, parser
  <2>2. Stream
    BY <1>b, <2>1 DEF Undisturbed
  <2> QED BY <2>1, <2>2 DEF Stream, Arriving
<1> QED
  BY <1>1, <1>2, <1>3, <1>4, <1>5, <1>6, <1>7, <1>8, <1>9, <1>10, <1>11, <1>12
     DEF Next, Main

(* Until a frame polls too early, and without a key press or a late        *)
(* answer, every packet the desktop processes (HandlePS2Mouse) is one the  *)
(* mouse sent: however its bytes and the frames interleave, whatever       *)
(* packets there are and however many, none is put together of two.        *)
THEOREM PacketsSafety == Spec => PacketsWhole
<1>1. Init => StreamInv
  BY DEF Init, StreamInv, Stream
<1>2. TypeOK /\ StreamInv /\ [Next]_vars
        => [MousePacket' = << >> /\ MousePacket # << >> /\ Undisturbed /\ ~ stale'
              => Append(MousePacket, data) \in Report]_vars
  <2> SUFFICES ASSUME TypeOK, StreamInv, Next,
                      MousePacket' = << >>, MousePacket # << >>, Undisturbed, ~ stale'
               PROVE  Append(MousePacket, data) \in Report
    BY DEF vars
  <2>1. Poll
    BY DEF Next, Main, EnablePort, RateToKbd, AskConfig, ReadMouse, ReadConfig, WriteConfig,
           WriteMouse, WaitInputAndRead, KeyPressed, Move, Deliver, parser
  <2>2. ~ stale /\ step = 13
    BY <2>1, ScriptLength DEF Poll, TypeOK
  <2>3. Whole(MousePacket \o Arriving)
    BY <2>2 DEF StreamInv, Stream
  <2> QED BY <2>1, <2>3, StreamPolled
<1>3. Init => ConfigInv
  BY DEF Init, ConfigInv, Handshake, Quiet, Nothing
<1> QED
  BY <1>1, <1>2, <1>3, ConfigStep, StreamStep, MouseTypeCorrect, PTL DEF Spec, PacketsWhole
=============================================================================
