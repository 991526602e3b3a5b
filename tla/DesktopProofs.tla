---------------------------- MODULE DesktopProofs ----------------------------
(***************************************************************************)
(* Proofs about Desktop.tla, for every set of keys, every line buffer,     *)
(* every screen and however many bytes the keyboard sends: what the words  *)
(* of init_idt and kb_init make of the first interrupt controller, and     *)
(* what follows for the routine and the desktop's polling.                 *)
(***************************************************************************)
EXTENDS Desktop, SequenceTheorems, TLAPS

-----------------------------------------------------------------------------
(* The words, by their number. *)
LEMMA TheWords ==
  /\ Words[1] = << PIC1_COMMAND_PORT, 17 >> /\ Words[2] = << PIC2_COMMAND_PORT, 17 >>
  /\ Words[3] = << PIC1_DATA_PORT, 32 >>    /\ Words[4] = << PIC1_DATA_PORT, 40 >>
  /\ Words[5] = << PIC1_DATA_PORT, 0 >>     /\ Words[6] = << PIC2_DATA_PORT, 0 >>
  /\ Words[7] = << PIC1_DATA_PORT, 1 >>     /\ Words[8] = << PIC1_DATA_PORT, 1 >>
  /\ Words[9] = << PIC1_DATA_PORT, 255 >>   /\ Words[10] = << PIC1_DATA_PORT, 255 >>
  /\ Words[11] = << PIC1_DATA_PORT, 253 >>
BY DEF Words, init_idt, kb_init

LEMMA Numbers ==
  /\ DOMAIN Words = 1 .. 11
  /\ Sti = 12 /\ Verified = 13 /\ Test = 14 /\ PollPort = 15
<1>1. DOMAIN Words = 1 .. 11 /\ Len(Words) = 11
  BY DEF Words, init_idt, kb_init
<1> QED BY <1>1 DEF Sti, Verified, Test, PollPort

(* kb_init's mask leaves the keyboard's line open and no other. *)
LEMMA KeyboardLineOnly == Line \ Lines(253) = {1}
<1>1. /\ 2 ^ 0 = 1 /\ 2 ^ 1 = 2 /\ 2 ^ 2 = 4 /\ 2 ^ 3 = 8
      /\ 2 ^ 4 = 16 /\ 2 ^ 5 = 32 /\ 2 ^ 6 = 64 /\ 2 ^ 7 = 128
  OBVIOUS
<1>2. Line = {0, 1, 2, 3, 4, 5, 6, 7}
  BY DEF Line
<1>3. /\ Has(253, 1) /\ ~ Has(253, 2) /\ Has(253, 4) /\ Has(253, 8)
      /\ Has(253, 16) /\ Has(253, 32) /\ Has(253, 64) /\ Has(253, 128)
  BY DEF Has
<1>4. ASSUME NEW l \in Line PROVE Has(253, 2 ^ l) <=> l # 1
  <2>0. CASE l = 0
    BY <1>1, <1>3, <2>0
  <2>1. CASE l = 1
    BY <1>1, <1>3, <2>1
  <2>2. CASE l = 2
    BY <1>1, <1>3, <2>2
  <2>3. CASE l = 3
    BY <1>1, <1>3, <2>3
  <2>4. CASE l = 4
    BY <1>1, <1>3, <2>4
  <2>5. CASE l = 5
    BY <1>1, <1>3, <2>5
  <2>6. CASE l = 6
    BY <1>1, <1>3, <2>6
  <2>7. CASE l = 7
    BY <1>1, <1>3, <2>7
  <2> QED BY <1>2, <2>0, <2>1, <2>2, <2>3, <2>4, <2>5, <2>6, <2>7
<1>5. Lines(253) = {l \in Line : l # 1}
  BY <1>4 DEF Lines
<1> QED BY <1>2, <1>5

-----------------------------------------------------------------------------
(* What a word makes of a controller. *)
Byte == 0 .. 255

LEMMA DataChip ==
  ASSUME NEW chip \in Chip, NEW word \in Byte
  PROVE  /\ Data(chip, word) \in Chip
         /\ Data(chip, word).isr = chip.isr
         /\ chip.expects = "ICW2" => /\ Data(chip, word).expects = "ICW3"
                                     /\ Data(chip, word).base = word - (word % 8)
         /\ chip.expects = "ICW3" => /\ Data(chip, word).expects = "ICW4"
                                     /\ Data(chip, word).base = chip.base
         /\ chip.expects = "ICW4" => /\ Data(chip, word).expects = "mask"
                                     /\ Data(chip, word).base = chip.base
                                     /\ Data(chip, word).mode8086 = Has(word, 1)
                                     /\ Data(chip, word).autoEnd = Has(word, 2)
         /\ chip.expects = "mask" => /\ Data(chip, word).expects = "mask"
                                     /\ Data(chip, word).base = chip.base
                                     /\ Data(chip, word).mode8086 = chip.mode8086
                                     /\ Data(chip, word).autoEnd = chip.autoEnd
                                     /\ Data(chip, word).imr = Lines(word)
<1>1. word - (word % 8) \in Byte
  BY DEF Byte
<1>2. Lines(word) \in SUBSET Line
  BY DEF Lines
<1>3. chip.expects \in Expected
  BY DEF Chip
<1>4. CASE chip.expects = "ICW2"
  <2>1. Data(chip, word) = [chip EXCEPT !.expects = "ICW3", !.base = word - (word % 8)]
    BY <1>4 DEF Data
  <2> QED BY <1>1, <1>4, <2>1 DEF Chip, Expected, Byte
<1>5. CASE chip.expects = "ICW3"
  <2>1. Data(chip, word) = [chip EXCEPT !.expects = "ICW4"]
    BY <1>5 DEF Data
  <2> QED BY <1>5, <2>1 DEF Chip, Expected
<1>6. CASE chip.expects = "ICW4"
  <2>1. Data(chip, word) = [chip EXCEPT !.expects = "mask",
                              !.mode8086 = Has(word, 1), !.autoEnd = Has(word, 2)]
    BY <1>6 DEF Data
  <2>2. Has(word, 1) \in BOOLEAN /\ Has(word, 2) \in BOOLEAN
    BY DEF Has
  <2> HIDE DEF Has
  <2> QED BY <1>6, <2>1, <2>2 DEF Chip, Expected
<1>7. CASE chip.expects = "mask"
  <2>1. Data(chip, word) = [chip EXCEPT !.imr = Lines(word)]
    BY <1>7 DEF Data
  <2> QED BY <1>2, <1>7, <2>1 DEF Chip, Expected
<1> QED BY <1>3, <1>4, <1>5, <1>6, <1>7 DEF Expected

LEMMA ICW1Chip ==
  ASSUME NEW chip \in Chip
  PROVE  /\ Command(chip, 17) \in Chip
         /\ Command(chip, 17).expects = "ICW2" /\ Command(chip, 17).isr = {}
<1>1. Has(17, 16)
  BY DEF Has
<1>2. Command(chip, 17)
        = [chip EXCEPT !.expects = "ICW2", !.imr = {}, !.irr = {}, !.isr = {}]
  BY <1>1 DEF Command
<1> QED BY <1>2 DEF Chip, Expected

(* A controller as kb_init leaves it: it asks for line 1 at most, and at   *)
(* 33 unless it heeds the mode bit.                                        *)
Live(chip) ==
  /\ chip \in Chip
  /\ chip.expects = "mask" /\ chip.base = 32
  /\ ~ chip.mode8086 /\ ~ chip.autoEnd
  /\ Line \ chip.imr = {1}
  /\ chip.isr \in {{}, {1}}

LEMMA LiveAsks ==
  ASSUME NEW chip, Live(chip)
  PROVE  /\ Asking(chip) = IF 1 \in chip.irr /\ chip.isr = {} THEN {1} ELSE {}
         /\ Asking(chip) # {} => Min(Asking(chip)) = 1
         /\ Asking(chip) # {} => Vector(chip) = IF ModeBit THEN 8 ELSE 33
<1>1. Asking(chip) = {l \in chip.irr \ chip.imr : \A s \in chip.isr : l < s}
  BY DEF Asking, Live
<1>2. chip.irr \subseteq Line
  BY DEF Live, Chip
<1>3. chip.irr \ chip.imr = IF 1 \in chip.irr THEN {1} ELSE {}
  BY <1>2 DEF Live
<1>4. Asking(chip) = IF 1 \in chip.irr /\ chip.isr = {} THEN {1} ELSE {}
  BY <1>1, <1>3 DEF Live
<1>5. Min({1}) = 1
  BY DEF Min
<1> QED BY <1>4, <1>5 DEF Live, Vector

LEMMA TakenLive ==
  ASSUME NEW chip, Live(chip), Asking(chip) # {}
  PROVE  /\ Live(Taken(chip)) /\ Taken(chip).isr = {1} /\ Taken(chip).imr = chip.imr
         /\ Live(Command(Taken(chip), 32)) /\ Command(Taken(chip), 32).isr = {}
         /\ Command(Taken(chip), 32).imr = chip.imr
<1>1. Min(Asking(chip)) = 1 /\ chip.isr = {}
  BY LiveAsks
<1>2. Taken(chip) = [chip EXCEPT !.irr = @ \ {1}, !.isr = @ \cup {1}]
  BY <1>1 DEF Taken, Live
<1>3. Taken(chip).isr = {1} /\ Live(Taken(chip)) /\ Taken(chip).imr = chip.imr
  <2>1. chip \in Chip
    BY DEF Live
  <2>2. /\ Taken(chip).expects = chip.expects /\ Taken(chip).base = chip.base
        /\ Taken(chip).mode8086 = chip.mode8086
        /\ Taken(chip).autoEnd = chip.autoEnd
        /\ Taken(chip).imr = chip.imr /\ Taken(chip).isr = {1}
    BY <1>1, <1>2, <2>1 DEF Chip
  <2>3. chip.irr \ {1} \in SUBSET Line /\ chip.isr \cup {1} \in SUBSET Line
    BY <1>1, <2>1 DEF Chip, Line
  <2>4. Taken(chip) \in Chip
    BY <1>2, <2>1, <2>3 DEF Chip
  <2> QED BY <2>2, <2>4 DEF Live
<1>4. ~ Has(32, 16) /\ Min({1}) = 1
  BY DEF Has, Min
<1>5. Command(Taken(chip), 32) = [Taken(chip) EXCEPT !.isr = @ \ {Min(@)}]
  BY <1>3, <1>4 DEF Command
<1>6. /\ Live(Command(Taken(chip), 32)) /\ Command(Taken(chip), 32).isr = {}
      /\ Command(Taken(chip), 32).imr = chip.imr
  BY <1>3, <1>4, <1>5 DEF Live, Chip, Line
<1> QED BY <1>3, <1>6

-----------------------------------------------------------------------------
(***************************************************************************)
(* What the first controller is when the n-th word is about to be sent.    *)
(* It was initialised by the fifth, since the second controller's words    *)
(* went to it; what it takes for masks after that, the last one replaces.  *)
(***************************************************************************)
Stage(n, chip) ==
  /\ chip.isr = {}
  /\ n \in {2, 3} => chip.expects = "ICW2"
  /\ n = 4 => chip.expects = "ICW3"
  /\ n = 5 => chip.expects = "ICW4"
  /\ n >= 4 => chip.base = 32
  /\ n >= 6 => chip.expects = "mask" /\ ~ chip.mode8086 /\ ~ chip.autoEnd
  /\ n = 12 => Line \ chip.imr = {1}

LEMMA SentTo ==
  ASSUME NEW chips, NEW word
  PROVE  /\ Sent(chips, PIC1_COMMAND_PORT, word) = [chips EXCEPT ![1] = Command(@, word)]
         /\ Sent(chips, PIC2_COMMAND_PORT, word) = [chips EXCEPT ![2] = Command(@, word)]
         /\ Sent(chips, PIC1_DATA_PORT, word)    = [chips EXCEPT ![1] = Data(@, word)]
         /\ Sent(chips, PIC2_DATA_PORT, word)    = [chips EXCEPT ![2] = Data(@, word)]
BY DEF Sent, PIC1_COMMAND_PORT, PIC1_DATA_PORT, PIC2_COMMAND_PORT, PIC2_DATA_PORT

(* A word at the first controller's data port, as the n-th. *)
LEMMA DataStage ==
  ASSUME NEW chip \in Chip, NEW n \in 3 .. 11, NEW word \in Byte,
         n = 3 => word = 32, n = 5 => word = 0, n = 11 => word = 253, Stage(n, chip)
  PROVE  Data(chip, word) \in Chip /\ Stage(n + 1, Data(chip, word))
<1> DEFINE after == Data(chip, word)
<1>1. after \in Chip /\ after.isr = {}
  BY DataChip DEF Stage
<1>2. CASE n = 3
  <2>1. after.expects = "ICW3" /\ after.base = 32 - (32 % 8)
    BY <1>2, DataChip DEF Stage
  <2>2. 32 - (32 % 8) = 32
    OBVIOUS
  <2> QED BY <1>1, <1>2, <2>1, <2>2 DEF Stage
<1>3. CASE n = 4
  <2>1. after.expects = "ICW4" /\ after.base = 32
    BY <1>3, DataChip DEF Stage
  <2> QED BY <1>1, <1>3, <2>1 DEF Stage
<1>4. CASE n = 5
  <2>1. after.expects = "mask" /\ after.base = 32
    BY <1>4, DataChip DEF Stage
  <2>2. ~ Has(0, 1) /\ ~ Has(0, 2)
    BY DEF Has
  <2>3. ~ after.mode8086 /\ ~ after.autoEnd
    BY <1>4, <2>2, DataChip DEF Stage
  <2> QED BY <1>1, <1>4, <2>1, <2>3 DEF Stage
<1>5. CASE n \in 6 .. 11
  <2>1. after.expects = "mask" /\ after.base = 32 /\ after.imr = Lines(word)
    BY <1>5, DataChip DEF Stage
  <2>2. n = 11 => Line \ after.imr = {1}
    BY <2>1, KeyboardLineOnly
  <2>3. ~ after.mode8086 /\ ~ after.autoEnd
    BY <1>5, DataChip DEF Stage
  <2> QED BY <1>1, <1>5, <2>1, <2>2, <2>3 DEF Stage
<1> QED BY <1>2, <1>3, <1>4, <1>5

LEMMA WordStep ==
  ASSUME NEW chips \in [1 .. 2 -> Chip], NEW n \in 1 .. 11, Stage(n, chips[1])
  PROVE  LET next == Sent(chips, Words[n][1], Words[n][2])
         IN  next \in [1 .. 2 -> Chip] /\ Stage(n + 1, next[1])
<1> DEFINE next == Sent(chips, Words[n][1], Words[n][2])
<1> SUFFICES next \in [1 .. 2 -> Chip] /\ Stage(n + 1, next[1])
  OBVIOUS
<1>1. chips[1] \in Chip /\ chips[2] \in Chip
  OBVIOUS
<1>2. CASE n = 1
  <2>1. next = [chips EXCEPT ![1] = Command(@, 17)]
    BY <1>2, TheWords, SentTo
  <2> QED BY <1>1, <1>2, <2>1, ICW1Chip DEF Stage
<1>3. CASE n = 2
  <2>1. next = [chips EXCEPT ![2] = Command(@, 17)]
    BY <1>3, TheWords, SentTo
  <2> QED BY <1>1, <1>3, <2>1, ICW1Chip DEF Stage
<1>4. CASE n = 6
  <2>1. next = [chips EXCEPT ![2] = Data(@, 0)]
    BY <1>4, TheWords, SentTo
  <2>2. 0 \in Byte
    BY DEF Byte
  <2>3. Data(chips[2], 0) \in Chip
    BY <1>1, <2>2, DataChip
  <2>4. next \in [1 .. 2 -> Chip] /\ next[1] = chips[1]
    BY <2>1, <2>3
  <2>5. Stage(7, chips[1])
    BY <1>4 DEF Stage
  <2> QED BY <1>4, <2>4, <2>5
<1>5. CASE n \in 3 .. 11 \ {6}
  <2>1. \E w \in Byte : /\ next = [chips EXCEPT ![1] = Data(@, w)]
                        /\ n = 3 => w = 32
                        /\ n = 5 => w = 0
                        /\ n = 11 => w = 253
    <3>1. CASE n = 3
      <4>1. next = [chips EXCEPT ![1] = Data(@, 32)]
        BY <3>1, TheWords, SentTo
      <4> QED BY <3>1, <4>1 DEF Byte
    <3>2. CASE n = 4
      <4>1. next = [chips EXCEPT ![1] = Data(@, 40)]
        BY <3>2, TheWords, SentTo
      <4> QED BY <3>2, <4>1 DEF Byte
    <3>3. CASE n = 5
      <4>1. next = [chips EXCEPT ![1] = Data(@, 0)]
        BY <3>3, TheWords, SentTo
      <4> QED BY <3>3, <4>1 DEF Byte
    <3>4. CASE n = 7
      <4>1. next = [chips EXCEPT ![1] = Data(@, 1)]
        BY <3>4, TheWords, SentTo
      <4> QED BY <3>4, <4>1 DEF Byte
    <3>5. CASE n = 8
      <4>1. next = [chips EXCEPT ![1] = Data(@, 1)]
        BY <3>5, TheWords, SentTo
      <4> QED BY <3>5, <4>1 DEF Byte
    <3>6. CASE n = 9
      <4>1. next = [chips EXCEPT ![1] = Data(@, 255)]
        BY <3>6, TheWords, SentTo
      <4> QED BY <3>6, <4>1 DEF Byte
    <3>7. CASE n = 10
      <4>1. next = [chips EXCEPT ![1] = Data(@, 255)]
        BY <3>7, TheWords, SentTo
      <4> QED BY <3>7, <4>1 DEF Byte
    <3>8. CASE n = 11
      <4>1. next = [chips EXCEPT ![1] = Data(@, 253)]
        BY <3>8, TheWords, SentTo
      <4> QED BY <3>8, <4>1 DEF Byte
    <3> QED BY <1>5, <3>1, <3>2, <3>3, <3>4, <3>5, <3>6, <3>7, <3>8
  <2>2. PICK w \in Byte : /\ next = [chips EXCEPT ![1] = Data(@, w)]
                          /\ n = 3 => w = 32
                          /\ n = 5 => w = 0
                          /\ n = 11 => w = 253
    BY <2>1
  <2>3. n \in 3 .. 11 /\ (n = 3 => w = 32) /\ (n = 5 => w = 0) /\ (n = 11 => w = 253)
    BY <1>5, <2>2
  <2>4. Data(chips[1], w) \in Chip /\ Stage(n + 1, Data(chips[1], w))
    <3> HIDE DEF next
    <3> QED BY ONLY <1>1, <2>3, Stage(n, chips[1]), DataStage
  <2>5. next \in [1 .. 2 -> Chip] /\ next[1] = Data(chips[1], w)
    BY <1>1, <2>2, <2>4
  <2> QED BY <2>4, <2>5
<1> QED BY <1>2, <1>3, <1>4, <1>5

(* A line that rises changes nothing of that. *)
LEMMA RaisedChips ==
  ASSUME NEW chips \in [1 .. 2 -> Chip], NEW c \in {1, 2}, NEW l \in Line
  PROVE  LET next == Raised(chips, c, l)
         IN  /\ next \in [1 .. 2 -> Chip]
             /\ chips[1].irr \subseteq next[1].irr
             /\ next[1].imr = chips[1].imr /\ next[1].isr = chips[1].isr
             /\ next[1].expects = chips[1].expects /\ next[1].base = chips[1].base
             /\ next[1].mode8086 = chips[1].mode8086
             /\ next[1].autoEnd = chips[1].autoEnd
<1>1. chips[c] \in Chip /\ chips[c].irr \cup {l} \in SUBSET Line
  BY DEF Chip
<1>2. [chips[c] EXCEPT !.irr = @ \cup {l}] \in Chip
  BY <1>1 DEF Chip
<1>3. Raised(chips, c, l) = [chips EXCEPT ![c] = [chips[c] EXCEPT !.irr = @ \cup {l}]]
  BY DEF Raised
<1>4. chips[1] \in Chip
  OBVIOUS
<1> QED BY <1>1, <1>2, <1>3, <1>4 DEF Chip

LEMMA RaisedLive ==
  ASSUME NEW chips \in [1 .. 2 -> Chip], NEW c \in {1, 2}, NEW l \in Line
  PROVE  LET next == Raised(chips, c, l)
         IN  /\ \A n \in 1 .. 12 : Stage(n, chips[1]) => Stage(n, next[1])
             /\ Live(chips[1]) => Live(next[1])
             /\ Live(chips[1]) /\ Asking(chips[1]) # {} => Asking(next[1]) # {}
<1> DEFINE next == Raised(chips, c, l)
<1>1. /\ next \in [1 .. 2 -> Chip]
      /\ chips[1].irr \subseteq next[1].irr
      /\ next[1].imr = chips[1].imr /\ next[1].isr = chips[1].isr
      /\ next[1].expects = chips[1].expects /\ next[1].base = chips[1].base
      /\ next[1].mode8086 = chips[1].mode8086 /\ next[1].autoEnd = chips[1].autoEnd
  BY RaisedChips
<1> HIDE DEF next
<1>2. \A n \in 1 .. 12 : Stage(n, chips[1]) => Stage(n, next[1])
  BY <1>1 DEF Stage
<1>3. Live(chips[1]) => Live(next[1])
  BY <1>1 DEF Live
<1>4. Live(chips[1]) /\ Asking(chips[1]) # {} => Asking(next[1]) # {}
  BY <1>1, <1>3, LiveAsks
<1> QED BY <1>2, <1>3, <1>4 DEF next

-----------------------------------------------------------------------------
(***************************************************************************)
(* The invariant.  The controller goes through its stages and is live from *)
(* the last word on; interrupts are taken behind it alone; what a service  *)
(* leaves unended, and a byte a frame stole, have set kbI or will set it   *)
(* before the next instruction.                                            *)
(***************************************************************************)
Controllers ==
  /\ pic \in [1 .. 2 -> Chip]
  /\ pc \in 1 .. 15
  /\ sti \in BOOLEAN /\ (sti <=> pc > 12)
  /\ pc <= 12 => Stage(pc, pic[1])
  /\ pc >= 12 => Live(pic[1])

Flags ==
  /\ isInstalled \in BOOLEAN /\ marked \in BOOLEAN
  /\ pc <= 13 => ~ isInstalled
  /\ kbI \in BOOLEAN
  /\ pic[1].isr # {} => kbI

Polls ==
  /\ stolen \in {0, 1} /\ latePolls \in {0, 1}
  /\ stolen = 1 => pc = 14 /\ (kbI \/ Asking(pic[1]) # {})
  /\ latePolls = 1 => pc = 14 /\ kbI

Inv == Controllers /\ Flags /\ Polls

LEMMA InvInit == Init => Inv
<1> SUFFICES ASSUME Init PROVE Inv
  OBVIOUS
<1>1. \A base \in {8, 112}, mask \in {{3}, {}} : Firmware(base, mask) \in Chip
  BY DEF Firmware, Chip, Expected, Line
<1>2. pic = << Firmware(8, {3}), Firmware(112, {}) >>
  BY DEF Init
<1>3. pic \in [1 .. 2 -> Chip] /\ pic[1].isr = {}
  <2>1. Firmware(8, {3}) \in Chip /\ Firmware(112, {}) \in Chip
    BY <1>1
  <2>2. Firmware(8, {3}).isr = {}
    BY DEF Firmware
  <2> DEFINE a == Firmware(8, {3})
             b == Firmware(112, {})
  <2> HIDE DEF a, b
  <2>3. << a, b >> \in [1 .. 2 -> {a, b}] /\ << a, b >>[1] = a
    OBVIOUS
  <2> QED BY <1>2, <2>1, <2>2, <2>3 DEF a, b
<1>4. Controllers
  <2>1. pc = 1 /\ ~ sti /\ sti \in BOOLEAN
    BY DEF Init
  <2>2. Stage(1, pic[1])
    BY <1>3 DEF Stage
  <2> QED BY <1>3, <2>1, <2>2 DEF Controllers
<1>5. Flags /\ Polls
  <2>1. /\ pc = 1 /\ marked \in BOOLEAN /\ ~ isInstalled /\ isInstalled \in BOOLEAN
        /\ kbI \in BOOLEAN /\ stolen = 0 /\ latePolls = 0
    BY DEF Init
  <2> QED BY <1>3, <2>1 DEF Flags, Polls
<1> QED BY <1>4, <1>5 DEF Inv

(* The interrupt that a live controller asks for is the keyboard's, and    *)
(* the routine's end of the interrupt takes the line out of service.       *)
LEMMA ServedChips ==
  ASSUME pic \in [1 .. 2 -> Chip], Live(pic[1]), Asking(pic[1]) # {}
  PROVE  /\ Served \in [1 .. 2 -> Chip] /\ Live(Served[1])
         /\ Served[1].isr = {} /\ Served[1].imr = pic[1].imr
<1> DEFINE taken == [pic EXCEPT ![1] = Taken(@)]
<1>1. /\ Live(Taken(pic[1])) /\ Live(Command(Taken(pic[1]), 32))
      /\ Command(Taken(pic[1]), 32).isr = {} /\ Command(Taken(pic[1]), 32).imr = pic[1].imr
  BY TakenLive
<1>2. Taken(pic[1]) \in Chip /\ Command(Taken(pic[1]), 32) \in Chip
  BY <1>1 DEF Live
<1>3. taken \in [1 .. 2 -> Chip] /\ taken[1] = Taken(pic[1])
  BY <1>2
<1>4. Served = [taken EXCEPT ![1] = Command(@, 32)]
  BY SentTo DEF Served
<1> HIDE DEF taken
<1>5. Served \in [1 .. 2 -> Chip] /\ Served[1] = Command(Taken(pic[1]), 32)
  BY <1>2, <1>3, <1>4
<1> QED BY <1>1, <1>5

LEMMA InvStep == Inv /\ [Next]_vars => Inv'
<1> SUFFICES ASSUME Inv, [Next]_vars PROVE Inv'
  OBVIOUS
<1> USE Numbers DEF Inv
<1>1. CASE SendWord
  <2>1. /\ pc \in 1 .. 11 /\ pc' = pc + 1 /\ pic' = Sent(pic, Words[pc][1], Words[pc][2])
        /\ UNCHANGED << sti, kbI, isInstalled, marked, stolen, latePolls >>
    BY <1>1 DEF SendWord, routine, polls
  <2>2. pic' \in [1 .. 2 -> Chip] /\ Stage(pc', pic'[1])
    BY <2>1, WordStep DEF Controllers
  <2>3. pc' = 12 => Live(pic'[1])
    BY <2>1, <2>2 DEF Stage, Live
  <2>4. pic'[1].isr = {}
    BY <2>2 DEF Stage
  <2>5. Controllers'
    BY <2>1, <2>2, <2>3 DEF Controllers
  <2> QED BY <2>1, <2>4, <2>5 DEF Flags, Polls
<1>2. CASE EnableInterrupts
  BY <1>2 DEF EnableInterrupts, Go, routine, polls, Controllers, Flags, Polls
<1>3. CASE Verify
  BY <1>3 DEF Verify, Go, routine, polls, Controllers, Flags, Polls
<1>4. CASE TestKbI
  BY <1>4 DEF TestKbI, Undisturbed, Go, routine, polls, Controllers, Flags, Polls
<1>5. CASE Poll
  <2>1. /\ pc = 15 /\ pc' = 14 /\ stolen = 0 /\ latePolls = 0
        /\ stolen' = (IF full /\ 1 \in pic[1].irr THEN 1 ELSE 0)
        /\ latePolls' = (IF kbI THEN 1 ELSE 0)
        /\ UNCHANGED << pic, sti, kbI, isInstalled, marked >>
    BY <1>5 DEF Poll, Go, routine, Polls
  <2>2. 1 \in pic[1].irr => kbI \/ Asking(pic[1]) # {}
    BY <2>1, LiveAsks DEF Controllers, Flags
  <2> QED BY <2>1, <2>2 DEF Controllers, Flags, Polls
<1>6. CASE Installer \/ UNCHANGED vars
  BY <1>6 DEF Installer, vars, routine, polls, Controllers, Flags, Polls
<1>7. CASE Interrupt
  <2>1. /\ sti /\ Asking(pic[1]) # {} /\ kbI' = TRUE /\ pic' = Served
        /\ UNCHANGED << pc, sti, isInstalled, marked, stolen, latePolls >>
    BY <1>7 DEF Interrupt, Entry, polls
  <2>2. Live(pic[1]) /\ pc > 12
    BY <2>1 DEF Controllers
  <2> QED BY <2>1, <2>2, ServedChips DEF Controllers, Flags, Polls
<1>8. CASE AfterPoweroff
  <2>1. /\ sti /\ Asking(pic[1]) # {} /\ kbI' = TRUE
        /\ pic' = [pic EXCEPT ![1] = Taken(@)]
        /\ UNCHANGED << pc, sti, isInstalled, marked, stolen, latePolls >>
    BY <1>8 DEF AfterPoweroff, Entry, polls
  <2>2. Live(pic[1]) /\ pc > 12
    BY <2>1 DEF Controllers
  <2>3. Live(Taken(pic[1])) /\ Taken(pic[1]) \in Chip
    BY <2>1, <2>2, TakenLive DEF Live
  <2> QED BY <2>1, <2>2, <2>3 DEF Controllers, Flags, Polls
<1>9. CASE KeyMoves
  BY <1>9 DEF KeyMoves, routine, polls, Controllers, Flags, Polls
<1>10. CASE Deliver \/ OtherDevices
  <2>1. \E c \in {1, 2}, l \in Line : pic' = Raised(pic, c, l)
    BY <1>10 DEF Deliver, OtherDevices, Line
  <2>2. UNCHANGED << pc, sti, kbI, isInstalled, marked, stolen, latePolls >>
    BY <1>10 DEF Deliver, OtherDevices, routine, polls
  <2>3. /\ pic' \in [1 .. 2 -> Chip] /\ pic'[1].isr = pic[1].isr
        /\ \A n \in 1 .. 12 : Stage(n, pic[1]) => Stage(n, pic'[1])
        /\ Live(pic[1]) => Live(pic'[1])
        /\ Live(pic[1]) /\ Asking(pic[1]) # {} => Asking(pic'[1]) # {}
    <3>1. PICK c \in {1, 2}, l \in Line : pic' = Raised(pic, c, l)
      BY <2>1
    <3>2. pic \in [1 .. 2 -> Chip]
      BY DEF Controllers
    <3> QED BY ONLY <3>1, <3>2, RaisedChips, RaisedLive
  <2> QED BY <2>2, <2>3 DEF Controllers, Flags, Polls
<1> QED BY <1>1, <1>2, <1>3, <1>4, <1>5, <1>6, <1>7, <1>8, <1>9, <1>10 DEF Next, Main

-----------------------------------------------------------------------------
(* On controllers that do not heed ICW4's mode bit, no interrupt reaches   *)
(* an entry of the table that init_idt did not fill, although the words of *)
(* the second controller went to the first and made its ICW4 zero.         *)
THEOREM GatesSafety == ~ ModeBit => (Spec => []OnlyGates)
<1> SUFFICES ASSUME ~ ModeBit PROVE Spec => []OnlyGates
  OBVIOUS
<1>1. Inv => OnlyGates
  BY LiveAsks DEF Inv, Controllers, OnlyGates, Gate
<1> QED BY InvInit, InvStep, <1>1, PTL DEF Spec

(* On an 8259A every interrupt is one the table has no entry for: the      *)
(* first key already goes to entry 8.                                      *)
THEOREM GatesMissed ==
  ModeBit => (Spec => [](sti /\ Asking(pic[1]) # {} => Vector(pic[1]) \notin Gate))
<1> DEFINE Missed == sti /\ Asking(pic[1]) # {} => Vector(pic[1]) \notin Gate
<1> SUFFICES ASSUME ModeBit PROVE Spec => []Missed
  OBVIOUS
<1>1. Inv => Missed
  BY LiveAsks DEF Inv, Controllers, Gate
<1> HIDE DEF Missed
<1> QED BY InvInit, InvStep, <1>1, PTL DEF Spec

(* The desktop's polling takes one byte from the keyboard's routine at     *)
(* most, and polls once at most after the first interrupt.                 *)
THEOREM OneByteSafety == Spec => []OneByteLost
<1>1. Inv => OneByteLost
  BY DEF Inv, Polls, OneByteLost
<1> QED BY InvInit, InvStep, <1>1, PTL DEF Spec

RoutineStep ==
  \/ \E k \in Key : K!Press(k)
  \/ K!NoKey \/ K!AfterPoweroff
  \/ OpensIrq1 \/ BecomesInstalled

LEMMA RoutineSteps ==
  Inv /\ [Next]_vars => [RoutineStep]_<< irq1, routine, isInstalled >>
<1> SUFFICES ASSUME Inv, [Next]_vars
             PROVE  RoutineStep \/ UNCHANGED << irq1, routine, isInstalled >>
  OBVIOUS
<1> USE Numbers
<1>0. Inv'
  BY InvStep
<1>1. /\ irq1 = IF ~ sti THEN "masked" ELSE IF 1 \in pic[1].isr THEN "inService" ELSE "open"
      /\ irq1' = IF ~ sti' THEN "masked" ELSE IF 1 \in pic'[1].isr THEN "inService" ELSE "open"
  <2>1. (sti => Live(pic[1])) /\ (sti' => Live(pic'[1]))
    BY <1>0 DEF Inv, Controllers
  <2>2. (sti => 1 \notin pic[1].imr) /\ (sti' => 1 \notin pic'[1].imr)
    BY <2>1 DEF Live
  <2> QED BY <2>2 DEF irq1
<1>2. CASE SendWord \/ Deliver \/ OtherDevices \/ KeyMoves
  <2>1. UNCHANGED << sti, routine, isInstalled >>
    BY <1>2 DEF SendWord, Deliver, OtherDevices, KeyMoves
  <2>2. ~ sti \/ pic'[1].isr = pic[1].isr
    <3>1. CASE SendWord
      BY <3>1 DEF SendWord, Inv, Controllers
    <3>2. CASE Deliver \/ OtherDevices
      <4>1. PICK c \in {1, 2}, l \in Line : pic' = Raised(pic, c, l)
        BY <3>2 DEF Deliver, OtherDevices, Line
      <4>2. pic \in [1 .. 2 -> Chip]
        BY DEF Inv, Controllers
      <4> QED BY ONLY <4>1, <4>2, RaisedChips
    <3>3. CASE KeyMoves
      BY <3>3 DEF KeyMoves
    <3> QED BY <1>2, <3>1, <3>2, <3>3
  <2> QED BY <1>1, <2>1, <2>2
<1>3. CASE EnableInterrupts
  <2>1. /\ pc = 12 /\ sti' = TRUE /\ UNCHANGED << pic, routine, isInstalled >>
    BY <1>3 DEF EnableInterrupts, Go
  <2>2. ~ sti /\ pic[1].isr = {}
    BY <2>1 DEF Inv, Controllers, Stage
  <2> QED BY <1>1, <2>1, <2>2 DEF RoutineStep, OpensIrq1
<1>4. CASE Verify
  <2>1. /\ ~ isInstalled /\ isInstalled' \in BOOLEAN /\ UNCHANGED << pic, sti, routine >>
    BY <1>0, <1>4 DEF Verify, Go, Inv, Flags
  <2>2. isInstalled \in BOOLEAN
    BY DEF Inv, Flags
  <2>3. irq1' = irq1
    BY <1>1, <2>1
  <2> QED BY <2>1, <2>2, <2>3 DEF RoutineStep, BecomesInstalled
<1>5. CASE TestKbI \/ Poll \/ Installer \/ UNCHANGED vars
  <2>1. UNCHANGED << sti, pic, routine, isInstalled >>
    BY <1>5 DEF TestKbI, Poll, Installer, vars
  <2> QED BY <1>1, <2>1
<1>6. CASE Interrupt \/ AfterPoweroff
  <2>1. /\ sti /\ sti' /\ Asking(pic[1]) # {} /\ kbI' = TRUE /\ isInstalled' = isInstalled
    BY <1>6 DEF Interrupt, AfterPoweroff, Entry
  <2>2. Live(pic[1]) /\ pic \in [1 .. 2 -> Chip]
    BY <2>1 DEF Inv, Controllers
  <2>3. irq1 = "open"
    BY <1>1, <2>1, <2>2, LiveAsks
  <2>4. CASE Interrupt
    <3>1. pic' = Served /\ ~ poweroff_sys /\ TakeByte
      BY <2>4 DEF Interrupt
    <3>2. irq1' = "open"
      BY <1>1, <2>1, <2>2, <3>1, ServedChips
    <3>3. (\E k \in Key : K!Receive(K!keyboard_map[k])) \/ K!Ignore
      BY <3>1 DEF TakeByte, Pressed
    <3> QED BY <2>1, <2>3, <3>1, <3>2, <3>3 DEF RoutineStep, K!Press, K!NoKey
  <2>5. CASE AfterPoweroff
    <3>1. pic' = [pic EXCEPT ![1] = Taken(@)] /\ poweroff_sys /\ K!Ignore
      BY <2>5 DEF AfterPoweroff
    <3>2. irq1' = "inService"
      BY <1>1, <2>1, <2>2, <3>1, TakenLive
    <3> QED BY <2>1, <2>3, <3>1, <3>2 DEF RoutineStep, K!AfterPoweroff
  <2> QED BY <1>6, <2>4, <2>5
<1> QED BY <1>2, <1>3, <1>4, <1>5, <1>6 DEF Next, Main

(* The controllers, as init_idt leaves them, serve the routine the way     *)
(* Keyboard.tla has it: every step of this module is a step of that one,   *)
(* or none.                                                                *)
THEOREM RoutineSafety == Spec => RoutineAsSpecified
<1>1. Inv /\ [Next]_vars
        => [\/ \E k \in Key : K!Press(k)
            \/ K!NoKey \/ K!AfterPoweroff
            \/ OpensIrq1 \/ BecomesInstalled]_<< irq1, routine, isInstalled >>
  BY RoutineSteps DEF RoutineStep
<1> QED BY InvInit, InvStep, <1>1, PTL DEF Spec, RoutineAsSpecified

-----------------------------------------------------------------------------
(* The routine keeps its types here as it does in Keyboard.tla, by the     *)
(* lemmas about that module.                                               *)
KP == INSTANCE KeyboardProofs WITH
  servicePage <- FALSE, agreePage <- FALSE, agreePage2 <- FALSE

LEMMA SameTypes == K!KeyboardTypeOK <=> KP!KeyboardTypeOK
BY Zenon DEF K!KeyboardTypeOK, KP!KeyboardTypeOK, K!Char, KP!Char, K!Command, KP!Command,
     K!Spelling, KP!Spelling, K!keyboard_map, KP!keyboard_map, K!ControlKey, KP!ControlKey

LEMMA SameIgnore == (K!NoKey <=> KP!NoKey) /\ (K!AfterPoweroff <=> KP!AfterPoweroff)
BY Zenon DEF K!NoKey, KP!NoKey, K!AfterPoweroff, KP!AfterPoweroff, K!Ignore, KP!Ignore

LEMMA SamePress == \A k \in Key : K!Press(k) <=> KP!Press(k)
<1>1. K!keyboard_map = KP!keyboard_map
  BY Zenon DEF K!keyboard_map, KP!keyboard_map, K!ControlKey, KP!ControlKey
<1>2. /\ \A buf, c : K!EndsIn(buf, c) <=> KP!EndsIn(buf, c)
      /\ \A buf : K!Front(buf) = KP!Front(buf)
  BY Zenon DEF K!EndsIn, KP!EndsIn, K!Last, KP!Last, K!Front, KP!Front
<1>3. \A buf, c : K!Consume(buf, c) = KP!Consume(buf, c)
  BY Zenon DEF K!Consume, KP!Consume, K!EndsIn, KP!EndsIn, K!Last, KP!Last, K!Front, KP!Front
<1>4. K!Spelling = KP!Spelling
  BY Zenon DEF K!Spelling, KP!Spelling
<1>5. K!Command = KP!Command
  BY <1>4, Zenon DEF K!Command, KP!Command
<1>6. \A c, buf : K!Spells(c, buf) <=> KP!Spells(c, buf)
  BY <1>4, Zenon DEF K!Spells, KP!Spells, K!IsSuffix, KP!IsSuffix, K!IsPrefix, KP!IsPrefix,
     K!Reverse, KP!Reverse
<1>7. \A buf : K!RunCommand(buf) <=> KP!RunCommand(buf)
  BY <1>5, <1>6 DEF K!RunCommand, KP!RunCommand
<1>8. ASSUME NEW buf PROVE K!MoveCursor(buf) <=> KP!MoveCursor(buf)
  BY <1>2, <1>3, <1>5, <1>6, SMT DEF K!MoveCursor, KP!MoveCursor
<1>9. \A ch : K!CommandLine(ch) <=> KP!CommandLine(ch)
  BY <1>7, <1>8 DEF K!CommandLine, KP!CommandLine
<1>10. \A ch : K!SetupPage(ch) <=> KP!SetupPage(ch)
  BY <1>2, SMT DEF K!SetupPage, KP!SetupPage
<1>11. \A ch : K!Receive(ch) <=> KP!Receive(ch)
  BY <1>2, <1>9, <1>10 DEF K!Receive, KP!Receive, K!Erase, KP!Erase, K!Ignore, KP!Ignore,
     K!BufferFull, KP!BufferFull, K!BS, KP!BS
<1> QED BY <1>1, <1>11, Zenon DEF K!Press, KP!Press

LEMMA KeyTypes == K!KeyboardTypeOK /\ RoutineStep => K!KeyboardTypeOK'
<1> SUFFICES ASSUME K!KeyboardTypeOK, RoutineStep PROVE K!KeyboardTypeOK'
  OBVIOUS
<1>1. ASSUME NEW k \in Key, K!Press(k) PROVE K!KeyboardTypeOK'
  <2>1. KP!KeyboardTypeOK /\ KP!Press(k)
    BY <1>1, SameTypes, SamePress
  <2>2. KP!KeyboardTypeOK'
    BY <2>1, DesktopAssumption, KP!PressType
  <2>3. K!KeyboardTypeOK' <=> KP!KeyboardTypeOK'
    BY SameTypes, PTL
  <2> QED BY <2>2, <2>3
<1>2. CASE K!NoKey \/ K!AfterPoweroff
  <2>1. KP!KeyboardTypeOK /\ (KP!NoKey \/ KP!AfterPoweroff)
    BY <1>2, SameTypes, SameIgnore
  <2>2. KP!KeyboardTypeOK'
    BY <2>1, DesktopAssumption, KP!NoCharacterType
  <2>3. K!KeyboardTypeOK' <=> KP!KeyboardTypeOK'
    BY SameTypes, PTL
  <2> QED BY <2>2, <2>3
<1>3. CASE OpensIrq1 \/ BecomesInstalled
  BY <1>3 DEF OpensIrq1, BecomesInstalled, routine, line, K!KeyboardTypeOK
<1> QED BY <1>1, <1>2, <1>3 DEF RoutineStep

-----------------------------------------------------------------------------
(* What goes through the port are bytes, and the square at the cursor      *)
(* stays on the screen whatever they are.                                  *)
PortTypes ==
  /\ data \in Byte /\ queue \in Seq(Byte)
  /\ sent \in 0 .. MaxBytes /\ Len(queue) <= sent

MouseTypes ==
  /\ MousePacket \in Seq(Byte) /\ Len(MousePacket) < 3
  /\ X \in 0 .. MaxX /\ Y \in 0 .. MaxY

TypeInv == Inv /\ K!KeyboardTypeOK /\ PortTypes /\ MouseTypes

LEMMA TypeInit == Init => TypeInv
<1> SUFFICES ASSUME Init PROVE TypeInv
  OBVIOUS
<1>1. Inv
  BY InvInit
<1>2. << >> \in Seq(Byte) /\ << >> \in Seq(K!Char) /\ Len(<< >>) = 0
  BY EmptySeq
<1>3. PortTypes
  BY <1>2, DesktopAssumption DEF Init, PortTypes, Byte
<1>4. MouseTypes
  BY <1>2, DesktopAssumption DEF Init, MouseTypes
<1>5. K!KeyboardTypeOK
  <2>1. irq1 = "masked"
    BY DEF Init, irq1
  <2>2. 0 \in 0 .. CoordModulus - 1 /\ 0 < BufferSize
    BY DesktopAssumption
  <2>3. /\ kbI = FALSE /\ poweroff_sys = FALSE /\ isInput = TRUE
        /\ continueSetup = FALSE /\ isInstalled = FALSE /\ pageNumber = 0
        /\ input_buffer = << >> /\ mx = 0 /\ my = 0 /\ ran = "none"
    BY DEF Init
  <2>4. input_buffer \in Seq(K!Char) /\ Len(input_buffer) < BufferSize
    BY <1>2, <2>2, <2>3
  <2> QED BY <2>1, <2>2, <2>3, <2>4 DEF K!KeyboardTypeOK
<1> QED BY <1>1, <1>3, <1>4, <1>5 DEF TypeInv

LEMMA PacketTypes ==
  ASSUME PortTypes, MouseTypes, M!HandlePS2Mouse(data)
  PROVE  MouseTypes'
<1> DEFINE packet == Append(MousePacket, data)
<1>1. packet \in Seq(Byte) /\ Len(packet) \in 1 .. 3
  BY DEF PortTypes, MouseTypes
<1>2. CASE Len(packet) # 3
  <2>1. MousePacket' = packet /\ UNCHANGED << X, Y >>
    BY <1>2 DEF M!HandlePS2Mouse, M!cursor
  <2>2. Len(MousePacket') < 3
    BY <1>1, <1>2, <2>1
  <2> QED BY <1>1, <2>1, <2>2 DEF MouseTypes
<1>3. CASE Len(packet) = 3
  <2>1. MousePacket' = << >> /\ M!ProcessMousePacket(packet)
    BY <1>3 DEF M!HandlePS2Mouse
  <2>2. packet[1] \in Byte /\ packet[2] \in Byte /\ packet[3] \in Byte
    BY <1>1, <1>3
  <2> HIDE DEF packet
  <2>3. ASSUME NEW f \in Byte, NEW s \in Byte, NEW o \in Byte, NEW b \in Byte
        PROVE  M!Steps(f, s, o, b) \in Int
    <3>1. ((256 - b) % 256) \in Int /\ (b \div 5) \in Int
      BY DEF Byte
    <3> QED BY <3>1 DEF M!Steps
  <2>4. /\ M!PS2XSign \in Byte /\ M!PS2YSign \in Byte
        /\ M!PS2XOverflow \in Byte /\ M!PS2YOverflow \in Byte
    BY DEF M!PS2XSign, M!PS2YSign, M!PS2XOverflow, M!PS2YOverflow, Byte
  <2>5. PICK dx \in Int, dy \in Int : /\ X' = M!Clamp(X + dx, MaxX)
                                      /\ Y' = M!Clamp(Y - dy, MaxY)
    BY <2>1, <2>2, <2>3, <2>4, Zenon DEF M!ProcessMousePacket
  <2>6. ASSUME NEW v \in Int, NEW max \in Nat PROVE M!Clamp(v, max) \in 0 .. max
    BY DEF M!Clamp
  <2>7. X' \in 0 .. MaxX /\ Y' \in 0 .. MaxY
    <3>1. X + dx \in Int /\ Y - dy \in Int /\ MaxX \in Nat /\ MaxY \in Nat
      BY <2>5, DesktopAssumption DEF MouseTypes
    <3> QED BY <2>5, <2>6, <3>1
  <2> QED BY <2>1, <2>7 DEF MouseTypes
<1> QED BY <1>2, <1>3

LEMMA TypeStep == TypeInv /\ [Next]_vars => TypeInv'
<1> SUFFICES ASSUME TypeInv, [Next]_vars PROVE TypeInv'
  OBVIOUS
<1>1. Inv /\ Inv' /\ K!KeyboardTypeOK /\ PortTypes /\ MouseTypes
  BY InvStep DEF TypeInv
<1>2. K!KeyboardTypeOK'
  <2>1. CASE RoutineStep
    BY <1>1, <2>1, KeyTypes
  <2>2. CASE UNCHANGED << irq1, routine, isInstalled >>
    BY <1>1, <2>2 DEF routine, line, K!KeyboardTypeOK
  <2> QED BY <1>1, <2>1, <2>2, RoutineSteps
<1>3. PortTypes' /\ MouseTypes'
  <2>1. CASE Poll
    <3>1. M!HandlePS2Mouse(data) /\ UNCHANGED << data, queue, sent >>
      BY <2>1 DEF Poll
    <3> QED BY <1>1, <3>1, PacketTypes DEF PortTypes
  <2>2. CASE KeyMoves
    <3>1. PICK k \in Key, release \in {0, 128} : queue' = Append(queue, KeyCode[k] + release)
      BY <2>2 DEF KeyMoves
    <3>2. /\ sent < MaxBytes /\ sent' = sent + 1
          /\ UNCHANGED << data, MousePacket, X, Y >>
      BY <2>2 DEF KeyMoves, mouse
    <3>3. KeyCode[k] + release \in Byte
      <4>1. KeyCode[k] \in 0 .. 127
        BY DesktopAssumption
      <4>2. release = 0 \/ release = 128
        BY <3>1
      <4> HIDE <3>1
      <4> QED BY <4>1, <4>2 DEF Byte
    <3>4. queue' \in Seq(Byte) /\ Len(queue') = Len(queue) + 1
      BY <1>1, <3>1, <3>3, AppendProperties DEF PortTypes
    <3>5. sent' \in 0 .. MaxBytes /\ Len(queue') <= sent'
      BY <1>1, <3>2, <3>4, DesktopAssumption, LenProperties DEF PortTypes
    <3> QED BY <1>1, <3>2, <3>4, <3>5 DEF PortTypes, MouseTypes
  <2>3. CASE Deliver
    <3>1. /\ queue # << >> /\ data' = Head(queue) /\ queue' = Tail(queue)
          /\ UNCHANGED << sent, MousePacket, X, Y >>
      BY <2>3 DEF Deliver, mouse
    <3>2. /\ data' \in Byte /\ queue' \in Seq(Byte) /\ Len(queue') = Len(queue) - 1
          /\ Len(queue) \in Nat
      BY <1>1, <3>1, HeadTailProperties, LenProperties DEF PortTypes
    <3>3. Len(queue') <= sent'
      BY <1>1, <3>1, <3>2 DEF PortTypes
    <3> QED BY <1>1, <3>1, <3>2, <3>3 DEF PortTypes, MouseTypes
  <2>4. CASE Interrupt \/ AfterPoweroff
    BY <1>1, <2>4 DEF Interrupt, AfterPoweroff, Entry, mouse, PortTypes, MouseTypes
  <2>5. CASE SendWord \/ EnableInterrupts \/ Verify \/ TestKbI
    BY <1>1, <2>5 DEF SendWord, EnableInterrupts, Verify, TestKbI, port, mouse, PortTypes, MouseTypes
  <2>6. CASE Installer \/ OtherDevices \/ UNCHANGED vars
    BY <1>1, <2>6 DEF Installer, OtherDevices, vars, port, mouse, PortTypes, MouseTypes
  <2> QED BY <2>1, <2>2, <2>3, <2>4, <2>5, <2>6 DEF Next, Main
<1> QED BY <1>1, <1>2, <1>3 DEF TypeInv

(* Every variable keeps its type, however the interrupts, the frames and   *)
(* the keys interleave: the routine's line buffer its room, the square at  *)
(* the cursor its place on the screen, the controllers their registers.    *)
THEOREM DesktopTypeCorrect == Spec => []TypeOK
<1>1. TypeInv => TypeOK
  <2> SUFFICES ASSUME TypeInv PROVE TypeOK
    OBVIOUS
  <2>1. Len(queue) <= MaxBytes
    BY DesktopAssumption, LenProperties DEF TypeInv, PortTypes
  <2>2. pc \in 1 .. PollPort /\ pic \in [1 .. 2 -> Chip]
    BY Numbers DEF TypeInv, Inv, Controllers
  <2> QED BY <2>1, <2>2 DEF TypeInv, PortTypes, MouseTypes, TypeOK, Byte
<1> QED BY TypeInit, TypeStep, <1>1, PTL DEF Spec
=============================================================================
