--------------------------- MODULE KeyboardProofs ---------------------------
(***************************************************************************)
(* Proofs about handle_keyboard_interrupt, for every set of keys and every *)
(* buffer size: no interrupt leaves a variable without its type, and in    *)
(* particular buffer_pos never passes the end of input_buffer.             *)
(***************************************************************************)
EXTENDS Keyboard, SequenceTheorems, TLAPS

-----------------------------------------------------------------------------
(* The helpers on sequences. *)

LEMMA FrontType ==
  ASSUME NEW S, NEW s \in Seq(S), s # << >>
  PROVE  /\ Front(s) \in Seq(S)
         /\ Len(Front(s)) = Len(s) - 1
         /\ \A j \in 1 .. Len(s) - 1 : Front(s)[j] = s[j]
<1>1. Len(s) \in Nat /\ Len(s) > 0
  BY EmptySeq, LenProperties
<1>2. Len(s) - 1 \in Int /\ \A m \in 1 .. Len(s) - 1 : m \in 1 .. Len(s)
  BY <1>1
<1>3. \A j \in 1 .. Len(s) - 1 : s[j] \in S
  BY <1>1, ElementOfSeq
<1>4. SubSeq(s, 1, Len(s) - 1) = [j \in 1 .. Len(s) - 1 |-> s[j]]
  BY <1>1
<1>5. /\ SubSeq(s, 1, Len(s) - 1) \in Seq(S)
      /\ Len(SubSeq(s, 1, Len(s) - 1)) = Len(s) - 1
  <2> DEFINE n == Len(s) - 1
  <2>1. n \in Int /\ n >= 0 /\ n - 1 + 1 = n /\ \A j \in 1 .. n : s[j] \in S
    BY <1>1, <1>3
  <2> HIDE DEF n
  <2>2. /\ SubSeq(s, 1, n) \in Seq(S)
        /\ Len(SubSeq(s, 1, n)) = IF 1 <= n THEN n - 1 + 1 ELSE 0
    BY <2>1, SubSeqProperties
  <2>3. Len(SubSeq(s, 1, n)) = n
    BY <2>1, <2>2
  <2> QED BY <2>2, <2>3 DEF n
<1> QED BY <1>1, <1>4, <1>5 DEF Front

LEMMA ConsumeType ==
  ASSUME NEW S, NEW s \in Seq(S), NEW c
  PROVE  Consume(s, c) \in Seq(S) /\ Len(Consume(s, c)) \in 0 .. Len(s)
<1>1. Len(s) \in Nat
  BY LenProperties
<1>2. CASE EndsIn(s, c)
  <2>1. s # << >>
    BY <1>2 DEF EndsIn
  <2>2. Len(s) > 0
    BY <2>1, EmptySeq, LenProperties
  <2> QED BY <1>1, <1>2, <2>1, <2>2, FrontType DEF Consume
<1>3. CASE ~ EndsIn(s, c)
  BY <1>1, <1>3 DEF Consume
<1> QED BY <1>2, <1>3

LEMMA PrefixType ==
  ASSUME NEW S, NEW s \in Seq(S), NEW n \in Int, n < Len(s), Len(s) > 0
  PROVE  /\ SubSeq(s, 1, n) \in Seq(S)
         /\ Len(SubSeq(s, 1, n)) \in 0 .. Len(s) - 1
         /\ \A j \in 1 .. Len(SubSeq(s, 1, n)) : SubSeq(s, 1, n)[j] = s[j]
<1>1. Len(s) \in Nat /\ \A j \in 1 .. n : s[j] \in S
  BY LenProperties, ElementOfSeq
<1>2. /\ SubSeq(s, 1, n) \in Seq(S)
      /\ Len(SubSeq(s, 1, n)) = IF 1 <= n THEN n - 1 + 1 ELSE 0
      /\ \A j \in 1 .. n - 1 + 1 : SubSeq(s, 1, n)[j] = s[1 + j - 1]
  BY <1>1, SubSeqProperties
<1> QED BY <1>1, <1>2

-----------------------------------------------------------------------------
(* The characters a key produces, and the room the buffer has for one. *)

LEMMA TypedType ==
  ASSUME KeyboardTypeOK, ~ BufferFull, NEW k \in Key
  PROVE  LET typed == Append(input_buffer, keyboard_map[k])
         IN  /\ keyboard_map[k] \in Char
             /\ typed \in Seq(Char) /\ typed # << >>
             /\ Len(typed) = Len(input_buffer) + 1
             /\ Len(input_buffer) \in Nat /\ Len(typed) \in 1 .. BufferSize - 1
<1>1. keyboard_map[k] \in Char
  BY DEF Char
<1>2. input_buffer \in Seq(Char) /\ Len(input_buffer) \in Nat
  BY LenProperties DEF KeyboardTypeOK
<1>3. BufferSize \in Nat /\ Len(input_buffer) < BufferSize - 1
  BY <1>2, KeyboardAssumption DEF BufferFull
<1> QED BY <1>1, <1>2, <1>3, AppendProperties

LEMMA CommandLineType ==
  ASSUME KeyboardTypeOK, ~ BufferFull, NEW k \in Key, CommandLine(keyboard_map[k])
  PROVE  /\ input_buffer' \in Seq(Char) /\ Len(input_buffer') < BufferSize
         /\ mx' \in 0 .. CoordModulus - 1 /\ my' \in 0 .. CoordModulus - 1
         /\ ran' \in Command \cup {"none"}
         /\ poweroff_sys' \in BOOLEAN
         /\ UNCHANGED << isInput, continueSetup, pageNumber >>
<1> DEFINE typed == Append(input_buffer, keyboard_map[k])
<1>1. typed \in Seq(Char) /\ Len(typed) \in 1 .. BufferSize - 1
  BY TypedType
<1>2. BufferSize \in Nat
  BY KeyboardAssumption
<1>3. UNCHANGED << isInput, continueSetup, pageNumber >>
  BY DEF CommandLine
<1> HIDE DEF typed
<1>4. CASE RunCommand(typed)
  <2>1. input_buffer' = SubSeq(typed, 1, Len(typed) - 2)
    BY <1>4 DEF RunCommand
  <2>2. input_buffer' \in Seq(Char) /\ Len(input_buffer') < BufferSize
    BY <1>1, <1>2, <2>1, PrefixType
  <2> QED BY <1>3, <1>4, <2>2 DEF RunCommand, KeyboardTypeOK
<1>5. CASE MoveCursor(typed)
  <2> DEFINE afterD == Consume(typed, "d")
             afterS == Consume(afterD, "s")
             afterW == Consume(afterS, "w")
             afterA == Consume(afterW, "a")
  <2>1. afterD \in Seq(Char) /\ Len(afterD) \in 0 .. Len(typed)
    BY <1>1, ConsumeType
  <2> HIDE DEF afterD
  <2>2. afterS \in Seq(Char) /\ Len(afterS) \in 0 .. Len(afterD)
    BY <2>1, ConsumeType
  <2> HIDE DEF afterS
  <2>3. afterW \in Seq(Char) /\ Len(afterW) \in 0 .. Len(afterS)
    BY <2>2, ConsumeType
  <2> HIDE DEF afterW
  <2>4. afterA \in Seq(Char) /\ Len(afterA) \in 0 .. Len(afterW)
    BY <2>3, ConsumeType
  <2>5. input_buffer' = afterA
    BY <1>5 DEF MoveCursor, afterD, afterS, afterW
  <2> HIDE DEF afterA
  <2>6. input_buffer' \in Seq(Char) /\ Len(input_buffer') < BufferSize
    BY <1>1, <1>2, <2>1, <2>2, <2>3, <2>4, <2>5
  <2>7. /\ CoordModulus \in Nat \ {0}
        /\ mx \in Nat /\ my \in Nat
    BY KeyboardAssumption DEF KeyboardTypeOK
  <2>8. /\ \E east \in {0, 1}, west \in {0, CoordModulus - 1} :
             mx' = (mx + east + west) % CoordModulus
        /\ \E south \in {0, 1}, north \in {0, CoordModulus - 1} :
             my' = (my + south + north) % CoordModulus
    BY <1>5 DEF MoveCursor
  <2>9. mx' \in 0 .. CoordModulus - 1 /\ my' \in 0 .. CoordModulus - 1
    BY <2>7, <2>8
  <2> QED BY <1>3, <1>5, <2>6, <2>9 DEF MoveCursor, KeyboardTypeOK
<1> QED BY <1>4, <1>5 DEF CommandLine, typed

LEMMA SetupPageType ==
  ASSUME KeyboardTypeOK, ~ BufferFull, NEW k \in Key, SetupPage(keyboard_map[k])
  PROVE  /\ input_buffer' \in Seq(Char) /\ Len(input_buffer') < BufferSize
         /\ poweroff_sys' \in BOOLEAN /\ isInput' \in BOOLEAN
         /\ continueSetup' \in BOOLEAN
         /\ pageNumber' \in {0, 1, 2, 4, 5}
         /\ ran' = "none" /\ UNCHANGED << mx, my >>
<1> DEFINE typed == Append(input_buffer, keyboard_map[k])
           continue == EndsIn(typed, "1") /\ ~ servicePage
           b1       == IF continue THEN Front(typed) ELSE typed
           quit     == EndsIn(b1, "2") /\ ~ servicePage
           b2       == IF quit THEN Front(b1) ELSE b1
           nextPage == servicePage /\ EndsIn(b2, "1")
           b3       == IF nextPage THEN Front(b2) ELSE b2
           lastPage == agreePage /\ EndsIn(b3, "l")
<1>1. typed \in Seq(Char) /\ Len(typed) \in 1 .. BufferSize - 1
  BY TypedType
<1>2. BufferSize \in Nat
  BY KeyboardAssumption
<1>3. b1 \in Seq(Char) /\ Len(b1) \in 0 .. BufferSize - 1
  <2> HIDE DEF typed
  <2>1. b1 \in {typed, Consume(typed, "1")}
    BY DEF Consume
  <2> QED BY <1>1, <1>2, <2>1, ConsumeType
<1>4. b2 \in Seq(Char) /\ Len(b2) \in 0 .. BufferSize - 1
  <2> HIDE DEF b1
  <2>1. b2 \in {b1, Consume(b1, "2")}
    BY DEF Consume
  <2> QED BY <1>2, <1>3, <2>1, ConsumeType
<1>5. b3 \in Seq(Char) /\ Len(b3) \in 0 .. BufferSize - 1
  <2> HIDE DEF b2
  <2>1. b3 \in {b2, Consume(b2, "1")}
    BY DEF Consume
  <2> QED BY <1>2, <1>4, <2>1, ConsumeType
<1>6. input_buffer' = IF lastPage THEN SubSeq(b3, 1, 1) ELSE b3
  BY DEF SetupPage
<1>7. input_buffer' \in Seq(Char) /\ Len(input_buffer') < BufferSize
  <2> HIDE DEF b3
  <2>1. CASE Len(b3) = 0
    <3>1. b3 = << >>
      BY <1>5, <2>1, EmptySeq
    <3>2. ~ EndsIn(b3, "l")
      BY <3>1 DEF EndsIn
    <3>3. input_buffer' = b3
      BY <1>6, <3>2
    <3> QED BY <1>2, <1>5, <3>3
  <2>2. CASE Len(b3) = 1
    <3>1. SubSeq(b3, 1, 1) = b3
      BY <1>5, <2>2, SubSeqFull
    <3>2. input_buffer' = b3
      BY <1>6, <3>1
    <3> QED BY <1>2, <1>5, <3>2
  <2>3. CASE Len(b3) > 1
    BY <1>2, <1>5, <1>6, <2>3, PrefixType
  <2>4. Len(b3) \in Nat
    BY <1>5, LenProperties
  <2>5. \A n \in Nat : n = 0 \/ n = 1 \/ n > 1
    OBVIOUS
  <2> QED BY <2>1, <2>2, <2>3, <2>4, <2>5
<1>8. /\ pageNumber' \in {1, 2, 4, 5, pageNumber}
      /\ (continueSetup' <=> continueSetup \/ continue)
      /\ continueSetup' \in BOOLEAN
      /\ isInput' \in BOOLEAN /\ poweroff_sys' \in BOOLEAN
      /\ ran' = "none" /\ UNCHANGED << mx, my >>
  BY DEF SetupPage
<1> QED BY <1>7, <1>8 DEF KeyboardTypeOK

LEMMA PressType ==
  ASSUME KeyboardTypeOK, NEW k \in Key, Press(k)
  PROVE  KeyboardTypeOK'
<1> DEFINE ch == keyboard_map[k]
<1>1. /\ kbI' = TRUE /\ Receive(ch)
      /\ UNCHANGED << irq1, isInstalled, servicePage, agreePage, agreePage2 >>
  BY DEF Press
<1>2. CASE ch = BS
  <2>1. input_buffer \in Seq(Char) /\ Len(input_buffer) \in Nat
    BY LenProperties DEF KeyboardTypeOK
  <2>2. input_buffer' \in Seq(Char) /\ Len(input_buffer') < BufferSize
    <3>1. CASE input_buffer = << >>
      BY <1>1, <1>2, <3>1 DEF Receive, Erase, KeyboardTypeOK
    <3>2. CASE input_buffer # << >>
      BY <1>1, <1>2, <2>1, <3>2, FrontType, KeyboardAssumption
         DEF Receive, Erase, KeyboardTypeOK
    <3> QED BY <3>1, <3>2
  <2> QED BY <1>1, <1>2, <2>2 DEF Receive, Erase, KeyboardTypeOK
<1>3. CASE ch # BS /\ BufferFull
  BY <1>1, <1>3 DEF Receive, Ignore, KeyboardTypeOK
<1>4. CASE ch # BS /\ ~ BufferFull /\ CommandLine(ch)
  BY <1>1, <1>4, CommandLineType DEF KeyboardTypeOK
<1>5. CASE ch # BS /\ ~ BufferFull /\ SetupPage(ch)
  BY <1>1, <1>5, SetupPageType DEF KeyboardTypeOK
<1> QED BY <1>1, <1>2, <1>3, <1>4, <1>5 DEF Receive

LEMMA NoCharacterType ==
  ASSUME KeyboardTypeOK, NoKey \/ AfterPoweroff
  PROVE  KeyboardTypeOK'
BY DEF NoKey, AfterPoweroff, Ignore, KeyboardTypeOK
=============================================================================
