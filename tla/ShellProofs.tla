---------------------------- MODULE ShellProofs -----------------------------
(***************************************************************************)
(* Proofs about the command line (Shell.tla), for every set of keys and    *)
(* every buffer size: a plain line runs its command, a command spelt with  *)
(* a movement's letter runs on letters typed before the verification only, *)
(* and what commands leave in the buffer stays there and grows.            *)
(***************************************************************************)
EXTENDS Shell, KeyboardProofs

(* The character the routine takes for a backspace comes from no key, as   *)
(* in the source's keyboard_map, where that key gives a space.             *)
NoBackspace == BS \notin Char

-----------------------------------------------------------------------------
(* Spells, by the characters of the buffer's end. *)

LEMMA SuffixElements ==
  ASSUME NEW S, NEW T, NEW s \in Seq(S), NEW t \in Seq(T), IsSuffix(s, t)
  PROVE  /\ Len(s) \in Nat /\ Len(t) \in Nat /\ Len(s) <= Len(t)
         /\ \A j \in 1 .. Len(s) : s[j] = t[Len(t) - Len(s) + j]
<1> DEFINE rs == Reverse(s)
           rt == Reverse(t)
<1>1. Len(s) \in Nat /\ Len(t) \in Nat
  BY LenProperties
<1>2. /\ rs = [j \in 1 .. Len(s) |-> s[Len(s) - j + 1]]
      /\ rt = [j \in 1 .. Len(t) |-> t[Len(t) - j + 1]]
  BY DEF Reverse
<1>3. /\ \A j \in 1 .. Len(s) : s[Len(s) - j + 1] \in S
      /\ \A j \in 1 .. Len(t) : t[Len(t) - j + 1] \in T
  BY <1>1, ElementOfSeq
<1>4. rs \in Seq(S) /\ Len(rs) = Len(s)
  BY <1>1, <1>2, <1>3, LenProperties
<1>5. rt \in Seq(T) /\ Len(rt) = Len(t)
  BY <1>1, <1>2, <1>3, LenProperties
<1>6. Len(rs) <= Len(rt) /\ SubSeq(rs, 1, Len(rs)) = SubSeq(rt, 1, Len(rs))
  BY DEF IsSuffix, IsPrefix
<1> HIDE DEF rs, rt
<1>7. \A m \in 1 .. Len(s) : rs[m] = rt[m]
  <2>1. SubSeq(rs, 1, Len(rs)) = rs
    BY <1>4, SubSeqFull
  <2>2. \A m \in 1 .. Len(s) : SubSeq(rt, 1, Len(rs))[m] = rt[m]
    BY <1>1, <1>4, <1>5, <1>6
  <2> QED BY <1>6, <2>1, <2>2
<1>8. ASSUME NEW j \in 1 .. Len(s) PROVE s[j] = t[Len(t) - Len(s) + j]
  <2> DEFINE m == Len(s) - j + 1
  <2>1. m \in 1 .. Len(s) /\ m \in 1 .. Len(t)
    BY <1>1, <1>4, <1>5, <1>6
  <2>2. rs[m] = s[j] /\ rt[m] = t[Len(t) - Len(s) + j]
    BY <1>1, <1>2, <2>1
  <2> QED BY <1>7, <2>1, <2>2
<1> QED BY <1>1, <1>4, <1>5, <1>6, <1>8

Letter == {"a", "c", "d", "e", "f", "h", "i", "l", "m", "n", "o", "p", "s", "t", "u",
           "w", "\n"}

LEMMA Spellings ==
  ASSUME NEW c \in Command
  PROVE  /\ Spelling[c] \in Seq(Letter)
         /\ Len(Spelling[c]) \in Nat \ {0}
         /\ Spelling[c][Len(Spelling[c])] = "\n"
<1>1. Command = {"hi", "info", "help", "ld", "whoami", "shutdown", "cd"}
  BY DEF Command, Spelling
<1>2. CASE c = "hi"
  <2>1. Spelling[c] = << "h", "i", "\n" >>
    BY <1>2 DEF Spelling
  <2> QED BY <2>1 DEF Letter
<1>3. CASE c = "info"
  <2>1. Spelling[c] = << "i", "n", "f", "o", "\n" >>
    BY <1>3 DEF Spelling
  <2> QED BY <2>1 DEF Letter
<1>4. CASE c = "help"
  <2>1. Spelling[c] = << "h", "e", "l", "p", "\n" >>
    BY <1>4 DEF Spelling
  <2> QED BY <2>1 DEF Letter
<1>5. CASE c = "ld"
  <2>1. Spelling[c] = << "l", "d", "\n" >>
    BY <1>5 DEF Spelling
  <2> QED BY <2>1 DEF Letter
<1>6. CASE c = "whoami"
  <2>1. Spelling[c] = << "w", "h", "o", "a", "m", "i", "\n" >>
    BY <1>6 DEF Spelling
  <2> QED BY <2>1 DEF Letter
<1>7. CASE c = "shutdown"
  <2>1. Spelling[c] = << "s", "h", "u", "t", "d", "o", "w", "n", "\n" >>
    BY <1>7 DEF Spelling
  <2> QED BY <2>1 DEF Letter
<1>8. CASE c = "cd"
  <2>1. Spelling[c] = << "c", "d", "\n" >>
    BY <1>8 DEF Spelling
  <2> QED BY <2>1 DEF Letter
<1> QED BY <1>1, <1>2, <1>3, <1>4, <1>5, <1>6, <1>7, <1>8

(* No letter of the buffer moves the cursor. *)
Clean(buf) == \A j \in 1 .. Len(buf) : buf[j] \notin MoveKey

(* A line can end in a command only if all that is before its Enter can    *)
(* stay in the buffer.                                                     *)
LEMMA CleanSpellsPlain ==
  ASSUME NEW buf \in Seq(Char), Clean(buf), NEW ch \in Char,
         NEW c \in Command, Spells(c, Append(buf, ch))
  PROVE  c \in PlainCommand
<1> DEFINE t == Append(buf, ch)
           s == Spelling[c]
<1>1. t \in Seq(Char) /\ Len(t) = Len(buf) + 1 /\ Len(buf) \in Nat
      /\ \A j \in 1 .. Len(buf) : t[j] = buf[j]
  <2>1. Len(buf) \in Nat
    BY LenProperties
  <2> QED BY <2>1, AppendProperties
<1>2. s \in Seq(Letter) /\ Len(s) \in Nat \ {0} /\ s[Len(s)] = "\n"
  BY Spellings
<1> HIDE DEF t, s
<1>3. /\ Len(s) <= Len(t)
      /\ \A j \in 1 .. Len(s) : s[j] = t[Len(t) - Len(s) + j]
  <2>1. IsSuffix(s, t)
    BY DEF Spells, s, t
  <2> QED BY <1>1, <1>2, <2>1, SuffixElements
<1>4. ASSUME NEW j \in 1 .. Len(s) PROVE s[j] \notin MoveKey
  <2>1. CASE j = Len(s)
    BY <1>2, <2>1 DEF MoveKey
  <2>2. CASE j # Len(s)
    <3>1. Len(t) - Len(s) + j \in 1 .. Len(buf)
      BY <1>1, <1>2, <1>3, <2>2
    <3> QED BY <1>1, <1>3, <3>1 DEF Clean
  <2> QED BY <2>1, <2>2
<1> QED BY <1>4 DEF PlainCommand, s

(* The four tests for a movement leave the letters before it alone. *)
LEMMA CleanStays ==
  ASSUME NEW buf \in Seq(Char), Clean(buf), NEW c \in MoveKey
  PROVE  Consume(buf, c) = buf
<1>1. buf # << >> => Last(buf) \notin MoveKey
  <2> SUFFICES ASSUME buf # << >> PROVE Last(buf) \notin MoveKey
    OBVIOUS
  <2>1. Len(buf) \in 1 .. Len(buf)
    BY EmptySeq, LenProperties
  <2> QED BY <2>1 DEF Clean, Last
<1> QED BY <1>1 DEF Consume, EndsIn

LEMMA MovesAway ==
  ASSUME NEW buf \in Seq(Char), Clean(buf), NEW ch \in Char
  PROVE  LET t == Append(buf, ch)
             r == Consume(Consume(Consume(Consume(t, "d"), "s"), "w"), "a")
         IN  Clean(r)
<1> DEFINE t == Append(buf, ch)
<1>1. /\ t \in Seq(Char) /\ t # << >> /\ Len(t) = Len(buf) + 1 /\ Len(buf) \in Nat
      /\ \A j \in 1 .. Len(buf) : t[j] = buf[j]
      /\ t[Len(t)] = ch
  <2>1. Len(buf) \in Nat
    BY LenProperties
  <2> QED BY <2>1, AppendProperties
<1> HIDE DEF t
<1>2. Front(t) = buf
  <2>1. /\ Front(t) \in Seq(Char) /\ Len(Front(t)) = Len(t) - 1
        /\ \A j \in 1 .. Len(t) - 1 : Front(t)[j] = t[j]
    BY <1>1, FrontType
  <2>2. /\ Len(Front(t)) = Len(buf)
        /\ \A j \in 1 .. Len(Front(t)) : Front(t)[j] = buf[j]
    BY <1>1, <2>1
  <2> QED BY <2>1, <2>2, SeqEqual
<1>3. Last(t) = ch
  BY <1>1 DEF Last
<1>4. \A c \in MoveKey : Consume(t, c) = IF ch = c THEN buf ELSE t
  BY <1>1, <1>2, <1>3 DEF Consume, EndsIn
<1>5. \A c \in MoveKey : Consume(buf, c) = buf
  BY CleanStays
<1>6. CASE ch \in MoveKey
  <2>1. {"d", "s", "w", "a"} = MoveKey
    BY DEF MoveKey
  <2>2. Consume(Consume(Consume(Consume(t, "d"), "s"), "w"), "a") = buf
    BY <1>4, <1>5, <1>6, <2>1
  <2> QED BY <2>2 DEF t
<1>7. CASE ch \notin MoveKey
  <2>1. Consume(Consume(Consume(Consume(t, "d"), "s"), "w"), "a") = t
    BY <1>4, <1>7 DEF MoveKey
  <2>2. Clean(t)
    BY <1>1, <1>7 DEF Clean
  <2> QED BY <2>1, <2>2 DEF t
<1> QED BY <1>6, <1>7

-----------------------------------------------------------------------------
(* What holds of the routine before and after the verification. *)
ShellInv ==
  /\ ShellTypeOK
  /\ ~ servicePage /\ ~ agreePage /\ ~ agreePage2
  /\ ~ isInstalled => lastRan = "none" /\ left = << >>
  /\ isInstalled /\ ~ early => Clean(input_buffer)

LEMMA ShellInit == Init => ShellInv
<1> SUFFICES ASSUME Init PROVE ShellInv
  OBVIOUS
<1>1. << >> \in Seq(Char) /\ Len(<< >>) = 0
  BY EmptySeq
<1>2. KeyboardTypeOK
  <2>1. 0 < BufferSize /\ 0 \in 0 .. CoordModulus - 1
    BY KeyboardAssumption
  <2>2. << >> \in Seq(Char) /\ Len(<< >>) < BufferSize
    BY <1>1, <2>1
  <2> QED BY <2>1, <2>2 DEF Init, InitKeyboard, KeyboardTypeOK
<1>3. line \in Seq(Char) /\ Len(line) <= MaxLine /\ left \in Seq(Char)
  BY <1>1, ShellAssumption DEF Init
<1> QED BY <1>2, <1>3 DEF Init, InitKeyboard, ShellInv, ShellTypeOK

(* The line as it is typed. *)
LEMMA LineType ==
  ASSUME line \in Seq(Char), Len(line) <= MaxLine, NEW ch \in Char
  PROVE  Extended(ch) \in Seq(Char) /\ Len(Extended(ch)) <= MaxLine
<1> DEFINE longer == IF EndsIn(line, "\n") THEN << ch >> ELSE Append(line, ch)
<1>1. MaxLine \in Nat \ {0}
  BY ShellAssumption
<1>2. Len(line) \in Nat
  BY LenProperties
<1>3. longer \in Seq(Char) /\ longer # << >> /\ Len(longer) \in 1 .. MaxLine + 1
  <2>1. << ch >> \in Seq(Char) /\ << ch >> # << >> /\ Len(<< ch >>) = 1
    OBVIOUS
  <2>2. Append(line, ch) \in Seq(Char) /\ Append(line, ch) # << >>
        /\ Len(Append(line, ch)) = Len(line) + 1
    BY AppendProperties
  <2> QED BY <1>1, <1>2, <2>1, <2>2
<1>4. Extended(ch) = IF Len(longer) > MaxLine THEN Tail(longer) ELSE longer
  BY DEF Extended
<1> HIDE DEF longer
<1>5. Tail(longer) \in Seq(Char) /\ Len(Tail(longer)) = Len(longer) - 1
  BY <1>3, HeadTailProperties
<1> QED BY <1>1, <1>3, <1>4, <1>5

(* After the verification, no step brings a movement's letter into a       *)
(* buffer without one.                                                     *)
LEMMA CommandClean ==
  ASSUME KeyboardTypeOK, Clean(input_buffer), ~ BufferFull,
         NEW k \in Key, CommandLine(keyboard_map[k])
  PROVE  Clean(input_buffer')
<1> DEFINE ch == keyboard_map[k]
           t  == Append(input_buffer, ch)
<1>1. input_buffer \in Seq(Char) /\ ch \in Char
  BY DEF KeyboardTypeOK, Char
<1>2. t \in Seq(Char) /\ Len(t) = Len(input_buffer) + 1 /\ Len(input_buffer) \in Nat
      /\ \A j \in 1 .. Len(input_buffer) : t[j] = input_buffer[j]
  <2>1. Len(input_buffer) \in Nat
    BY <1>1, LenProperties
  <2> QED BY <1>1, <2>1, AppendProperties
<1>3. CASE RunCommand(t)
  <2>1. input_buffer' = SubSeq(t, 1, Len(t) - 2)
    BY <1>3 DEF RunCommand
  <2> HIDE DEF t
  <2>2. /\ Len(SubSeq(t, 1, Len(t) - 2)) \in 0 .. Len(t) - 1
        /\ \A j \in 1 .. Len(SubSeq(t, 1, Len(t) - 2)) : SubSeq(t, 1, Len(t) - 2)[j] = t[j]
    BY <1>2, PrefixType
  <2> QED BY <1>1, <1>2, <2>1, <2>2 DEF Clean
<1>4. CASE MoveCursor(t)
  <2>1. input_buffer' = Consume(Consume(Consume(Consume(t, "d"), "s"), "w"), "a")
    BY <1>4 DEF MoveCursor
  <2> QED BY <1>1, <2>1, MovesAway
<1> QED BY <1>3, <1>4 DEF CommandLine

LEMMA KeyStep ==
  ASSUME ShellInv, NEW k \in Key, TypeKey(k)
  PROVE  ShellInv'
<1> DEFINE ch == keyboard_map[k]
<1>1. /\ KeyboardTypeOK
      /\ line \in Seq(Char) /\ Len(line) <= MaxLine
      /\ left \in Seq(Char) /\ lastRan \in Command \cup {"none"}
  BY DEF ShellInv, ShellTypeOK
<1>2. /\ KeyboardTypeOK' /\ Receive(ch)
      /\ UNCHANGED << isInstalled, early, servicePage, agreePage, agreePage2 >>
  BY <1>1, PressType DEF TypeKey, Press
<1>3. line' \in Seq(Char) /\ Len(line') <= MaxLine
  BY <1>1, LineType DEF TypeKey, Char
<1>4. left' \in Seq(Char) /\ lastRan' \in Command \cup {"none"}
  BY <1>1, <1>2 DEF TypeKey, KeyboardTypeOK
<1>5. ~ isInstalled => lastRan' = lastRan /\ left' = left
  <2>1. ~ isInstalled => ran' = "none"
    BY <1>2 DEF Receive, Erase, Ignore, CommandLine, SetupPage
  <2> QED BY <2>1 DEF TypeKey
<1>6. ASSUME Clean(input_buffer), isInstalled PROVE Clean(input_buffer')
  <2>1. CASE ch = BS
    <3>1. CASE input_buffer = << >>
      BY <1>2, <1>6, <2>1, <3>1 DEF Receive, Erase
    <3>2. CASE input_buffer # << >>
      <4>1. input_buffer' = Front(input_buffer)
        BY <1>2, <2>1, <3>2 DEF Receive, Erase
      <4>2. /\ Len(Front(input_buffer)) = Len(input_buffer) - 1
            /\ \A j \in 1 .. Len(input_buffer) - 1 :
                 Front(input_buffer)[j] = input_buffer[j]
            /\ Len(input_buffer) \in Nat
        BY <1>1, <3>2, FrontType, LenProperties DEF KeyboardTypeOK
      <4> QED BY <1>6, <4>1, <4>2 DEF Clean
    <3> QED BY <3>1, <3>2
  <2>2. CASE ch # BS /\ BufferFull
    BY <1>2, <1>6, <2>2 DEF Receive, Ignore
  <2>3. CASE ch # BS /\ ~ BufferFull
    <3>1. CommandLine(ch)
      BY <1>2, <1>6, <2>3 DEF Receive, SetupPage
    <3> QED BY <1>1, <1>6, <2>3, <3>1, CommandClean
  <2> QED BY <2>1, <2>2, <2>3
<1> QED BY <1>2, <1>3, <1>4, <1>5, <1>6 DEF ShellInv, ShellTypeOK

LEMMA ShellStep == ShellInv /\ [Next]_shellVars => ShellInv'
<1> SUFFICES ASSUME ShellInv, [Next]_shellVars PROVE ShellInv'
  OBVIOUS
<1>1. ASSUME NEW k \in Key, TypeKey(k) PROVE ShellInv'
  BY <1>1, KeyStep
<1>2. CASE Other
  <2>1. KeyboardTypeOK'
    BY <1>2, NoCharacterType DEF Other, ShellInv, ShellTypeOK
  <2>2. UNCHANGED << input_buffer, isInstalled, servicePage, agreePage, agreePage2,
                     line, early, left, lastRan >>
    BY <1>2 DEF Other, NoKey, AfterPoweroff, Ignore
  <2> QED BY <2>1, <2>2 DEF ShellInv, ShellTypeOK
<1>3. CASE OpenLine
  BY <1>3 DEF OpenLine, Ignore, ShellInv, ShellTypeOK, KeyboardTypeOK
<1>4. CASE Verified
  <2>1. KeyboardTypeOK' /\ early' \in BOOLEAN
    BY <1>4 DEF Verified, Ignore, ShellInv, ShellTypeOK, KeyboardTypeOK
  <2>2. UNCHANGED << input_buffer, servicePage, agreePage, agreePage2, line, left, lastRan >>
        /\ isInstalled'
    BY <1>4 DEF Verified, Ignore
  <2>3. ~ early' => Clean(input_buffer)
    BY <1>4 DEF Verified, Clean
  <2> QED BY <2>1, <2>2, <2>3 DEF ShellInv, ShellTypeOK
<1>5. CASE UNCHANGED shellVars
  BY <1>5 DEF shellVars, keyboardVars, ShellInv, ShellTypeOK, KeyboardTypeOK
<1> QED BY <1>1, <1>2, <1>3, <1>4, <1>5 DEF Next

(* Whatever is typed, every variable of the shell keeps its type.          *)
THEOREM ShellTypeCorrect == Spec => []ShellTypeOK
<1>1. ShellInv => ShellTypeOK
  BY DEF ShellInv
<1> QED BY ShellInit, ShellStep, <1>1, PTL DEF Spec

-----------------------------------------------------------------------------
(* What is typed and stays: up to a letter that moves the cursor, an       *)
(* answer the installer takes or an erasing key, the line and the buffer   *)
(* end alike, read from their ends, whatever is in the buffer before them. *)
Taken == MoveKey \cup {BS, "1", "2"}

Stays(s, n) == \A j \in 0 .. n - 1 : s[Len(s) - j] \notin Taken

EndAlike(n, s, t) ==
  n <= Len(s) /\ n <= Len(t) /\ \A j \in 0 .. n - 1 : s[Len(s) - j] = t[Len(t) - j]

AsTyped == \A n \in 0 .. Len(line) : Stays(line, n) => EndAlike(n, line, input_buffer)

LineInv == ~ BufferFull /\ ~ EndsIn(line, "\n") => AsTyped

LEMMA AlikeIsSuffix ==
  ASSUME NEW S, NEW T, NEW s \in Seq(S), NEW t \in Seq(T), EndAlike(Len(s), s, t)
  PROVE  IsSuffix(s, t)
<1> DEFINE rs == Reverse(s)
           rt == Reverse(t)
<1>1. Len(s) \in Nat /\ Len(t) \in Nat /\ Len(s) <= Len(t)
  BY LenProperties DEF EndAlike
<1>2. /\ rs = [j \in 1 .. Len(s) |-> s[Len(s) - j + 1]]
      /\ rt = [j \in 1 .. Len(t) |-> t[Len(t) - j + 1]]
  BY DEF Reverse
<1>3. /\ \A j \in 1 .. Len(s) : s[Len(s) - j + 1] \in S
      /\ \A j \in 1 .. Len(t) : t[Len(t) - j + 1] \in T
  BY <1>1, ElementOfSeq
<1>4. rs \in Seq(S) /\ Len(rs) = Len(s)
  BY <1>1, <1>2, <1>3, LenProperties
<1>5. rt \in Seq(T) /\ Len(rt) = Len(t)
  BY <1>1, <1>2, <1>3, LenProperties
<1>6. ASSUME NEW m \in 1 .. Len(s) PROVE rs[m] = rt[m]
  <2>1. m - 1 \in 0 .. Len(s) - 1 /\ m \in 1 .. Len(t)
    BY <1>1
  <2>2. s[Len(s) - (m - 1)] = t[Len(t) - (m - 1)]
    BY <2>1 DEF EndAlike
  <2>3. Len(s) - (m - 1) = Len(s) - m + 1 /\ Len(t) - (m - 1) = Len(t) - m + 1
    BY <1>1
  <2> QED BY <1>2, <2>1, <2>2, <2>3
<1> HIDE DEF rs, rt
<1>7. SubSeq(rs, 1, Len(rs)) = rs
  BY <1>4, SubSeqFull
<1>8. SubSeq(rt, 1, Len(rs)) = rs
  <2> DEFINE u == SubSeq(rt, 1, Len(rs))
  <2>1. /\ u \in Seq(T) /\ Len(u) = Len(rs)
        /\ \A m \in 1 .. Len(rs) : u[m] = rt[m]
    BY <1>1, <1>4, <1>5, SubSeqProperties
  <2>2. \A m \in 1 .. Len(rs) : u[m] = rs[m]
    BY <1>4, <1>6, <2>1
  <2> HIDE DEF u
  <2>3. u = rs
    BY <1>4, <2>1, <2>2, SeqEqual
  <2> QED BY <2>3 DEF u
<1>9. IsPrefix(rs, rt)
  BY <1>1, <1>4, <1>5, <1>7, <1>8 DEF IsPrefix
<1> QED BY <1>9 DEF IsSuffix, rs, rt

LEMMA SuffixIsAlike ==
  ASSUME NEW S, NEW T, NEW s \in Seq(S), NEW t \in Seq(T), IsSuffix(s, t)
  PROVE  EndAlike(Len(s), s, t)
<1>1. /\ Len(s) \in Nat /\ Len(t) \in Nat /\ Len(s) <= Len(t)
      /\ \A j \in 1 .. Len(s) : s[j] = t[Len(t) - Len(s) + j]
  BY SuffixElements
<1>2. ASSUME NEW j \in 0 .. Len(s) - 1 PROVE s[Len(s) - j] = t[Len(t) - j]
  <2>1. Len(s) - j \in 1 .. Len(s) /\ Len(t) - Len(s) + (Len(s) - j) = Len(t) - j
    BY <1>1
  <2>2. s[Len(s) - j] = t[Len(t) - Len(s) + (Len(s) - j)]
    BY <1>1, <2>1, Zenon
  <2> QED BY <2>1, <2>2
<1> QED BY <1>1, <1>2 DEF EndAlike

(* The two letters before the Enter tell the commands apart, so no         *)
(* spelling ends in another.                                               *)
LetterBefore ==
  [hi |-> "h", info |-> "f", help |-> "l", ld |-> "l", whoami |-> "m",
   shutdown |-> "w", cd |-> "c"]
LetterLast ==
  [hi |-> "i", info |-> "o", help |-> "p", ld |-> "d", whoami |-> "i",
   shutdown |-> "n", cd |-> "d"]

LEMMA SpellingEnds ==
  ASSUME NEW c \in Command
  PROVE  LET s == Spelling[c]
         IN  /\ Len(s) \in Nat /\ Len(s) >= 3
             /\ s[Len(s) - 1] = LetterLast[c] /\ s[Len(s) - 2] = LetterBefore[c]
<1>1. Command = {"hi", "info", "help", "ld", "whoami", "shutdown", "cd"}
  BY DEF Command, Spelling
<1>2. CASE c = "hi"
  <2>1. Spelling[c] = << "h", "i", "\n" >>
    BY <1>2 DEF Spelling
  <2> QED BY <1>2, <2>1 DEF LetterLast, LetterBefore
<1>3. CASE c = "info"
  <2>1. Spelling[c] = << "i", "n", "f", "o", "\n" >>
    BY <1>3 DEF Spelling
  <2> QED BY <1>3, <2>1 DEF LetterLast, LetterBefore
<1>4. CASE c = "help"
  <2>1. Spelling[c] = << "h", "e", "l", "p", "\n" >>
    BY <1>4 DEF Spelling
  <2> QED BY <1>4, <2>1 DEF LetterLast, LetterBefore
<1>5. CASE c = "ld"
  <2>1. Spelling[c] = << "l", "d", "\n" >>
    BY <1>5 DEF Spelling
  <2> QED BY <1>5, <2>1 DEF LetterLast, LetterBefore
<1>6. CASE c = "whoami"
  <2>1. Spelling[c] = << "w", "h", "o", "a", "m", "i", "\n" >>
    BY <1>6 DEF Spelling
  <2> QED BY <1>6, <2>1 DEF LetterLast, LetterBefore
<1>7. CASE c = "shutdown"
  <2>1. Spelling[c] = << "s", "h", "u", "t", "d", "o", "w", "n", "\n" >>
    BY <1>7 DEF Spelling
  <2> QED BY <1>7, <2>1 DEF LetterLast, LetterBefore
<1>8. CASE c = "cd"
  <2>1. Spelling[c] = << "c", "d", "\n" >>
    BY <1>8 DEF Spelling
  <2> QED BY <1>8, <2>1 DEF LetterLast, LetterBefore
<1> QED BY <1>1, <1>2, <1>3, <1>4, <1>5, <1>6, <1>7, <1>8

LEMMA EndsDiffer ==
  ASSUME NEW c \in Command, NEW d \in Command,
         LetterLast[c] = LetterLast[d], LetterBefore[c] = LetterBefore[d]
  PROVE  c = d
<1>1. Command = {"hi", "info", "help", "ld", "whoami", "shutdown", "cd"}
  BY DEF Command, Spelling
<1> QED BY <1>1 DEF LetterLast, LetterBefore

LEMMA OneSpelling ==
  ASSUME NEW t \in Seq(Char), NEW c \in Command, NEW d \in Command, Spells(c, t), Spells(d, t)
  PROVE  c = d
<1>1. ASSUME NEW e \in Command, Spells(e, t)
      PROVE  LetterLast[e] = t[Len(t) - 1] /\ LetterBefore[e] = t[Len(t) - 2]
  <2> DEFINE s == Spelling[e]
  <2>1. s \in Seq(Letter)
    BY Spellings
  <2>2. /\ Len(s) \in Nat /\ Len(s) >= 3
        /\ s[Len(s) - 1] = LetterLast[e] /\ s[Len(s) - 2] = LetterBefore[e]
    BY SpellingEnds
  <2>3. EndAlike(Len(s), s, t)
    BY <1>1, <2>1, SuffixIsAlike DEF Spells
  <2> HIDE DEF s
  <2>4. 1 \in 0 .. Len(s) - 1 /\ 2 \in 0 .. Len(s) - 1
    BY <2>2
  <2>5. s[Len(s) - 1] = t[Len(t) - 1] /\ s[Len(s) - 2] = t[Len(t) - 2]
    BY <2>3, <2>4, Zenon DEF EndAlike
  <2> QED BY <2>2, <2>5
<1>2. LetterLast[c] = LetterLast[d] /\ LetterBefore[c] = LetterBefore[d]
  BY <1>1
<1> QED BY <1>2, EndsDiffer

(* The line's end after a key: the key's character, and before it the end  *)
(* the line had, unless that was an Enter.                                 *)
LEMMA LineEnd ==
  ASSUME line \in Seq(Char), Len(line) <= MaxLine, NEW ch \in Char
  PROVE  LET l == Extended(ch)
         IN  /\ Len(l) \in Nat \ {0} /\ l[Len(l)] = ch
             /\ EndsIn(line, "\n") => Len(l) = 1
             /\ ~ EndsIn(line, "\n")
                  => /\ Len(l) <= Len(line) + 1
                     /\ \A j \in 1 .. Len(l) - 1 : l[Len(l) - j] = line[Len(line) - (j - 1)]
<1>1. MaxLine \in Nat \ {0} /\ Len(line) \in Nat
  BY ShellAssumption, LenProperties
<1>2. CASE EndsIn(line, "\n")
  <2>1. Extended(ch) = << ch >>
    BY <1>1, <1>2 DEF Extended
  <2>2. Len(<< ch >>) = 1 /\ << ch >>[1] = ch
    OBVIOUS
  <2> QED BY <1>2, <2>1, <2>2
<1>3. CASE ~ EndsIn(line, "\n")
  <2> DEFINE u == Append(line, ch)
  <2>1. /\ u \in Seq(Char) /\ u # << >> /\ Len(u) = Len(line) + 1
        /\ u[Len(line) + 1] = ch
        /\ \A j \in 1 .. Len(line) : u[j] = line[j]
    BY AppendProperties
  <2>2. Extended(ch) = IF Len(u) > MaxLine THEN Tail(u) ELSE u
    BY <1>3 DEF Extended
  <2> HIDE DEF u
  <2>3. CASE ~ Len(u) > MaxLine
    BY <1>1, <1>3, <2>1, <2>2, <2>3
  <2>4. CASE Len(u) > MaxLine
    <3> DEFINE v == Tail(u)
    <3>1. Len(v) = Len(line) /\ \A j \in 1 .. Len(v) : v[j] = u[j + 1]
      BY <1>1, <2>1, HeadTailProperties
    <3>2. Extended(ch) = v /\ Len(line) = MaxLine
      BY <1>1, <2>1, <2>2, <2>4
    <3> HIDE DEF v
    <3>3. v[Len(v)] = ch
      BY <1>1, <2>1, <3>1, <3>2
    <3>4. ASSUME NEW j \in 1 .. Len(v) - 1 PROVE v[Len(v) - j] = line[Len(line) - (j - 1)]
      <4>1. /\ Len(v) - j \in 1 .. Len(v) /\ (Len(v) - j) + 1 = Len(line) - (j - 1)
            /\ Len(line) - (j - 1) \in 1 .. Len(line)
        BY <1>1, <3>1
      <4>2. v[Len(v) - j] = u[(Len(v) - j) + 1]
        BY <3>1, <4>1, Zenon
      <4>3. u[Len(line) - (j - 1)] = line[Len(line) - (j - 1)]
        BY <2>1, <4>1, Zenon
      <4> QED BY <4>1, <4>2, <4>3
    <3> QED BY <1>1, <1>3, <3>1, <3>2, <3>3, <3>4
  <2> QED BY <2>3, <2>4
<1> QED BY <1>2, <1>3

(* With the character in the buffer, and before the routine looks for a    *)
(* command or a movement, line and buffer end alike.                       *)
LEMMA TypedAlike ==
  ASSUME ShellInv, LineInv, ~ BufferFull, NEW ch \in Char,
         NEW n \in 0 .. Len(Extended(ch)), Stays(Extended(ch), n)
  PROVE  EndAlike(n, Extended(ch), Append(input_buffer, ch))
<1> DEFINE l == Extended(ch)
           t == Append(input_buffer, ch)
<1>1. /\ line \in Seq(Char) /\ Len(line) <= MaxLine /\ input_buffer \in Seq(Char)
      /\ Len(line) \in Nat /\ Len(input_buffer) \in Nat
  BY LenProperties DEF ShellInv, ShellTypeOK, KeyboardTypeOK
<1>2. /\ Len(t) = Len(input_buffer) + 1 /\ t[Len(t)] = ch
      /\ \A j \in 1 .. Len(input_buffer) : t[j] = input_buffer[j]
  BY <1>1, AppendProperties
<1>3. /\ Len(l) \in Nat \ {0} /\ l[Len(l)] = ch
      /\ EndsIn(line, "\n") => Len(l) = 1
      /\ ~ EndsIn(line, "\n")
           => /\ Len(l) <= Len(line) + 1
              /\ \A j \in 1 .. Len(l) - 1 : l[Len(l) - j] = line[Len(line) - (j - 1)]
  BY <1>1, LineEnd
<1>4. \A j \in 0 .. n - 1 : l[Len(l) - j] \notin Taken
  BY DEF Stays
<1>5. n \in 0 .. Len(l)
  OBVIOUS
<1> HIDE DEF l, t
<1>6. CASE n <= 1
  <2>1. n <= Len(l) /\ n <= Len(t)
    BY <1>1, <1>2, <1>3, <1>5, <1>6
  <2>2. ASSUME NEW j \in 0 .. n - 1 PROVE l[Len(l) - j] = t[Len(t) - j]
    <3>1. j = 0 /\ Len(l) - 0 = Len(l) /\ Len(t) - 0 = Len(t)
      BY <1>1, <1>2, <1>3, <1>5, <1>6
    <3> QED BY <1>2, <1>3, <3>1
  <2> QED BY <2>1, <2>2 DEF EndAlike, l, t
<1>7. CASE n > 1
  <2>1. /\ ~ EndsIn(line, "\n") /\ n - 1 \in 0 .. Len(line)
        /\ \A j \in 1 .. Len(l) - 1 : l[Len(l) - j] = line[Len(line) - (j - 1)]
    BY <1>1, <1>3, <1>5, <1>7
  <2>2. Stays(line, n - 1)
    <3> SUFFICES ASSUME NEW j \in 0 .. (n - 1) - 1
                 PROVE  line[Len(line) - j] \notin Taken
      BY DEF Stays
    <3>1. j + 1 \in 1 .. Len(l) - 1 /\ j + 1 \in 0 .. n - 1 /\ (j + 1) - 1 = j
      BY <1>3, <1>5
    <3>2. l[Len(l) - (j + 1)] = line[Len(line) - ((j + 1) - 1)]
      BY <2>1, <3>1, Zenon
    <3>3. l[Len(l) - (j + 1)] \notin Taken
      BY <1>4, <3>1, Zenon
    <3> QED BY <3>1, <3>2, <3>3
  <2>3. EndAlike(n - 1, line, input_buffer)
    BY <2>1, <2>2 DEF LineInv, AsTyped
  <2>4. n - 1 <= Len(input_buffer)
        /\ \A j \in 0 .. (n - 1) - 1 : line[Len(line) - j] = input_buffer[Len(input_buffer) - j]
    BY <2>3 DEF EndAlike
  <2>5. ASSUME NEW j \in 0 .. n - 1 PROVE l[Len(l) - j] = t[Len(t) - j]
    <3>1. CASE j = 0
      <4>1. Len(l) - 0 = Len(l) /\ Len(t) - 0 = Len(t)
        BY <1>1, <1>2, <1>3
      <4> QED BY <1>2, <1>3, <3>1, <4>1
    <3>2. CASE j # 0
      <4>1. /\ j - 1 \in 0 .. (n - 1) - 1 /\ j \in 1 .. Len(l) - 1
            /\ Len(input_buffer) - (j - 1) = Len(t) - j
            /\ Len(t) - j \in 1 .. Len(input_buffer)
        BY <1>1, <1>2, <1>3, <1>5, <2>4, <3>2
      <4>2. l[Len(l) - j] = line[Len(line) - (j - 1)]
        BY <2>1, <4>1, Zenon
      <4>3. line[Len(line) - (j - 1)] = input_buffer[Len(input_buffer) - (j - 1)]
        BY <2>4, <4>1, Zenon
      <4>4. t[Len(t) - j] = input_buffer[Len(t) - j]
        BY <1>2, <4>1, Zenon
      <4> QED BY <4>1, <4>2, <4>3, <4>4
    <3> QED BY <3>1, <3>2
  <2>6. n <= Len(l) /\ n <= Len(t)
    BY <1>1, <1>2, <1>3, <1>5, <2>4
  <2> QED BY <2>5, <2>6 DEF EndAlike, l, t
<1> QED BY <1>5, <1>6, <1>7

(* A letter that is no movement stays in the buffer.                       *)
LEMMA LetterStays ==
  ASSUME NEW buf \in Seq(Char), NEW ch \in Char, ch \notin MoveKey
  PROVE  LET t == Append(buf, ch)
         IN  Consume(Consume(Consume(Consume(t, "d"), "s"), "w"), "a") = t
<1> DEFINE t == Append(buf, ch)
<1>1. Last(t) = ch
  BY AppendProperties, LenProperties DEF Last
<1> HIDE DEF t
<1>2. \A c \in MoveKey : Consume(t, c) = t
  BY <1>1 DEF Consume, EndsIn
<1>3. Consume(Consume(Consume(Consume(t, "d"), "s"), "w"), "a") = t
  BY <1>2 DEF MoveKey
<1> QED BY <1>3 DEF t

(* On a page that was not shown yet, the installer takes no character but  *)
(* 1 and 2.                                                                *)
LEMMA SetupStays ==
  ASSUME ShellInv, NEW ch \in Char, ch \notin {"1", "2"}, SetupPage(ch)
  PROVE  input_buffer' = Append(input_buffer, ch)
<1> DEFINE t == Append(input_buffer, ch)
<1>1. input_buffer \in Seq(Char)
  BY DEF ShellInv, ShellTypeOK, KeyboardTypeOK
<1>2. Last(t) = ch
  BY <1>1, AppendProperties, LenProperties DEF Last
<1> HIDE DEF t
<1>3. ~ EndsIn(t, "1") /\ ~ EndsIn(t, "2")
  BY <1>2 DEF EndsIn
<1>4. ~ servicePage /\ ~ agreePage
  BY DEF ShellInv
<1> QED BY <1>3, <1>4 DEF SetupPage, t

LEMMA LineStep == ShellInv /\ LineInv /\ [Next]_shellVars => LineInv'
<1> SUFFICES ASSUME ShellInv, LineInv, [Next]_shellVars PROVE LineInv'
  OBVIOUS
<1>1. ASSUME NEW k \in Key, TypeKey(k) PROVE LineInv'
  <2> DEFINE ch == keyboard_map[k]
  <2>1. /\ ch \in Char /\ line' = Extended(ch) /\ Receive(ch)
        /\ line \in Seq(Char) /\ Len(line) <= MaxLine /\ input_buffer \in Seq(Char)
    BY <1>1 DEF TypeKey, Press, Char, ShellInv, ShellTypeOK, KeyboardTypeOK
  <2> HIDE DEF ch
  <2>2. Len(line') \in Nat \ {0} /\ line'[Len(line')] = ch
    BY <2>1, LineEnd
  <2>3. CASE ch \in Taken
    <3>1. ASSUME NEW n \in 0 .. Len(line'), Stays(line', n) PROVE n = 0
      <4>1. n > 0 => 0 \in 0 .. n - 1 /\ Len(line') - 0 = Len(line')
        BY <2>2
      <4>2. n > 0 => line'[Len(line')] \notin Taken
        BY <3>1, <4>1 DEF Stays
      <4> QED BY <2>2, <2>3, <4>2
    <3>2. EndAlike(0, line', input_buffer')
      <4>1. KeyboardTypeOK
        BY DEF ShellInv, ShellTypeOK
      <4>2. KeyboardTypeOK'
        BY <1>1, <4>1, PressType DEF TypeKey
      <4>3. Len(input_buffer') \in Nat
        BY <4>2, LenProperties DEF KeyboardTypeOK
      <4> QED BY <2>2, <4>3 DEF EndAlike
    <3> QED BY <3>1, <3>2 DEF LineInv, AsTyped
  <2>4. CASE ch # BS /\ BufferFull
    BY <2>1, <2>4 DEF Receive, Ignore, BufferFull, LineInv
  <2>5. CASE ch \notin Taken /\ ~ BufferFull
    <3> SUFFICES ASSUME ch # "\n" PROVE LineInv'
      <4>1. ch = "\n" => EndsIn(line', "\n")
        <5>1. line' # << >>
          BY <2>2, EmptySeq
        <5> QED BY <2>2, <5>1 DEF EndsIn, Last
      <4> QED BY <4>1 DEF LineInv
    <3> DEFINE t == Append(input_buffer, ch)
    <3>1. RunCommand(t) \/ MoveCursor(t) \/ SetupPage(ch)
      BY <2>1, <2>5 DEF Receive, CommandLine, Taken
    <3>2. ASSUME NEW c \in Command, Spells(c, t) PROVE FALSE
      <4>1. t \in Seq(Char) /\ t[Len(t)] = ch /\ Len(t) \in Nat
        BY <2>1, AppendProperties, LenProperties
      <4>2. /\ Spelling[c] \in Seq(Letter) /\ Len(Spelling[c]) \in Nat \ {0}
            /\ Spelling[c][Len(Spelling[c])] = "\n"
        BY Spellings
      <4> HIDE DEF t
      <4>3. EndAlike(Len(Spelling[c]), Spelling[c], t)
        BY <3>2, <4>1, <4>2, SuffixIsAlike DEF Spells
      <4>4. Spelling[c][Len(Spelling[c]) - 0] = t[Len(t) - 0]
        <5>1. 0 \in 0 .. Len(Spelling[c]) - 1
          BY <4>2
        <5> QED BY <4>3, <5>1, Zenon DEF EndAlike
      <4> QED BY <4>1, <4>2, <4>4
    <3>3. ASSUME MoveCursor(t) PROVE input_buffer' = t
      <4>1. input_buffer' = Consume(Consume(Consume(Consume(t, "d"), "s"), "w"), "a")
        BY <3>3 DEF MoveCursor
      <4> QED BY <2>1, <2>5, <4>1, LetterStays DEF Taken
    <3>4. input_buffer' = t
      BY <2>1, <2>5, <3>1, <3>2, <3>3, SetupStays DEF RunCommand, Taken
    <3>5. ASSUME NEW n \in 0 .. Len(line'), Stays(line', n)
          PROVE  EndAlike(n, line', input_buffer')
      BY <2>1, <2>5, <3>4, <3>5, TypedAlike
    <3> QED BY <3>5 DEF LineInv, AsTyped
  <2> QED BY <2>3, <2>4, <2>5 DEF Taken
<1>2. CASE Other \/ OpenLine \/ Verified
  <2>1. UNCHANGED << input_buffer, line >>
    BY <1>2 DEF Other, OpenLine, Verified, NoKey, AfterPoweroff, Ignore
  <2> QED BY <2>1 DEF LineInv, AsTyped, BufferFull
<1>3. CASE UNCHANGED shellVars
  <2>1. UNCHANGED << input_buffer, line >>
    BY <1>3 DEF shellVars, keyboardVars
  <2> QED BY <2>1 DEF LineInv, AsTyped, BufferFull
<1> QED BY <1>1, <1>2, <1>3 DEF Next

LEMMA PlainStep ==
  ASSUME ShellInv, LineInv, NEW k \in Key, TypeKey(k), NEW c \in PlainCommand,
         isInstalled, ~ BufferFull, line' = Spelling[c]
  PROVE  /\ ran' = c
         /\ RunCommand(Append(input_buffer, keyboard_map[k]))
         /\ Stays(line', Len(line'))
<1> DEFINE ch == keyboard_map[k]
           t  == Append(input_buffer, ch)
<1>1. /\ ch \in Char /\ line' = Extended(ch) /\ Receive(ch)
      /\ line \in Seq(Char) /\ Len(line) <= MaxLine
      /\ input_buffer \in Seq(Char)
  BY DEF TypeKey, Press, Char, ShellInv, ShellTypeOK, KeyboardTypeOK
<1>2. line'[Len(line')] = ch
  BY <1>1, LineEnd
<1>3. /\ c \in Command /\ Spelling[c] \in Seq(Letter)
      /\ Len(Spelling[c]) \in Nat \ {0} /\ Spelling[c][Len(Spelling[c])] = "\n"
      /\ \A j \in 1 .. Len(Spelling[c]) : Spelling[c][j] \notin MoveKey
  BY Spellings DEF PlainCommand
<1>4. ch # BS
  BY <1>2, <1>3 DEF BS
<1>5. Stays(line', Len(line'))
  <2> SUFFICES ASSUME NEW j \in 0 .. Len(line') - 1
               PROVE  line'[Len(line') - j] \notin Taken
    BY DEF Stays
  <2>1. Len(line') - j \in 1 .. Len(line')
    BY <1>3
  <2>2. Spelling[c][Len(line') - j] \in Letter
    BY <1>3, <2>1, ElementOfSeq
  <2>3. BS \notin Letter /\ "1" \notin Letter /\ "2" \notin Letter
    BY DEF BS, Letter
  <2> QED BY <1>3, <2>1, <2>2, <2>3 DEF Taken
<1>6. EndAlike(Len(line'), line', t)
  <2>1. Len(line') \in 0 .. Len(line')
    BY <1>3
  <2> QED BY <1>1, <1>5, <2>1, TypedAlike
<1>7. t \in Seq(Char)
  BY <1>1, AppendProperties
<1>8. Spells(c, t)
  <2> HIDE DEF t
  <2> QED BY <1>3, <1>6, <1>7, AlikeIsSuffix DEF Spells
<1>9. RunCommand(t)
  <2>1. RunCommand(t) \/ MoveCursor(t)
    BY <1>1, <1>4 DEF Receive, CommandLine, SetupPage
  <2> QED BY <1>3, <1>8, <2>1 DEF MoveCursor
<1>10. PICK d \in Command : Spells(d, t) /\ ran' = d
  BY <1>9 DEF RunCommand
<1> QED BY <1>3, <1>5, <1>7, <1>8, <1>9, <1>10, OneSpelling

(* A line that spells a command without any of the letters d, s, w, a runs *)
(* it (handle_keyboard_interrupt), whatever was typed before, verified or  *)
(* not, and whatever it left in the buffer, for every buffer size, as long *)
(* as there is room for the Enter.                                         *)
THEOREM PlainLineSafety == Spec => PlainLineRuns
<1>1. Init => LineInv
  <2> SUFFICES ASSUME Init PROVE AsTyped
    BY DEF LineInv
  <2>1. line = << >> /\ input_buffer = << >> /\ Len(<< >>) = 0
    BY EmptySeq DEF Init, InitKeyboard
  <2> QED BY <2>1 DEF AsTyped, EndAlike
<1>2. ShellInv /\ LineInv /\ [Next]_shellVars
        => [\A c \in PlainCommand :
              isInstalled /\ ~ BufferFull /\ line' = Spelling[c] /\ line' # line
                => ran' = c]_shellVars
  <2> SUFFICES ASSUME ShellInv, LineInv, Next, NEW c \in PlainCommand,
                      isInstalled, ~ BufferFull, line' = Spelling[c], line' # line
               PROVE  ran' = c
    OBVIOUS
  <2>1. PICK k \in Key : TypeKey(k)
    BY DEF Next, Other, OpenLine, Verified
  <2> QED BY <2>1, PlainStep
<1> QED BY ShellInit, ShellStep, LineStep, <1>1, <1>2, PTL DEF Spec, PlainLineRuns

-----------------------------------------------------------------------------
(* What commands leave at the front of the buffer: it ends in the letter   *)
(* before the command's last one, which is no movement's letter unless the *)
(* command was shutdown, and every movement's letter is within it.         *)
Heads(p, s) == Len(p) <= Len(s) /\ \A j \in 1 .. Len(p) : p[j] = s[j]

LeftInv ==
  /\ lastRan = "none" => left = << >>
  /\ lastRan # "none" =>
       /\ isInstalled
       /\ lastRan \in Command /\ left # << >> /\ Heads(left, input_buffer)
       /\ left[Len(left)] = LetterBefore[lastRan]
       /\ lastRan = "shutdown" => poweroff_sys
       /\ \A j \in 1 .. Len(input_buffer) : input_buffer[j] \in MoveKey => j <= Len(left)

LEMMA HeadsIsPrefix ==
  ASSUME NEW p \in Seq(Char), NEW s \in Seq(Char), Heads(p, s)
  PROVE  IsPrefix(p, s)
<1>1. Len(p) \in Nat /\ Len(s) \in Nat /\ Len(p) <= Len(s)
  BY LenProperties DEF Heads
<1>2. SubSeq(p, 1, Len(p)) = p
  BY SubSeqFull
<1>3. SubSeq(s, 1, Len(p)) = p
  <2> DEFINE u == SubSeq(s, 1, Len(p))
  <2>1. /\ u \in Seq(Char) /\ Len(u) = Len(p)
        /\ \A j \in 1 .. Len(p) : u[j] = s[j]
    BY <1>1, SubSeqProperties
  <2>2. \A j \in 1 .. Len(u) : u[j] = p[j]
    BY <2>1 DEF Heads
  <2> HIDE DEF u
  <2>3. u = p
    BY <2>1, <2>2, SeqEqual
  <2> QED BY <2>3 DEF u
<1> QED BY <1>1, <1>2, <1>3 DEF IsPrefix

(* One test for a movement: what is before its letter stays. *)
LEMMA ConsumeKeeps ==
  ASSUME NEW b \in Seq(Char), NEW p \in Seq(Char), Heads(p, b),
         p # << >> => p[Len(p)] \notin MoveKey, NEW c \in MoveKey
  PROVE  LET r == Consume(b, c)
         IN  r \in Seq(Char) /\ Heads(p, r) /\ Heads(r, b)
<1>1. Len(b) \in Nat /\ Len(p) \in Nat
  BY LenProperties
<1>2. CASE ~ EndsIn(b, c)
  BY <1>1, <1>2 DEF Consume, Heads
<1>3. CASE EndsIn(b, c)
  <2>1. b # << >> /\ b[Len(b)] = c
    BY <1>3 DEF EndsIn, Last
  <2>2. Len(b) > 0
    BY <1>1, <2>1, EmptySeq
  <2>3. /\ Front(b) \in Seq(Char) /\ Len(Front(b)) = Len(b) - 1
        /\ \A j \in 1 .. Len(b) - 1 : Front(b)[j] = b[j]
    BY <2>1, FrontType
  <2>4. Len(p) < Len(b)
    <3> SUFFICES ASSUME Len(p) = Len(b) PROVE FALSE
      BY <1>1 DEF Heads
    <3>1. p[Len(p)] = c
      BY <1>1, <2>1, <2>2 DEF Heads
    <3>2. p # << >>
      BY <2>2, EmptySeq
    <3> QED BY <3>1, <3>2
  <2> QED BY <1>1, <1>3, <2>3, <2>4 DEF Consume, Heads
<1> QED BY <1>2, <1>3

LEMMA HeadsTransitive ==
  ASSUME NEW p \in Seq(Char), NEW s \in Seq(Char), NEW t \in Seq(Char), Heads(p, s), Heads(s, t)
  PROVE  Heads(p, t)
<1>1. Len(p) \in Nat /\ Len(s) \in Nat /\ Len(t) \in Nat
  BY LenProperties
<1> QED BY <1>1 DEF Heads

(* Tests one after the other. *)
LEMMA TwoTests ==
  ASSUME NEW b \in Seq(Char), NEW p \in Seq(Char), Heads(p, b),
         p # << >> => p[Len(p)] \notin MoveKey, NEW c \in MoveKey, NEW d \in MoveKey
  PROVE  LET r == Consume(Consume(b, c), d)
         IN  r \in Seq(Char) /\ Heads(p, r) /\ Heads(r, b)
<1> DEFINE b1 == Consume(b, c)
<1>1. b1 \in Seq(Char) /\ Heads(p, b1) /\ Heads(b1, b)
  BY ConsumeKeeps
<1> HIDE DEF b1
<1>2. Consume(b1, d) \in Seq(Char) /\ Heads(p, Consume(b1, d)) /\ Heads(Consume(b1, d), b1)
  BY <1>1, ConsumeKeeps
<1>3. Heads(Consume(b1, d), b)
  BY <1>1, <1>2, HeadsTransitive
<1> QED BY <1>2, <1>3 DEF b1

LEMMA MovesKeep ==
  ASSUME NEW b \in Seq(Char), NEW p \in Seq(Char), Heads(p, b),
         p # << >> => p[Len(p)] \notin MoveKey
  PROVE  LET r == Consume(Consume(Consume(Consume(b, "d"), "s"), "w"), "a")
         IN  r \in Seq(Char) /\ Heads(p, r) /\ Heads(r, b)
<1> DEFINE b2 == Consume(Consume(b, "d"), "s")
           r  == Consume(Consume(b2, "w"), "a")
<1>1. {"d", "s", "w", "a"} = MoveKey
  BY DEF MoveKey
<1>2. b2 \in Seq(Char) /\ Heads(p, b2) /\ Heads(b2, b)
  BY <1>1, TwoTests
<1> HIDE DEF b2
<1>3. r \in Seq(Char) /\ Heads(p, r) /\ Heads(r, b2)
  BY <1>1, <1>2, TwoTests
<1> HIDE DEF r
<1>4. Heads(r, b)
  BY <1>2, <1>3, HeadsTransitive
<1> QED BY <1>3, <1>4 DEF b2, r

(* A movement's letter does not stay. *)
LEMMA MoveIsTaken ==
  ASSUME NEW buf \in Seq(Char), NEW ch \in Char, ch \in MoveKey
  PROVE  LET t == Append(buf, ch)
             r == Consume(Consume(Consume(Consume(t, "d"), "s"), "w"), "a")
         IN  Len(r) <= Len(buf)
<1> DEFINE t == Append(buf, ch)
           r == Consume(Consume(Consume(Consume(t, "d"), "s"), "w"), "a")
<1>1. /\ t \in Seq(Char) /\ t # << >> /\ Len(t) = Len(buf) + 1 /\ Len(buf) \in Nat
      /\ Last(t) = ch
  BY AppendProperties, LenProperties DEF Last
<1> HIDE DEF t
<1>2. ASSUME NEW s \in Seq(Char), NEW c
      PROVE  Consume(s, c) \in Seq(Char) /\ Len(Consume(s, c)) <= Len(s)
  BY ConsumeType, LenProperties
<1>3. \A c \in MoveKey : c # ch => Consume(t, c) = t
  BY <1>1 DEF Consume, EndsIn
<1>4. Len(Consume(t, ch)) <= Len(buf)
  BY <1>1, FrontType DEF Consume, EndsIn
<1> DEFINE t1 == Consume(t, "d")
           t2 == Consume(t1, "s")
           t3 == Consume(t2, "w")
           t4 == Consume(t3, "a")
<1>5. t1 \in Seq(Char) /\ Len(t1) <= Len(t)
  BY <1>1, <1>2
<1>6. ch = "d" => Len(t1) <= Len(buf)
  BY <1>4
<1>7. ch \in {"s", "w", "a"} => t1 = t
  BY <1>3 DEF MoveKey
<1> HIDE DEF t1
<1>8. t2 \in Seq(Char) /\ Len(t2) <= Len(t1)
  BY <1>2, <1>5
<1>9. ch = "s" => Len(t2) <= Len(buf)
  BY <1>4, <1>7
<1>10. ch \in {"w", "a"} => t2 = t
  BY <1>3, <1>7 DEF MoveKey
<1> HIDE DEF t2
<1>11. t3 \in Seq(Char) /\ Len(t3) <= Len(t2)
  BY <1>2, <1>8
<1>12. ch = "w" => Len(t3) <= Len(buf)
  BY <1>4, <1>10
<1>13. ch = "a" => t3 = t
  BY <1>3, <1>10 DEF MoveKey
<1> HIDE DEF t3
<1>14. t4 \in Seq(Char) /\ Len(t4) <= Len(t3)
  BY <1>2, <1>11
<1>15. ch = "a" => Len(t4) <= Len(buf)
  BY <1>4, <1>13
<1>16. t4 = r
  BY DEF t1, t2, t3
<1> HIDE DEF t4
<1>17. Len(t1) \in Nat /\ Len(t2) \in Nat /\ Len(t3) \in Nat /\ Len(t4) \in Nat
  BY <1>5, <1>8, <1>11, <1>14, LenProperties
<1>18. ch \in {"d", "s", "w", "a"}
  BY DEF MoveKey
<1>19. Len(t4) <= Len(buf)
  BY <1>1, <1>6, <1>8, <1>9, <1>11, <1>12, <1>14, <1>15, <1>17, <1>18
<1> QED BY <1>16, <1>19 DEF t

(* The end of a buffer that ends in a command. *)
LEMMA CommandEnd ==
  ASSUME NEW t \in Seq(Char), NEW c \in Command, Spells(c, t)
  PROVE  /\ Len(Spelling[c]) \in Nat /\ Len(Spelling[c]) >= 3
         /\ Len(t) \in Nat /\ Len(t) >= Len(Spelling[c])
         /\ \A j \in 0 .. Len(Spelling[c]) - 1 :
              t[Len(t) - j] = Spelling[c][Len(Spelling[c]) - j]
         /\ t[Len(t) - 1] = LetterLast[c] /\ t[Len(t) - 2] = LetterBefore[c]
<1>1. Spelling[c] \in Seq(Letter)
  BY Spellings
<1>2. /\ Len(Spelling[c]) \in Nat /\ Len(Spelling[c]) >= 3
      /\ Spelling[c][Len(Spelling[c]) - 1] = LetterLast[c]
      /\ Spelling[c][Len(Spelling[c]) - 2] = LetterBefore[c]
  BY SpellingEnds
<1>3. EndAlike(Len(Spelling[c]), Spelling[c], t)
  BY <1>1, SuffixIsAlike DEF Spells
<1>4. Len(t) \in Nat /\ Len(t) >= Len(Spelling[c])
  BY <1>2, <1>3, LenProperties DEF EndAlike
<1>5. 1 \in 0 .. Len(Spelling[c]) - 1 /\ 2 \in 0 .. Len(Spelling[c]) - 1
  BY <1>2
<1>6. \A j \in 0 .. Len(Spelling[c]) - 1 :
        t[Len(t) - j] = Spelling[c][Len(Spelling[c]) - j]
  BY <1>3 DEF EndAlike
<1>7. /\ t[Len(t) - 1] = Spelling[c][Len(Spelling[c]) - 1]
      /\ t[Len(t) - 2] = Spelling[c][Len(Spelling[c]) - 2]
  BY <1>5, <1>6, Zenon
<1> QED BY <1>2, <1>4, <1>6, <1>7

(* The letters commands leave last, and the letters commands end in. *)
LEMMA LettersLeft ==
  ASSUME NEW c \in Command
  PROVE  /\ LetterBefore[c] \in {"h", "f", "l", "m", "w", "c"}
         /\ LetterLast[c] \in {"i", "o", "p", "d", "n"}
         /\ LetterBefore[c] = "m" => c = "whoami"
         /\ LetterBefore[c] = "w" => c = "shutdown"
<1>1. Command = {"hi", "info", "help", "ld", "whoami", "shutdown", "cd"}
  BY DEF Command, Spelling
<1> QED BY <1>1 DEF LetterBefore, LetterLast

(* A command that runs finds something typed behind what the last one left. *)
LEMMA LeftIsShorter ==
  ASSUME ShellInv, LeftInv, NEW ch \in Char, NEW c \in Command,
         Spells(c, Append(input_buffer, ch))
  PROVE  Heads(left, input_buffer) /\ Len(left) < Len(input_buffer)
<1> DEFINE t == Append(input_buffer, ch)
<1>1. input_buffer \in Seq(Char) /\ Len(input_buffer) \in Nat
  BY LenProperties DEF ShellInv, ShellTypeOK, KeyboardTypeOK
<1>2. /\ t \in Seq(Char) /\ Len(t) = Len(input_buffer) + 1
      /\ \A j \in 1 .. Len(input_buffer) : t[j] = input_buffer[j]
  BY <1>1, AppendProperties
<1> HIDE DEF t
<1>3. Len(t) >= 3 /\ t[Len(t) - 1] = LetterLast[c]
  <2>1. Spells(c, t)
    BY DEF t
  <2>2. /\ Len(Spelling[c]) \in Nat /\ Len(Spelling[c]) >= 3
        /\ Len(t) \in Nat /\ Len(t) >= Len(Spelling[c])
        /\ t[Len(t) - 1] = LetterLast[c]
    BY <1>2, <2>1, CommandEnd
  <2> QED BY <2>2
<1>4. Len(input_buffer) \in 1 .. Len(input_buffer) /\ Len(t) - 1 = Len(input_buffer)
  BY <1>1, <1>2, <1>3
<1>5. input_buffer[Len(input_buffer)] = LetterLast[c]
  BY <1>2, <1>3, <1>4
<1>6. CASE lastRan = "none"
  <2>1. left = << >> /\ Len(<< >>) = 0
    BY <1>6, EmptySeq DEF LeftInv
  <2> QED BY <1>4, <2>1 DEF Heads
<1>7. CASE lastRan # "none"
  <2>1. /\ lastRan \in Command /\ left # << >> /\ Heads(left, input_buffer)
        /\ left[Len(left)] = LetterBefore[lastRan]
    BY <1>7 DEF LeftInv
  <2>2. left \in Seq(Char) /\ Len(left) \in Nat
    BY LenProperties DEF ShellInv, ShellTypeOK
  <2>3. Len(left) # Len(input_buffer)
    <3> SUFFICES ASSUME Len(left) = Len(input_buffer) PROVE FALSE
      OBVIOUS
    <3>1. left[Len(left)] = input_buffer[Len(input_buffer)]
      BY <1>4, <2>1 DEF Heads
    <3>2. LetterBefore[lastRan] = LetterLast[c]
      BY <1>5, <2>1, <3>1
    <3> QED BY <2>1, <3>2, LettersLeft
  <2> QED BY <1>1, <2>1, <2>2, <2>3 DEF Heads
<1> QED BY <1>6, <1>7

LEMMA LeftKey ==
  ASSUME NoBackspace, ShellInv, LeftInv, NEW k \in Key, TypeKey(k)
  PROVE  LeftInv'
<1> DEFINE ch == keyboard_map[k]
           t  == Append(input_buffer, ch)
<1>1. /\ ch \in Char /\ ch # BS /\ Receive(ch) /\ ~ poweroff_sys
      /\ input_buffer \in Seq(Char) /\ left \in Seq(Char)
      /\ lastRan \in Command \cup {"none"}
      /\ UNCHANGED isInstalled
      /\ left' = IF ran' = "none" THEN left ELSE input_buffer'
      /\ lastRan' = IF ran' = "none" THEN lastRan ELSE ran'
  BY DEF TypeKey, Press, Char, NoBackspace, ShellInv, ShellTypeOK, KeyboardTypeOK
<1>2. /\ t \in Seq(Char) /\ Len(t) = Len(input_buffer) + 1
      /\ Len(input_buffer) \in Nat /\ Len(left) \in Nat
      /\ t[Len(t)] = ch
      /\ \A j \in 1 .. Len(input_buffer) : t[j] = input_buffer[j]
  BY <1>1, AppendProperties, LenProperties
<1> HIDE DEF ch, t
<1>3. "none" \notin Command
  BY DEF Command, Spelling
<1>4. CASE BufferFull
  BY <1>1, <1>4 DEF Receive, Ignore, LeftInv
<1>5. CASE ~ BufferFull /\ SetupPage(ch)
  <2>1. ran' = "none" /\ ~ isInstalled
    BY <1>5 DEF SetupPage
  <2>2. lastRan = "none" /\ left = << >>
    BY <2>1 DEF ShellInv
  <2> QED BY <1>1, <2>1, <2>2 DEF LeftInv
<1>6. CASE ~ BufferFull /\ isInstalled /\ RunCommand(t)
  <2>1. PICK c \in Command : /\ Spells(c, t)
                             /\ input_buffer' = SubSeq(t, 1, Len(t) - 2)
                             /\ ran' = c /\ poweroff_sys' = (c = "shutdown")
    BY <1>6 DEF RunCommand
  <2>2. Len(t) >= 3 /\ t[Len(t) - 2] = LetterBefore[c]
    BY <1>2, <2>1, CommandEnd
  <2>3. /\ SubSeq(t, 1, Len(t) - 2) \in Seq(Char)
        /\ Len(SubSeq(t, 1, Len(t) - 2)) = Len(t) - 2
        /\ \A j \in 1 .. Len(t) - 2 : SubSeq(t, 1, Len(t) - 2)[j] = t[j]
    BY <1>2, <2>2, SubSeqProperties
  <2>4. /\ input_buffer' \in Seq(Char) /\ Len(input_buffer') = Len(t) - 2
        /\ input_buffer'[Len(input_buffer')] = LetterBefore[c]
    <3>1. Len(t) - 2 \in 1 .. Len(t) - 2
      BY <1>2, <2>2
    <3> QED BY <2>1, <2>2, <2>3, <3>1
  <2>5. left' = input_buffer' /\ lastRan' = c /\ c # "none"
    BY <1>1, <1>3, <2>1
  <2>6. input_buffer' # << >>
    BY <1>2, <2>2, <2>4, EmptySeq
  <2>7. Heads(input_buffer', input_buffer')
    BY <1>2, <2>4 DEF Heads
  <2>8. \A j \in 1 .. Len(input_buffer') : j <= Len(left')
    BY <1>2, <2>2, <2>4, <2>5
  <2>9. isInstalled' /\ (c = "shutdown" => poweroff_sys')
    BY <1>1, <1>6, <2>1
  <2> QED BY <2>4, <2>5, <2>6, <2>7, <2>8, <2>9 DEF LeftInv
<1>7. CASE ~ BufferFull /\ isInstalled /\ MoveCursor(t)
  <2>1. /\ ran' = "none" /\ poweroff_sys' = poweroff_sys
        /\ input_buffer' = Consume(Consume(Consume(Consume(t, "d"), "s"), "w"), "a")
    BY <1>7 DEF MoveCursor
  <2>2. lastRan' = lastRan /\ left' = left
    BY <1>1, <2>1
  <2>3. ASSUME lastRan # "none"
        PROVE  /\ Heads(left, input_buffer')
               /\ \A j \in 1 .. Len(input_buffer') :
                    input_buffer'[j] \in MoveKey => j <= Len(left)
    <3>1. /\ lastRan \in Command /\ left # << >> /\ Heads(left, input_buffer)
          /\ left[Len(left)] = LetterBefore[lastRan] /\ lastRan # "shutdown"
      BY <1>1, <2>3 DEF LeftInv
    <3>2. left[Len(left)] \notin MoveKey
      BY <3>1, LettersLeft DEF MoveKey
    <3>3. Heads(left, t)
      BY <1>2, <3>1 DEF Heads
    <3>4. /\ input_buffer' \in Seq(Char) /\ Heads(left, input_buffer')
          /\ Heads(input_buffer', t)
      BY <1>1, <1>2, <2>1, <3>2, <3>3, MovesKeep
    <3>5. ASSUME NEW j \in 1 .. Len(input_buffer'), input_buffer'[j] \in MoveKey
          PROVE  j <= Len(left)
      <4>1. Len(input_buffer') \in Nat /\ Len(input_buffer') <= Len(t) /\ t[j] \in MoveKey
        BY <3>4, <3>5, LenProperties DEF Heads
      <4>2. j # Len(t)
        <5> SUFFICES ASSUME j = Len(t) PROVE FALSE
          OBVIOUS
        <5>1. ch \in MoveKey
          BY <1>2, <4>1
        <5>2. Len(input_buffer') <= Len(input_buffer)
          BY <1>1, <2>1, <5>1, MoveIsTaken DEF t
        <5> QED BY <1>2, <4>1, <5>2
      <4>3. j \in 1 .. Len(input_buffer) /\ input_buffer[j] \in MoveKey
        BY <1>2, <4>1, <4>2
      <4> QED BY <2>3, <4>3 DEF LeftInv
    <3> QED BY <3>4, <3>5
  <2> QED BY <1>1, <2>1, <2>2, <2>3 DEF LeftInv
<1> QED BY <1>1, <1>4, <1>5, <1>6, <1>7 DEF Receive, CommandLine, t

LEMMA LeftStep ==
  ASSUME NoBackspace
  PROVE  ShellInv /\ LeftInv /\ [Next]_shellVars => LeftInv'
<1> SUFFICES ASSUME ShellInv, LeftInv, [Next]_shellVars PROVE LeftInv'
  OBVIOUS
<1>1. ASSUME NEW k \in Key, TypeKey(k) PROVE LeftInv'
  BY <1>1, LeftKey
<1>2. CASE Other \/ OpenLine \/ Verified
  <2>1. UNCHANGED << input_buffer, poweroff_sys, left, lastRan >>
    BY <1>2 DEF Other, OpenLine, Verified, NoKey, AfterPoweroff, Ignore
  <2>2. isInstalled' = isInstalled \/ isInstalled' = TRUE
    BY <1>2 DEF Other, OpenLine, Verified, NoKey, AfterPoweroff
  <2> QED BY <2>1, <2>2 DEF LeftInv, Heads
<1>3. CASE UNCHANGED shellVars
  BY <1>3 DEF shellVars, keyboardVars, LeftInv, Heads
<1> QED BY <1>1, <1>2, <1>3 DEF Next

(* The commands spelt with a movement's letter: which one it is, and where. *)
LEMMA MoveSpellings ==
  ASSUME NEW c \in Command, c \notin PlainCommand
  PROVE  \/ c \in {"ld", "cd"} /\ LetterLast[c] = "d"
         \/ /\ c = "whoami" /\ LetterLast[c] = "i" /\ Len(Spelling[c]) = 7
            /\ Spelling[c][Len(Spelling[c]) - 3] = "a"
         \/ c = "shutdown" /\ LetterLast[c] = "n"
<1>1. Command = {"hi", "info", "help", "ld", "whoami", "shutdown", "cd"}
  BY DEF Command, Spelling
<1>2. CASE c = "hi"
  <2>1. Spelling[c] = << "h", "i", "\n" >>
    BY <1>2 DEF Spelling
  <2> QED BY <2>1 DEF PlainCommand, MoveKey
<1>3. CASE c = "info"
  <2>1. Spelling[c] = << "i", "n", "f", "o", "\n" >>
    BY <1>3 DEF Spelling
  <2> QED BY <2>1 DEF PlainCommand, MoveKey
<1>4. CASE c = "help"
  <2>1. Spelling[c] = << "h", "e", "l", "p", "\n" >>
    BY <1>4 DEF Spelling
  <2> QED BY <2>1 DEF PlainCommand, MoveKey
<1>5. CASE c = "whoami"
  <2>1. Spelling[c] = << "w", "h", "o", "a", "m", "i", "\n" >>
    BY <1>5 DEF Spelling
  <2> QED BY <1>5, <2>1 DEF LetterLast
<1>6. CASE c \in {"ld", "cd", "shutdown"}
  BY <1>6 DEF LetterLast
<1> QED BY <1>1, <1>2, <1>3, <1>4, <1>5, <1>6

(* A movement's letter lies within what the last command left, and that    *)
(* ends in a letter that only one command has there.                       *)
LEMMA MoveRun ==
  ASSUME ShellInv, LeftInv, NEW ch \in Char, NEW c \in Command, c \notin PlainCommand,
         Spells(c, Append(input_buffer, ch)), isInstalled
  PROVE  early /\ lastRan \in {"none", c}
<1> DEFINE t == Append(input_buffer, ch)
           n == Len(input_buffer)
<1>1. input_buffer \in Seq(Char) /\ n \in Nat /\ left \in Seq(Char) /\ Len(left) \in Nat
      /\ early \in BOOLEAN /\ lastRan \in Command \cup {"none"}
  BY LenProperties DEF ShellInv, ShellTypeOK, KeyboardTypeOK
<1>2. /\ t \in Seq(Char) /\ Len(t) = n + 1
      /\ \A j \in 1 .. n : t[j] = input_buffer[j]
  BY <1>1, AppendProperties
<1>3. early
  <2> SUFFICES ASSUME ~ early PROVE FALSE
    BY <1>1
  <2>1. Clean(input_buffer)
    BY DEF ShellInv
  <2> QED BY <1>1, <2>1, CleanSpellsPlain
<1>4. ASSUME lastRan # "none" PROVE lastRan = c
  <2>1. /\ lastRan \in Command /\ left # << >> /\ Heads(left, input_buffer)
        /\ left[Len(left)] = LetterBefore[lastRan]
        /\ \A j \in 1 .. n : input_buffer[j] \in MoveKey => j <= Len(left)
    BY <1>4 DEF LeftInv
  <2>2. Len(left) < n
    BY LeftIsShorter
  <2>3. Len(left) > 0
    BY <1>1, <2>1, EmptySeq
  <2>4. LetterBefore[lastRan] = input_buffer[Len(left)]
    BY <1>1, <2>1, <2>3 DEF Heads
  <2>5. /\ Len(t) >= Len(Spelling[c]) /\ Len(Spelling[c]) \in Nat
        /\ \A j \in 0 .. Len(Spelling[c]) - 1 :
             t[Len(t) - j] = Spelling[c][Len(Spelling[c]) - j]
        /\ t[Len(t) - 1] = LetterLast[c] /\ t[Len(t) - 2] = LetterBefore[c]
    BY <1>2, CommandEnd
  <2> HIDE DEF t, n
  <2>6. n \in 1 .. n /\ n - 1 \in 1 .. n
    BY <1>1, <2>2, <2>3
  <2>7. input_buffer[n] = LetterLast[c] /\ input_buffer[n - 1] = LetterBefore[c]
    <3>1. Len(t) - 1 = n /\ Len(t) - 2 = n - 1
      BY <1>1, <1>2
    <3> QED BY <1>2, <2>5, <2>6, <3>1
  <2>8. CASE LetterLast[c] = "d"
    <3>1. input_buffer[n] \in MoveKey
      BY <2>7, <2>8 DEF MoveKey
    <3> QED BY <1>1, <2>1, <2>2, <2>6, <3>1
  <2>9. CASE c = "shutdown"
    <3>1. LetterBefore[c] = "w"
      BY <2>9 DEF LetterBefore
    <3>2. n - 1 <= Len(left)
      BY <2>1, <2>6, <2>7, <3>1 DEF MoveKey
    <3>3. Len(left) = n - 1
      BY <1>1, <2>2, <3>2
    <3> QED BY <2>1, <2>4, <2>7, <2>9, <3>1, <3>3, LettersLeft
  <2>10. CASE /\ c = "whoami" /\ LetterLast[c] = "i" /\ Len(Spelling[c]) = 7
              /\ Spelling[c][Len(Spelling[c]) - 3] = "a"
    <3>1. 3 \in 0 .. Len(Spelling[c]) - 1
      BY <2>10
    <3>2. t[Len(t) - 3] = "a"
      BY <2>5, <2>10, <3>1
    <3>3. n - 2 \in 1 .. n /\ Len(t) - 3 = n - 2
      BY <1>1, <1>2, <2>5, <2>10
    <3>4. input_buffer[n - 2] = "a"
      BY <1>2, <3>2, <3>3
    <3>5. n - 2 <= Len(left)
      BY <2>1, <3>3, <3>4 DEF MoveKey
    <3>6. Len(left) = n - 2 \/ Len(left) = n - 1
      BY <1>1, <2>2, <3>5
    <3>7. LetterBefore[c] = "m"
      BY <2>10 DEF LetterBefore
    <3>8. CASE Len(left) = n - 2
      BY <2>1, <2>4, <3>4, <3>8, LettersLeft
    <3>9. CASE Len(left) = n - 1
      BY <2>1, <2>4, <2>7, <2>10, <3>7, <3>9, LettersLeft
    <3> QED BY <3>6, <3>8, <3>9
  <2> QED BY <2>8, <2>9, <2>10, MoveSpellings
<1> QED BY <1>3, <1>4

(* With a keyboard map without a backspace, as the source's: a command     *)
(* spelt with d, s, w or a runs only if such a letter was typed before the *)
(* installation was verified, and then as the session's first command or   *)
(* again behind itself.                                                    *)
THEOREM MoveCommandsSafety == NoBackspace => (Spec => MoveCommandsAreEarly)
<1> SUFFICES ASSUME NoBackspace PROVE Spec => MoveCommandsAreEarly
  OBVIOUS
<1>1. Init => LeftInv
  BY DEF Init, LeftInv
<1>2. ShellInv /\ LeftInv /\ [Next]_shellVars => LeftInv'
  BY LeftStep
<1>3. ShellInv /\ LeftInv /\ [Next]_shellVars
        => [\A c \in Command \ PlainCommand :
              ran' = c => early /\ lastRan \in {"none", c}]_shellVars
  <2> SUFFICES ASSUME ShellInv, LeftInv, Next,
                      NEW c \in Command \ PlainCommand, ran' = c
               PROVE  early /\ lastRan \in {"none", c}
    OBVIOUS
  <2>1. c # "none"
    BY DEF Command, Spelling
  <2>2. PICK k \in Key : TypeKey(k)
    BY <2>1 DEF Next, Other, OpenLine, Verified, NoKey, AfterPoweroff, Ignore
  <2>3. Receive(keyboard_map[k]) /\ keyboard_map[k] \in Char
    BY <2>2 DEF TypeKey, Press, Char
  <2>4. isInstalled /\ RunCommand(Append(input_buffer, keyboard_map[k]))
    BY <2>1, <2>3 DEF Receive, Erase, Ignore, CommandLine, SetupPage, MoveCursor
  <2>5. Spells(c, Append(input_buffer, keyboard_map[k]))
    BY <2>4 DEF RunCommand
  <2> QED BY <2>3, <2>4, <2>5, MoveRun
<1> QED BY ShellInit, ShellStep, <1>1, <1>2, <1>3, PTL DEF Spec, MoveCommandsAreEarly

-----------------------------------------------------------------------------
(* What of the line stays is behind what the last command left. *)
Behind ==
  \A n \in 0 .. Len(line) : Stays(line, n) => Len(left) + n <= Len(input_buffer)

BehindInv == ~ BufferFull /\ ~ EndsIn(line, "\n") => Behind

LEMMA LeftFits ==
  ASSUME ShellInv, LeftInv
  PROVE  Len(left) \in Nat /\ Len(input_buffer) \in Nat /\ Len(left) <= Len(input_buffer)
<1>1. Len(left) \in Nat /\ Len(input_buffer) \in Nat
  BY LenProperties DEF ShellInv, ShellTypeOK, KeyboardTypeOK
<1>2. Len(<< >>) = 0
  BY EmptySeq
<1> QED BY <1>1, <1>2 DEF LeftInv, Heads

LEMMA TypedBehind ==
  ASSUME ShellInv, LeftInv, BehindInv, ~ BufferFull, NEW ch \in Char,
         NEW n \in 0 .. Len(Extended(ch)), Stays(Extended(ch), n)
  PROVE  Len(left) + n <= Len(Append(input_buffer, ch))
<1> DEFINE l == Extended(ch)
<1>1. /\ line \in Seq(Char) /\ Len(line) <= MaxLine /\ input_buffer \in Seq(Char)
      /\ Len(line) \in Nat
  BY LenProperties DEF ShellInv, ShellTypeOK, KeyboardTypeOK
<1>2. Len(left) \in Nat /\ Len(input_buffer) \in Nat /\ Len(left) <= Len(input_buffer)
  BY LeftFits
<1>3. Len(Append(input_buffer, ch)) = Len(input_buffer) + 1
  BY <1>1, AppendProperties
<1>4. /\ Len(l) \in Nat \ {0} /\ l[Len(l)] = ch
      /\ EndsIn(line, "\n") => Len(l) = 1
      /\ ~ EndsIn(line, "\n")
           => /\ Len(l) <= Len(line) + 1
              /\ \A j \in 1 .. Len(l) - 1 : l[Len(l) - j] = line[Len(line) - (j - 1)]
  BY <1>1, LineEnd
<1>5. \A j \in 0 .. n - 1 : l[Len(l) - j] \notin Taken
  BY DEF Stays
<1>6. n \in 0 .. Len(l)
  OBVIOUS
<1> HIDE DEF l
<1>7. CASE n <= 1
  BY <1>2, <1>3, <1>4, <1>6, <1>7
<1>8. CASE n > 1
  <2>1. /\ ~ EndsIn(line, "\n") /\ n - 1 \in 0 .. Len(line)
        /\ \A j \in 1 .. Len(l) - 1 : l[Len(l) - j] = line[Len(line) - (j - 1)]
    BY <1>1, <1>4, <1>6, <1>8
  <2>2. Stays(line, n - 1)
    <3> SUFFICES ASSUME NEW j \in 0 .. (n - 1) - 1 PROVE line[Len(line) - j] \notin Taken
      BY DEF Stays
    <3>1. j + 1 \in 1 .. Len(l) - 1 /\ j + 1 \in 0 .. n - 1 /\ (j + 1) - 1 = j
      BY <1>4, <1>6
    <3>2. l[Len(l) - (j + 1)] = line[Len(line) - ((j + 1) - 1)]
      BY <2>1, <3>1, Zenon
    <3>3. l[Len(l) - (j + 1)] \notin Taken
      BY <1>5, <3>1, Zenon
    <3> QED BY <3>1, <3>2, <3>3
  <2>3. Len(left) + (n - 1) <= Len(input_buffer)
    BY <2>1, <2>2 DEF BehindInv, Behind
  <2> QED BY <1>2, <1>3, <1>6, <2>3
<1> QED BY <1>4, <1>6, <1>7, <1>8

LEMMA BehindStep ==
  ASSUME NoBackspace
  PROVE  ShellInv /\ LeftInv /\ LeftInv' /\ BehindInv /\ [Next]_shellVars => BehindInv'
<1> SUFFICES ASSUME ShellInv, LeftInv, LeftInv', BehindInv, [Next]_shellVars
             PROVE  BehindInv'
  OBVIOUS
<1>0. ShellInv'
  BY ShellStep
<1>1. ASSUME NEW k \in Key, TypeKey(k) PROVE BehindInv'
  <2> DEFINE ch == keyboard_map[k]
             t  == Append(input_buffer, ch)
  <2>1. /\ ch \in Char /\ ch # BS /\ line' = Extended(ch) /\ Receive(ch)
        /\ line \in Seq(Char) /\ Len(line) <= MaxLine /\ input_buffer \in Seq(Char)
        /\ left' = IF ran' = "none" THEN left ELSE input_buffer'
    BY <1>1 DEF NoBackspace, TypeKey, Press, Char, ShellInv, ShellTypeOK, KeyboardTypeOK
  <2> HIDE DEF ch
  <2>2. Len(line') \in Nat \ {0} /\ line'[Len(line')] = ch
    BY <2>1, LineEnd
  <2>3. Len(left') \in Nat /\ Len(input_buffer') \in Nat /\ Len(left') <= Len(input_buffer')
    <3>1. Len(left') \in Nat /\ Len(input_buffer') \in Nat
      BY <1>0, LenProperties DEF ShellInv, ShellTypeOK, KeyboardTypeOK
    <3>2. Len(<< >>) = 0
      BY EmptySeq
    <3> QED BY <3>1, <3>2 DEF LeftInv, Heads
  <2>4. CASE ch \in Taken
    <3>1. ASSUME NEW n \in 0 .. Len(line'), Stays(line', n) PROVE n = 0
      <4>1. n > 0 => 0 \in 0 .. n - 1 /\ Len(line') - 0 = Len(line')
        BY <2>2
      <4>2. n > 0 => line'[Len(line')] \notin Taken
        BY <3>1, <4>1 DEF Stays
      <4> QED BY <2>2, <2>4, <4>2
    <3> QED BY <2>3, <3>1 DEF BehindInv, Behind
  <2>5. CASE BufferFull
    BY <2>1, <2>5 DEF Receive, Ignore, BufferFull, BehindInv
  <2>6. CASE ch \notin Taken /\ ~ BufferFull
    <3> SUFFICES ASSUME ch # "\n" PROVE BehindInv'
      <4>1. ch = "\n" => EndsIn(line', "\n")
        <5>1. line' # << >>
          BY <2>2, EmptySeq
        <5> QED BY <2>2, <5>1 DEF EndsIn, Last
      <4> QED BY <4>1 DEF BehindInv
    <3>1. RunCommand(t) \/ MoveCursor(t) \/ SetupPage(ch)
      BY <2>1, <2>6 DEF Receive, CommandLine
    <3>2. ASSUME NEW c \in Command, Spells(c, t) PROVE FALSE
      <4>1. t \in Seq(Char) /\ t[Len(t)] = ch /\ Len(t) \in Nat
        BY <2>1, AppendProperties, LenProperties
      <4>2. Spelling[c][Len(Spelling[c])] = "\n"
        BY Spellings
      <4> HIDE DEF t
      <4>3. /\ Len(Spelling[c]) \in Nat /\ Len(Spelling[c]) >= 3
            /\ \A j \in 0 .. Len(Spelling[c]) - 1 :
                 t[Len(t) - j] = Spelling[c][Len(Spelling[c]) - j]
        BY <3>2, <4>1, CommandEnd
      <4>4. 0 \in 0 .. Len(Spelling[c]) - 1
        BY <4>3
      <4>5. t[Len(t) - 0] = Spelling[c][Len(Spelling[c]) - 0]
        BY <4>3, <4>4, Zenon
      <4>6. Len(t) - 0 = Len(t) /\ Len(Spelling[c]) - 0 = Len(Spelling[c])
        BY <4>1, <4>3
      <4> QED BY <4>1, <4>2, <4>5, <4>6
    <3>3. ASSUME MoveCursor(t) PROVE input_buffer' = t
      <4>1. input_buffer' = Consume(Consume(Consume(Consume(t, "d"), "s"), "w"), "a")
        BY <3>3 DEF MoveCursor
      <4> QED BY <2>1, <2>6, <4>1, LetterStays DEF Taken
    <3>4. input_buffer' = t /\ ran' = "none"
      BY <2>1, <2>6, <3>1, <3>2, <3>3, SetupStays DEF RunCommand, MoveCursor, SetupPage, Taken
    <3>5. ASSUME NEW n \in 0 .. Len(line'), Stays(line', n)
          PROVE  Len(left') + n <= Len(input_buffer')
      BY <2>1, <2>6, <3>4, <3>5, TypedBehind
    <3> QED BY <3>5 DEF BehindInv, Behind
  <2> QED BY <2>4, <2>5, <2>6
<1>2. CASE Other \/ OpenLine \/ Verified
  <2>1. UNCHANGED << input_buffer, line, left >>
    BY <1>2 DEF Other, OpenLine, Verified, NoKey, AfterPoweroff, Ignore
  <2> QED BY <2>1 DEF BehindInv, Behind, BufferFull, Stays, EndsIn, Last
<1>3. CASE UNCHANGED shellVars
  <2>1. UNCHANGED << input_buffer, line, left >>
    BY <1>3 DEF shellVars, keyboardVars
  <2> QED BY <2>1 DEF BehindInv, Behind, BufferFull, Stays, EndsIn, Last
<1> QED BY <1>1, <1>2, <1>3 DEF Next

(* What a step does to what is left. *)
LEMMA LeftGrows ==
  ASSUME NoBackspace, ShellInv, LeftInv, Next
  PROVE  IsPrefix(left, left')
<1>1. left \in Seq(Char) /\ Len(left) \in Nat
  BY LenProperties DEF ShellInv, ShellTypeOK
<1>2. CASE left' = left
  <2>1. Heads(left, left)
    BY <1>1 DEF Heads
  <2> QED BY <1>1, <1>2, <2>1, HeadsIsPrefix
<1>3. ASSUME NEW k \in Key, TypeKey(k), left' # left PROVE IsPrefix(left, left')
  <2> DEFINE ch == keyboard_map[k]
             t  == Append(input_buffer, ch)
  <2>1. /\ ch \in Char /\ Receive(ch) /\ input_buffer \in Seq(Char)
        /\ ran' # "none" /\ left' = input_buffer'
    BY <1>3 DEF TypeKey, Press, Char, ShellInv, ShellTypeOK, KeyboardTypeOK
  <2>2. RunCommand(t)
    BY <2>1 DEF Receive, Erase, Ignore, CommandLine, SetupPage, MoveCursor
  <2>3. PICK c \in Command : Spells(c, t) /\ input_buffer' = SubSeq(t, 1, Len(t) - 2)
    BY <2>2 DEF RunCommand
  <2>4. Heads(left, input_buffer) /\ Len(left) < Len(input_buffer)
    BY <2>1, <2>3, LeftIsShorter
  <2>5. /\ t \in Seq(Char) /\ Len(t) = Len(input_buffer) + 1 /\ Len(input_buffer) \in Nat
        /\ \A j \in 1 .. Len(input_buffer) : t[j] = input_buffer[j]
    BY <2>1, AppendProperties, LenProperties
  <2> HIDE DEF t
  <2>6. Len(t) >= 3
    BY <2>3, <2>5, CommandEnd
  <2>7. /\ SubSeq(t, 1, Len(t) - 2) \in Seq(Char)
        /\ Len(SubSeq(t, 1, Len(t) - 2)) = Len(t) - 2
        /\ \A j \in 1 .. Len(t) - 2 : SubSeq(t, 1, Len(t) - 2)[j] = t[j]
    BY <2>5, <2>6, SubSeqProperties
  <2>8. Heads(left, left')
    BY <1>1, <2>1, <2>3, <2>4, <2>5, <2>7 DEF Heads
  <2> QED BY <1>1, <2>1, <2>3, <2>7, <2>8, HeadsIsPrefix
<1> QED BY <1>2, <1>3 DEF Next, Other, OpenLine, Verified

LEMMA LineLeaves ==
  ASSUME ShellInv, LineInv, LeftInv, BehindInv, NEW k \in Key, TypeKey(k),
         NEW c \in PlainCommand, isInstalled, ~ BufferFull, line' = Spelling[c]
  PROVE  Len(left') > Len(left)
<1> DEFINE ch == keyboard_map[k]
           t  == Append(input_buffer, ch)
<1>1. /\ ch \in Char /\ line' = Extended(ch)
      /\ input_buffer \in Seq(Char) /\ Len(left) \in Nat
  BY LeftFits DEF TypeKey, Press, Char, ShellInv, ShellTypeOK, KeyboardTypeOK
<1>2. ran' = c /\ RunCommand(t) /\ Stays(line', Len(line'))
  BY PlainStep
<1>3. c \in Command /\ c # "none"
  BY DEF PlainCommand, Command, Spelling
<1>4. Len(line') \in Nat /\ Len(line') >= 3
  BY <1>3, SpellingEnds
<1>5. Len(left) + Len(line') <= Len(t)
  <2>1. Len(line') \in 0 .. Len(line')
    BY <1>4
  <2> QED BY <1>1, <1>2, <2>1, TypedBehind
<1>6. t \in Seq(Char) /\ Len(t) \in Nat
  BY <1>1, AppendProperties, LenProperties
<1>7. left' = input_buffer' /\ input_buffer' = SubSeq(t, 1, Len(t) - 2)
  BY <1>2, <1>3 DEF TypeKey, RunCommand
<1> HIDE DEF t
<1>8. Len(SubSeq(t, 1, Len(t) - 2)) = Len(t) - 2
  BY <1>1, <1>4, <1>5, <1>6, SubSeqProperties
<1> QED BY <1>1, <1>4, <1>5, <1>6, <1>7, <1>8

(* With a keyboard map without a backspace: no character that a command    *)
(* left in the buffer is ever taken back, and each plain command typed as  *)
(* a line leaves more of them, for every buffer size.                      *)
THEOREM WearSafety == NoBackspace => (Spec => BufferWearsOut)
<1> SUFFICES ASSUME NoBackspace PROVE Spec => BufferWearsOut
  OBVIOUS
<1>1. Init => LineInv /\ LeftInv /\ BehindInv
  <2> SUFFICES ASSUME Init PROVE AsTyped /\ LeftInv /\ Behind
    BY DEF LineInv, BehindInv
  <2>1. line = << >> /\ input_buffer = << >> /\ left = << >> /\ Len(<< >>) = 0
    BY EmptySeq DEF Init, InitKeyboard
  <2> QED BY <2>1 DEF Init, AsTyped, EndAlike, Behind, LeftInv
<1>2. ShellInv /\ LeftInv /\ [Next]_shellVars => LeftInv'
  BY LeftStep
<1>3. ShellInv /\ LeftInv /\ LeftInv' /\ BehindInv /\ [Next]_shellVars => BehindInv'
  BY BehindStep
<1>4. ShellInv /\ LineInv /\ LeftInv /\ BehindInv /\ [Next]_shellVars
        => [/\ IsPrefix(left, left')
            /\ \A c \in PlainCommand :
                 isInstalled /\ ~ BufferFull /\ line' = Spelling[c] /\ line' # line
                   => Len(left') > Len(left)]_shellVars
  <2> SUFFICES ASSUME ShellInv, LineInv, LeftInv, BehindInv, Next
               PROVE  /\ IsPrefix(left, left')
                      /\ \A c \in PlainCommand :
                           isInstalled /\ ~ BufferFull /\ line' = Spelling[c] /\ line' # line
                             => Len(left') > Len(left)
    OBVIOUS
  <2>1. IsPrefix(left, left')
    BY LeftGrows
  <2>2. ASSUME NEW c \in PlainCommand, isInstalled, ~ BufferFull, line' = Spelling[c],
               line' # line
        PROVE  Len(left') > Len(left)
    <3>1. PICK k \in Key : TypeKey(k)
      BY <2>2 DEF Next, Other, OpenLine, Verified
    <3> QED BY <2>2, <3>1, LineLeaves
  <2> QED BY <2>1, <2>2
<1> QED BY ShellInit, ShellStep, LineStep, <1>1, <1>2, <1>3, <1>4, PTL
       DEF Spec, BufferWearsOut
=============================================================================
