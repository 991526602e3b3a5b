----------------------------- MODULE TextProofs ------------------------------
(***************************************************************************)
(* Proofs about the text of the screens (Text.tla), for every scene, any   *)
(* lengths of the lines and any keys: the types, that a glyph after a      *)
(* quiet one is on its row again, that a page without a key is as laid out *)
(* and that it fits the screen if its rows do.                             *)
(***************************************************************************)
EXTENDS Text, SequenceTheorems, TLAPS

-----------------------------------------------------------------------------
(***************************************************************************)
(* The inductive invariants, with a clause for every place in the code.    *)
(***************************************************************************)
Positions == [x : 0 .. scene.width + 4, y : Nat, new : {0, 1}, counter : Nat \ {0}]

PlaceOK ==
  /\ scene \in Scenes /\ page \in DOMAIN scene.pages
  /\ line \in DOMAIN Lines /\ col \in 0 .. Lines[line] /\ top \in Nat
CodeOK ==
  /\ block \in DOMAIN Code \cup {"done"} /\ row \in 0 .. 7 /\ reg \in Nat
  /\ IF block = "done" THEN step = 1 ELSE step \in DOMAIN Code[block]
RestOK ==
  /\ echo \in Seq({"c", "\n"}) /\ keys \in 0 .. scene.keys
  /\ disturbed \in BOOLEAN /\ quiet \in 0 .. 2

(* A glyph whose row was tested begins at the last pixel but one at most,  *)
(* as far right as the routine leaves a position.  Only a glyph is drawn,  *)
(* and only at the end of a line nothing is.                               *)
InRow ==
  /\ \/ block = "row"
     \/ block = "advance" /\ step <= 2
     \/ block = "full" /\ step >= 2
     => p.x <= scene.width - 2
  /\ block = "advance" /\ step = 2 => reg <= scene.width - 2 /\ reg % 6 = 0
  /\ block \in {"row", "advance", "place"} => col > 0
  /\ block = "newline" => col = 0

(* The routine draws for a key that is counted.                            *)
Undisturbed == echo # << >> => disturbed /\ quiet = 0

TypeInv ==
  PlaceOK /\ CodeOK /\ p \in Positions /\ p.x % 6 = 0 /\ RestOK /\ InRow /\ Undisturbed

Breaking == block \in {"full", "newline"}

(* The position is on the row that is due, with or without the lift; and   *)
(* after a break that has moved y and not yet counted.                     *)
Due == p.y \in {9 * p.counter, 9 * (p.counter - 1)}
Lagging == p.y \in {9 * p.counter, 9 * (p.counter + 1)}

(* A character finds the position due if no key came since the glyph       *)
(* before it was begun; what its instructions do to that, step by step.    *)
HealInv ==
  /\ p.new = 0 => p.counter = 1 \/ (block = "reset" /\ step = 4)
  /\ Breaking /\ step >= 5 => p.new = 1
  /\ (IF block # "done" /\ col > 0 THEN quiet = 2 ELSE quiet >= 1) =>
       /\ block \in {"done", "test"} => Due
       /\ Breaking => /\ step <= 3 => Due
                      /\ step = 3 => reg = p.y
                      /\ step >= 4 => Lagging
                      /\ step = 6 => reg = p.counter
       /\ block = "row" /\ row = 0 /\ step = 1 => Due
  /\ quiet >= 1 =>
       /\ block = "advance" /\ step = 4 => p.y = 0
       /\ block = "place" => /\ step <= 2 => p.y = 0
                             /\ step >= 2 => reg = 9 * p.counter
       /\ block = "reset" => /\ step >= 3 => p.y = 0
                             /\ step = 4 => p.new = 0

(* Where the glyph under way is due, and the row of the line's end that    *)
(* is; whether glyphs below the first row came before the character under  *)
(* way and before the next one; whether the position is past the row's     *)
(* end.                                                                    *)
DueX == 6 * ((col - 1) % PerRow)
DueRow == IF col = 0 THEN top - 1 ELSE Row(col - 1)
Lift == IF Lowered(IF col = 0 THEN 0 ELSE col - 1) THEN 1 ELSE 0
LiftNext == IF Lowered(col) THEN 1 ELSE 0
Wraps == IF Full(p.x) THEN 1 ELSE 0

(* What the instruction and the place in the page have to do with each     *)
(* other, keys or not.                                                     *)
LineInv ==
  /\ line = 1 <=> top = 0
  /\ col = 0 /\ (block = "test" \/ Breaking) => line > 1
  /\ block # "row" => row = 0

(* Without a key the position is known at every instruction.               *)
LaidInv ==
  ~ disturbed =>
    /\ block # "reset" /\ ~ (Breaking /\ step >= 5) => (p.new = 1 <=> p.counter > 1)
    /\ block = "done" =>
         /\ p.x = IF col = 0 THEN 0 ELSE DueX + 6
         /\ p.counter = 1 + IF col = 0 THEN top ELSE DueRow
         /\ p.y = 9 * (p.counter - 1 + LiftNext)
    /\ block = "test" =>
         /\ p.counter + Wraps = DueRow + 1
         /\ p.y = 9 * (p.counter - 1 + Lift)
         /\ col > 0 => DueX = IF Wraps = 1 THEN 0 ELSE p.x
    /\ block = "full" => p.counter = DueRow /\ (col > 0 => DueX = 0)
    /\ block = "newline" => p.counter = top
    /\ Breaking =>
         /\ step >= 2 => p.x = 0
         /\ step <= 3 => p.y = 9 * (p.counter - 1 + Lift)
         /\ step = 3 => reg = p.y
         /\ step >= 4 => p.y = 9 * (p.counter + Lift)
         /\ step >= 5 => p.new = 1
         /\ step = 6 => reg = p.counter
    /\ block \in {"row", "advance", "place"} => p.counter = DueRow + 1
    /\ block = "row" =>
         /\ p.x = DueX /\ p.y = 9 * (DueRow + Lift) + row
         /\ step = 3 => reg = p.y
    /\ block = "advance" =>
         /\ p.x = IF step <= 2 THEN DueX ELSE DueX + 6
         /\ step = 2 => reg = p.x
         /\ step = 4 => p.y = 0
    /\ block = "place" =>
         /\ p.x = DueX + 6 /\ p.new = 1
         /\ step <= 2 => p.y = 0
         /\ step >= 2 => reg = 9 * p.counter
    /\ block = "reset" =>
         /\ line = 1 /\ col = 0
         /\ step >= 2 => p.x = 0
         /\ step >= 3 => p.y = 0
         /\ step = 4 => p.new = 0

(* What the scenes are asked: the rows of their pages fit the screen.      *)
FittingPages ==
  \A s \in Scenes : \A g \in DOMAIN s.pages :
    \E tops \in [DOMAIN s.pages[g] -> Nat] : FittingRows(s, s.pages[g], tops)

(* top is what those rows say.                                             *)
FitInv ==
  \E tops \in [DOMAIN Lines -> Nat] : FittingRows(scene, Lines, tops) /\ top = tops[line]

-----------------------------------------------------------------------------
(***************************************************************************)
(* What a step does.                                                       *)
(***************************************************************************)
(* The widths, pages and lines of a scene. *)
LEMMA Machine ==
  ASSUME scene \in Scenes, page \in DOMAIN scene.pages
  PROVE  /\ scene.width \in Nat /\ scene.width > 8 /\ scene.keys \in Nat
         /\ Lines \in Seq(Nat) /\ Len(Lines) \in Nat \ {0}
         /\ DOMAIN Lines = 1 .. Len(Lines)
         /\ scene.pages \in Seq(Seq(Nat)) /\ Len(scene.pages) \in Nat \ {0}
         /\ DOMAIN scene.pages = 1 .. Len(scene.pages)
<1>1. scene.width \in Nat /\ scene.width > 8 /\ scene.keys \in Nat
  BY TextAssumption
<1>2. scene.pages \in Seq(Seq(Nat) \ {<< >>}) \ {<< >>}
  BY TextAssumption
<1>3. scene.pages[page] \in Seq(Nat) \ {<< >>}
  BY <1>2, ElementOfSeq
<1> QED
  <2>1. Lines \in Seq(Nat) /\ Lines # << >>
    BY <1>3 DEF Lines
  <2>2. scene.pages \in Seq(Seq(Nat)) /\ scene.pages # << >>
    BY <1>2
  <2> QED
    BY <1>1, <2>1, <2>2

Pos(x, y, new, counter) == [x |-> x, y |-> y, new |-> new, counter |-> counter]

(* What an instruction stores and loads. *)
LEMMA Steps ==
  ASSUME TypeOK, Instruction
  PROVE  /\ block = "test" => p' = p /\ reg' = reg
         /\ Breaking =>
              /\ step = 1 => p' = Pos(0, p.y, p.new, p.counter) /\ reg' = reg
              /\ step = 2 => p' = p /\ reg' = p.y
              /\ step = 3 => p' = Pos(p.x, reg + 9, p.new, p.counter) /\ reg' = reg
              /\ step = 4 => p' = Pos(p.x, p.y, 1, p.counter) /\ reg' = reg
              /\ step = 5 => p' = p /\ reg' = p.counter
              /\ step = 6 => p' = Pos(p.x, p.y, p.new, reg + 1) /\ reg' = reg
         /\ block = "row" =>
              /\ step = 1 => p' = p /\ reg' = reg
              /\ step = 2 => p' = p /\ reg' = p.y
              /\ step = 3 => p' = Pos(p.x, reg + 1, p.new, p.counter) /\ reg' = reg
         /\ block = "advance" =>
              /\ step = 1 => p' = p /\ reg' = p.x
              /\ step = 2 => p' = Pos(reg + 6, p.y, p.new, p.counter) /\ reg' = reg
              /\ step = 3 => p' = Pos(p.x, 0, p.new, p.counter) /\ reg' = reg
              /\ step = 4 => p' = p /\ reg' = reg
         /\ block = "place" =>
              /\ step = 1 => p' = p /\ reg' = 9 * p.counter
              /\ step = 2 => p' = p /\ reg' = reg + p.y
              /\ step = 3 => p' = Pos(p.x, reg, p.new, p.counter) /\ reg' = reg
         /\ block = "reset" =>
              /\ step = 1 => p' = Pos(0, p.y, p.new, p.counter) /\ reg' = reg
              /\ step = 2 => p' = Pos(p.x, 0, p.new, p.counter) /\ reg' = reg
              /\ step = 3 => p' = Pos(p.x, p.y, 0, p.counter) /\ reg' = reg
              /\ step = 4 => p' = Pos(p.x, p.y, p.new, 1) /\ reg' = reg
<1> DEFINE op == Code[block][step]
<1>1. p' = Stored(op) /\ reg' = Loaded(op)
  BY DEF Instruction
<1>2. /\ Code.test = << "full?" >> /\ Code.full = Break /\ Code.newline = Break
      /\ Code.row = << "plot", "reg=y", "y=reg+1" >> /\ Code.advance = Advance
      /\ Code.place = << "reg=9*counter", "reg+=y", "y=reg" >>
      /\ Code.reset = reset_text_position
  BY DEF Code
<1> HIDE DEF op
<1>3. /\ op = "x=0" => p' = Pos(0, p.y, p.new, p.counter) /\ reg' = reg
      /\ op = "y=0" => p' = Pos(p.x, 0, p.new, p.counter) /\ reg' = reg
      /\ op = "new=0" => p' = Pos(p.x, p.y, 0, p.counter) /\ reg' = reg
      /\ op = "new=1" => p' = Pos(p.x, p.y, 1, p.counter) /\ reg' = reg
      /\ op = "counter=1" => p' = Pos(p.x, p.y, p.new, 1) /\ reg' = reg
      /\ op = "x=reg+6" => p' = Pos(reg + 6, p.y, p.new, p.counter) /\ reg' = reg
      /\ op = "y=reg+1" => p' = Pos(p.x, reg + 1, p.new, p.counter) /\ reg' = reg
      /\ op = "y=reg+9" => p' = Pos(p.x, reg + 9, p.new, p.counter) /\ reg' = reg
      /\ op = "y=reg" => p' = Pos(p.x, reg, p.new, p.counter) /\ reg' = reg
      /\ op = "counter=reg+1" => p' = Pos(p.x, p.y, p.new, reg + 1) /\ reg' = reg
      /\ op = "reg=x" => p' = p /\ reg' = p.x
      /\ op = "reg=y" => p' = p /\ reg' = p.y
      /\ op = "reg=counter" => p' = p /\ reg' = p.counter
      /\ op = "reg=9*counter" => p' = p /\ reg' = 9 * p.counter
      /\ op = "reg+=y" => p' = p /\ reg' = reg + p.y
      /\ op \in {"full?", "plot", "new?"} => p' = p /\ reg' = reg
  BY <1>1 DEF Stored, Loaded, Pos, TypeOK
<1>4. CASE block = "test"
  <2>1. /\ step = 1 => op = "full?"
    BY <1>2, <1>4 DEF op
  <2>2. step = 1
    BY <1>2, <1>4 DEF TypeOK
  <2> QED
    BY <1>3, <1>4, <2>1, <2>2 DEF Breaking
<1>5. CASE Breaking
  <2>1. /\ step = 1 => op = "x=0"
        /\ step = 2 => op = "reg=y"
        /\ step = 3 => op = "y=reg+9"
        /\ step = 4 => op = "new=1"
        /\ step = 5 => op = "reg=counter"
        /\ step = 6 => op = "counter=reg+1"
    BY <1>2, <1>5 DEF Breaking, Break, op
  <2> QED
    BY <1>3, <1>5, <2>1 DEF Breaking
<1>6. CASE block = "row"
  <2>1. /\ step = 1 => op = "plot"
        /\ step = 2 => op = "reg=y"
        /\ step = 3 => op = "y=reg+1"
    BY <1>2, <1>6 DEF op
  <2> QED
    BY <1>3, <1>6, <2>1 DEF Breaking
<1>7. CASE block = "advance"
  <2>1. /\ step = 1 => op = "reg=x"
        /\ step = 2 => op = "x=reg+6"
        /\ step = 3 => op = "y=0"
        /\ step = 4 => op = "new?"
    BY <1>2, <1>7 DEF Advance, op
  <2> QED
    BY <1>3, <1>7, <2>1 DEF Breaking
<1>8. CASE block = "place"
  <2>1. /\ step = 1 => op = "reg=9*counter"
        /\ step = 2 => op = "reg+=y"
        /\ step = 3 => op = "y=reg"
    BY <1>2, <1>8 DEF op
  <2> QED
    BY <1>3, <1>8, <2>1 DEF Breaking
<1>9. CASE block = "reset"
  <2>1. /\ step = 1 => op = "x=0"
        /\ step = 2 => op = "y=0"
        /\ step = 3 => op = "new=0"
        /\ step = 4 => op = "counter=1"
    BY <1>2, <1>9 DEF reset_text_position, op
  <2> QED
    BY <1>3, <1>9, <2>1 DEF Breaking
<1> QED
  BY <1>4, <1>5, <1>6, <1>7, <1>8, <1>9

(* The lengths of the blocks. *)
LEMMA Blocks ==
  /\ DOMAIN Code = {"test", "full", "newline", "row", "advance", "place", "reset"}
  /\ Len(Code.test) = 1 /\ DOMAIN Code.test = 1 .. 1
  /\ Len(Code.full) = 6 /\ DOMAIN Code.full = 1 .. 6
  /\ Len(Code.newline) = 6 /\ DOMAIN Code.newline = 1 .. 6
  /\ Len(Code.row) = 3 /\ DOMAIN Code.row = 1 .. 3
  /\ Len(Code.advance) = 4 /\ DOMAIN Code.advance = 1 .. 4
  /\ Len(Code.place) = 3 /\ DOMAIN Code.place = 1 .. 3
  /\ Len(Code.reset) = 4 /\ DOMAIN Code.reset = 1 .. 4
BY DEF Code, Break, Advance, reset_text_position

(* Where the next instruction is. *)
LEMMA Turns ==
  ASSUME TypeOK, Instruction
  PROVE  /\ echo = << >> /\ UNCHANGED << place, echo, keys, disturbed, quiet >>
         /\ block = "test" =>
              /\ step = 1 /\ step' = 1 /\ row' = row
              /\ block' = IF Full(p.x) THEN "full" ELSE IF col = 0 THEN "newline" ELSE "row"
         /\ Breaking =>
              /\ step \in 1 .. 6 /\ row' = row
              /\ IF step < 6 THEN step' = step + 1 /\ block' = block
                 ELSE /\ step' = 1
                      /\ block' = IF block = "newline" THEN "done"
                                  ELSE IF col = 0 THEN "newline" ELSE "row"
         /\ block = "row" =>
              /\ step \in 1 .. 3
              /\ IF step < 3 THEN step' = step + 1 /\ block' = block /\ row' = row
                 ELSE /\ step' = 1
                      /\ IF row < 7 THEN block' = "row" /\ row' = row + 1
                         ELSE block' = "advance" /\ row' = 0
         /\ block = "advance" =>
              /\ step \in 1 .. 4 /\ row' = row
              /\ IF step < 4 THEN step' = step + 1 /\ block' = block
                 ELSE step' = 1 /\ block' = IF p.new = 1 THEN "place" ELSE "done"
         /\ block = "place" =>
              /\ step \in 1 .. 3 /\ row' = row
              /\ IF step < 3 THEN step' = step + 1 /\ block' = block
                 ELSE step' = 1 /\ block' = "done"
         /\ block = "reset" =>
              /\ step \in 1 .. 4 /\ row' = row
              /\ IF step < 4 THEN step' = step + 1 /\ block' = block
                 ELSE step' = 1 /\ block' = "done"
<1>3. ch = "\n" <=> col = 0
  BY DEF ch
<1>4. /\ IF step < Len(Code[block])
         THEN step' = step + 1 /\ UNCHANGED << block, row >>
         ELSE step' = 1 /\ block' = Following
              /\ row' = IF block = "row" THEN (row + 1) % 8 ELSE row
      /\ block # "done"
  BY DEF Instruction, Goto
<1>5. block # "done" => step \in DOMAIN Code[block]
  BY DEF TypeOK
<1>6. row \in 0 .. 7
  BY DEF TypeOK
<1>7. echo = << >> /\ UNCHANGED << place, echo, keys, disturbed, quiet >>
  BY DEF Instruction
<1>8. CASE block = "test"
  <2>1. Following = IF Full(p.x) THEN "full" ELSE IF col = 0 THEN "newline" ELSE "row"
    BY <1>3, <1>8 DEF Following
  <2>2. step = 1 /\ Len(Code[block]) = 1
    BY Blocks, <1>5, <1>8
  <2> QED
    BY <1>4, <1>7, <1>8, <2>1, <2>2 DEF Breaking
<1>9. CASE Breaking
  BY Blocks, <1>3, <1>4, <1>5, <1>7, <1>9 DEF Following, Breaking
<1>10. CASE block = "row"
  <2>1. Following = IF row < 7 THEN "row" ELSE "advance"
    BY <1>10 DEF Following
  <2>2. (row + 1) % 8 = IF row < 7 THEN row + 1 ELSE 0
    BY <1>6
  <2>3. step \in 1 .. 3 /\ Len(Code[block]) = 3
    BY Blocks, <1>5, <1>10
  <2> QED
    BY <1>4, <1>7, <1>10, <2>1, <2>2, <2>3 DEF Breaking
<1>11. CASE block = "advance"
  BY Blocks, <1>4, <1>5, <1>7, <1>11 DEF Following, Breaking
<1>12. CASE block = "place"
  BY Blocks, <1>4, <1>5, <1>7, <1>12 DEF Following, Breaking
<1>13. CASE block = "reset"
  BY Blocks, <1>4, <1>5, <1>7, <1>13 DEF Following, Breaking
<1>14. block \in {"test", "full", "newline", "row", "advance", "place", "reset"}
  BY <1>4, Blocks DEF TypeOK
<1> QED
  BY <1>8, <1>9, <1>10, <1>11, <1>12, <1>13, <1>14 DEF Breaking

LEMMA PosFields ==
  ASSUME NEW x, NEW y, NEW new, NEW counter
  PROVE  LET q == Pos(x, y, new, counter)
         IN  q.x = x /\ q.y = y /\ q.new = new /\ q.counter = counter
BY DEF Pos

(* The routine, drawing a character whole, leaves a position. *)
LEMMA CharPlaced ==
  ASSUME scene.width \in Nat, scene.width > 8, NEW c,
         NEW q \in Positions, q.x % 6 = 0
  PROVE  LET r == PutChar(q, c)
         IN  /\ r \in Positions /\ r.x % 6 = 0 /\ r.x <= scene.width - 2
             /\ r.new = 0 => q.new = 0 /\ r.counter = q.counter
<1> DEFINE a == IF Full(q.x) THEN Broken(q) ELSE q
<1>1. a \in Positions /\ a.x % 6 = 0 /\ a.x <= scene.width - 8
  BY DEF Positions, Full, Broken
<1>2. a.new = 0 => q.new = 0 /\ a.counter = q.counter
  BY DEF Positions, Broken
<1> HIDE DEF a
<1>3. Broken(a) \in Positions /\ Broken(a).x = 0 /\ Broken(a).new = 1
  BY <1>1 DEF Positions, Broken
<1>4. /\ Drawn(a) \in Positions /\ Drawn(a).x = a.x + 6
      /\ Drawn(a).new = a.new /\ Drawn(a).counter = a.counter
  <2>1. Drawn(a) = Pos(a.x + 6, IF a.new = 1 THEN 9 * a.counter ELSE 0, a.new, a.counter)
    BY DEF Drawn, Pos
  <2> QED
    BY <1>1, <2>1 DEF Positions, Pos
<1>5. PutChar(q, c) = IF c = "\n" THEN Broken(a) ELSE Drawn(a)
  BY DEF PutChar, a
<1>6. (a.x + 6) % 6 = 0 /\ a.x \in Nat
  BY <1>1 DEF Positions
<1> QED
  BY <1>1, <1>2, <1>3, <1>4, <1>5, <1>6

-----------------------------------------------------------------------------
(***************************************************************************)
(* Types.                                                                  *)
(***************************************************************************)
LEMMA TypesHold == TypeInv => TypeOK
BY DEF TypeInv, TypeOK, PlaceOK, CodeOK, Positions, RestOK

LEMMA TypeInit == Init => TypeInv
<1> SUFFICES ASSUME Init PROVE TypeInv
  OBVIOUS
<1>1. scene \in Scenes /\ page \in DOMAIN scene.pages
  <2>1. scene.pages \in Seq(Seq(Nat) \ {<< >>}) \ {<< >>}
    BY TextAssumption DEF Init
  <2> QED
    BY <2>1 DEF Init
<1>2. PlaceOK
  <2>1. line \in DOMAIN Lines /\ Lines[line] \in Nat
    BY <1>1, Machine DEF Init
  <2> QED
    BY <1>1, <2>1 DEF Init, PlaceOK
<1>3. p \in Positions /\ p.x % 6 = 0
  BY <1>1, Machine DEF Init, Positions
<1>4. RestOK
  <2>1. << >> \in Seq({"c", "\n"})
    BY EmptySeq
  <2> QED
    <3>1. scene.keys \in Nat
      BY <1>1, Machine
    <3>2. keys \in 0 .. scene.keys /\ quiet \in 0 .. 2
      BY <3>1 DEF Init
    <3>3. echo \in Seq({"c", "\n"}) /\ disturbed \in BOOLEAN
      BY <2>1 DEF Init
    <3> QED
      BY <3>2, <3>3 DEF RestOK
<1>5. CodeOK /\ InRow /\ Undisturbed
  BY DEF Init, CodeOK, InRow, Undisturbed
<1> QED
  BY <1>2, <1>3, <1>4, <1>5 DEF TypeInv

LEMMA TypeStep == TypeInv /\ [Next]_vars => TypeInv'
<1> SUFFICES ASSUME TypeInv, [Next]_vars PROVE TypeInv'
  OBVIOUS
<1>0. /\ TypeOK /\ PlaceOK /\ CodeOK /\ p \in Positions /\ p.x % 6 = 0
      /\ RestOK /\ InRow /\ Undisturbed
  BY TypesHold DEF TypeInv
<1>w. /\ scene.width \in Nat /\ scene.width > 8
      /\ reg \in Nat /\ col \in Nat
  BY <1>0, Machine DEF PlaceOK, CodeOK
<1>p. /\ p.x \in 0 .. scene.width + 4 /\ p.y \in Nat
      /\ p.new \in {0, 1} /\ p.counter \in Nat \ {0}
  BY <1>0 DEF Positions
<1> SUFFICES /\ PlaceOK' /\ CodeOK' /\ (p \in Positions)' /\ (p.x % 6 = 0)' /\ RestOK'
             /\ InRow' /\ Undisturbed'
  BY DEF TypeInv
<1>1. CASE Instruction
  <2>1. /\ echo = << >> /\ echo' = echo /\ keys' = keys /\ quiet' = quiet
        /\ scene' = scene /\ page' = page /\ line' = line /\ col' = col /\ top' = top
        /\ disturbed' = disturbed
    BY <1>0, <1>1, Turns DEF place
  <2>2. PlaceOK' /\ RestOK' /\ Undisturbed'
    BY <1>0, <2>1 DEF PlaceOK, Lines, RestOK, Undisturbed
  <2>3. Positions' = Positions
    BY <2>1 DEF Positions
  <2>4. (p \in Positions)' /\ (p.x % 6 = 0)' /\ CodeOK' /\ InRow'
    <3>1. CASE block = "test"
      <4>1. CodeOK'
        BY <1>0, <1>1, <3>1, Steps, Turns, Blocks DEF CodeOK
      <4>2. p' \in Positions /\ p'.x % 6 = 0
        BY <1>0, <1>1, <3>1, Steps
      <4>3. InRow'
        BY <1>0, <1>1, <1>w, <1>p, <2>1, <3>1, Steps, Turns DEF InRow, Full
      <4> QED
        BY <2>3, <4>1, <4>2, <4>3
    <3>2. CASE Breaking
      <4>1. CodeOK'
        <5>1. reg' \in Nat
          BY <1>0, <1>1, <1>w, <1>p, <3>2, Steps, Turns
        <5> QED
          BY <1>0, <1>1, <3>2, <5>1, Turns, Blocks DEF CodeOK, Breaking
      <4>2. p' \in Positions /\ p'.x % 6 = 0
        <5>1. CASE step = 1
          BY <1>0, <1>1, <1>w, <3>2, <5>1, Steps DEF Positions, Pos
        <5>2. CASE step = 2
          BY <1>0, <1>1, <3>2, <5>2, Steps
        <5>3. CASE step = 3
          BY <1>0, <1>1, <1>w, <3>2, <5>3, Steps DEF Positions, Pos
        <5>4. CASE step = 4
          BY <1>0, <1>1, <3>2, <5>4, Steps DEF Positions, Pos
        <5>5. CASE step = 5
          BY <1>0, <1>1, <3>2, <5>5, Steps
        <5>6. CASE step = 6
          BY <1>0, <1>1, <1>w, <3>2, <5>6, Steps DEF Positions, Pos
        <5> QED
          BY <1>0, <1>1, <3>2, <5>1, <5>2, <5>3, <5>4, <5>5, <5>6, Turns
      <4>3. InRow'
        BY <1>0, <1>1, <1>w, <2>1, <3>2, Steps, Turns, PosFields DEF InRow, Breaking
      <4> QED
        BY <2>3, <4>1, <4>2, <4>3
    <3>3. CASE block = "row"
      <4>1. CodeOK'
        BY <1>0, <1>1, <1>p, <3>3, Steps, Turns, Blocks DEF CodeOK
      <4>2. p' \in Positions /\ p'.x % 6 = 0
        BY <1>0, <1>1, <1>w, <3>3, Steps, Turns DEF Pos, Positions
      <4>3. InRow'
        BY <1>0, <1>1, <2>1, <3>3, Steps, Turns, PosFields DEF InRow
      <4> QED
        BY <2>3, <4>1, <4>2, <4>3
    <3>4. CASE block = "advance"
      <4>1. CodeOK'
        BY <1>0, <1>1, <1>p, <3>4, Steps, Turns, Blocks DEF CodeOK
      <4>2. p' \in Positions /\ p'.x % 6 = 0
        <5>1. CASE step = 1
          BY <1>0, <1>1, <3>4, <5>1, Steps
        <5>2. CASE step = 2
          BY <1>0, <1>1, <1>w, <3>4, <5>2, Steps DEF Positions, Pos, InRow
        <5>3. CASE step = 3
          BY <1>0, <1>1, <3>4, <5>3, Steps DEF Positions, Pos
        <5>4. CASE step = 4
          BY <1>0, <1>1, <3>4, <5>4, Steps
        <5> QED
          BY <1>0, <1>1, <3>4, <5>1, <5>2, <5>3, <5>4, Turns
      <4>3. InRow'
        BY <1>0, <1>1, <2>1, <3>4, Steps, Turns DEF InRow
      <4> QED
        BY <2>3, <4>1, <4>2, <4>3
    <3>5. CASE block = "place"
      <4>1. CodeOK'
        BY <1>0, <1>1, <1>p, <3>5, Steps, Turns, Blocks DEF CodeOK
      <4>2. p' \in Positions /\ p'.x % 6 = 0
        BY <1>0, <1>1, <1>w, <3>5, Steps, Turns DEF Pos, Positions
      <4>3. InRow'
        BY <1>0, <1>1, <2>1, <3>5, Turns DEF InRow
      <4> QED
        BY <2>3, <4>1, <4>2, <4>3
    <3>6. CASE block = "reset"
      <4>1. CodeOK'
        BY <1>0, <1>1, <3>6, Steps, Turns, Blocks DEF CodeOK
      <4>2. p' \in Positions /\ p'.x % 6 = 0
        BY <1>0, <1>1, <1>w, <3>6, Steps, Turns DEF Pos, Positions
      <4>3. InRow'
        BY <1>0, <1>1, <3>6, Turns DEF InRow
      <4> QED
        BY <2>3, <4>1, <4>2, <4>3
    <3> QED
      BY <1>0, <1>1, <3>1, <3>2, <3>3, <3>4, <3>5, <3>6, Blocks
         DEF CodeOK, Instruction, Breaking
  <2> QED
    BY <2>2, <2>4
<1>2. CASE NextGlyph
  <2>1. PlaceOK'
    <3>1. Lines' = Lines /\ Lines[line] \in Nat
      BY <1>0, <1>2, Machine, ElementOfSeq DEF NextGlyph, PlaceOK, Lines
    <3> QED
      BY <1>0, <1>2, <3>1 DEF NextGlyph, PlaceOK
  <2>2. CodeOK' /\ InRow' /\ Undisturbed'
    BY <1>0, <1>2, Blocks DEF NextGlyph, Goto, Idle, CodeOK, InRow, Undisturbed
  <2>3. RestOK' /\ (p \in Positions)' /\ (p.x % 6 = 0)'
    BY <1>0, <1>2 DEF NextGlyph, RestOK, Positions
  <2> QED
    BY <2>1, <2>2, <2>3
<1>3. CASE NextLine
  <2>1. PlaceOK'
    <3>1. (line + 1) \in DOMAIN Lines /\ Lines[line + 1] \in Nat /\ Lines' = Lines
      <4>1. /\ Lines \in Seq(Nat) /\ DOMAIN Lines = 1 .. Len(Lines)
            /\ Len(Lines) \in Nat /\ line \in 1 .. Len(Lines)
        BY <1>0, Machine DEF PlaceOK
      <4>2. Lines' = Lines /\ line < Len(Lines)
        BY <1>3 DEF NextLine, Lines
      <4> QED
        BY <4>1, <4>2, ElementOfSeq
    <3>2. PerRow \in Nat \ {0}
      BY <1>w DEF PerRow, GlyphsIn
    <3>3. (top + (col \div PerRow) + 1) \in Nat
      BY <1>0, <3>2 DEF PlaceOK
    <3> QED
      BY <1>0, <1>3, <3>1, <3>3 DEF NextLine, PlaceOK
  <2>2. CodeOK' /\ InRow' /\ Undisturbed'
    BY <1>0, <1>3, Blocks DEF NextLine, Goto, CodeOK, InRow, Undisturbed
  <2>3. RestOK' /\ (p \in Positions)' /\ (p.x % 6 = 0)'
    BY <1>0, <1>3 DEF NextLine, RestOK, Positions
  <2> QED
    BY <2>1, <2>2, <2>3
<1>4. CASE NextPage
  <2>1. PlaceOK'
    <3>1. scene' = scene /\ page' \in DOMAIN scene.pages
      BY <1>0, <1>4, Machine DEF NextPage, PlaceOK
    <3>2. 1 \in DOMAIN Lines' /\ Lines'[1] \in Nat
      <4>1. scene.pages \in Seq(Seq(Nat) \ {<< >>})
        BY <1>0, TextAssumption DEF PlaceOK
      <4>2. Lines' \in Seq(Nat) \ {<< >>}
        BY <3>1, <4>1 DEF Lines
      <4> QED
        BY <4>2
    <3> QED
      BY <1>0, <1>4, <3>1, <3>2 DEF NextPage, PlaceOK
  <2>2. CodeOK' /\ InRow' /\ Undisturbed'
    BY <1>0, <1>4, Blocks DEF NextPage, Goto, AtEnd, Idle, CodeOK, InRow, Undisturbed
  <2>3. RestOK' /\ (p \in Positions)' /\ (p.x % 6 = 0)'
    BY <1>0, <1>4 DEF NextPage, RestOK, Positions
  <2> QED
    BY <2>1, <2>2, <2>3
<1>5. CASE Echo
  <2>1. RestOK' /\ Undisturbed'
    <3>1. echo' \in Seq({"c", "\n"})
      BY <1>5, TextAssumption DEF Echo
    <3>2. scene' = scene /\ keys' \in 0 .. scene.keys
      BY <1>0, <1>5, Machine DEF Echo, RestOK, place, PlaceOK
    <3> QED
      BY <1>5, <3>1, <3>2 DEF Echo, RestOK, Undisturbed
  <2>2. PlaceOK' /\ CodeOK' /\ InRow' /\ (p \in Positions)' /\ (p.x % 6 = 0)'
    BY <1>0, <1>5 DEF Echo, PlaceOK, Lines, CodeOK, InRow, Positions, place, code
  <2> QED
    BY <2>1, <2>2
<1>6. CASE EchoChar
  <2>1. RestOK' /\ Undisturbed'
    BY <1>0, <1>6 DEF EchoChar, RestOK, Undisturbed, place
  <2>2. PlaceOK' /\ CodeOK'
    BY <1>0, <1>6 DEF EchoChar, PlaceOK, Lines, CodeOK, place, code
  <2>3. p' \in Positions /\ p'.x % 6 = 0 /\ p'.x <= scene.width - 2
    BY <1>0, <1>6, <1>w, CharPlaced DEF EchoChar
  <2>4. InRow' /\ (p \in Positions)' /\ (p.x % 6 = 0)'
    BY <1>0, <1>6, <2>3 DEF EchoChar, InRow, Positions, place, code
  <2> QED
    BY <2>1, <2>2, <2>4
<1>7. CASE UNCHANGED vars
  BY <1>0, <1>7
     DEF vars, place, code, PlaceOK, Lines, CodeOK, RestOK, InRow, Undisturbed,
         Positions
<1>8. CASE Stay
  BY <1>7, <1>8 DEF Stay
<1> QED
  BY <1>1, <1>2, <1>3, <1>4, <1>5, <1>6, <1>7, <1>8 DEF Next

(* Every variable has its type, whenever keys come between two             *)
(* instructions (TypeOK): no position is further right than two places     *)
(* behind a row's end.                                                     *)
THEOREM TextTypes == Spec => []TypeOK
BY TypeInit, TypeStep, TypesHold, PTL DEF Spec

(* The types of the numbers. *)
LEMMA Numbers ==
  ASSUME TypeInv
  PROVE  /\ scene.width \in Nat /\ scene.width > 8 /\ PerRow \in Nat \ {0}
         /\ line \in Nat \ {0} /\ Lines[line] \in Nat /\ top \in Nat
         /\ reg \in Nat /\ col \in Nat /\ row \in 0 .. 7 /\ quiet \in 0 .. 2
         /\ p.x \in Nat /\ p.y \in Nat /\ p.new \in {0, 1} /\ p.counter \in Nat \ {0}
<1>1. PlaceOK /\ CodeOK /\ RestOK /\ p \in Positions
  BY DEF TypeInv
<1>2. scene.width \in Nat /\ scene.width > 8
  BY <1>1, Machine DEF PlaceOK
<1>3. /\ Lines \in Seq(Nat) /\ Len(Lines) \in Nat /\ line \in 1 .. Len(Lines)
      /\ col \in 0 .. Lines[line]
  BY <1>1, Machine DEF PlaceOK
<1>4. Lines[line] \in Nat
  BY <1>3, ElementOfSeq
<1>5. PerRow \in Nat \ {0}
  BY <1>2 DEF PerRow, GlyphsIn
<1>6. p.x \in Nat /\ p.y \in Nat /\ p.new \in {0, 1} /\ p.counter \in Nat \ {0}
  BY <1>1, <1>2 DEF Positions
<1> QED
  BY <1>1, <1>2, <1>3, <1>4, <1>5, <1>6 DEF PlaceOK, CodeOK, RestOK

-----------------------------------------------------------------------------
(***************************************************************************)
(* The row heals.                                                          *)
(***************************************************************************)
LEMMA HealInit == Init => HealInv
BY DEF Init, HealInv, Due

LEMMA HealStep == TypeInv /\ HealInv /\ [Next]_vars => HealInv'
<1> SUFFICES ASSUME TypeInv, HealInv, [Next]_vars PROVE HealInv'
  OBVIOUS
<1>0. /\ TypeOK /\ PlaceOK /\ CodeOK /\ p \in Positions /\ p.x % 6 = 0
      /\ RestOK /\ Undisturbed
  BY TypesHold DEF TypeInv
<1>w. /\ reg \in Nat /\ col \in Nat /\ row \in 0 .. 7 /\ quiet \in 0 .. 2
      /\ scene.width \in Nat /\ scene.width > 8
  BY Numbers
<1>p. p.x \in Nat /\ p.y \in Nat /\ p.new \in {0, 1} /\ p.counter \in Nat \ {0}
  BY Numbers
<1>g. /\ block \in {"row", "advance", "place"} => col > 0
      /\ block = "newline" => col = 0
  BY DEF TypeInv, InRow
<1>1. CASE Instruction
  <2>a. echo = << >> /\ quiet' = quiet /\ col' = col
    BY <1>0, <1>1, Turns DEF place
  <2>1. CASE block = "test"
    BY <1>0, <1>1, <2>a, <2>1, Steps, Turns DEF HealInv, Due
  <2>2. CASE Breaking
    <3>1. CASE step = 1
      <4>1. /\ p'.y = p.y /\ p'.new = p.new /\ p'.counter = p.counter
            /\ reg' = reg /\ row' = row /\ step' = 2 /\ block' = block
        BY <1>0, <1>1, <2>2, <3>1, Steps, Turns DEF Pos
      <4> QED
        BY <2>a, <2>2, <3>1, <4>1 DEF HealInv, Due, Breaking
    <3>2. CASE step = 2
      <4>1. /\ p'.y = p.y /\ p'.new = p.new /\ p'.counter = p.counter
            /\ reg' = p.y /\ row' = row /\ step' = 3 /\ block' = block
        BY <1>0, <1>1, <2>2, <3>2, Steps, Turns
      <4> QED
        BY <2>a, <2>2, <3>2, <4>1 DEF HealInv, Due, Breaking
    <3>3. CASE step = 3
      <4>1. /\ p'.y = reg + 9 /\ p'.new = p.new /\ p'.counter = p.counter
            /\ reg' = reg /\ row' = row /\ step' = 4 /\ block' = block
        BY <1>0, <1>1, <2>2, <3>3, Steps, Turns DEF Pos
      <4> QED
        BY <1>p, <2>a, <2>2, <3>3, <4>1 DEF HealInv, Due, Lagging, Breaking
    <3>4. CASE step = 4
      <4>1. /\ p'.y = p.y /\ p'.new = 1 /\ p'.counter = p.counter
            /\ reg' = reg /\ row' = row /\ step' = 5 /\ block' = block
        BY <1>0, <1>1, <2>2, <3>4, Steps, Turns DEF Pos
      <4> QED
        BY <2>a, <3>4, <4>1 DEF HealInv, Due, Lagging, Breaking
    <3>5. CASE step = 5
      <4>1. /\ p'.y = p.y /\ p'.new = p.new /\ p'.counter = p.counter
            /\ reg' = p.counter /\ row' = row /\ step' = 6 /\ block' = block
        BY <1>0, <1>1, <2>2, <3>5, Steps, Turns
      <4> QED
        BY <2>a, <2>2, <3>5, <4>1 DEF HealInv, Lagging, Breaking
    <3>6. CASE step = 6
      <4>1. /\ p'.y = p.y /\ p'.new = p.new /\ p'.counter = reg + 1
            /\ reg' = reg /\ row' = row /\ step' = 1
            /\ block' = IF block = "newline" THEN "done"
                        ELSE IF col = 0 THEN "newline" ELSE "row"
        BY <1>0, <1>1, <2>2, <3>6, Steps, Turns DEF Pos
      <4> QED
        BY <1>p, <1>g, <2>a, <2>2, <3>6, <4>1 DEF HealInv, Due, Lagging
    <3> QED
      BY <1>0, <1>1, <2>2, <3>1, <3>2, <3>3, <3>4, <3>5, <3>6, Turns
  <2>3. CASE block = "row"
    <3>1. CASE step = 1
      BY <1>0, <1>1, <2>3, <3>1, Steps, Turns DEF HealInv, Breaking
    <3>2. CASE step = 2
      BY <1>0, <1>1, <2>3, <3>2, Steps, Turns DEF HealInv, Breaking
    <3>3. CASE step = 3
      <4>1. p'.new = p.new /\ p'.counter = p.counter /\ step' = 1
        BY <1>0, <1>1, <2>3, <3>3, Steps, Turns DEF Pos
      <4>2. (block' = "row" /\ row' # 0) \/ block' = "advance"
        BY <1>0, <1>1, <1>w, <2>3, <3>3, Turns
      <4> QED
        BY <3>3, <4>1, <4>2 DEF HealInv, Breaking
    <3> QED
      BY <1>0, <1>1, <2>3, <3>1, <3>2, <3>3, Turns
  <2>4. CASE block = "advance"
    <3>1. CASE step = 1
      BY <1>0, <1>1, <2>4, <3>1, Steps, Turns DEF HealInv, Breaking
    <3>2. CASE step = 2
      BY <1>0, <1>1, <2>4, <3>2, Steps, Turns DEF HealInv, Breaking, Pos
    <3>3. CASE step = 3
      BY <1>0, <1>1, <2>4, <3>3, Steps, Turns DEF HealInv, Breaking, Pos
    <3>4. CASE step = 4
      BY <1>0, <1>1, <1>p, <2>4, Steps, Turns DEF HealInv, Due, Breaking, Pos
    <3> QED
      BY <1>0, <1>1, <2>4, <3>1, <3>2, <3>3, <3>4, Turns
  <2>5. CASE block = "place"
    <3>1. CASE step = 1
      BY <1>0, <1>1, <2>5, <3>1, Steps, Turns DEF HealInv, Breaking
    <3>2. CASE step = 2
      BY <1>0, <1>1, <1>p, <2>5, <3>2, Steps, Turns DEF HealInv, Breaking
    <3>3. CASE step = 3
      BY <1>0, <1>1, <2>5, <3>3, Steps, Turns DEF HealInv, Due, Pos
    <3> QED
      BY <1>0, <1>1, <2>5, <3>1, <3>2, <3>3, Turns
  <2>6. CASE block = "reset"
    <3>1. CASE step = 1
      BY <1>0, <1>1, <2>6, Steps, Turns DEF HealInv, Due, Breaking, Pos
    <3>2. CASE step = 2
      BY <1>0, <1>1, <2>6, Steps, Turns DEF HealInv, Due, Breaking, Pos
    <3>3. CASE step = 3
      BY <1>0, <1>1, <2>6, Steps, Turns DEF HealInv, Due, Breaking, Pos
    <3>4. CASE step = 4
      BY <1>0, <1>1, <2>6, <3>4, Steps, Turns DEF HealInv, Due, Pos
    <3> QED
      BY <1>0, <1>1, <2>6, <3>1, <3>2, <3>3, <3>4, Turns
  <2> QED
    BY <1>0, <1>1, <2>1, <2>2, <2>3, <2>4, <2>5, <2>6, Blocks
       DEF CodeOK, Instruction, Breaking
<1>2. CASE NextGlyph
  BY <1>2, <1>w DEF NextGlyph, Goto, Idle, HealInv, Due
<1>3. CASE NextLine
  BY <1>3 DEF NextLine, Goto, Idle, HealInv, Due
<1>4. CASE NextPage
  BY <1>4 DEF NextPage, Goto, AtEnd, Idle, HealInv, Breaking
<1>5. CASE Echo
  BY <1>5 DEF Echo, code, HealInv, Breaking
<1>6. CASE EchoChar
  <2>1. p' \in Positions /\ (p'.new = 0 => p.new = 0 /\ p'.counter = p.counter)
    BY <1>0, <1>6, <1>w, CharPlaced DEF EchoChar
  <2>2. p'.new \in {0, 1} /\ quiet' = 0 /\ UNCHANGED << block, step, col >>
    BY <1>0, <1>6, <2>1 DEF Positions, EchoChar, Undisturbed, place, code
  <2> QED
    BY <2>1, <2>2 DEF HealInv, Breaking
<1>7. CASE UNCHANGED vars
  BY <1>7 DEF vars, place, code, HealInv, Due, Lagging, Breaking
<1>8. CASE Stay
  BY <1>7, <1>8 DEF Stay
<1> QED
  BY <1>1, <1>2, <1>3, <1>4, <1>5, <1>6, <1>7, <1>8 DEF Next

(* A key in the middle of a glyph spoils the row of that glyph and of the  *)
(* next at most (RowHeals): the two threads' arithmetic brings y and       *)
(* counter together.                                                       *)
THEOREM TextHeals == Spec => []RowHeals
<1>1. TypeInv /\ HealInv => RowHeals
  BY DEF HealInv, RowHeals, Plotting, Due
<1> QED
  BY <1>1, TypeInit, TypeStep, HealInit, HealStep, PTL DEF Spec

-----------------------------------------------------------------------------
(***************************************************************************)
(* The page as laid out.                                                   *)
(***************************************************************************)
LEMMA Division ==
  ASSUME NEW d \in Nat \ {0}, NEW n \in Nat
  PROVE  /\ n \div d \in Nat /\ n % d \in 0 .. d - 1
         /\ n = d * (n \div d) + (n % d)
BY SMT

LEMMA QuotientUnique ==
  ASSUME NEW d \in Nat \ {0}, NEW q \in Nat, NEW r \in Nat, r < d
  PROVE  (d * q + r) \div d = q /\ (d * q + r) % d = r
BY SMT

(* The next number's quotient and rest. *)
LEMMA DivNext ==
  ASSUME NEW d \in Nat \ {0}, NEW n \in Nat
  PROVE  /\ n % d = d - 1 => (n + 1) % d = 0 /\ (n + 1) \div d = (n \div d) + 1
         /\ n % d # d - 1 => (n + 1) % d = (n % d) + 1 /\ (n + 1) \div d = n \div d
<1>1. PICK q \in Nat, r \in 0 .. d - 1 : q = n \div d /\ r = n % d /\ n = d * q + r
  BY Division
<1>2. CASE r = d - 1
  <2>1. n + 1 = d * (q + 1) + 0 /\ q + 1 \in Nat
    BY <1>1, <1>2
  <2>2. (d * (q + 1) + 0) \div d = q + 1 /\ (d * (q + 1) + 0) % d = 0
    BY <2>1, QuotientUnique
  <2> QED
    BY <1>1, <1>2, <2>1, <2>2
<1>3. CASE r # d - 1
  <2>1. n + 1 = d * q + (r + 1) /\ r + 1 \in Nat /\ r + 1 < d
    BY <1>1, <1>3
  <2>2. (n + 1) \div d = q /\ (n + 1) % d = r + 1
    BY <2>1, QuotientUnique
  <2> QED
    BY <1>1, <1>3, <2>2
<1> QED
  BY <1>2, <1>3

(* A row is full when its glyphs are PerRow. *)
LEMMA RowFull ==
  ASSUME scene.width \in Nat, scene.width > 8, NEW k \in Nat
  PROVE  PerRow \in Nat \ {0} /\ (Full(6 * k) <=> k >= PerRow)
BY DEF PerRow, GlyphsIn, Full

(* A glyph below the first row lifts those after it. *)
LEMMA LiftAfter ==
  ASSUME TypeInv, LineInv
  PROVE  /\ col = 0 => LiftNext = Lift
         /\ col > 0 => LiftNext = IF DueRow > 0 THEN 1 ELSE 0
<1>1. /\ scene.width \in Nat /\ scene.width > 8 /\ line \in Nat \ {0}
      /\ col \in Nat /\ top \in Nat
  BY Numbers
<1>2. PerRow \in Nat \ {0}
  BY Numbers
<1>3. CASE col = 0
  BY <1>3 DEF LiftNext, Lift
<1>4. CASE col > 0 /\ line = 1
  <2>1. Lowered(col) <=> col > PerRow
    BY <1>4 DEF Lowered, Below
  <2>2. DueRow = (col - 1) \div PerRow
    <3>1. (col - 1) \div PerRow \in Nat
      <4>1. col - 1 \in Nat
        BY <1>1, <1>4
      <4> QED
        BY <1>2, <4>1, Division
    <3> QED
      BY <1>4, <3>1 DEF LineInv, DueRow, Row
  <2>3. (col - 1) \div PerRow > 0 <=> col > PerRow
    BY <1>1, <1>2, <1>4
  <2> QED
    BY <1>4, <2>1, <2>2, <2>3 DEF LiftNext
<1>5. CASE col > 0 /\ line # 1
  <2>1. Lowered(col)
    BY <1>5 DEF Lowered, Below
  <2>2. (col - 1) \div PerRow \in Nat
    <3>1. col - 1 \in Nat
      BY <1>1, <1>5
    <3> QED
      BY <1>2, <3>1, Division
  <2> QED
    BY <1>1, <1>5, <2>1, <2>2 DEF LineInv, LiftNext, DueRow, Row
<1> QED
  BY <1>3, <1>4, <1>5

LEMMA LineInit == Init => LineInv
BY DEF Init, LineInv, Breaking

LEMMA LineStep == TypeInv /\ LineInv /\ [Next]_vars => LineInv'
<1> SUFFICES ASSUME TypeInv, LineInv, [Next]_vars PROVE LineInv'
  OBVIOUS
<1>0. /\ TypeOK /\ PlaceOK /\ CodeOK /\ line \in Nat \ {0} /\ top \in Nat
      /\ PerRow \in Nat \ {0} /\ col \in Nat /\ row \in 0 .. 7
  BY TypesHold, Numbers DEF TypeInv
<1>1. CASE Instruction
  <2>1. line' = line /\ col' = col /\ top' = top
    BY <1>0, <1>1, Turns DEF place
  <2>2. CASE block = "test"
    BY <1>0, <1>1, <2>1, <2>2, Turns DEF LineInv
  <2>3. CASE Breaking
    BY <1>0, <1>1, <2>1, <2>3, Turns DEF LineInv
  <2>4. CASE block \in {"row", "advance", "place", "reset"}
    BY <1>0, <1>1, <2>1, <2>4, Turns DEF LineInv, Breaking
  <2> QED
    BY <1>0, <1>1, <2>2, <2>3, <2>4, Blocks DEF CodeOK, Instruction, Breaking
<1>2. CASE NextGlyph
  BY <1>0, <1>2 DEF NextGlyph, Idle, LineInv
<1>3. CASE NextLine
  <2>1. col \div PerRow \in Nat
    BY <1>0, Division
  <2>2. line' = line + 1 /\ top' = top + (col \div PerRow) + 1 /\ row' = row
        /\ block' = "test" /\ block = "done"
    BY <1>3 DEF NextLine, Goto, Idle
  <2> QED
    BY <1>0, <2>1, <2>2 DEF LineInv
<1>4. CASE NextPage
  BY <1>4 DEF NextPage, Goto, AtEnd, Idle, LineInv, Breaking
<1>5. CASE Echo \/ EchoChar
  BY <1>5 DEF Echo, EchoChar, place, code, LineInv, Breaking
<1>6. CASE UNCHANGED vars
  BY <1>6 DEF vars, place, code, LineInv, Breaking
<1>7. CASE Stay
  BY <1>6, <1>7 DEF Stay
<1> QED
  BY <1>1, <1>2, <1>3, <1>4, <1>5, <1>6, <1>7 DEF Next

LEMMA LaidInit == Init => LaidInv
<1> SUFFICES ASSUME Init PROVE LaidInv
  OBVIOUS
<1>1. PerRow \in Nat \ {0}
  <2>1. scene.width \in Nat /\ scene.width > 8
    BY TextAssumption DEF Init
  <2> QED
    BY <2>1, RowFull
<1>2. LiftNext = 0
  BY <1>1 DEF Init, LiftNext, Lowered, Below
<1> QED
  BY <1>2 DEF Init, LaidInv, Breaking

(* The next character of a line is due where the last one has left the     *)
(* position, or at the beginning of the next row.                          *)
LEMMA DueNext ==
  ASSUME TypeInv, LaidInv, block = "done", ~ disturbed
  PROVE  /\ p.counter + Wraps = top + (col \div PerRow) + 1
         /\ 6 * (col % PerRow) = IF Wraps = 1 THEN 0 ELSE p.x
<1>w. scene.width \in Nat /\ scene.width > 8 /\ top \in Nat /\ col \in Nat
  BY Numbers
<1>d. PerRow \in Nat \ {0}
  BY Numbers
<1>1. CASE col = 0
  <2>1. p.x = 0 /\ p.counter = 1 + top
    BY <1>1 DEF LaidInv
  <2>2. Wraps = 0
    BY <1>w, <2>1 DEF Wraps, Full
  <2>3. 0 \div PerRow = 0 /\ 0 % PerRow = 0
    BY <1>d
  <2> QED
    BY <1>w, <1>1, <2>1, <2>2, <2>3
<1>2. CASE col > 0
  <2>1. PICK n \in Nat : col = n + 1
    BY <1>w, <1>2
  <2>2. p.x = 6 * (n % PerRow) + 6 /\ p.counter = 1 + top + (n \div PerRow)
    <3>1. p.x = DueX + 6 /\ p.counter = 1 + DueRow
      BY <1>2 DEF LaidInv
    <3>2. col - 1 = n /\ n \div PerRow \in Nat
      BY <1>d, <2>1, Division
    <3> QED
      BY <1>w, <3>1, <3>2 DEF DueX, DueRow, Row
  <2>3. PICK r \in 0 .. PerRow - 1 : r = n % PerRow
    BY <1>d, Division
  <2>4. p.x = 6 * (r + 1)
    BY <2>2, <2>3
  <2>5. Wraps = IF r = PerRow - 1 THEN 1 ELSE 0
    <3>1. r + 1 \in Nat /\ (r + 1 >= PerRow <=> r = PerRow - 1)
      BY <1>d
    <3>2. Full(6 * (r + 1)) <=> r + 1 >= PerRow
      BY <1>w, <3>1, RowFull
    <3> QED
      BY <2>4, <3>1, <3>2 DEF Wraps
  <2>6. n \div PerRow \in Nat
    BY <1>d, Division
  <2> QED
    <3>1. CASE r = PerRow - 1
      <4>1. (n + 1) % PerRow = 0 /\ (n + 1) \div PerRow = (n \div PerRow) + 1
        BY <1>d, <2>3, <3>1, DivNext
      <4> QED
        BY <1>w, <2>1, <2>2, <2>5, <2>6, <3>1, <4>1
    <3>2. CASE r # PerRow - 1
      <4>1. (n + 1) % PerRow = r + 1 /\ (n + 1) \div PerRow = n \div PerRow
        BY <1>d, <2>3, <3>2
      <4> QED
        BY <1>w, <2>1, <2>2, <2>4, <2>5, <2>6, <3>2, <4>1
    <3> QED
      BY <3>1, <3>2
<1> QED
  BY <1>w, <1>1, <1>2

LEMMA LaidStep == TypeInv /\ LineInv /\ LaidInv /\ [Next]_vars => LaidInv'
<1>s. SUFFICES ASSUME TypeInv, LineInv, LaidInv, [Next]_vars, ~ disturbed' PROVE LaidInv'
  BY DEF LaidInv
<1>0. TypeOK /\ PlaceOK /\ CodeOK /\ p \in Positions /\ Undisturbed
  BY <1>s, TypesHold DEF TypeInv
<1>w. /\ scene.width \in Nat /\ scene.width > 8 /\ Lines[line] \in Nat
      /\ line \in Nat \ {0} /\ top \in Nat
      /\ reg \in Nat /\ col \in Nat /\ row \in 0 .. 7
  BY <1>s, Numbers
<1>p. p.x \in Nat /\ p.y \in Nat /\ p.new \in {0, 1} /\ p.counter \in Nat \ {0}
  BY <1>s, Numbers
<1>g. /\ block \in {"row", "advance", "place"} => col > 0
      /\ block = "newline" => col = 0
  BY <1>s DEF TypeInv, InRow
<1>d. PerRow \in Nat \ {0}
  BY <1>w, RowFull
<1>t. /\ Lift \in {0, 1} /\ LiftNext \in {0, 1} /\ Wraps \in {0, 1}
      /\ DueRow \in Int /\ (col = 0 => DueRow = top - 1)
      /\ col > 0 => DueX \in Nat
  <2>1. col > 0 => col - 1 \in Nat
    BY <1>w
  <2>2. col > 0 => (col - 1) \div PerRow \in Nat /\ (col - 1) % PerRow \in Nat
    BY <1>d, <2>1, Division
  <2> QED
    BY <1>w, <2>2 DEF Lift, LiftNext, Wraps, DueRow, Row, DueX
<1>1. CASE Instruction
  <2>a. /\ scene' = scene /\ page' = page /\ line' = line /\ col' = col /\ top' = top
        /\ disturbed' = disturbed
    BY <1>0, <1>1, Turns DEF place
  <2>b. DueX' = DueX /\ DueRow' = DueRow /\ Lift' = Lift /\ LiftNext' = LiftNext
    BY <2>a DEF DueX, DueRow, Row, PerRow, Lift, LiftNext, Lowered, Below, Lines
  <2>1. CASE block = "test"
    <3>1. /\ p' = p /\ step' = 1 /\ row' = 0
          /\ block' = IF Wraps = 1 THEN "full" ELSE IF col = 0 THEN "newline" ELSE "row"
      BY <1>s, <1>0, <1>1, <2>1, Steps, Turns DEF LineInv, Wraps
    <3>2. /\ p.counter + Wraps = DueRow + 1 /\ (p.new = 1 <=> p.counter > 1)
          /\ p.y = 9 * (p.counter - 1 + Lift)
          /\ col > 0 => DueX = IF Wraps = 1 THEN 0 ELSE p.x
      BY <1>s, <2>a, <2>1 DEF LaidInv, Breaking
    <3> QED
      BY <1>w, <1>p, <1>t, <2>a, <2>b, <3>1, <3>2 DEF LaidInv
  <2>2. CASE Breaking
    <3>0. /\ block = "full" => p.counter = DueRow /\ (col > 0 => DueX = 0)
          /\ block = "newline" => p.counter = top
      BY <1>s, <2>a DEF LaidInv
    <3>1. CASE step = 1
      <4>1. /\ p'.x = 0 /\ p'.y = p.y /\ p'.new = p.new
            /\ p'.counter = p.counter /\ reg' = reg
            /\ row' = row /\ step' = 2 /\ block' = block
        BY <1>0, <1>1, <2>2, <3>1, Steps, Turns DEF Pos
      <4>2. (p.new = 1 <=> p.counter > 1) /\ p.y = 9 * (p.counter - 1 + Lift)
        BY <1>s, <2>a, <2>2, <3>1 DEF LaidInv, Breaking
      <4> QED
        BY <2>a, <2>b, <2>2, <3>0, <4>1, <4>2 DEF LaidInv, Breaking
    <3>2. CASE step = 2
      <4>1. /\ p'.x = p.x /\ p'.y = p.y /\ p'.new = p.new
            /\ p'.counter = p.counter /\ reg' = p.y
            /\ row' = row /\ step' = 3 /\ block' = block
        BY <1>0, <1>1, <2>2, <3>2, Steps, Turns
      <4>2. (p.new = 1 <=> p.counter > 1) /\ p.x = 0 /\ p.y = 9 * (p.counter - 1 + Lift)
        BY <1>s, <2>a, <2>2, <3>2 DEF LaidInv, Breaking
      <4> QED
        BY <2>a, <2>b, <2>2, <3>0, <4>1, <4>2 DEF LaidInv, Breaking
    <3>3. CASE step = 3
      <4>1. /\ p'.x = p.x /\ p'.y = reg + 9 /\ p'.new = p.new
            /\ p'.counter = p.counter /\ reg' = reg
            /\ row' = row /\ step' = 4 /\ block' = block
        BY <1>0, <1>1, <2>2, <3>3, Steps, Turns DEF Pos
      <4>2. /\ p.new = 1 <=> p.counter > 1
            /\ p.x = 0 /\ p.y = 9 * (p.counter - 1 + Lift) /\ reg = p.y
        BY <1>s, <2>a, <2>2, <3>3 DEF LaidInv, Breaking
      <4> QED
        BY <1>p, <1>t, <2>a, <2>b, <2>2, <3>0, <4>1, <4>2 DEF LaidInv, Breaking
    <3>4. CASE step = 4
      <4>1. /\ p'.x = p.x /\ p'.y = p.y /\ p'.new = 1
            /\ p'.counter = p.counter /\ reg' = reg
            /\ row' = row /\ step' = 5 /\ block' = block
        BY <1>0, <1>1, <2>2, <3>4, Steps, Turns DEF Pos
      <4>2. p.x = 0 /\ p.y = 9 * (p.counter + Lift)
        BY <1>s, <2>a, <2>2, <3>4 DEF LaidInv
      <4> QED
        BY <2>a, <2>b, <2>2, <3>0, <4>1, <4>2 DEF LaidInv, Breaking
    <3>5. CASE step = 5
      <4>1. /\ p'.x = p.x /\ p'.y = p.y /\ p'.new = p.new
            /\ p'.counter = p.counter /\ reg' = p.counter
            /\ row' = row /\ step' = 6 /\ block' = block
        BY <1>0, <1>1, <2>2, <3>5, Steps, Turns
      <4>2. p.x = 0 /\ p.y = 9 * (p.counter + Lift) /\ p.new = 1
        BY <1>s, <2>a, <2>2, <3>5 DEF LaidInv
      <4> QED
        BY <2>a, <2>b, <2>2, <3>0, <4>1, <4>2 DEF LaidInv, Breaking
    <3>6. CASE step = 6
      <4>1. /\ p'.x = p.x /\ p'.y = p.y /\ p'.new = p.new
            /\ p'.counter = reg + 1 /\ reg' = reg
            /\ row' = row /\ step' = 1
            /\ block' = IF block = "newline" THEN "done"
                        ELSE IF col = 0 THEN "newline" ELSE "row"
        BY <1>0, <1>1, <2>2, <3>6, Steps, Turns DEF Pos
      <4>2. p.x = 0 /\ p.y = 9 * (p.counter + Lift) /\ p.new = 1 /\ reg = p.counter
        BY <1>s, <2>a, <2>2, <3>6 DEF LaidInv
      <4>3. col = 0 => LiftNext = Lift
        BY DEF LiftNext, Lift
      <4> QED
        <5>1. CASE block = "newline"
          BY <1>p, <1>g, <2>a, <2>b, <3>0, <4>1, <4>2, <4>3, <5>1 DEF LaidInv
        <5>2. CASE block = "full"
          <6>1. p.counter = DueRow /\ (col > 0 => DueX = 0)
            BY <3>0, <5>2
          <6>2. CASE col = 0
            BY <1>w, <1>p, <1>t, <2>a, <2>b, <4>1, <4>2, <5>2, <6>1, <6>2 DEF LaidInv
          <6>3. CASE col > 0
            <7>1. block' = "row" /\ row' = 0
              BY <1>s, <4>1, <5>2, <6>3 DEF LineInv
            <7> QED
              BY <1>p, <2>b, <4>1, <4>2, <6>1, <6>3, <7>1 DEF LaidInv
          <6> QED
            BY <1>w, <6>2, <6>3
        <5> QED
          BY <2>2, <5>1, <5>2 DEF Breaking
    <3> QED
      BY <1>0, <1>1, <2>2, <3>1, <3>2, <3>3, <3>4, <3>5, <3>6, Turns
  <2>3. CASE block = "row"
    <3>0. /\ (p.new = 1 <=> p.counter > 1)
          /\ p.counter = DueRow + 1
      BY <1>s, <2>a, <2>3 DEF LaidInv, Breaking
    <3>1. CASE step = 1
      <4>1. /\ p'.x = p.x /\ p'.y = p.y /\ p'.new = p.new
            /\ p'.counter = p.counter /\ reg' = reg
            /\ row' = row /\ step' = 2 /\ block' = block
        BY <1>0, <1>1, <2>3, <3>1, Steps, Turns
      <4>2. p.x = DueX /\ p.y = 9 * (DueRow + Lift) + row
        BY <1>s, <2>a, <2>3 DEF LaidInv
      <4> QED
        BY <2>b, <2>3, <3>0, <4>1, <4>2 DEF LaidInv, Breaking
    <3>2. CASE step = 2
      <4>1. /\ p'.x = p.x /\ p'.y = p.y /\ p'.new = p.new
            /\ p'.counter = p.counter /\ reg' = p.y
            /\ row' = row /\ step' = 3 /\ block' = block
        BY <1>0, <1>1, <2>3, <3>2, Steps, Turns
      <4>2. p.x = DueX /\ p.y = 9 * (DueRow + Lift) + row
        BY <1>s, <2>a, <2>3 DEF LaidInv
      <4> QED
        BY <2>b, <2>3, <3>0, <4>1, <4>2 DEF LaidInv, Breaking
    <3>3. CASE step = 3
      <4>1. /\ p'.x = p.x /\ p'.y = reg + 1 /\ p'.new = p.new
            /\ p'.counter = p.counter /\ reg' = reg
            /\ step' = 1
            /\ IF row < 7 THEN block' = "row" /\ row' = row + 1
               ELSE block' = "advance" /\ row' = 0
        BY <1>0, <1>1, <2>3, <3>3, Steps, Turns DEF Pos
      <4>2. p.x = DueX /\ reg = 9 * (DueRow + Lift) + row
        BY <1>s, <2>a, <2>3, <3>3 DEF LaidInv
      <4> QED
        BY <1>w, <1>t, <2>b, <3>0, <4>1, <4>2 DEF LaidInv, Breaking
    <3> QED
      BY <1>0, <1>1, <2>3, <3>1, <3>2, <3>3, Turns
  <2>4. CASE block = "advance"
    <3>0. /\ (p.new = 1 <=> p.counter > 1)
          /\ p.counter = DueRow + 1
      BY <1>s, <2>a, <2>4 DEF LaidInv, Breaking
    <3>1. CASE step = 1
      <4>1. /\ p'.x = p.x /\ p'.y = p.y /\ p'.new = p.new
            /\ p'.counter = p.counter /\ reg' = p.x
            /\ row' = row /\ step' = 2 /\ block' = block
        BY <1>0, <1>1, <2>4, <3>1, Steps, Turns
      <4>2. p.x = DueX
        BY <1>s, <2>a, <2>4, <3>1 DEF LaidInv
      <4> QED
        BY <2>b, <2>4, <3>0, <4>1, <4>2 DEF LaidInv, Breaking
    <3>2. CASE step = 2
      <4>1. /\ p'.x = reg + 6 /\ p'.y = p.y /\ p'.new = p.new
            /\ p'.counter = p.counter /\ reg' = reg
            /\ row' = row /\ step' = 3 /\ block' = block
        BY <1>0, <1>1, <2>4, <3>2, Steps, Turns DEF Pos
      <4>2. reg = DueX
        BY <1>s, <2>a, <2>4, <3>2 DEF LaidInv
      <4> QED
        BY <2>b, <2>4, <3>0, <4>1, <4>2 DEF LaidInv, Breaking
    <3>3. CASE step = 3
      <4>1. /\ p'.x = p.x /\ p'.y = 0 /\ p'.new = p.new
            /\ p'.counter = p.counter /\ reg' = reg
            /\ row' = row /\ step' = 4 /\ block' = block
        BY <1>0, <1>1, <2>4, <3>3, Steps, Turns DEF Pos
      <4>2. p.x = DueX + 6
        BY <1>s, <2>a, <2>4, <3>3 DEF LaidInv
      <4> QED
        BY <2>b, <2>4, <3>0, <4>1, <4>2 DEF LaidInv, Breaking
    <3>4. CASE step = 4
      <4>1. /\ p'.x = p.x /\ p'.y = p.y /\ p'.new = p.new
            /\ p'.counter = p.counter /\ reg' = reg
            /\ row' = row /\ step' = 1
            /\ block' = IF p.new = 1 THEN "place" ELSE "done"
        BY <1>0, <1>1, <2>4, <3>4, Steps, Turns
      <4>2. p.x = DueX + 6 /\ p.y = 0
        BY <1>s, <2>a, <2>4, <3>4 DEF LaidInv
      <4>3. LiftNext = IF p.counter > 1 THEN 1 ELSE 0
        BY <1>s, <1>g, <1>t, <2>4, <3>0, LiftAfter
      <4> QED
        BY <1>p, <1>t, <1>g, <2>a, <2>b, <2>4, <3>0, <4>1, <4>2, <4>3
           DEF LaidInv, Breaking
    <3> QED
      BY <1>0, <1>1, <2>4, <3>1, <3>2, <3>3, <3>4, Turns
  <2>5. CASE block = "place"
    <3>0. /\ p.new = 1 /\ p.counter > 1
          /\ p.counter = DueRow + 1
          /\ p.x = DueX + 6
      BY <1>s, <2>a, <2>5 DEF LaidInv, Breaking
    <3>1. CASE step = 1
      <4>1. /\ p'.x = p.x /\ p'.y = p.y /\ p'.new = p.new
            /\ p'.counter = p.counter /\ reg' = 9 * p.counter
            /\ row' = row /\ step' = 2 /\ block' = block
        BY <1>0, <1>1, <2>5, <3>1, Steps, Turns
      <4>2. p.y = 0
        BY <1>s, <2>a, <2>5, <3>1 DEF LaidInv
      <4> QED
        BY <2>b, <2>5, <3>0, <4>1, <4>2 DEF LaidInv, Breaking
    <3>2. CASE step = 2
      <4>1. /\ p'.x = p.x /\ p'.y = p.y /\ p'.new = p.new
            /\ p'.counter = p.counter /\ reg' = reg + p.y
            /\ row' = row /\ step' = 3 /\ block' = block
        BY <1>0, <1>1, <2>5, <3>2, Steps, Turns
      <4>2. p.y = 0 /\ reg = 9 * p.counter
        BY <1>s, <2>a, <2>5, <3>2 DEF LaidInv
      <4> QED
        BY <2>b, <2>5, <3>0, <4>1, <4>2 DEF LaidInv, Breaking
    <3>3. CASE step = 3
      <4>1. /\ p'.x = p.x /\ p'.y = reg /\ p'.new = p.new
            /\ p'.counter = p.counter /\ reg' = reg
            /\ row' = row /\ step' = 1
            /\ block' = "done"
        BY <1>0, <1>1, <2>5, <3>3, Steps, Turns DEF Pos
      <4>2. reg = 9 * p.counter
        BY <1>s, <2>a, <2>5, <3>3 DEF LaidInv
      <4>3. LiftNext = 1
        BY <1>s, <1>g, <1>t, <2>5, <3>0, LiftAfter
      <4> QED
        BY <1>t, <1>g, <2>a, <2>b, <2>5, <3>0, <4>1, <4>2, <4>3 DEF LaidInv, Breaking
    <3> QED
      BY <1>0, <1>1, <2>5, <3>1, <3>2, <3>3, Turns
  <2>6. CASE block = "reset"
    <3>0. line = 1 /\ col = 0 /\ top = 0
      BY <1>s, <2>a, <2>6 DEF LaidInv, LineInv
    <3>1. CASE step = 1
      <4>1. /\ p'.x = 0 /\ p'.y = p.y /\ p'.new = p.new
            /\ p'.counter = p.counter /\ reg' = reg
            /\ row' = row /\ step' = 2 /\ block' = block
        BY <1>0, <1>1, <2>6, <3>1, Steps, Turns DEF Pos
      <4> QED
        BY <2>a, <2>6, <3>0, <4>1 DEF LaidInv, Breaking
    <3>2. CASE step = 2
      <4>1. /\ p'.x = p.x /\ p'.y = 0 /\ p'.new = p.new
            /\ p'.counter = p.counter /\ reg' = reg
            /\ row' = row /\ step' = 3 /\ block' = block
        BY <1>0, <1>1, <2>6, <3>2, Steps, Turns DEF Pos
      <4>2. p.x = 0
        BY <1>s, <2>a, <2>6, <3>2 DEF LaidInv
      <4> QED
        BY <2>a, <2>6, <3>0, <4>1, <4>2 DEF LaidInv, Breaking
    <3>3. CASE step = 3
      <4>1. /\ p'.x = p.x /\ p'.y = p.y /\ p'.new = 0
            /\ p'.counter = p.counter /\ reg' = reg
            /\ row' = row /\ step' = 4 /\ block' = block
        BY <1>0, <1>1, <2>6, <3>3, Steps, Turns DEF Pos
      <4>2. p.x = 0 /\ p.y = 0
        BY <1>s, <2>a, <2>6, <3>3 DEF LaidInv
      <4> QED
        BY <2>a, <2>6, <3>0, <4>1, <4>2 DEF LaidInv, Breaking
    <3>4. CASE step = 4
      <4>1. /\ p'.x = p.x /\ p'.y = p.y /\ p'.new = p.new
            /\ p'.counter = 1 /\ reg' = reg
            /\ row' = row /\ step' = 1
            /\ block' = "done"
        BY <1>0, <1>1, <2>6, <3>4, Steps, Turns DEF Pos
      <4>2. p.x = 0 /\ p.y = 0 /\ p.new = 0
        BY <1>s, <2>a, <2>6, <3>4 DEF LaidInv
      <4>3. LiftNext = 0
        BY <1>d, <3>0 DEF LiftNext, Lowered, Below
      <4> QED
        BY <2>a, <2>b, <3>0, <4>1, <4>2, <4>3 DEF LaidInv, Breaking
    <3> QED
      BY <1>0, <1>1, <2>6, <3>1, <3>2, <3>3, <3>4, Turns
  <2> QED
    BY <1>0, <1>1, <2>1, <2>2, <2>3, <2>4, <2>5, <2>6, Blocks
       DEF CodeOK, Instruction, Breaking
<1>2. CASE NextGlyph
  <2>1. /\ p' = p /\ scene' = scene /\ line' = line /\ page' = page /\ top' = top
        /\ col' = col + 1 /\ block' = "test" /\ step' = 1
        /\ block = "done" /\ ~ disturbed
    BY <1>s, <1>2 DEF NextGlyph, Goto, Idle
  <2>2. PerRow' = PerRow /\ Wraps' = Wraps /\ Lift' = LiftNext
    BY <1>w, <2>1 DEF PerRow, Wraps, Full, Lift, LiftNext, Lowered, Below, Lines
  <2>3. DueRow' = top + (col \div PerRow) /\ DueX' = 6 * (col % PerRow)
    BY <1>w, <2>1, <2>2 DEF DueRow, Row, DueX
  <2>4. /\ p.counter + Wraps = top + (col \div PerRow) + 1
        /\ 6 * (col % PerRow) = IF Wraps = 1 THEN 0 ELSE p.x
    BY <1>s, <2>1, DueNext
  <2>5. p.y = 9 * (p.counter - 1 + LiftNext) /\ (p.new = 1 <=> p.counter > 1)
    BY <1>s, <2>1 DEF LaidInv, Breaking
  <2> QED
    BY <2>1, <2>2, <2>3, <2>4, <2>5 DEF LaidInv
<1>3. CASE NextLine
  <2>1. /\ p' = p /\ scene' = scene /\ line' = line + 1 /\ page' = page
        /\ top' = top + (col \div PerRow) + 1 /\ col = Lines[line]
        /\ col' = 0 /\ block' = "test" /\ step' = 1
        /\ block = "done" /\ ~ disturbed
    BY <1>s, <1>3 DEF NextLine, Goto, Idle
  <2>2. Wraps' = Wraps
    BY <2>1 DEF Wraps, Full
  <2>3. Lift' = LiftNext
    <3>1. PerRow' = PerRow /\ Lines' = Lines
      BY <2>1 DEF PerRow, Lines
    <3>2. Lowered(0)' <=> \E l \in 1 .. line : Below(l, Lines[l])
      BY <1>w, <2>1, <3>1 DEF Lowered, Below
    <3>3. Lowered(col) <=> \E l \in 1 .. line : Below(l, Lines[l])
      <4>1. 1 .. line = (1 .. line - 1) \cup {line}
        BY <1>w
      <4> QED
        BY <2>1, <4>1 DEF Lowered
    <3> QED
      BY <2>1, <3>2, <3>3 DEF Lift, LiftNext
  <2>4. p.counter + Wraps = top'
    BY <1>s, <2>1, DueNext
  <2>5. p.y = 9 * (p.counter - 1 + LiftNext) /\ (p.new = 1 <=> p.counter > 1)
    BY <1>s, <2>1 DEF LaidInv, Breaking
  <2> QED
    BY <2>1, <2>2, <2>3, <2>4, <2>5 DEF LaidInv, DueRow
<1>4. CASE NextPage
  BY <1>4 DEF NextPage, Goto, LaidInv, Breaking
<1>5. CASE Echo
  BY <1>s, <1>5 DEF Echo
<1>6. CASE EchoChar
  BY <1>s, <1>0, <1>6 DEF EchoChar, Undisturbed
<1>7. CASE UNCHANGED vars
  BY <1>s, <1>7
     DEF vars, place, code, LaidInv, Breaking, DueX, DueRow, Row, PerRow, Lift,
         LiftNext, Lowered, Below, Lines, Wraps, Full
<1>8. CASE Stay
  BY <1>7, <1>8 DEF Stay
<1> QED
  BY <1>s, <1>1, <1>2, <1>3, <1>4, <1>5, <1>6, <1>7, <1>8 DEF Next

(* A page drawn without a key in between is as laid out, whatever keys did *)
(* to the pages before it (PageAsLaidOut): the reset leaves nothing        *)
(* behind.                                                                 *)
THEOREM TextLaidOut == Spec => []PageAsLaidOut
<1>1. TypeInv /\ LineInv /\ LaidInv => PageAsLaidOut
  BY DEF TypeInv, InRow, LaidInv, PageAsLaidOut, Plotting, Place, DueX, DueRow, Lift
<1> QED
  BY <1>1, TypeInit, TypeStep, LineInit, LineStep, LaidInit, LaidStep, PTL DEF Spec

-----------------------------------------------------------------------------
(***************************************************************************)
(* The page fits.                                                          *)
(***************************************************************************)
LEMMA FitInit ==
  ASSUME FittingPages
  PROVE  Init => FitInv
<1> SUFFICES ASSUME Init PROVE FitInv
  OBVIOUS
<1>1. TypeInv
  BY TypeInit
<1>2. scene \in Scenes /\ page \in DOMAIN scene.pages
  BY <1>1 DEF TypeInv, PlaceOK
<1>3. PICK tops \in [DOMAIN Lines -> Nat] : FittingRows(scene, Lines, tops)
  BY <1>2 DEF FittingPages, Lines
<1> QED
  BY <1>3 DEF Init, FitInv, FittingRows

LEMMA FitStep ==
  ASSUME FittingPages
  PROVE  TypeInv /\ FitInv /\ [Next]_vars => FitInv'
<1> SUFFICES ASSUME TypeInv, FitInv, [Next]_vars PROVE FitInv'
  OBVIOUS
<1>1. CASE NextLine
  <2>1. PICK tops \in [DOMAIN Lines -> Nat] :
          FittingRows(scene, Lines, tops) /\ top = tops[line]
    BY DEF FitInv
  <2>2. /\ scene' = scene /\ Lines' = Lines /\ line' = line + 1 /\ line < Len(Lines)
        /\ top' = top + (Lines[line] \div GlyphsIn(scene.width)) + 1
    BY <1>1 DEF NextLine, Lines, PerRow
  <2>3. line \in 1 .. Len(Lines) - 1
    <3>1. Len(Lines) \in Nat /\ line \in DOMAIN Lines /\ DOMAIN Lines = 1 .. Len(Lines)
      BY Machine DEF TypeInv, PlaceOK
    <3> QED
      BY <2>2, <3>1
  <2>4. top' = tops[line + 1]
    BY <2>1, <2>2, <2>3 DEF FittingRows
  <2> QED
    BY <2>1, <2>2, <2>4 DEF FitInv
<1>2. CASE NextPage
  <2>1. TypeInv' /\ line' = 1 /\ top' = 0 /\ scene' = scene
    BY <1>2, TypeStep DEF NextPage
  <2>2. scene \in Scenes /\ page' \in DOMAIN scene.pages
    BY <2>1 DEF TypeInv, PlaceOK
  <2>3. PICK tops \in [DOMAIN Lines' -> Nat] : FittingRows(scene, Lines', tops)
    BY <2>1, <2>2 DEF FittingPages, Lines
  <2> QED
    BY <2>1, <2>3 DEF FitInv, FittingRows
<1>3. CASE UNCHANGED << scene, page, line, top >>
  BY <1>3 DEF FitInv, Lines
<1>4. CASE Instruction \/ NextGlyph \/ Stay \/ Echo \/ EchoChar \/ UNCHANGED vars
  BY <1>3, <1>4 DEF Instruction, NextGlyph, Stay, Echo, EchoChar, vars, place
<1> QED
  BY <1>1, <1>2, <1>4 DEF Next

(* A page whose rows fit the screen is drawn on the screen, if no key      *)
(* comes (PageFits).                                                       *)
THEOREM TextFits ==
  ASSUME FittingPages
  PROVE  Spec => []PageFits
<1>1. TypeInv /\ LineInv /\ LaidInv /\ FitInv => PageFits
  <2> SUFFICES ASSUME TypeInv, LineInv, LaidInv, FitInv, Plotting, ~ disturbed
               PROVE  p.x + 7 < scene.width /\ p.y < VGA_MAX_HEIGHT
    BY DEF PageFits
  <2>1. /\ scene.width \in Nat /\ scene.width > 8 /\ PerRow \in Nat \ {0}
        /\ col \in Nat /\ row \in 0 .. 7 /\ top \in Nat /\ p.x \in Nat /\ p.y \in Nat
    BY Numbers
  <2>2. /\ col > 0 /\ p.x = DueX /\ p.y = 9 * (DueRow + Lift) + row
        /\ line \in DOMAIN Lines /\ col \in 0 .. Lines[line] /\ Lines[line] \in Nat
    BY Numbers DEF TypeInv, InRow, PlaceOK, LaidInv, Plotting
  <2>3. p.x + 7 < scene.width
    <3>1. PICK r \in 0 .. PerRow - 1 : p.x = 6 * r
      <4>1. col - 1 \in Nat
        BY <2>1, <2>2
      <4> QED
        BY <2>1, <2>2, <4>1, Division DEF DueX
    <3> QED
      BY <2>1, <3>1 DEF PerRow, GlyphsIn
  <2>4. p.y < VGA_MAX_HEIGHT
    <3>1. PICK tops \in [DOMAIN Lines -> Nat] :
            FittingRows(scene, Lines, tops) /\ top = tops[line]
      BY DEF FitInv
    <3>2. PICK d \in Nat : d = (col - 1) \div PerRow
      <4>1. col - 1 \in Nat
        BY <2>1, <2>2
      <4> QED
        BY <2>1, <4>1, Division
    <3>3. 9 * (top + d + 1) + 7 < VGA_MAX_HEIGHT
      <4>1. col - 1 \in 0 .. Lines[line] - 1
        BY <2>1, <2>2
      <4> QED
        BY <2>2, <3>1, <3>2, <4>1 DEF FittingRows, PerRow
    <3>4. DueRow = top + d /\ Lift \in {0, 1}
      BY <2>2, <3>2 DEF DueRow, Row, Lift
    <3> QED
      <4>1. VGA_MAX_HEIGHT \in Nat
        BY TextAssumption
      <4>2. p.y <= 9 * (top + d + 1) + 7
        BY <2>1, <2>2, <3>4
      <4> QED
        BY <2>1, <3>3, <4>1, <4>2
  <2> QED
    BY <2>3, <2>4
<1> QED
  BY <1>1, TypeInit, TypeStep, LineInit, LineStep, LaidInit, LaidStep, FitInit,
     FitStep, PTL
     DEF Spec
=============================================================================
