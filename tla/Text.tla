-------------------------------- MODULE Text ---------------------------------
(***************************************************************************)
(* The text of ViaOS's screens (drivers/independent/graphics/vga/vga.c):   *)
(* bitmap_putchar and bitmap_draw_char keep the position of the next       *)
(* character in four variables, which the pages of kmain's loop and the    *)
(* keyboard's routine, echoing what is typed, both advance.                *)
(*                                                                         *)
(* The main thread draws instruction by instruction, as the Makefile's     *)
(* gcc without -O compiles it: every change of a variable is a load and a  *)
(* store.  The routine runs with interrupts off, between any two of them,  *)
(* and draws whole characters.                                             *)
(***************************************************************************)
EXTENDS Integers, Sequences

CONSTANTS
  Scenes,           \* what is drawn: [width, pages, again, keys], where a page
                    \* is the lengths of its lines
  Echoes,           \* what the routine draws for a key
  VGA_MAX_HEIGHT    \* 200 in the source

ASSUME TextAssumption ==
  /\ VGA_MAX_HEIGHT \in Nat
  /\ \A s \in Scenes :
       /\ s.width \in Nat /\ s.width > 8 /\ s.keys \in Nat /\ s.again \in BOOLEAN
       /\ s.pages \in Seq(Seq(Nat) \ {<< >>}) \ {<< >>}
  /\ Echoes \subseteq Seq({"c", "\n"})

VARIABLES
  scene,              \* what this machine draws
  page, line, col,    \* the page and line it is at, the glyphs of the line begun
  block, step,        \* the instruction it is at; block "done" between characters
  row,                \* bitmap_draw_char's i: the row of pixels it is at
  reg,                \* the register of the main thread
  p,                  \* current_x, current_y, new, counter
  echo,               \* the characters the routine has to draw still
  top,                \* history: the rows the page's lines before this one take
  keys,               \* history: keys echoed
  disturbed,          \* history: one since the page was begun
  quiet               \* history: the glyphs begun since the last, 2 at most

place == << scene, page, line, col, top >>
code  == << block, step, row, reg >>
vars  == << place, code, p, echo, keys, disturbed, quiet >>

-----------------------------------------------------------------------------
(* A page is glyphs, "c", and an end, "\n", of every line but the last.    *)
Lines == scene.pages[page]
ch == IF col = 0 THEN "\n" ELSE "c"

(***************************************************************************)
(* bitmap_putchar as the routine does it, whole.                           *)
(***************************************************************************)
(* A mutant of Full: the glyph's own width is forgotten. *)
FullLate(x) == x > scene.width

(* current_x > VGA_MAX_WIDTH - 8 *)
Full(x) == x > scene.width - 8

Broken(q) == [x |-> 0, y |-> q.y + 9, new |-> 1, counter |-> q.counter + 1]

(* bitmap_draw_char and the adjustment after it: y is back at the top,     *)
(* and then down at the row counter says.                                  *)
Drawn(q) == [x |-> q.x + 6, y |-> IF q.new = 1 THEN 9 * q.counter ELSE 0,
             new |-> q.new, counter |-> q.counter]

PutChar(q, c) ==
  LET r == IF Full(q.x) THEN Broken(q) ELSE q
  IN  IF c = "\n" THEN Broken(r) ELSE Drawn(r)

-----------------------------------------------------------------------------
(***************************************************************************)
(* The same, by the instructions of the main thread.                       *)
(***************************************************************************)
Break == << "x=0", "reg=y", "y=reg+9", "new=1", "reg=counter", "counter=reg+1" >>

(* A mutant of Advance: the row of the glyph's last pixels is kept. *)
AdvanceFromBelow == << "reg=x", "x=reg+6", "new?" >>

Advance == << "reg=x", "x=reg+6", "y=0", "new?" >>

(* A mutant of reset_text_position: as update_text_position, which leaves  *)
(* the count of the lines alone.                                           *)
update_text_position == << "y=0", "x=0" >>

reset_text_position == << "x=0", "y=0", "new=0", "counter=1" >>

Code == [test    |-> << "full?" >>,
         full    |-> Break,
         newline |-> Break,
         row     |-> << "plot", "reg=y", "y=reg+1" >>,
         advance |-> Advance,
         place   |-> << "reg=9*counter", "reg+=y", "y=reg" >>,
         reset   |-> reset_text_position]

(* What an instruction leaves in the variables and in the register. *)
Stored(op) ==
  CASE op = "x=0"           -> [p EXCEPT !.x = 0]
    [] op = "y=0"           -> [p EXCEPT !.y = 0]
    [] op = "new=0"         -> [p EXCEPT !.new = 0]
    [] op = "new=1"         -> [p EXCEPT !.new = 1]
    [] op = "counter=1"     -> [p EXCEPT !.counter = 1]
    [] op = "x=reg+6"       -> [p EXCEPT !.x = reg + 6]
    [] op = "y=reg+1"       -> [p EXCEPT !.y = reg + 1]
    [] op = "y=reg+9"       -> [p EXCEPT !.y = reg + 9]
    [] op = "y=reg"         -> [p EXCEPT !.y = reg]
    [] op = "counter=reg+1" -> [p EXCEPT !.counter = reg + 1]
    [] OTHER                -> p

Loaded(op) ==
  CASE op = "reg=x"         -> p.x
    [] op = "reg=y"         -> p.y
    [] op = "reg=counter"   -> p.counter
    [] op = "reg=9*counter" -> 9 * p.counter
    [] op = "reg+=y"        -> reg + p.y
    [] OTHER                -> reg

(* Where a block's last instruction leads: the tests of bitmap_putchar and *)
(* of bitmap_draw_char's loop.                                             *)
Following ==
  CASE block = "test" /\ Full(p.x)         -> "full"
    [] block = "test" /\ ~ Full(p.x)       -> IF ch = "\n" THEN "newline" ELSE "row"
    [] block = "full"                      -> IF ch = "\n" THEN "newline" ELSE "row"
    [] block = "row"                       -> IF row < 7 THEN "row" ELSE "advance"
    [] block = "advance" /\ p.new = 1      -> "place"
    [] OTHER                               -> "done"

-----------------------------------------------------------------------------
Goto(b) == block' = b /\ step' = 1

Init ==
  /\ scene \in Scenes
  /\ page = 1 /\ line = 1 /\ col = 0 /\ top = 0
  /\ block = "done" /\ step = 1 /\ row = 0 /\ reg = 0
  /\ p = [x |-> 0, y |-> 0, new |-> 0, counter |-> 1]
  /\ echo = << >> /\ keys = 0 /\ disturbed = FALSE /\ quiet = 2

Instruction ==
  /\ block # "done" /\ echo = << >>
  /\ p' = Stored(Code[block][step]) /\ reg' = Loaded(Code[block][step])
  /\ IF step < Len(Code[block])
     THEN step' = step + 1 /\ UNCHANGED << block, row >>
     ELSE Goto(Following) /\ row' = IF block = "row" THEN (row + 1) % 8 ELSE row
  /\ UNCHANGED << place, echo, keys, disturbed, quiet >>

Idle == block = "done" /\ echo = << >>
AtEnd == Idle /\ line = Len(Lines) /\ col = Lines[line]

(* A row holds as many glyphs as begin left of the last eight columns; a   *)
(* line of n glyphs takes n \div PerRow + 1 rows, the last of them empty   *)
(* if n fills the others.                                                  *)
GlyphsIn(width) == (width - 8) \div 6 + 1
PerRow == GlyphsIn(scene.width)

(* bitmap_draw_string goes to the next character, a glyph or "\n". *)
NextGlyph ==
  /\ Idle /\ col < Lines[line]
  /\ col' = col + 1 /\ Goto("test")
  /\ quiet' = IF quiet < 2 THEN quiet + 1 ELSE quiet
  /\ UNCHANGED << scene, page, line, top, row, reg, p, echo, keys, disturbed >>

NextLine ==
  /\ Idle /\ col = Lines[line] /\ line < Len(Lines)
  /\ line' = line + 1 /\ col' = 0 /\ top' = top + (col \div PerRow) + 1
  /\ Goto("test")
  /\ UNCHANGED << scene, page, row, reg, p, echo, keys, disturbed, quiet >>

(* Every page but the first, and every frame of the desktop, begins with   *)
(* reset_text_position; some key or other asks for it.                     *)
NextPage ==
  /\ AtEnd
  /\ \/ page < Len(scene.pages) /\ page' = page + 1
     \/ scene.again /\ page' = 1
  /\ line' = 1 /\ col' = 0 /\ top' = 0 /\ Goto("reset")
  /\ disturbed' = FALSE
  /\ UNCHANGED << scene, row, reg, p, echo, keys, quiet >>

(* The last page of the installer stays. *)
Stay == AtEnd /\ page = Len(scene.pages) /\ ~ scene.again /\ UNCHANGED vars

(* A key is echoed, with what else the routine draws for it. *)
Echo ==
  /\ echo = << >> /\ keys < scene.keys
  /\ echo' \in Echoes /\ keys' = keys + 1
  /\ disturbed' = TRUE /\ quiet' = 0
  /\ UNCHANGED << place, code, p >>

EchoChar ==
  /\ echo # << >>
  /\ p' = PutChar(p, Head(echo)) /\ echo' = Tail(echo)
  /\ UNCHANGED << place, code, keys, disturbed, quiet >>

Next == Instruction \/ NextGlyph \/ NextLine \/ NextPage \/ Stay \/ Echo \/ EchoChar

Spec == Init /\ [][Next]_vars

-----------------------------------------------------------------------------
(***************************************************************************)
(* Where the characters belong.                                            *)
(***************************************************************************)
Row(n) == top + (n \div PerRow)

(* One of the first n glyphs of line l is below the first row.             *)
Below(l, n) == n > IF l = 1 THEN PerRow ELSE 0

(* One of the page's glyphs before the n-th of this line is.               *)
Lowered(n) == Below(line, n) \/ \E l \in 1 .. line - 1 : Below(l, Lines[l])

(* The place of the line's glyph after its n-th: the first one below the   *)
(* first row belongs a row higher than those that follow it.               *)
Place(n) ==
  [x |-> 6 * (n % PerRow), y |-> 9 * (Row(n) + IF Lowered(n) THEN 1 ELSE 0)]

Plotting == block = "row" /\ step = 1 /\ echo = << >>

(* Every variable has its type; in particular no glyph begins further than *)
(* two places behind the last one of a row, whenever keys come.            *)
TypeOK ==
  /\ scene \in Scenes /\ page \in DOMAIN scene.pages
  /\ line \in DOMAIN Lines /\ col \in 0 .. Lines[line] /\ top \in Nat
  /\ block \in DOMAIN Code \cup {"done"} /\ row \in 0 .. 7 /\ reg \in Nat
  /\ IF block = "done" THEN step = 1 ELSE step \in DOMAIN Code[block]
  /\ p \in [x : 0 .. scene.width + 4, y : Nat, new : {0, 1}, counter : Nat \ {0}]
  /\ p.x % 6 = 0
  /\ echo \in Seq({"c", "\n"}) /\ keys \in 0 .. scene.keys
  /\ disturbed \in BOOLEAN /\ quiet \in 0 .. 2

(* A page drawn without a key in between has every row of every glyph      *)
(* where it belongs, whatever keys did to the pages before it: the reset   *)
(* leaves nothing behind.                                                  *)
PageAsLaidOut ==
  Plotting /\ ~ disturbed
    => p.x = Place(col - 1).x /\ p.y = Place(col - 1).y + row

(* The lines of a page begin at the rows tops, and its last glyph fits.    *)
FittingRows(s, lines, tops) ==
  /\ tops[1] = 0
  /\ \A l \in 1 .. Len(lines) - 1 :
       tops[l + 1] = tops[l] + (lines[l] \div GlyphsIn(s.width)) + 1
  /\ \A l \in DOMAIN lines : \A n \in 0 .. lines[l] - 1 :
       9 * (tops[l] + (n \div GlyphsIn(s.width)) + 1) + 7 < VGA_MAX_HEIGHT

(* The installer's pages fit the screen: what the user agrees to was       *)
(* shown, unless keys came while it was drawn.                             *)
PageFits ==
  Plotting /\ ~ disturbed => p.x + 7 < scene.width /\ p.y < VGA_MAX_HEIGHT

(* A key in the middle of a glyph spoils the row of that glyph and of the  *)
(* next at most: the one after begins on the row that is due, although     *)
(* nothing but the two threads' own arithmetic keeps current_y and counter *)
(* together.                                                               *)
RowHeals ==
  Plotting /\ row = 0 /\ quiet = 2 => p.y \in {9 * p.counter, 9 * (p.counter - 1)}
=============================================================================
