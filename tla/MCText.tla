------------------------------- MODULE MCText --------------------------------
(***************************************************************************)
(* The installer's pages as kmain draws them, by the lengths of their      *)
(* lines, and small ones, on a screen of three glyphs a row, for the keys. *)
(***************************************************************************)
EXTENDS Text

Welcome   == << 20, 0, 26, 22, 0 >>
TermsPage1 == << 42, 0, 33, 0, 1, 12, 394, 43, 0, 113, 59, 0 >>
TermsPage2 == << 40, 0, 31, 106, 55, 178, 0, 7, 53, 0, 61, 73, 0 >>
TermsPage3 == << 43, 0, 75, 0, 36, 36, 214, 21, 0, 10, 113, 153, 0 >>
Success   == << 37, 59, 0 >>
DesktopFrame == << 40, 19, 27, 0, 0 >>
Clicked == << 9, 0 >>

MCScenes == {
  [width |-> 320, again |-> FALSE, keys |-> 0,
   pages |-> << Welcome, TermsPage1, TermsPage2, TermsPage3, Success >>],
  [width |-> 320, again |-> TRUE,  keys |-> 0, pages |-> << DesktopFrame, Clicked >>],
  [width |-> 20,  again |-> TRUE,  keys |-> 2, pages |-> << << 2, 0 >>, << 4, 1 >> >>] }

(* The pages are short enough for the screen. *)
TopsOf(s, lines) ==
  LET tops[l \in DOMAIN lines] ==
        IF l = 1 THEN 0 ELSE tops[l - 1] + (lines[l - 1] \div GlyphsIn(s.width)) + 1
  IN  tops

ASSUME FittingScenes ==
  \A s \in MCScenes : \A g \in DOMAIN s.pages :
    FittingRows(s, s.pages[g], TopsOf(s, s.pages[g]))

(* A character, Enter, and a 1 on the first page with what it draws more,  *)
(* of which two glyphs stand for nine.                                     *)
MCEchoes == { << "c" >>, << "\n" >>, << "c", "\n", "c", "c", "\n" >> }
=============================================================================
