------------------------------- MODULE MCMouse -------------------------------
(***************************************************************************)
(* The mouse ViaOS's driver is checked with: it moves right and down with  *)
(* the button held, left and up, and right past its counter.  No packet is *)
(* a shifted part of two others.                                           *)
(***************************************************************************)
EXTENDS Mouse

MCReport == { << 41, 10, 246 >>, << 24, 251, 15 >>, << 72, 0, 3 >> }
=============================================================================
