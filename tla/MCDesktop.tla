------------------------------ MODULE MCDesktop ------------------------------
(***************************************************************************)
(* The keys the desktop is checked with: one that moves the cursor on the  *)
(* command line, one that leaves setup on the welcome page.                *)
(***************************************************************************)
EXTENDS Desktop

MCKeyCode == [k \in Key |-> IF k = "2" THEN 3 ELSE 32]
=============================================================================
