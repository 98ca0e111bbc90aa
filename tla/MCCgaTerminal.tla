---------------------------- MODULE MCCgaTerminal ----------------------------
(* Model-checking instance of CgaTerminal: a screen of two rows of three   *)
(* cells, one printable character written in white or black on black, and *)
(* a BIOS that left that character in white on every cell.                *)
EXTENDS CgaTerminal

CONSTANTS ch, nl, sp, fill

BiosText == {[i \in 0 .. 11 |-> IF i % 2 = 0 THEN ch ELSE 7]}
=============================================================================
