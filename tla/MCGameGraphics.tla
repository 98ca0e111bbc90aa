--------------------------- MODULE MCGameGraphics ---------------------------
EXTENDS GameGraphics

(* The game's camera on both sides of the origin.  A .cfg file cannot      *)
(* hold a negative number.                                                 *)
MCCameraXs == {-1, 0}

(* Twice the positions a game draws at: left of the screen, a half, and  *)
(* on it.                                                                  *)
MCXs == {-3, 1}
MCYs == {1, 2}

(* Images whose two pixels differ, one row and one column, and a single   *)
(* pixel.                                                                  *)
MCImages == {[width |-> 2, height |-> 1, px |-> <<100, 200>>],
             [width |-> 1, height |-> 2, px |-> <<200, 100>>],
             [width |-> 1, height |-> 1, px |-> <<100>>]}
=============================================================================
