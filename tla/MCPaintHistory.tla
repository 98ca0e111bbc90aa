--------------------------- MODULE MCPaintHistory ---------------------------
EXTENDS PaintHistory

CONSTANTS c1, c2, s1

(* Two distinguishable ordinary commands and one line segment: a line     *)
(* drawing of one or two segments is a different effect from either       *)
(* command.                                                                *)
MCCmds == {c1, c2}
MCSegments == {s1}

(* For the snapshot bookkeeping one ordinary command suffices: what       *)
(* matters is how many commands there are, not which.                      *)
MCOneCmd == {c1}
=============================================================================
