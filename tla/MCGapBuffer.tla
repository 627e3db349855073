----------------------------- MODULE MCGapBuffer -----------------------------
(* Small instance of GapBuffer: gaps of one or two cells, so that nearly    *)
(* every insertion has to move the gap or grow the cells.                   *)
EXTENDS GapBuffer

CONSTANTS a, b

MCChar == {a, b}
=============================================================================
