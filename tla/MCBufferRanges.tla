--------------------------- MODULE MCBufferRanges ----------------------------
(* Small instance of BufferRanges: the ranges of a window and of a script  *)
(* in a text of a few characters and lines.                                *)
EXTENDS BufferRanges

CONSTANTS x, nl, window, script

MCChar == {x, nl}
MCTexts == {<<x>>, <<nl>>, <<nl, x>>, <<nl, nl>>}
MCHolder == {window, script}
=============================================================================
