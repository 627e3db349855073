----------------------------- MODULE MCUndoStack -----------------------------
(* Small instance of UndoStack: two ordinary characters, so that a merge in *)
(* the wrong order shows, and the newline, which keeps steps from merging.  *)
EXTENDS UndoStack

CONSTANTS x, y, nl

MCChar == {x, y, nl}
MCTexts == {<<x>>, <<nl>>}
MCLoadedText == <<x, y>>
=============================================================================
