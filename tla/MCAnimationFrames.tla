------------------------- MODULE MCAnimationFrames -------------------------
(* Small instance of AnimationFrames: the script thread, a window that may *)
(* defer its frame, and one that never does.                               *)
EXTENDS AnimationFrames

CONSTANTS script, window, tip

MCHandler == {script, window, tip}
MCDeferring == {window}
=============================================================================
