--------------------------- MODULE MCIdleTaskQueue ---------------------------
(* Small instance of IdleTaskQueue: three tasks suffice for one that runs, *)
(* one that is ready and one that waits, or for three in the heap; with    *)
(* two delays, one that is due hides below one that is not.                *)
EXTENDS IdleTaskQueue

MCDelays == {0, 1, 2}
=============================================================================
