---------------------------- MODULE MCScriptTasks ----------------------------
(* Small instance of ScriptTasks: two threads that race for the queue,     *)
(* and two idle tasks, so that one may give the other.                     *)
EXTENDS ScriptTasks

CONSTANTS view, io

MCThread == {view, io}
MCDelays == {0}
=============================================================================
