--------------------------- MODULE AnimationFrames ---------------------------
(***************************************************************************)
(* requestAnimationFrame: the callbacks of dom::SchedulerImpl on the       *)
(* script thread, dom::ScriptThread, which turns them into requests for a  *)
(* frame, and the FrameScheduler of the main thread.                       *)
(*                                                                         *)
(* ScriptThread counts its requests to ask the main thread only once per   *)
(* frame.  The counter is a plain int that the script thread increments    *)
(* and decrements and the main thread resets, without a lock: reading and  *)
(* writing it are steps of their own.                                      *)
(***************************************************************************)
EXTENDS Integers, FrameScheduler

CONSTANTS
  ScriptThread,         \* the handler that is the ScriptThread
  MaxCallbacks,         \* bound: number of callbacks given
  MaxCancels            \* bound: number of calls of cancelAnimationFrame

ASSUME HandlerAssumption == ScriptThread \in Handler \ Deferring
ASSUME CallbackBoundsAssumption == MaxCallbacks \in Nat /\ MaxCancels \in Nat

VARIABLES
  callbacks,     \* the keys of callback_map_
  lastId,        \* last_callback_id_
  requestCount,  \* animation_frame_request_count_
  op,            \* where the script thread is in a request or a cancellation
  register,      \* what it read of requestCount
  loop,          \* number of SchedulerImpl::BeginFrame in its message loop
  inFrame,       \* whether it is in DidBeginAnimationFrame
  batch,         \* the vector `callbacks` there: what is left to run
  ran,           \* history: the callbacks that ran
  canceled,      \* history: the callbacks canceled before they ran
  cancels        \* calls of cancelAnimationFrame so far (for MaxCancels)

countVars == <<requestCount, op, register>>
callbackVars == <<callbacks, lastId, inFrame, batch, ran, canceled, cancels>>
allVars == <<vars, countVars, callbackVars, loop>>

-----------------------------------------------------------------------------
(* Scripts on the script thread, in a callback or in any other task        *)

(* The queue of callbacks: a new one gets the next id; canceling an id     *)
(* that is not in the map does nothing.                                    *)
Give ==
  /\ lastId' = lastId + 1
  /\ callbacks' = callbacks \cup {lastId + 1}

Cancel(id) == callbacks' = callbacks \ {id}

(* SchedulerImpl::RequestAnimationFrame; asking for a frame comes after.   *)
RequestCallback ==
  /\ op = "none"
  /\ lastId < MaxCallbacks
  /\ Give
  /\ op' = "increment"
  /\ UNCHANGED <<vars, requestCount, register, inFrame, batch, ran, canceled, cancels, loop>>

(* SchedulerImpl::CancelAnimationFrame for an id a script got, also one    *)
(* that was canceled or ran already.                                       *)
CancelCallback(id) ==
  /\ op = "none"
  /\ cancels < MaxCancels
  /\ id <= lastId
  /\ cancels' = cancels + 1
  /\ Cancel(id)
  /\ canceled' = IF id \in ran THEN canceled ELSE canceled \cup {id}
  /\ op' = "decrement"
  /\ UNCHANGED <<vars, requestCount, register, lastId, inFrame, batch, ran, loop>>

(* ScriptThread::DidRequestAnimationFrame and DidCancelAnimationFrame.     *)
ReadCount ==
  /\ op \in {"increment", "decrement"}
  /\ register' = requestCount
  /\ op' = IF op = "increment" THEN "incremented" ELSE "decremented"
  /\ UNCHANGED <<vars, requestCount, callbackVars, loop>>

WriteCount ==
  /\ \/ op = "incremented" /\ requestCount' = register + 1
     \/ op = "decremented" /\ requestCount' = register - 1
  /\ register' = requestCount'
  /\ op' = IF op = "incremented" THEN "testRequest" ELSE "testCancel"
  /\ UNCHANGED <<vars, callbackVars, loop>>

(* The test whether this is the first request, or was the last one.  The   *)
(* build may test the value it wrote or read the counter again.            *)
TestCount ==
  /\ \E value \in {register, requestCount} :
       \/ op = "testRequest" /\ op' = IF value = 1 THEN "request" ELSE "none"
       \/ op = "testCancel" /\ op' = IF value = 0 THEN "cancel" ELSE "none"
  /\ register' = 0
  /\ UNCHANGED <<vars, requestCount, callbackVars, loop>>

AskForFrame ==
  /\ \/ op = "request" /\ RequestAnimationFrame(ScriptThread)
     \/ op = "cancel" /\ CancelAnimationFrameRequest(ScriptThread)
  /\ op' = "none"
  /\ UNCHANGED <<requestCount, register, callbackVars, loop>>

-----------------------------------------------------------------------------
(* Mutant of BeginScriptFrame: the callbacks stay in the map.              *)
BeginScriptFrameCopying ==
  /\ loop > 0
  /\ ~inFrame /\ op = "none"
  /\ loop' = loop - 1
  /\ inFrame' = TRUE
  /\ batch' = callbacks
  /\ UNCHANGED <<vars, countVars, callbacks, lastId, ran, canceled, cancels>>

(* The frame on the script thread: DidBeginAnimationFrame empties the map  *)
(* before it runs the callbacks, in the order of a hash table.             *)
BeginScriptFrame ==
  /\ loop > 0
  /\ ~inFrame /\ op = "none"
  /\ loop' = loop - 1
  /\ inFrame' = TRUE
  /\ batch' = callbacks
  /\ callbacks' = {}
  /\ UNCHANGED <<vars, countVars, lastId, ran, canceled, cancels>>

RunCallback(id) ==
  /\ inFrame /\ op = "none"
  /\ id \in batch
  /\ batch' = batch \ {id}
  /\ ran' = ran \cup {id}
  /\ UNCHANGED <<vars, countVars, callbacks, lastId, inFrame, canceled, cancels, loop>>

EndScriptFrame ==
  /\ inFrame /\ op = "none" /\ batch = {}
  /\ inFrame' = FALSE
  /\ UNCHANGED <<vars, countVars, callbacks, lastId, batch, ran, canceled, cancels, loop>>

-----------------------------------------------------------------------------
(* Mutant of BeginViewFrame: the script thread is only told when requests  *)
(* are counted.                                                            *)
BeginViewFrameCounted ==
  /\ BeginFrame
  /\ requestCount' = 0
  /\ loop' = IF requestCount > 0 /\ loop < 2 THEN loop + 1 ELSE loop
  /\ UNCHANGED <<op, register, callbackVars>>

(* The main thread: a frame resets the counter and posts BeginFrame to the *)
(* script thread (ScriptThread::DidBeginFrame).  A frame that is posted    *)
(* while one still waits in the message loop makes no difference to the    *)
(* callbacks, so loop stops at 2.                                          *)
BeginViewFrame ==
  /\ BeginFrame
  /\ requestCount' = 0
  /\ loop' = IF loop < 2 THEN loop + 1 ELSE loop
  /\ UNCHANGED <<op, register, callbackVars>>

ContinueViewFrame ==
  /\ \/ ChangeStateToRunning \/ SwapHandlers
     \/ \E h \in Handler : HandleAnimationFrame(h) \/ DeferHandler(h)
     \/ EndHandlers \/ EndFrame
  /\ UNCHANGED <<countVars, callbackVars, loop>>

(* Windows ask for frames and take requests back, too.                     *)
OtherHandlerAsks ==
  /\ \E h \in Handler \ {ScriptThread} :
       RequestAnimationFrame(h) \/ CancelAnimationFrameRequest(h)
  /\ UNCHANGED <<countVars, callbackVars, loop>>

-----------------------------------------------------------------------------
CallbackInit ==
  /\ Init
  /\ callbacks = {} /\ lastId = 0 /\ requestCount = 0 /\ op = "none" /\ register = 0
  /\ loop = 0 /\ inFrame = FALSE /\ batch = {} /\ ran = {} /\ canceled = {} /\ cancels = 0

MainFrames == BeginViewFrame \/ ContinueViewFrame

ScriptStep ==
  \/ ReadCount \/ WriteCount \/ TestCount \/ AskForFrame
  \/ BeginScriptFrame \/ EndScriptFrame
  \/ \E id \in 1..MaxCallbacks : RunCallback(id)

CallbackNext ==
  \/ RequestCallback \/ \E id \in 1..MaxCallbacks : CancelCallback(id)
  \/ ScriptStep \/ MainFrames \/ OtherHandlerAsks

(* Both threads go on with what they began and run what is posted to them. *)
(* Nobody has to ask for a frame or a callback.                            *)
CallbackFairness == WF_allVars(MainFrames) /\ WF_allVars(ScriptStep)

CallbackSpec == CallbackInit /\ [][CallbackNext]_allVars /\ CallbackFairness

-----------------------------------------------------------------------------
(* Properties                                                              *)

(* Type invariant; callbacks are only taken out of the map to run them in  *)
(* the frame that is under way.                                            *)
CallbackTypeOK ==
  /\ TypeOK
  /\ inFrame \/ batch = {}
  /\ callbacks \subseteq 1..MaxCallbacks /\ batch \subseteq 1..MaxCallbacks
  /\ ran \subseteq 1..MaxCallbacks /\ canceled \subseteq 1..MaxCallbacks
  /\ lastId \in 0..MaxCallbacks /\ cancels \in 0..MaxCancels
  /\ requestCount \in Int /\ register \in Int /\ loop \in 0..2 /\ inFrame \in BOOLEAN
  /\ op \in {"none", "increment", "incremented", "testRequest", "request",
             "decrement", "decremented", "testCancel", "cancel"}

(* A callback is in one place only, so it runs at most once; one given     *)
(* from within a callback belongs to the next frame.                       *)
RunsOnce ==
  /\ CallbackTypeOK
  /\ callbacks \cap batch = {} /\ callbacks \cap ran = {} /\ batch \cap ran = {}
  /\ 1..lastId = callbacks \cup batch \cup ran \cup canceled

(* As long as the main thread begins frames, for whatever handler, every   *)
(* callback runs or is canceled, however its requests are counted.         *)
CallbacksRunWithFrames ==
  ([]<>(main = "begun")) =>
    \A id \in 1..MaxCallbacks : id \in callbacks ~> id \in ran \cup canceled
=============================================================================
