--------------------------- MODULE FrameScheduler ---------------------------
(***************************************************************************)
(* editor::Scheduler, the animation frames of the main thread.  Handlers,  *)
(* windows that want to paint and the script thread, ask for a frame from  *)
(* any thread; the first request posts BeginFrame to the message loop of   *)
(* the main thread, and the frame calls every handler that asked.  The     *)
(* lock is taken several times in a frame; each time is a step.            *)
(***************************************************************************)
EXTENDS Naturals, FiniteSets

CONSTANTS
  Handler,    \* the handlers, ui::AnimationFrameHandler
  Deferring   \* handlers whose CanHandleAnimationFrame may say no

ASSUME DeferringAssumption == Deferring \subseteq Handler

VARIABLES
  state,      \* state_: "Idle", "Running", "Sleeping" or "Waiting"
  pending,    \* pending_handlers_
  timers,     \* number of BeginFrame posted to the message loop
  main,       \* where the main thread is in BeginFrame
  toRun,      \* running_handlers of HandleAnimationFrame
  deferred    \* pending_handlers of HandleAnimationFrame

vars == <<state, pending, timers, main, toRun, deferred>>

-----------------------------------------------------------------------------
(* ScheduleNextFrame, from the state Sleeping to Waiting.                  *)
ScheduleNextFrame ==
  /\ state' = "Waiting"
  /\ timers' = timers + 1

(* Mutant of RequestAnimationFrame: every new request posts a frame.       *)
RequestAnimationFrameAlways(h) ==
  /\ pending' = pending \cup {h}
  /\ IF h \notin pending THEN ScheduleNextFrame ELSE UNCHANGED <<state, timers>>
  /\ UNCHANGED <<main, toRun, deferred>>

(* On any thread, all of it under the lock.                                *)
RequestAnimationFrame(h) ==
  /\ pending' = pending \cup {h}
  /\ IF h \notin pending /\ state \in {"Idle", "Sleeping"}
     THEN ScheduleNextFrame
     ELSE UNCHANGED <<state, timers>>
  /\ UNCHANGED <<main, toRun, deferred>>

(* The handler is only taken from the requests that no frame has begun to  *)
(* serve; canceled_handlers_ stays empty.                                  *)
CancelAnimationFrameRequest(h) ==
  /\ pending' = pending \ {h}
  /\ UNCHANGED <<state, timers, main, toRun, deferred>>

(* BeginFrame up to the lock: the script thread is told about the frame.   *)
BeginFrame ==
  /\ main = "out"
  /\ timers > 0
  /\ timers' = timers - 1
  /\ main' = "begun"
  /\ UNCHANGED <<state, pending, toRun, deferred>>

ChangeStateToRunning ==
  /\ main = "begun"
  /\ state' = "Running"
  /\ main' = "running"
  /\ UNCHANGED <<pending, timers, toRun, deferred>>

(* Mutant of SwapHandlers: the requests are copied.                        *)
CopyHandlers ==
  /\ main = "running"
  /\ toRun' = pending
  /\ main' = "handling"
  /\ UNCHANGED <<state, pending, timers, deferred>>

(* HandleAnimationFrame takes all requests ...                             *)
SwapHandlers ==
  /\ main = "running"
  /\ toRun' = pending
  /\ pending' = {}
  /\ main' = "handling"
  /\ UNCHANGED <<state, timers, deferred>>

(* ... and calls the handlers one by one, in the order of a hash table.    *)
HandleAnimationFrame(h) ==
  /\ main = "handling"
  /\ h \in toRun
  /\ toRun' = toRun \ {h}
  /\ UNCHANGED <<state, pending, timers, main, deferred>>

DeferHandler(h) ==
  /\ main = "handling"
  /\ h \in toRun \cap Deferring
  /\ toRun' = toRun \ {h}
  /\ deferred' = deferred \cup {h}
  /\ UNCHANGED <<state, pending, timers, main>>

(* Mutant of EndHandlers: the deferred handlers are dropped.               *)
EndHandlersDropping ==
  /\ main = "handling"
  /\ toRun = {}
  /\ deferred' = {}
  /\ main' = "committed"
  /\ UNCHANGED <<state, pending, timers, toRun>>

(* The deferred handlers stay requested; then CommitFrame.                 *)
EndHandlers ==
  /\ main = "handling"
  /\ toRun = {}
  /\ pending' = pending \cup deferred
  /\ deferred' = {}
  /\ main' = "committed"
  /\ UNCHANGED <<state, timers, toRun>>

(* Mutant of EndFrame: requests made during the frame are not looked at.   *)
EndFrameIdle ==
  /\ main = "committed"
  /\ state' = "Idle"
  /\ main' = "out"
  /\ UNCHANGED <<pending, timers, toRun, deferred>>

(* The last part of BeginFrame, under the lock.                            *)
EndFrame ==
  /\ main = "committed"
  /\ IF pending # {} THEN ScheduleNextFrame
     ELSE state' = "Idle" /\ timers' = timers
  /\ main' = "out"
  /\ UNCHANGED <<pending, toRun, deferred>>

-----------------------------------------------------------------------------
Init ==
  /\ state = "Sleeping"
  /\ pending = {} /\ timers = 0
  /\ main = "out" /\ toRun = {} /\ deferred = {}

MainThread ==
  \/ BeginFrame \/ ChangeStateToRunning \/ SwapHandlers
  \/ \E h \in Handler : HandleAnimationFrame(h) \/ DeferHandler(h)
  \/ EndHandlers \/ EndFrame

Next ==
  \/ \E h \in Handler : RequestAnimationFrame(h) \/ CancelAnimationFrameRequest(h)
  \/ MainThread

(* The message loop runs a frame that was posted, and a frame ends.        *)
Fairness == WF_vars(MainThread)

Spec == Init /\ [][Next]_vars /\ Fairness

-----------------------------------------------------------------------------
(* Properties                                                              *)

TypeOK ==
  /\ state \in {"Idle", "Running", "Sleeping", "Waiting"}
  /\ pending \subseteq Handler /\ timers \in Nat
  /\ main \in {"out", "begun", "running", "handling", "committed"}
  /\ toRun \subseteq Handler /\ deferred \subseteq Handler

(* One frame at a time: BeginFrame is in the message loop exactly while    *)
(* the state is Waiting and no frame is under way, once.  It is what makes *)
(* DCHECK_EQ(State::Waiting) of BeginFrame, DCHECK_EQ(State::Sleeping) of  *)
(* ScheduleNextFrame and DCHECK_EQ(State::Running) of CommitFrame hold,    *)
(* whatever requests come between the lock scopes of a frame.              *)
OneFrame ==
  /\ timers = IF state = "Waiting" /\ main = "out" THEN 1 ELSE 0
  /\ main = "begun" => state = "Waiting"
  /\ main \in {"running", "handling", "committed"} <=> state = "Running"

(* No request is forgotten: while a handler waits for a frame, a frame is  *)
(* posted, or one is under way that will see the request or post the next. *)
RequestHasFrame == pending # {} => timers > 0 \/ main # "out"

(* A request is not lost on its way through the sets of a frame: it is     *)
(* gone only when its handler was called or the request was taken back,    *)
(* and a handler that defers keeps it.                                     *)
RequestsKept ==
  [][\A h \in Handler :
       h \in pending \cup toRun \cup deferred
         => \/ h \in (pending \cup toRun \cup deferred)'
            \/ HandleAnimationFrame(h)
            \/ CancelAnimationFrameRequest(h)]_vars

(* A request is taken up by a frame, unless it is taken back, and the      *)
(* frame gets to every handler it took; no handler is left behind because  *)
(* others keep asking.                                                     *)
EveryRequestServed ==
  \A h \in Handler :
    /\ h \in pending ~> h \notin pending
    /\ h \in toRun ~> h \notin toRun
=============================================================================
