----------------------- MODULE AnimationFramesProofs ------------------------
(***************************************************************************)
(* Proofs about FrameScheduler, for any number of handlers, and about its  *)
(* composition with the script thread, for any number of callbacks and     *)
(* cancellations.                                                          *)
(***************************************************************************)
EXTENDS AnimationFrames, TLAPS

-----------------------------------------------------------------------------
(***************************************************************************)
(* FrameScheduler alone.  OneFrame is inductive with the type invariant:   *)
(* each lock scope of the main thread moves `main` and `state` together,   *)
(* and a request posts a frame only in the states Idle and Sleeping, in    *)
(* which OneFrame says that none is posted and none is under way.          *)
(* RequestHasFrame needs OneFrame: a request that posts nothing found the  *)
(* state Waiting or Running.  EmptyOutside is needed for NoRequestLost:    *)
(* SwapHandlers overwrites toRun.                                          *)
(***************************************************************************)

(* The local variables of HandleAnimationFrame are empty outside of it.    *)
EmptyOutside == main # "handling" => toRun = {}

Inv == TypeOK /\ OneFrame /\ RequestHasFrame /\ EmptyOutside

LEMMA InitInv == Init => Inv
BY DEF Init, Inv, TypeOK, OneFrame, RequestHasFrame, EmptyOutside

LEMMA NextInv == Inv /\ [Next]_vars => Inv'
<1> SUFFICES ASSUME Inv, [Next]_vars PROVE Inv'
  OBVIOUS
<1> USE DEF Inv, TypeOK, OneFrame, RequestHasFrame, EmptyOutside
<1>1. ASSUME NEW h \in Handler, RequestAnimationFrame(h) PROVE Inv'
  <2>1. CASE h \notin pending /\ state \in {"Idle", "Sleeping"}
    <3>1. main = "out" /\ timers = 0
      BY <2>1
    <3>2. QED
      BY <1>1, <2>1, <3>1 DEF RequestAnimationFrame, ScheduleNextFrame
  <2>2. CASE ~(h \notin pending /\ state \in {"Idle", "Sleeping"})
    BY <1>1, <2>2 DEF RequestAnimationFrame
  <2>3. QED
    BY <2>1, <2>2
<1>2. ASSUME NEW h \in Handler, CancelAnimationFrameRequest(h) PROVE Inv'
  BY <1>2 DEF CancelAnimationFrameRequest
<1>3. CASE BeginFrame
  BY <1>3 DEF BeginFrame
<1>4. CASE ChangeStateToRunning
  BY <1>4 DEF ChangeStateToRunning
<1>5. CASE SwapHandlers
  BY <1>5 DEF SwapHandlers
<1>6. ASSUME NEW h \in Handler, HandleAnimationFrame(h) PROVE Inv'
  BY <1>6 DEF HandleAnimationFrame
<1>7. ASSUME NEW h \in Handler, DeferHandler(h) PROVE Inv'
  BY <1>7 DEF DeferHandler
<1>8. CASE EndHandlers
  BY <1>8 DEF EndHandlers
<1>9. CASE EndFrame
  BY <1>9 DEF EndFrame, ScheduleNextFrame
<1>10. CASE UNCHANGED vars
  BY <1>10 DEF vars
<1>11. QED
  BY <1>1, <1>2, <1>3, <1>4, <1>5, <1>6, <1>7, <1>8, <1>9, <1>10 DEF Next, MainThread

LEMMA SpecInv == Spec => []Inv
BY InitInv, NextInv, PTL DEF Spec

(* However requests, cancellations and the lock scopes of a frame          *)
(* interleave, BeginFrame is never posted twice and finds the state its    *)
(* assertions ask for (Scheduler::BeginFrame, ScheduleNextFrame and        *)
(* CommitFrame).                                                           *)
THEOREM FramesDoNotOverlap == Spec => []OneFrame
<1>1. Inv => OneFrame
  BY DEF Inv
<1>2. QED
  BY <1>1, SpecInv, PTL

(* A handler that waits for a frame never waits without one posted or      *)
(* under way (Scheduler::RequestAnimationFrame and the end of BeginFrame). *)
THEOREM RequestsHaveFrames == Spec => []RequestHasFrame
<1>1. Inv => RequestHasFrame
  BY DEF Inv
<1>2. QED
  BY <1>1, SpecInv, PTL

(* A request only ends with the call of its handler or by being taken      *)
(* back: no lock scope of Scheduler::HandleAnimationFrame drops one.       *)
THEOREM NoRequestLost == Spec => RequestsKept
<1> DEFINE Held == pending \cup toRun \cup deferred
<1>1. ASSUME Inv, [Next]_vars, NEW h \in Handler, h \in Held
      PROVE  \/ h \in Held'
             \/ HandleAnimationFrame(h)
             \/ CancelAnimationFrameRequest(h)
  <2>1. ASSUME NEW g \in Handler, RequestAnimationFrame(g) PROVE h \in Held'
    BY <1>1, <2>1 DEF RequestAnimationFrame
  <2>2. ASSUME NEW g \in Handler, CancelAnimationFrameRequest(g), g # h PROVE h \in Held'
    BY <1>1, <2>2 DEF CancelAnimationFrameRequest
  <2>3. ASSUME NEW g \in Handler, HandleAnimationFrame(g), g # h PROVE h \in Held'
    BY <1>1, <2>3 DEF HandleAnimationFrame
  <2>4. ASSUME NEW g \in Handler, DeferHandler(g) PROVE h \in Held'
    BY <1>1, <2>4 DEF DeferHandler
  <2>5. CASE BeginFrame \/ ChangeStateToRunning \/ EndFrame \/ UNCHANGED vars
    BY <1>1, <2>5 DEF BeginFrame, ChangeStateToRunning, EndFrame, vars
  <2>6. CASE SwapHandlers
    BY <1>1, <2>6 DEF SwapHandlers, Inv, EmptyOutside
  <2>7. CASE EndHandlers
    BY <1>1, <2>7 DEF EndHandlers
  <2>8. QED
    BY <1>1, <2>1, <2>2, <2>3, <2>4, <2>5, <2>6, <2>7 DEF Next, MainThread
<1>2. Inv /\ [Next]_vars
        => [\A h \in Handler :
              h \in pending \cup toRun \cup deferred
                => \/ h \in (pending \cup toRun \cup deferred)'
                   \/ HandleAnimationFrame(h)
                   \/ CancelAnimationFrameRequest(h)]_vars
  BY <1>1
<1>3. QED
  BY <1>2, SpecInv, PTL DEF Spec, RequestsKept

-----------------------------------------------------------------------------
(***************************************************************************)
(* The composition.  Whatever the script thread does is, for the frame     *)
(* scheduler, a request, a cancellation or nothing (StepIsFrameStep): what *)
(* is proved of it alone holds in the composition.  RunsOnce is inductive  *)
(* with that: the parts say of every id given where its callback is, and a *)
(* frame moves all of the map into the batch only when the batch is empty. *)
(***************************************************************************)

CallbackInv == Inv /\ RunsOnce

(* What of the scheduler a step of the composition changes, it changes the *)
(* way a step of the scheduler does.                                       *)
LEMMA StepIsFrameStep == [CallbackNext]_allVars => [Next]_vars
<1> SUFFICES ASSUME [CallbackNext]_allVars PROVE [Next]_vars
  OBVIOUS
<1>0. ScriptThread \in Handler
  BY HandlerAssumption
<1>1. CASE RequestCallback
  BY <1>1 DEF RequestCallback
<1>2. CASE \E id \in 1..MaxCallbacks : CancelCallback(id)
  BY <1>2 DEF CancelCallback
<1>3. CASE ReadCount \/ WriteCount \/ TestCount
  BY <1>3 DEF ReadCount, WriteCount, TestCount
<1>4. CASE AskForFrame
  BY <1>0, <1>4 DEF AskForFrame, Next
<1>5. CASE BeginScriptFrame \/ EndScriptFrame
  BY <1>5 DEF BeginScriptFrame, EndScriptFrame
<1>6. CASE \E id \in 1..MaxCallbacks : RunCallback(id)
  BY <1>6 DEF RunCallback
<1>7. CASE BeginViewFrame
  BY <1>7 DEF BeginViewFrame, Next, MainThread
<1>8. CASE ContinueViewFrame
  BY <1>8 DEF ContinueViewFrame, Next, MainThread
<1>9. CASE OtherHandlerAsks
  BY <1>9 DEF OtherHandlerAsks, Next
<1>10. CASE UNCHANGED allVars
  BY <1>10 DEF allVars
<1>11. QED
  BY <1>1, <1>2, <1>3, <1>4, <1>5, <1>6, <1>7, <1>8, <1>9, <1>10
     DEF CallbackNext, ScriptStep, MainFrames

LEMMA CallbackInitInv == CallbackInit => CallbackInv
<1> SUFFICES ASSUME CallbackInit PROVE CallbackInv
  OBVIOUS
<1>1. Inv
  BY InitInv DEF CallbackInit
<1>2. CallbackTypeOK
  <2>1. 0 \in 0..MaxCallbacks /\ 0 \in 0..MaxCancels /\ 0 \in 0..2 /\ 0 \in Int
    BY CallbackBoundsAssumption
  <2>2. QED
    BY <1>1, <2>1 DEF CallbackInit, Inv, CallbackTypeOK
<1>3. 1..lastId = {}
  BY DEF CallbackInit
<1>4. RunsOnce
  BY <1>2, <1>3 DEF CallbackInit, RunsOnce
<1>5. QED
  BY <1>1, <1>4 DEF CallbackInv

LEMMA CallbackNextInv == CallbackInv /\ [CallbackNext]_allVars => CallbackInv'
<1> SUFFICES ASSUME CallbackInv, [CallbackNext]_allVars PROVE CallbackInv'
  OBVIOUS
<1>0. Inv' /\ TypeOK'
  BY NextInv, StepIsFrameStep DEF CallbackInv, Inv
<1> USE CallbackBoundsAssumption DEF CallbackInv, RunsOnce, CallbackTypeOK
<1>1. CASE RequestCallback
  <2>1. lastId + 1 \in 1..MaxCallbacks /\ 1..(lastId + 1) = 1..lastId \cup {lastId + 1}
    BY <1>1 DEF RequestCallback
  <2>2. lastId + 1 \notin batch \cup ran
    <3>1. lastId + 1 \notin 1..lastId
      OBVIOUS
    <3>2. QED
      BY <3>1
  <2>3. QED
    BY <1>0, <1>1, <2>1, <2>2 DEF RequestCallback, Give
<1>2. ASSUME NEW id \in 1..MaxCallbacks, CancelCallback(id) PROVE CallbackInv'
  <2>1. id \in 1..lastId
    BY <1>2 DEF CancelCallback
  <2>2. QED
    BY <1>0, <1>2, <2>1 DEF CancelCallback, Cancel
<1>3. CASE ReadCount
  BY <1>0, <1>3 DEF ReadCount, callbackVars
<1>4. CASE WriteCount
  BY <1>0, <1>4 DEF WriteCount, callbackVars
<1>5. CASE TestCount
  BY <1>0, <1>5 DEF TestCount, callbackVars
<1>6. CASE AskForFrame
  BY <1>0, <1>6 DEF AskForFrame, callbackVars
<1>7. CASE BeginScriptFrame
  BY <1>0, <1>7 DEF BeginScriptFrame, countVars
<1>8. CASE EndScriptFrame
  BY <1>0, <1>8 DEF EndScriptFrame, countVars
<1>9. ASSUME NEW id \in 1..MaxCallbacks, RunCallback(id) PROVE CallbackInv'
  BY <1>0, <1>9 DEF RunCallback, countVars
<1>10. CASE BeginViewFrame
  BY <1>0, <1>10 DEF BeginViewFrame, callbackVars
<1>11. CASE ContinueViewFrame \/ OtherHandlerAsks
  BY <1>0, <1>11 DEF ContinueViewFrame, OtherHandlerAsks, countVars, callbackVars
<1>12. CASE UNCHANGED allVars
  BY <1>0, <1>12 DEF allVars, countVars, callbackVars
<1>13. QED
  BY <1>1, <1>2, <1>3, <1>4, <1>5, <1>6, <1>7, <1>8, <1>9, <1>10, <1>11, <1>12
     DEF CallbackNext, ScriptStep, MainFrames

LEMMA CallbackSpecInv == CallbackSpec => []CallbackInv
BY CallbackInitInv, CallbackNextInv, PTL DEF CallbackSpec

(* A callback is in the map, in the batch of a frame, run or canceled; it  *)
(* runs at most once, and one given by a callback waits for the next frame *)
(* (SchedulerImpl::RequestAnimationFrame, CancelAnimationFrame and         *)
(* DidBeginAnimationFrame).                                                *)
THEOREM CallbacksRunOnce == CallbackSpec => []RunsOnce
<1>1. CallbackInv => RunsOnce
  BY DEF CallbackInv
<1>2. QED
  BY <1>1, CallbackSpecInv, PTL

(* With the script thread and its unlocked counter as one of the handlers, *)
(* frames still do not overlap and no request waits without a frame.       *)
THEOREM FramesStaySound == CallbackSpec => [](OneFrame /\ RequestHasFrame)
<1>1. CallbackInv => OneFrame /\ RequestHasFrame
  BY DEF CallbackInv, Inv
<1>2. QED
  BY <1>1, CallbackSpecInv, PTL
=============================================================================
