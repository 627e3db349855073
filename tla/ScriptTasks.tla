----------------------------- MODULE ScriptTasks -----------------------------
(***************************************************************************)
(* How work reaches the script thread: dom::ScriptThread with the task     *)
(* queue and the message loop of dom::SchedulerImpl, composed with the     *)
(* IdleTaskQueue.  Other threads, the view and the I/O threads, put tasks  *)
(* into a queue under a lock; the thread that finds the queue empty also   *)
(* posts ProcessTasks to the message loop of the script thread.  One       *)
(* ProcessTasks runs tasks until the queue is empty.  A frame of the view  *)
(* posts BeginFrame, which runs idle tasks.                                *)
(*                                                                         *)
(* Every effect that another thread can see is a step of its own.          *)
(***************************************************************************)
EXTENDS IdleTaskQueue

CONSTANTS
  Thread,          \* the threads that schedule script tasks
  MaxScriptTasks,  \* bound: number of script tasks scheduled
  MaxPosted        \* bound: closures in the message loop when a frame is posted

ASSUME ScriptBoundsAssumption == MaxScriptTasks \in Nat /\ MaxPosted \in Nat

VARIABLES
  tasks,      \* TaskQueue::tasks_; the tasks are numbered in the order given
  lastTask,   \* the number of the task given last
  caller,     \* where each thread is in ScheduleScriptTask
  loop,       \* the closures posted to the message loop of the script thread
  requested,  \* whether ScriptThread waits for an animation frame of the view
  script,     \* where the script thread is
  running,    \* the script task it runs, 0 for none
  ran         \* history: the script tasks that ran, in order

scriptVars == <<tasks, lastTask, caller, loop, requested, script, running, ran>>
allVars == <<vars, scriptVars>>

-----------------------------------------------------------------------------
(* ScheduleScriptTask on another thread                                    *)

(* TaskQueue::GiveTask holds the lock and tells whether the task is alone. *)
GiveScriptTask(t) ==
  /\ caller[t] = "idle"
  /\ lastTask < MaxScriptTasks
  /\ lastTask' = lastTask + 1
  /\ tasks' = Append(tasks, lastTask + 1)
  /\ caller' = [caller EXCEPT ![t] = IF Len(tasks') = 1 THEN "post" ELSE "stop"]
  /\ UNCHANGED <<vars, loop, requested, script, running, ran>>

(* Mutant of PostProcessTasks: any closure in the message loop will do.    *)
PostIfLoopEmpty(t) ==
  /\ caller[t] = "post"
  /\ loop' = IF loop = << >> THEN Append(loop, "ProcessTasks") ELSE loop
  /\ caller' = [caller EXCEPT ![t] = "stop"]
  /\ UNCHANGED <<vars, tasks, lastTask, requested, script, running, ran>>

PostProcessTasks(t) ==
  /\ caller[t] = "post"
  /\ loop' = Append(loop, "ProcessTasks")
  /\ caller' = [caller EXCEPT ![t] = "stop"]
  /\ UNCHANGED <<vars, tasks, lastTask, requested, script, running, ran>>

CallStopIdleTasks(t) ==
  /\ caller[t] = "stop"
  /\ StopIdleTasks
  /\ caller' = [caller EXCEPT ![t] = "request"]
  /\ UNCHANGED <<tasks, lastTask, loop, requested, script, running, ran>>

RequestAnimationFrame(t) ==
  /\ caller[t] = "request"
  /\ requested' = TRUE
  /\ caller' = [caller EXCEPT ![t] = "idle"]
  /\ UNCHANGED <<vars, tasks, lastTask, loop, script, running, ran>>

(* The view begins a frame, requested by ScriptThread or by others, and    *)
(* DidBeginFrame posts it to the script thread.                            *)
DidBeginFrame ==
  /\ Len(loop) < MaxPosted
  /\ loop' = Append(loop, "BeginFrame")
  /\ requested' = FALSE
  /\ UNCHANGED <<vars, tasks, lastTask, caller, script, running, ran>>

-----------------------------------------------------------------------------
(* The script thread runs ProcessTasks                                     *)

ProcessTasks ==
  /\ script = "wait"
  /\ loop # << >> /\ Head(loop) = "ProcessTasks"
  /\ loop' = Tail(loop)
  /\ script' = "take"
  /\ UNCHANGED <<vars, tasks, lastTask, caller, requested, running, ran>>

(* Mutant of TakeTask: the newest task is taken.                           *)
TakeNewestTask ==
  /\ script = "take"
  /\ tasks # << >>
  /\ running' = tasks[Len(tasks)]
  /\ ran' = Append(ran, tasks[Len(tasks)])
  /\ tasks' = SubSeq(tasks, 1, Len(tasks) - 1)
  /\ script' = "task"
  /\ UNCHANGED <<vars, lastTask, caller, loop, requested>>

(* TakeTask holds the lock.                                                *)
TakeTask ==
  /\ script = "take"
  /\ tasks # << >>
  /\ running' = Head(tasks)
  /\ ran' = Append(ran, Head(tasks))
  /\ tasks' = Tail(tasks)
  /\ script' = "task"
  /\ UNCHANGED <<vars, lastTask, caller, loop, requested>>

(* Mutant of EndScriptTask: ProcessTasks runs one task.                    *)
EndScriptTaskAndReturn ==
  /\ script = "task"
  /\ running' = 0
  /\ script' = "wait"
  /\ UNCHANGED <<vars, tasks, lastTask, caller, loop, requested, ran>>

EndScriptTask ==
  /\ script = "task"
  /\ running' = 0
  /\ script' = "take"
  /\ UNCHANGED <<vars, tasks, lastTask, caller, loop, requested, ran>>

(* The queue was empty: microtasks run before the queue is looked at again.*)
RunMicrotasks ==
  /\ script = "take"
  /\ tasks = << >>
  /\ script' = "microtasks"
  /\ UNCHANGED <<vars, tasks, lastTask, caller, loop, requested, running, ran>>

(* IsEmpty holds the lock: the loop goes on when a task came meanwhile.    *)
CheckEmpty ==
  /\ script = "microtasks"
  /\ script' = IF tasks = << >> THEN "wait" ELSE "take"
  /\ UNCHANGED <<vars, tasks, lastTask, caller, loop, requested, running, ran>>

-----------------------------------------------------------------------------
(* The script thread runs BeginFrame                                       *)

(* The deadline of the frame may have passed already, which leaves idle    *)
(* tasks to a later frame.                                                 *)
BeginFrame ==
  /\ script = "wait"
  /\ loop # << >> /\ Head(loop) = "BeginFrame"
  /\ loop' = Tail(loop)
  /\ \/ RunIdleTasks /\ script' = "frame"
     \/ UNCHANGED vars /\ script' = "wait"
  /\ UNCHANGED <<tasks, lastTask, caller, requested, running, ran>>

RunIdleTask ==
  /\ script = "frame"
  /\ SkipTask \/ StartTask \/ EndTask
  /\ UNCHANGED scriptVars

EndFrame ==
  /\ script = "frame"
  /\ EndIdleTasks
  /\ script' = "wait"
  /\ UNCHANGED <<tasks, lastTask, caller, loop, requested, running, ran>>

(* Scripts give and cancel idle tasks, in a script task, in a microtask or *)
(* in an idle task.                                                        *)
ScriptRuns == script \in {"task", "microtasks"} \/ (script = "frame" /\ phase = "running")

UseIdleTasks ==
  /\ ScriptRuns
  /\ \/ \E d \in Delays : GiveTask(d)
     \/ \E t \in 1..MaxTasks : CancelTask(t)
  /\ UNCHANGED scriptVars

ClockTicks == Tick /\ UNCHANGED scriptVars

-----------------------------------------------------------------------------
ScriptInit ==
  /\ Init
  /\ tasks = << >> /\ lastTask = 0
  /\ caller = [t \in Thread |-> "idle"]
  /\ loop = << >> /\ requested = FALSE
  /\ script = "wait" /\ running = 0 /\ ran = << >>

(* What a handler of domapi::ViewEventHandler does, whatever the event,    *)
(* but DidBeginFrame and the key that breaks a script.                     *)
Schedule(t) ==
  GiveScriptTask(t) \/ PostProcessTasks(t) \/ CallStopIdleTasks(t) \/ RequestAnimationFrame(t)

ScriptThread ==
  \/ ProcessTasks \/ TakeTask \/ EndScriptTask \/ RunMicrotasks \/ CheckEmpty
  \/ BeginFrame \/ RunIdleTask \/ EndFrame

ScriptNext ==
  \/ \E t \in Thread : Schedule(t)
  \/ DidBeginFrame \/ ScriptThread \/ UseIdleTasks \/ ClockTicks

(* A call that was begun goes on, the message loop runs what is posted and *)
(* every callback returns; a requested frame begins.  No thread has to     *)
(* schedule a task and no frame has to come that nobody requested.         *)
ScriptFairness ==
  /\ \A t \in Thread :
       WF_allVars(PostProcessTasks(t) \/ CallStopIdleTasks(t) \/ RequestAnimationFrame(t))
  /\ WF_allVars(ScriptThread)
  /\ WF_allVars(requested /\ DidBeginFrame)

ScriptSpec == ScriptInit /\ [][ScriptNext]_allVars /\ ScriptFairness

-----------------------------------------------------------------------------
(* Properties                                                              *)

TaskTypeOK ==
  /\ tasks \in Seq(1..MaxScriptTasks) /\ lastTask \in 0..MaxScriptTasks
  /\ caller \in [Thread -> {"idle", "post", "stop", "request"}]
  /\ loop \in Seq({"ProcessTasks", "BeginFrame"})
  /\ requested \in BOOLEAN
  /\ script \in {"wait", "take", "task", "microtasks", "frame"}
  /\ running \in 0..MaxScriptTasks
  /\ ran \in Seq(1..MaxScriptTasks)

(* Type invariant, with the two state machines in step: RunIdleTasks is on *)
(* the stack of the script thread in a frame and never in a script task.   *)
ScriptTypeOK ==
  /\ TypeOK /\ TaskTypeOK
  /\ phase # "out" <=> script = "frame"

(* No wakeup is lost: when a script task is in the queue, the script       *)
(* thread is in the loop of ProcessTasks, or will be, or the thread that   *)
(* gave the task that stood alone is still going to post it.  GiveTask     *)
(* posts only for the first task of a queue, and the loop looks at the     *)
(* queue without holding the lock over its decisions.                      *)
InLoop == script \in {"take", "task", "microtasks"}
WillPost == \E t \in Thread : caller[t] = "post"
Posted == \E i \in 1..Len(loop) : loop[i] = "ProcessTasks"

NoLostWakeup == tasks # << >> => InLoop \/ WillPost \/ Posted

(* Script tasks run in the order they were given, none is lost and none    *)
(* runs twice, whichever threads gave them: events reach the script in     *)
(* the order the view sent them.                                           *)
RunInOrder ==
  /\ Len(ran) + Len(tasks) = lastTask
  /\ \A i \in 1..Len(ran) : ran[i] = i
  /\ \A i \in 1..Len(tasks) : tasks[i] = Len(ran) + i

(* Every script task runs, also when frames keep coming and idle tasks     *)
(* keep giving new idle tasks.                                             *)
EveryScriptTaskRuns ==
  \A n \in 1..MaxScriptTasks : lastTask >= n ~> Len(ran) >= n
=============================================================================
