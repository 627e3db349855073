---------------------------- MODULE IdleTaskQueue ----------------------------
(***************************************************************************)
(* dom::IdleTaskQueue: the tasks the script thread runs in the time left   *)
(* of a frame, for requestIdleCallback and timers.  A task with a delay    *)
(* waits in a heap until it is due.  Scripts give and cancel tasks, also   *)
(* from within a task that is running; other threads ask the queue to stop *)
(* when they have work for the script thread.                              *)
(*                                                                         *)
(* The heap, a std::priority_queue of pointers, compares the pointers:     *)
(* which waiting task is on top depends on where the allocator put it.     *)
(***************************************************************************)
EXTENDS Integers, Sequences, FiniteSets, SequencesExt

CONSTANTS
  MaxTasks,   \* bound: number of tasks given
  MaxTime,    \* bound: how far the clock goes, and no task is due later
  MaxStops,   \* bound: number of calls of StopIdleTasks
  Delays      \* delays scripts ask for; 0 is none

ASSUME BoundsAssumption == MaxTasks \in Nat /\ MaxTime \in Nat /\ MaxStops \in Nat
ASSUME DelaysAssumption == Delays \subseteq Nat

Ids == 1..MaxTasks

VARIABLES
  now,         \* TimeTicks::Now()
  given,       \* current_sequence_num: tasks given so far, their ids are 1..given
  dueAt,       \* delayed_run_time_ of each task given, 0 for none
  address,     \* where the IdleTask of each task given is in memory
  canceled,    \* tasks whose is_canceled_ is set
  waiting,     \* waiting_tasks_, as a set
  ready,       \* ready_tasks_
  taskMap,     \* the keys of task_map_
  shouldStop,  \* should_stop_
  stops,       \* calls of StopIdleTasks so far (for MaxStops)
  phase,       \* "out" of RunIdleTasks, in its "loop", or "running" a task
  count,       \* count of the loop of RunIdleTasks
  current,     \* the task in the local variable `task`, 0 for none
  started      \* history: the tasks that were run, in order

queueVars == <<given, dueAt, address, canceled, waiting, ready, taskMap>>
runVars == <<phase, count, current, started>>
vars == <<now, queueVars, shouldStop, stops, runVars>>

-----------------------------------------------------------------------------
(* A task is in memory from GiveTask to RemoveTask, which is when it is in *)
(* task_map_; its address may be used again later.                         *)
FreeAddresses == Ids \ {address[t] : t \in taskMap}

Due(t) == dueAt[t] <= now

(* Mutant of TakenFromHeap: the due time is not looked at.                 *)
AllWaiting == waiting

(* The tasks taken from the heap at the start of RunIdleTasks, in order:   *)
(* from the top down to the first that is not due.  (TakenInOrder has one  *)
(* member, for no two tasks are in one place in memory.)                   *)
Above(t) == {u \in waiting : address[u] >= address[t]}
TakenFromHeap == {t \in waiting : \A u \in Above(t) : Due(u)}
TakenInOrder ==
  {taken \in [1..Cardinality(TakenFromHeap) -> TakenFromHeap] :
     /\ Range(taken) = TakenFromHeap
     /\ \A i, j \in DOMAIN taken : i < j => address[taken[i]] > address[taken[j]]}

-----------------------------------------------------------------------------
(* Scripts run outside of RunIdleTasks, and inside while a task runs.      *)
ScriptMayRun == phase \in {"out", "running"}

Enqueue(t, delay) ==
  IF delay = 0 THEN ready' = Append(ready, t) /\ waiting' = waiting
  ELSE waiting' = waiting \cup {t} /\ ready' = ready

(* requestIdleCallback with a timeout of 0 asks for no delay.              *)
RunTime(delay) == IF delay = 0 THEN 0 ELSE now + delay

GiveTask(delay) ==
  LET t == given + 1
  IN  /\ ScriptMayRun
      /\ given < MaxTasks /\ now + delay <= MaxTime
      /\ given' = t
      /\ dueAt' = [dueAt EXCEPT ![t] = RunTime(delay)]
      /\ \E a \in FreeAddresses : address' = [address EXCEPT ![t] = a]
      /\ taskMap' = taskMap \cup {t}
      /\ Enqueue(t, delay)
      /\ UNCHANGED <<now, canceled, shouldStop, stops, runVars>>

(* Scripts may cancel any id, also one that is long gone.                  *)
CancelTask(t) ==
  /\ ScriptMayRun
  /\ t \in taskMap
  /\ canceled' = canceled \cup {t}
  /\ UNCHANGED <<now, given, dueAt, address, waiting, ready, taskMap, shouldStop, stops, runVars>>

StopIdleTasks ==
  /\ stops < MaxStops
  /\ stops' = stops + 1
  /\ shouldStop' = TRUE
  /\ UNCHANGED <<now, queueVars, runVars>>

(* The number of tasks that may run in one call: those ready at its start. *)
BatchSize == Len(ready) + Cardinality(TakenFromHeap)

(* RunIdleTasks up to its second loop: due tasks become ready, and as many *)
(* tasks as are ready now may run.                                         *)
RunIdleTasks ==
  /\ phase = "out"
  /\ \E taken \in TakenInOrder : ready' = ready \o taken
  /\ waiting' = waiting \ TakenFromHeap
  /\ count' = BatchSize
  /\ phase' = "loop"
  /\ UNCHANGED <<now, given, dueAt, address, canceled, taskMap, shouldStop, stops, current, started>>

(* The condition of the second loop, without the deadline of the frame.    *)
LoopGoesOn == phase = "loop" /\ count > 0 /\ ~shouldStop

(* Mutant of RemoveTask: the task is deleted and stays in the map.         *)
RemoveTaskOnly(t) == taskMap' = taskMap

(* RemoveTask deletes the task and the only entry that points to it.       *)
RemoveTask(t) == taskMap' = taskMap \ {t}

(* One round of the loop whose task was canceled.                          *)
SkipTask ==
  /\ LoopGoesOn
  /\ Head(ready) \in canceled
  /\ RemoveTask(Head(ready))
  /\ ready' = Tail(ready)
  /\ count' = count - 1
  /\ UNCHANGED <<now, given, dueAt, address, canceled, waiting, shouldStop, stops, phase, current, started>>

(* One round of the loop that runs its task ...                            *)
StartTask ==
  /\ LoopGoesOn
  /\ Head(ready) \notin canceled
  /\ current' = Head(ready)
  /\ started' = Append(started, Head(ready))
  /\ ready' = Tail(ready)
  /\ phase' = "running"
  /\ UNCHANGED <<now, given, dueAt, address, canceled, waiting, taskMap, shouldStop, stops, count>>

(* ... and its end, when the callback returns.                             *)
EndTask ==
  /\ phase = "running"
  /\ RemoveTask(current)
  /\ current' = 0
  /\ count' = count - 1
  /\ phase' = "loop"
  /\ UNCHANGED <<now, given, dueAt, address, canceled, waiting, ready, shouldStop, stops, started>>

(* Mutant of EndIdleTasks: should_stop_ stays set.                         *)
EndIdleTasksStopped ==
  /\ phase = "loop"
  /\ phase' = "out"
  /\ count' = 0
  /\ UNCHANGED <<now, queueVars, shouldStop, stops, current, started>>

(* The loop ends: no task is left, another thread asked to stop, or the    *)
(* deadline of the frame came, which may be at any time.                   *)
EndIdleTasks ==
  /\ phase = "loop"
  /\ shouldStop' = FALSE
  /\ phase' = "out"
  /\ count' = 0
  /\ UNCHANGED <<now, queueVars, stops, current, started>>

Tick ==
  /\ now < MaxTime
  /\ now' = now + 1
  /\ UNCHANGED <<queueVars, shouldStop, stops, runVars>>

-----------------------------------------------------------------------------
(* The constructor leaves should_stop_ uninitialised.                      *)
Init ==
  /\ now = 0 /\ given = 0 /\ stops = 0
  /\ dueAt = [t \in Ids |-> 0] /\ address = [t \in Ids |-> 0]
  /\ canceled = {} /\ waiting = {} /\ taskMap = {} /\ ready = << >>
  /\ shouldStop \in BOOLEAN
  /\ phase = "out" /\ count = 0 /\ current = 0 /\ started = << >>

Next ==
  \/ \E d \in Delays : GiveTask(d)
  \/ \E t \in Ids : CancelTask(t)
  \/ StopIdleTasks \/ Tick
  \/ RunIdleTasks \/ SkipTask \/ StartTask \/ EndTask \/ EndIdleTasks

(* The clock goes on, frames keep coming, callbacks return, and a frame    *)
(* leaves time for a task again and again.                                 *)
Fairness ==
  /\ WF_vars(Tick) /\ WF_vars(RunIdleTasks) /\ WF_vars(EndTask) /\ WF_vars(EndIdleTasks)
  /\ SF_vars(SkipTask \/ StartTask)

Spec == Init /\ [][Next]_vars /\ Fairness

-----------------------------------------------------------------------------
(* Properties                                                              *)

TypeOK ==
  /\ now \in 0..MaxTime /\ given \in 0..MaxTasks /\ stops \in 0..MaxStops
  /\ dueAt \in [Ids -> Nat] /\ address \in [Ids -> 0..MaxTasks]
  /\ canceled \subseteq Ids /\ waiting \subseteq Ids /\ taskMap \subseteq Ids
  /\ ready \in Seq(Ids) /\ started \in Seq(Ids)
  /\ shouldStop \in BOOLEAN /\ phase \in {"out", "loop", "running"}
  /\ current \in 0..MaxTasks
  /\ count \in 0..(Len(ready) + (IF phase = "running" THEN 1 ELSE 0))

(* Ownership: the task map holds exactly the tasks that are in memory,     *)
(* each in one place only.  So CancelTask never follows a pointer to a     *)
(* deleted task, RemoveTask finds its task (DCHECK, idle_task_queue.cc:40) *)
(* and deletes no task twice, also when a task gives and cancels others    *)
(* while it runs.                                                          *)
EachTaskInOnePlace ==
  LET running == IF phase = "running" THEN {current} ELSE {}
  IN  /\ TypeOK
      /\ taskMap = waiting \cup ToSet(ready) \cup running
      /\ Cardinality(taskMap) = Cardinality(waiting) + Len(ready) + Cardinality(running)
      /\ \A t, u \in taskMap : address[t] = address[u] => t = u

(* A task runs at most once, not before its time, never when it was        *)
(* canceled before it started (cancelIdleCallback), and tasks without a    *)
(* delay run in the order they were given.                                 *)
RunsAsAsked ==
  [][started' # started =>
       LET t == started'[Len(started')]
       IN  /\ t \notin canceled /\ Due(t) /\ t \notin ToSet(started)
           /\ dueAt[t] = 0 => \A u \in ToSet(started) : dueAt[u] = 0 => u < t]_vars

(* Every task runs or is canceled in the end.  A task that is due may be   *)
(* hidden in the heap below one that is not due yet, and other threads     *)
(* stop the queue; but when no new tasks and no new stops come (MaxTasks   *)
(* and MaxStops end them) no task is left behind for good.  With new tasks *)
(* for ever one may stay hidden for ever.                                  *)
EveryTaskDone == \A t \in Ids : t \in taskMap ~> t \notin taskMap

-----------------------------------------------------------------------------
(* What the sources say, and the code does not do                          *)

(* What IdleTask::operator< is written for: "We want the smaller time to   *)
(* be at the top of the heap."  The heap holds pointers and compares these.*)
SmallerTimeOnTop ==
  \A t \in waiting : Above(t) = {t} => \A u \in waiting : dueAt[t] <= dueAt[u]
=============================================================================
