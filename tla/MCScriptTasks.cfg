CONSTANTS
  view = view
  io = io
  Thread <- MCThread
  MaxScriptTasks = 3
  MaxPosted = 2
  MaxTasks = 2
  MaxTime = 1
  MaxStops = 3
  Delays <- MCDelays
SPECIFICATION ScriptSpec
INVARIANTS NoLostWakeup RunInOrder
PROPERTY EveryScriptTaskRuns
