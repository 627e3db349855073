CONSTANTS
  MaxTasks = 3
  MaxTime = 2
  MaxStops = 2
  Delays <- MCDelays
SPECIFICATION Spec
INVARIANTS EachTaskInOnePlace
PROPERTIES RunsAsAsked EveryTaskDone
