CONSTANTS
  script = script
  window = window
  tip = tip
  Handler <- MCHandler
  Deferring <- MCDeferring
  ScriptThread = script
  MaxCallbacks = 2
  MaxCancels = 1
SPECIFICATION CallbackSpec
INVARIANTS OneFrame RequestHasFrame RunsOnce
PROPERTIES RequestsKept EveryRequestServed CallbacksRunWithFrames
