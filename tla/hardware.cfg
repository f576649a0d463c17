SPECIFICATION MCSpec
CONSTANTS
  NTasks = 3
  Stacks = {1, 2, 3, 4}
  PidMod = 5
  MaxDepth = 3
  MaxReady = 4
  Slots = 3
  Payloads = {p1, p2}
  Nothing = nothing
CHECK_DEADLOCK FALSE
INVARIANTS StacksSafe NobodyStranded RingsSound
PROPERTIES EveryReadyTaskRuns ImplementsLink FramesLeave
