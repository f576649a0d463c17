SPECIFICATION SchedSpec
CONSTANTS
  NTasks = 3
  Stacks = {1, 2, 3, 4}
  PidMod = 5
  MaxDepth = 3
  MaxReady = 4
PROPERTIES ExitedStaysDead
CHECK_DEADLOCK FALSE
