\* Two threads, in both modes and with both condition variables.
SPECIFICATION Spec
CONSTANTS
  x = x
  y = y
  NoThread = NoThread
  Threads = {x, y}
  Settings <- MCSettings
  MaxNow = 2
INVARIANTS OpenAndOrdered FreedIsAnswered
PROPERTIES CallsReturn TimeoutComes
CHECK_DEADLOCK FALSE
