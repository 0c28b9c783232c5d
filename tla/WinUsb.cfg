SPECIFICATION Spec
CONSTANTS
  x1 = x1
  x2 = x2
  Transfers = {x1, x2}
  Timed = {x1}
  Pipe = Pipe
  Free = Free
  App = App
  Handler = Handler
  MAX_FDS = 3
  MaxWait = 2
  MaxAgain = 1
  MaxCalls = 1
  Ifaces <- MCIfaces
  Settings <- MCSettings
  Target <- MCTarget
INVARIANTS
  
  NothingLeft
  ReadFindsEvent
PROPERTY AnswerComesBack
CHECK_DEADLOCK FALSE
