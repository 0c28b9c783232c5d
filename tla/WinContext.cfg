\* Three users of one process, two of whom ask for the time, with a default context or their own.
SPECIFICATION WinSpec
CONSTANTS
  Users = {u, v, w}
  Callers = {u, v}
  Contexts = {c, d}
  NULL = NULL
  Unheld = Unheld
  Lost = Lost
  MAX_TIMER_SEMAPHORES = 128
  MaxFails = 1
  MaxRetries = 1
  MaxUnbalanced = 1
INVARIANT BackendBalanced
PROPERTY ClockAnswers
CHECK_DEADLOCK FALSE
