\* A call of either kind, up to three messages sent before and during it.
SPECIFICATION Spec
CONSTANTS
  Polls = 3
  MaxSent = 3
CHECK_DEADLOCK FALSE
INVARIANTS ConfirmIsWanted ExtensionIsOwn
PROPERTY TimedCallReturns
