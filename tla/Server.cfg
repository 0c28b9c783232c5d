\* Requests of all kinds in a queue of three messages, plain ones with room for all.
SPECIFICATION Spec
CONSTANTS
  c1 = c1
  c2 = c2
  Server = Server
  Clients <- TwoClients
  Systems <- MCSystems
  Ample = 12
  MaxRequests = 2
CHECK_DEADLOCK FALSE
INVARIANTS ConfirmStreamWellFormed AnswerIsOwn OkMeansDone
PROPERTY KnownIsConfirmed
