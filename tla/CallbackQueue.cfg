\* Two events, two clients, a queue of four messages that fills up or of twelve
\* that does not.
SPECIFICATION QueueSpec
CONSTANTS
  p1 = p1
  p2 = p2
  msg_type = msg_type
  Clients <- TwoClients
  Mortal <- OneMortal
  Server = msg_type
  Capacities = {4, 12}
  Ample = 12
  MaxEvents = 2
CHECK_DEADLOCK FALSE
INVARIANTS QueueWellFormed
PROPERTIES DeadIsRemoved CallbackReturns
