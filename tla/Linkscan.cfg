\* Both threads, every interleaving of their accesses; or the main thread alone.
SPECIFICATION Spec
CONSTANTS
  Pids = {p1, p2, p3, p4}
  NoPid = NoPid
  MaxCallbacks = 3
  CountBound = 3
SYMMETRY Symmetry
CONSTRAINT InBound
INVARIANTS TableSound CountExactIfSerial HandlerIfSerial
PROPERTIES EntryNotStolen ImplementsRegistry
