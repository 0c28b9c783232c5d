\* Three threads, every interleaving of their accesses.
SPECIFICATION RxSpec
CONSTANTS
  Pids = {p1, p2, p3}
  NoPid = NoPid
  MaxCallbacks = 2
  CountBound = 2
SYMMETRY Symmetry
CONSTRAINT CountInBound
INVARIANTS
  
  PacketReachesAll
