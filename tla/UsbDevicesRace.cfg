\* The same, the threads do not take turns.
SPECIFICATION Spec
CONSTANTS
  a = a
  b = b
  root = root
  hub = hub
  leaf = leaf
  NoDir = NoDir
  Threads = {a, b}
  Dirs = {root, hub, leaf}
  Hub <- MCHub
  Rank <- MCRank
  Port <- MCPort
  FirstAddr <- MCFirstAddr
  Sealed = {}
  MaxAddr = 4
  Slots = 4
  PathLens <- MCPathLens
  MaxLost = 1
  Systems <- MCOldSystems
  Goals <- MCGoals
  Serial = FALSE
INVARIANT HeldIsAlive
CHECK_DEADLOCK FALSE
