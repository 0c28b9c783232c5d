\* Two threads, three places on one bus, one device that comes back.
SPECIFICATION Spec
CONSTANTS
  a = a
  b = b
  root = root
  hub = hub
  leaf = leaf
  NoDir = NoDir
  Threads = {a, b}
  Dirs = {root, hub, leaf}
  Hub <- MCHub
  Rank <- MCRank
  Port <- MCPort
  FirstAddr <- MCFirstAddr
  Sealed = {}
  MaxAddr = 4
  Slots = 4
  PathLens <- MCPathLens
  MaxLost = 1
  Systems <- MCSystems
  Goals <- MCGoals
  Serial = TRUE
INVARIANTS RefsAddUp OneObjectPerDevice ListIsComplete PathIsRight
CHECK_DEADLOCK FALSE
