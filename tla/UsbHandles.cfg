CONSTANTS
  t1 = t1
  t2 = t2
  h1 = h1
  h2 = h2
  Threads = {t1, t2}
  NoThread = NoThread
  Handles = {h1, h2}
  Asks <- MCAsks
  Uses <- MCUses
  Kernel = Kernel
  Unbound = Unbound
  LastIface = 1
  Devices <- MCDevices
  Modes = {"sysfs", "cached"}
  MaxErrors = 1
  MaxConfigs = 1
SPECIFICATION Spec
INVARIANTS ClaimsAgree ResetKeepsClaims CacheIsActive ReadIsMeant
CHECK_DEADLOCK FALSE
