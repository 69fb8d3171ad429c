\* One graceful shutdown and restart.
SPECIFICATION Spec
CONSTANTS
  None = None
  Chans = {a, b}
  Grants = {3}
  Lead = 1
  Retry = 1
  AuthAtBoot = TRUE
  MaxFaults = 0
  MaxStops = 1
  MaxCrashes = 0
  MaxTroubles = 1
  MaxNotices = 1
INVARIANT StoredChannelIsActive
