\* Boot before the OAuth flow is completed, no failures.
SPECIFICATION Spec
CONSTANTS
  None = None
  Chans = {a, b}
  Grants = {3}
  Lead = 1
  Retry = 1
  AuthAtBoot = FALSE
  MaxFaults = 0
  MaxStops = 0
  MaxCrashes = 0
  MaxTroubles = 0
  MaxNotices = 1
PROPERTY DeferredUntilAuthenticated
