\* Two of: a failing call, a shutdown, a crash.  The user authenticates in the end.
\* Two leaked channels, the stored one and a new one.
SPECIFICATION Spec
CONSTANTS
  None = None
  Chans = {a, b, c, d}
  Grants = {2, 3}
  Lead = 1
  Retry = 1
  AuthAtBoot = FALSE
  MaxFaults = 1
  MaxStops = 1
  MaxCrashes = 1
  MaxTroubles = 2
  MaxNotices = 1
INVARIANTS TypeOK RenewedInTime LeakAccounted
PROPERTIES ComesBack NoticeIsServed SleepsBetweenRounds
