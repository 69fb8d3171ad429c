\* A document that comes twice, and one failing call.
\* The user may stop: deadlock is not checked.
SPECIFICATION Spec
CONSTANTS
  None = None
  Torn = Torn
  Alnum <- MCAlnum
  Fold <- MCFold
  VendorMax = 1
  DescriptionMax = 3
  Date <- MCDate
  Titles <- MCTitles
  Stem <- MCStem
  Procs = {p}
  Names = {1}
  Contents = {x, y}
  MaxRuns = 2
  MaxDrops = 2
  MaxTroubles = 1
INVARIANT SkipsFiled
CHECK_DEADLOCK FALSE
