\* Queries while a process files two documents, twice, with one trouble.
\* The user may stop: deadlock is not checked.
SPECIFICATION QueriesSpec
CONSTANTS
  None = None
  Torn = Torn
  Alnum <- MCAlnum
  Fold <- MCFold
  VendorMax = 1
  DescriptionMax = 3
  Date <- MCDate
  Titles <- MCTitles
  Stem <- MCStem
  Procs = {p}
  Names = {1, 2}
  Contents = {x, y}
  MaxRuns = 2
  MaxDrops = 2
  MaxTroubles = 1
SYMMETRY Symmetry
INVARIANTS ListIsComplete ShowIsWhole SearchIsComplete
CHECK_DEADLOCK FALSE
