\* One process and one file name, used for three files in three runs, with three troubles: crashes, failing calls, replaced inbox files.
\* The user may stop: deadlock is not checked.
SPECIFICATION Spec
CONSTANTS
  None = None
  Torn = Torn
  Alnum <- MCAlnum
  Fold <- MCFold
  VendorMax = 1
  DescriptionMax = 3
  Date <- MCDate
  Titles <- MCTitles
  Stem <- MCStem
  Procs = {p}
  Names = {1}
  Contents = {x, y}
  MaxRuns = 3
  MaxDrops = 3
  MaxTroubles = 3
SYMMETRY Symmetry
INVARIANTS TypeOK FiledOnce EntryIntact ArchivedIsFiled NothingLost LogIsTrue
PROPERTIES EntriesFrozen ImplementsIngest
CHECK_DEADLOCK FALSE
