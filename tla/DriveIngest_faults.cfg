\* Two files, two contents, one failing call or expired context, one crash, two scans.
SPECIFICATION Spec
CONSTANTS
  None = None
  Files = {f1, f2}
  Contents = {c1, c2}
  Unreadable = {}
  Bases = {b1}
  NameOf <- OwnNames
  MaxSuffix = 4
  MaxScans = 2
  MaxEdits = 0
  MaxFaults = 1
  MaxCrashes = 1
SYMMETRY Symmetry
INVARIANTS TypeOK IndexSound RowsOwnEntries ProcessedWasFiled ProcessedIsFiled OrphansAccounted QuarantineCounted IInv
PROPERTIES FiledForGood ImplementsScanLoop
