\* Two files of one name, in-place edits and deletions, one unreadable content; no failures.
SPECIFICATION Spec
CONSTANTS
  None = None
  Files = {f1, f2}
  Contents = {c1, c2}
  Unreadable = {c2}
  Bases = {b1}
  NameOf <- SharedName
  MaxSuffix = 4
  MaxScans = 2
  MaxEdits = 1
  MaxFaults = 0
  MaxCrashes = 0
INVARIANTS ProcessedWasFiled OrphansAccounted
PROPERTY ImplementsScanLoop
