\* A crash between the last upload and the index row.
SPECIFICATION Spec
CONSTANTS
  None = None
  Files = {f1, f2}
  Contents = {c1, c2}
  Unreadable = {}
  Bases = {b1}
  NameOf <- OwnNames
  MaxSuffix = 4
  MaxScans = 2
  MaxEdits = 0
  MaxFaults = 0
  MaxCrashes = 1
PROPERTY SkipsFiledContent
