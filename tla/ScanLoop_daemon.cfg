\* Two files of one name and a stuck one of its own name; listings may fail, crashes and signals come at any time.
SPECIFICATION WorkerSpec
CONSTANTS
  None = None
  f1 = f1
  f2 = f2
  f3 = f3
  Files = {f1, f2, f3}
  NameOf <- SharedName
  Listing <- AnyOrder
  Stuck = {f3}
  MayFail = TRUE
INVARIANT TypeOK
PROPERTIES EventuallyFiled TriggerIsServed ShutdownEnds
