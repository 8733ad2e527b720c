SPECIFICATION FairSpec
CONSTANTS
  Ids = {"a", "b"}
  Second = 2
  MaxTime = 4
  Faults <- AllFaults
  Missing = Missing
  Garbage = Garbage
  None = None
INVARIANTS
  FileTypeOK
  RestartRemembers
  NeverInvented
  ShutdownSavesAll
PROPERTY
  KeepsSaving
