SPECIFICATION FairSpec
CONSTANTS
  Ids <- OneId
  Profiles <- OneProfile
  Keys <- MCMetrics
  Times <- TwoTimes
  Readers <- TwoReaders
  All = All
  None = None
INVARIANT
  NoTornReading
PROPERTIES
  PollLoopNotStarved
  HandlersAnswered
