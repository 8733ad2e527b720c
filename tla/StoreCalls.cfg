SPECIFICATION Spec
CONSTANTS
  Ids <- TwoIds
  Profiles <- OneProfile
  Keys <- MCMetrics
  Times <- OneTime
  Readers <- OneReader
  All = All
  None = None
INVARIANTS
  TypeOK
  NoNilDereference
PROPERTIES
  CopyIsPrivate
  Linearizable
