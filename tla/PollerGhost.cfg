SPECIFICATION Spec
CONSTANTS
  Ids <- MCDevices
  Ports <- OnePort
  Mock = "mock"
  Lines <- MCLines
  ValidLines <- MCValid
  Profiles <- MCProfiles
  KnownProfiles <- MCKnown
  Undecodable <- MCUndecodable
  Periods <- MCPeriods
  Configs <- GhostConfigs
  DefaultConfig <- OnlyMock
  Elapsed = {1}
  MaxEdits = 2
  Disturbances <- NoDisturbance
  Garbage = Garbage
  Missing = Missing
  None = None
INVARIANT
  StoreHoldsOnlyConfigured
