SPECIFICATION FairSpec
CONSTANTS
  Ids <- MCDevices
  Ports <- OnePort
  Mock = "mock"
  Lines <- MCLines
  ValidLines <- MCValid
  Profiles <- MCProfiles
  KnownProfiles <- MCKnown
  Undecodable <- MCUndecodable
  Periods <- MCPeriods
  Configs <- FewConfigs
  DefaultConfig <- Shared
  Elapsed = {1}
  MaxEdits = 3
  Disturbances <- NoDisturbance
  Garbage = Garbage
  Missing = Missing
  None = None
PROPERTIES
  ConfigConverges
  LinkHeals
