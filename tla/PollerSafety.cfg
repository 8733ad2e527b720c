SPECIFICATION Spec
CONSTANTS
  Ids <- MCDevices
  Ports <- MCPorts
  Mock = "mock"
  Lines <- MCLines
  ValidLines <- MCValid
  Profiles <- MCProfiles
  KnownProfiles <- MCKnown
  Undecodable <- MCUndecodable
  Periods <- MCPeriods
  Configs <- AllConfigs
  DefaultConfig <- Shared
  Elapsed = {1, 3}
  MaxEdits = 3
  Disturbances <- AllDisturbances
  Garbage = Garbage
  Missing = Missing
  None = None
INVARIANTS
  TypeOK
  NoStaleConnection
  OneClientPerPort
  FreshOrStale
  OnlineIsPolled
  StoreCoversConfig
  SilentOffline
