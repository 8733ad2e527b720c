SPECIFICATION Spec
CONSTANTS
  Ids = {"a"}
  Data <- MCValid
  Valid <- MCValid
  Addrs <- HostAddrs
  GoodAddrs <- HostAddrs
  PortOf <- MCPorts
  Unbindable <- Far
  Dirs <- OneDir
  Offers <- MCOffers
  Unloadable <- NoDirs
  AskedDirs <- Kept
  DefaultFile <- FirstRun
  InitialFiles <- OnlyFirst
  HandEdits <- NoEdits
  MaxHandEdits = 0
  Requests = {"r1"}
  Missing = Missing
  Garbage = Garbage
  None = None
INVARIANTS
  RestartKeepsApi
