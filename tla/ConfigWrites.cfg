SPECIFICATION FairSpec
CONSTANTS
  Ids = {"a", "b"}
  Data <- MCData
  Valid <- MCValid
  Addrs <- MCAddrs
  GoodAddrs <- MCGood
  PortOf <- MCPorts
  Unbindable <- MCTaken
  Dirs <- MCDirs
  Offers <- AllOffers
  Unloadable <- MCBroken
  AskedDirs <- AnyDir
  DefaultFile <- FirstRun
  InitialFiles <- OnlyFirst
  HandEdits <- Mishaps
  MaxHandEdits = 1
  Requests = {"r1", "r2"}
  Missing = Missing
  Garbage = Garbage
  None = None
INVARIANTS
  TypeOK
  NoDuplicateIds
  OneWriter
PROPERTIES
  AtomicRequests
  RequestsAnswered
  OnlyProfilesDirWedges
