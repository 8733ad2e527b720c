CONSTANTS
  WordBits = 4
  MaxQuantity = 6
  None = None
  Unreadable = Unreadable
  Directories <- MCDirectories
  DeviceOrder <- MCDeviceOrder
  ProfileOf <- MCProfileOf
  Mock <- MCMock
  Memories <- MCMemories
  Unencodable <- MCUnencodable
  Requests <- MCRequests
SPECIFICATION Spec
INVARIANTS
  TypeOK HonestValues AllOrNothing OnlyTheWireFails BatchAccounts
