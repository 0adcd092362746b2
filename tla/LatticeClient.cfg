CONSTANTS
  c1 = c1
  c2 = c2
  c3 = c3
  m1 = m1
  IpfsUrls <- MCIpfsUrls
  DefaultUrls <- MCDefaultUrls
  Models <- MCModels
  MaxFlips = 3
  MaxCalls = 2
  Timeout = 2
SPECIFICATION Spec
CHECK_DEADLOCK FALSE
INVARIANT TypeOK
INVARIANT ReturnedResultIsDurable
INVARIANT DownloadFailsOnlyIfHoldersWentDown
INVARIANT AcceptedNoncesDistinct
PROPERTY CallsTerminate
PROPERTY ImplementsIpfsContract
