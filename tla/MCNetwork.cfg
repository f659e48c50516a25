SPECIFICATION MCSpec
CONSTANTS
  tv1 = tv1
  a = a
  b = b
  Sids <- OneTv
  ServiceOf <- ServiceOfOne
  Rescans <- TwoTasks
  SeqModulus = 3
  MaxUpdates = 3
  MaxTime = 1
  MaxRenewals = 1
  Quiet = 2
  AutoScan <- OnAndOff
  MaxChanges = 4
  Services <- MCServices
  Points <- OneTv
  Follows <- MCFollows
  Datagrams <- MCDatagrams
  MaxAges = {2, 3, 4}
  MaxLost = 2
  MaxStarts = 2
  MaxQueue = 1
INVARIANTS
  Inv
  NobodyKeepsAnOldList
  WatchInv
  DiscoveryInv
PROPERTIES
  RescanEnds
  AnnouncedIsPublished
  AutoScanRepairs
  FoundAgain
CHECK_DEADLOCK FALSE
