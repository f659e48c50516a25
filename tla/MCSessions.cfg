SPECIFICATION FairSpec
CONSTANTS
  r1 = r1
  r2 = r2
  r3 = r3
  r4 = r4
  Requests <- MCRequests
  MaxConcurrent = 2
INVARIANTS
  TypeOK
  SlotsConserved
  ListingExact
PROPERTIES
  SlotComesBack
  PoolSpec
CHECK_DEADLOCK FALSE
