SPECIFICATION FairSpec
CONSTANTS
  film = film
  other = other
  stemA = stemA
  stemB = stemB
  c1 = c1
  c2 = c2
  Nothing = Nothing
  Videos <- MCVideos
  Stems <- MCStems
  StemOf <- SharedStem
  Clients <- MCClients
  MaxJobs = 3
  MaxRestarts = 0
INVARIANTS
  OriginalStaysOnDisk
CHECK_DEADLOCK FALSE
