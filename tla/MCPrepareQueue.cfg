SPECIFICATION FairSpec
CONSTANTS
  film = film
  other = other
  stemA = stemA
  stemB = stemB
  c1 = c1
  c2 = c2
  Nothing = Nothing
  Videos <- MCVideos
  Stems <- MCStems
  StemOf <- OwnStems
  Clients <- MCClients
  MaxJobs = 3
  MaxRestarts = 1
INVARIANTS
  Inv
  StatusTellsTheTruth
  OriginalStaysOnDisk
PROPERTIES
  EveryJobIsTaken
CHECK_DEADLOCK FALSE
