SPECIFICATION Spec
CONSTANTS
  serije = serije
  filmovi = filmovi
  mapa = mapa
  film = film
  epizoda = epizoda
  drugi = drugi
  a = a
  b = b
  None = None
  Roots <- MCRoots
  Folders <- MCFolders
  Films <- MCFilms
  Episodes <- MCEpisodes
  DirOf <- MCDirOf
  ScanRank <- MCScanRank
  Rescans <- TwoTasks
  InitialDisk <- Everything
  Watched <- OnlyFilm
  Remembered <- OnlyFilm
  Setups <- FaultsAndRaces
SYMMETRY Symmetry
INVARIANTS
  Inv
  CatalogAndRowsAgree
  BookmarkOutlivesRescans
PROPERTIES
  IdStable
CHECK_DEADLOCK FALSE
