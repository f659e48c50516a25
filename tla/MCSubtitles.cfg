SPECIFICATION SubSpec
CONSTANTS
    Films <- MCFilms
    Files <- MCFiles
    Inside <- MCInside
    Speaks <- MCSpeaks
    Digits = {"1080p", "2", "3", "4"}
    Words <- MCWords
    Viewers = {v1, v2}
CHECK_DEADLOCK FALSE
INVARIANT OwnFilm
