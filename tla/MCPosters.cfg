SPECIFICATION PosterSpec
CONSTANTS
    FourDigits <- MCDigits
    Episodes = {"s02e01", "s02e02"}
    GroupWords = {}
    Begins = {}
    Titles <- MCTitles
    FirstFilms <- MCFirst
    Mortal = {"fall", "e1"}
    InFolder = {}
    Search <- MCSearch
    Elsewhere <- MCElsewhere
    Years = TRUE
    Refreshers = {web}
    Boot = boot
    BatchSize = 2
    MaxRefreshes = 1
    MaxChanges = 2
    MaxRestarts = 1
CHECK_DEADLOCK FALSE
INVARIANT SoughtForIt
