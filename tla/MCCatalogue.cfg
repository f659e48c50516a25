SPECIFICATION CdsSpec
CONSTANTS
    Number <- MCNumber
    Marks <- MCMarks
    Sounds <- MCSounds
    VideoExtensions = {"mkv", "mp4"}
    MaxDepth = 3
    Letters <- MCLetters
    Alphabet <- MCAlphabet
    Disks <- MCDisks
    Orders <- MCOrders
    ViewList <- MCViewList
    RecentLimit = 3
    MaxResults = 4
    Sorts = {"", "dc:date"}
    Counts = {2}
    Criteria <- MCCriteria
    Begins <- MCBegins
    MaxChanges = 1
    MaxScans = 1
INVARIANTS CdsInv FoundWhereItBelongs PagesOfOneUpdate CountsAndListsAgree SearchMeansWhatItSays
