SPECIFICATION MCSpec
CONSTANTS
    Sizes = {0, 1, 3, 4}
    LengthOf <- MCLengthOf
    Requests <- MCRequests
    ProbeDuration = TRUE
    MaxWrites = 2
    Films <- MCFilms
    Files <- MCFiles
    Inside <- MCInside
    Speaks <- MCSpeaks
    Digits = {"1080p", "2", "3", "4"}
    Words <- MCWords
    Viewers = {v1, v2}
    Devices = {tv, phone}
    Items = {"a", "b"}
    VideoItems = {"a", "b"}
    RowDuration <- MCRowDuration
    Positions = {5000, 600000, 7200000}
    Durations = {{}, {7199000}}
    Limits = {1, 2}
    Seconds = {1, 2}
    FourDigits <- MCDigits
    Episodes = {"s02e01", "s02e02"}
    GroupWords = {}
    Begins = {}
    Titles <- MCTitles
    FirstFilms <- MCFirst
    Mortal = {"fall"}
    InFolder = {}
    Search <- MCSearch
    Elsewhere <- MCElsewhere
    Years = TRUE
    Refreshers = {web}
    Boot = boot
    BatchSize = 2
    MaxRefreshes = 1
    MaxChanges = 1
    MaxRestarts = 1
    BesideProgram = "app/ffmpeg"
    InBundleDirs <- MCInBundleDirs
    OnPath <- MCOnPath
    Threads = 4
    Machines <- MCMachines
    Speeds <- MCSpeeds
    Pages = {p1, p2}
    Languages = {"hr", "en"}
    Accels = {"auto", "none"}
    Modes = {"auto", "cpu", "gpu"}
    OwnEncoders = {"libx264"}
    OwnThreads = {0}
    MaxSaves = 2
    MaxBoots = 2
    Openers = {server, cli}
    FoundVersions = {0, 1, 2, 3, 4, 5, 6, 7}
    MaxOpens = 3
    Texts <- MCTexts
    Long <- MCLong
    Within <- MCWithin
    Addresses = {"10.0.0.5", "10.0.0.6", "10.0.0.7", "127.0.0.1"}
    LocalAddresses = {"127.0.0.1"}
    Identities <- MCIdentities
    Shipped <- MCShipped
    UserIds = {"moj", "kodi"}
    MaxProfileSaves = 2
CHECK_DEADLOCK FALSE
INVARIANTS BytesAsPromised SubtitlesAsNamed PlayInv PostersInv SettingsInv MigrationInv RecognitionInv
