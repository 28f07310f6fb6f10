SPECIFICATION ComponentsSpec
CONSTANTS
    Callers = {c1, c2}
    MaxLeft = 4
    MaxEvents = 5
    Limit = 2
    Late = FALSE
    MaxOut = 2
    MaxFailures = 2
    Processes = {"old", "new", "command"}
    Nodes = {"old", "new"}
    Migrations <- OldAndNew
    Times = TRUE
    MaxLosses = 1
    StartAt = 1
    EndAt = 3
    RunAt = 1
    Crons = 2
    MaxClock = 4
    MaxFires = 2
    MaxStarts = 2
    MaxCalls = 4
    Timeout = 1
    Expiration = 0
    MaxNow = 3
    Passwords = {1, 2}
    Accounts = {"a1", "a2", "a3"}
    Password = "p"
    PasswordOf <- SecondHasAnother
    MaxKeyFaults = 2
    VRFSecrets = {"v1", "v2", "v3"}
    Phrases = {"p", "q"}
    Paths = {"f", "g"}
    MaxVRFFaults = 2
    LogInitiators <- OurInitiators
    MinPayment <- SomeHaveAMinimum
    AdapterPayments <- SomeCost
    MinimumPayment = 1
    Asked <- Askings
    FirstBlock = 2
    LastBlock = 3
    MaxLogs = 2
    Expiry = 1
    HttpTaskSpecs <- OurHttpTasks
    HttpDefaultAttempts = 3
    DefaultHTTPLimit = 2
    LongestResponse = 4
    MaxRequests = 3
    SpecOf <- JobSpecs
    BridgeNames = {"b", "B"}
    ExternalNames = {"e", "E"}
    Lower <- LowerCase
    Dev = FALSE
    Keys = {"k1", "k2", "k3", "k4", "k5"}
    MaxRows = 5
    MaxPerJob = 1
    PageSize = 2
    FeedLists <- JobFeeds
    BridgeURL <- URLOfBridge
    PollingIntervals = {1, 5}
    MinimumPollingInterval = 5
    Answers <- AnswersOfFeeds
    HonestPrices = {40, 42}
    Pipelines <- OurPipelines
    RequestParams <- RunParams
    Documents <- ServedDocuments
    BridgeAnswers <- AdapterAnswers
    Values <- PartsOfDocuments
    MaxSafe = 100
    FieldSize = 43
    GroupOrder = 31
    Generator <- OnTheCurve
    WordSize = 48
    Salts = {101, 233, 305}
    SecretKeys = {2, 7}
    Seeds = {5, 40}
    MaxProofs = 2
    Parts = {"sleeper", "pusher", "lock"}
INVARIANTS
    NothingOverlooked
    DatabaseIsGuarded
PROPERTIES
    WorkIsDone
    ExplorerHasThem
    EventIsStored
    
CHECK_DEADLOCK FALSE
