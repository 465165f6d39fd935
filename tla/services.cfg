SPECIFICATION ServicesSpec
CONSTANTS
    Process = {p1, p2}
    p1 = p1
    p2 = p2
    EditField <- MCEditField
    Concurrent = {"account_edit", "account_delete"}
    NoToken = NoToken
    NoAccount = NoAccount
    MaxStops = 1
    Message = {1, 2}
    MarkRequest = {"q1", "q2"}
    Subscriber = {"s1"}
    OtherKinds = {"SyncProgress"}
    EVENT_CAPACITY = 1
    MaxEvents = 2
    MessageIds = {1, 2, 3, 4}
    Matching = {1, 3, 4}
    ChunkSizes = {0, 1, 2}
    DefaultChunk = 3
    ChannelSize = 1
    SendRequest = {"q1"}
    Compose <- MCCompose
    SenderIds = {1, 2}
    TlsOf <- MCTlsOf
    Offered = {"wrapper", "starttls", "none"}
    AnyAccount = AnyAccount
    MaxEdits = 1
    Updater = {"u1", "u2"}
    OwnName = "nuncio-cli"
    Siblings <- MCSiblings
    InstalledTag <- MCInstalledTag
    ReleaseTags <- MCReleaseTags
    MaxReleases = 1
    Email <- MCEmail
    AccountRow <- MCAccountRow
    OldFile <- MCOldFile
    Short = {"hi"}
    Null = Null
    MaxKeys = 2
    MaxCuts = 2
    Responses <- MCResponses
    Collection = {"work", "home"}
    Windows <- MCWindows
    Hour = 1
    Day = 4
    MAX_EXPANSION_COUNT = 2
    NoEvent = NoEvent
    MaxRounds = 2
    CardAnswers <- MCCardAnswers
    NewContact = {"zoe", "yan"}
    NoContact = NoContact
    MaxFetches = 2
    MaxCreated = 2
    JMail = {"j1"}
    Mailbox = {"mb1", "mb2"}
    NoState = NoState
    NoRow = NoRow
    MaxChanges = 2
    MaxRuns = 2
    MaxJmapFaults = 1
    Mutation = {"m1", "m2", "m3"}
    MaxTime = 3
    TicksPerSecond = 2
    SameTick = FALSE
    POLL_LIMIT = 2
    MAX_RETRIES = 5
    MaxFaults = 1
\* Every call may be over and no other asked for.
CHECK_DEADLOCK FALSE
INVARIANTS
    
    SettingsAgreed
    FeedTruthful
    RescanSound
    SubmissionSound
    
    StoreSound
    OrganizerSound
    JmapSound
    GivenUpAfterRetries
    NothingLost
PROPERTIES
    CommandReturns
    StreamCatchesUp
    RescanEnds
    BackoffGrows
    EverySettles
