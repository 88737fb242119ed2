SPECIFICATION ServicesSpec
CONSTANTS
    a1 = a1
    a2 = a2
    a3 = a3
    o1 = o1
    o2 = o2
    k0 = k0
    k1 = k1
    User = {1, 2, 3}
    Superuser = {1, 2}
    Visitor = {3}
    Password = {o1, o2}
    Family = {k0}
    Request = {a1, a2}
    None = None
    MaxEvents = 2
    MaxTokens = 2
    Holder = {k0}
    Role = {1, 2}
    Permission = {3}
    Editor = {a1, a2}
    Nobody = Nobody
    Document = {o1, o2}
    Category = {k0, k1}
    Uncategorized = k0
    Content <- SameContent
    Handler = {a1, a2}
    NoOne = NoOne
    MaxFailures = 1
    MaxSuggestions = 1
    Socket = {a1, a2}
    Session = {o1, o2}
    NoSession = NoSession
    QueueSize = 1
    MaxMessages = 2
    Worker = {a1, a2, a3}
    Lease = 1
    MaxMinutes = 4
    Target = {k0}
    Width = 2
    Buckets = 2
    Limit = 6
    Retention = 4
    MaxTime = 6
    Turn = {a1, a2}
    Recent = 2
    Fallback = 4
    Candidates = 5
    MaxSteps = 2
    MaxFailed = 2
    MaxCalls = 1
    MaxPosts = 1
    NoTurn = NoTurn
    Admin = {a1, a2}
    Caller = {k0}
    Endpoint = {k1}
    Blank = Blank
    ApiKey = {k0}
    NoKey = NoKey
    Offer <- Offers
    MaxCost = 2
    Rounds = 2
    MaxSaves = 2
SYMMETRY Interchangeable
CHECK_DEADLOCK FALSE
INVARIANTS
    ServicesTypeOK
    AlwaysAnAdministrator
    SessionsAreCurrent
    NothingReturns
    FilesFollowRows
    PeersGetEverything
    SummaryDeliveredOnce
    MonitorTellsTheTruth
    ModelSeesWholeChat
PROPERTIES
    RolesInUseStay
    ChargedAsConfigured
