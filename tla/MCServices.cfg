\* Clients may stop, and the bounds let the others run out.
CHECK_DEADLOCK FALSE
CONSTANTS
    Procs = {p1, p2}
    Users = {u1, u2}
    Clock = {1, 3}
    None = None
    Sessions = {x1, x2}
    IdleTtl = 2
    AbsoluteMax = 3
    MaxTime = 5
    Drift = 1
    Submissions = {x1, x2}
    Moderators = {y1, y2}
    CommentIds = {y1, y2}
    Targets = {x1, x2}
    EditWindow = 2
    Second = 3
    Identities = {x1, x2}
    Emails = {y1, y2}
    States = {s1, s2, s3}
    Keys = {x1, x2}
    Limit = 2
    WindowLength = 2
    MaxCount = 4
    Pairs = {x1, x2}
    Slots = {s1, s2, s3}
    Origins = {x1, x2}
    Paths = {y1, y2}
    Interval = 2
    MaxInstant = 4
    MaxSlots = 3
    Datasets = {x1}
    Merit <- MCMerit
    Cap = 1
    Gold = 1
    MaxCalls = 2
    Results = {{x1, x2}, {x1, x2, y1, y2}}
    RowCap = 3
    PageSize = 2
    HeartPages = {x1, x2}
    Requests = {y1, y2}
    Folders = {x1, x2}
    Names = {s1, s2}
    Items = {y1, y2}
    Entries = {s1, s2, s3}
    Weight <- MCWeight
    MaxStamp = 3
    SearchPageSize = 1
    PageBudget = 2
    SinglePageCap = 2
    Kids = {x1, x2}
    Ttl = 2
    RoundTrip = 1
    MaxNow = 3
    AppStates = {s1, s2, s3}
    TooLarge = {s3}
    AppCalls = {x1, x2}
    MaxPosted = 2
SYMMETRY Symmetry
SPECIFICATION ServicesSpec
INVARIANTS
    SeenAlive
    OneVerdict
    RepliesHang
    DenialExplained
    LoginsBound
    WindowCapped
    LimitersAgree
    OneSigner
    Spaced
    RobotsObeyed
    WalkAddsUp
    QingMingAgrees
    HeartTells
    OneAnswer
    SnapshotWhole
    AtRest
PROPERTIES
    RevocationFinal
    ExpiredStaysDead
    CacheFollowsTier
    LunarAdvances
    KeyAnswers
