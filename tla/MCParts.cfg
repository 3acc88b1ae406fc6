SPECIFICATION Spec
CONSTANTS
    Checked = {"accounts", "routing", "scheduler", "prices", "capture", "integration", "login", "upload", "risk", "completion", "pick"}
    u1 = u1  u2 = u2  v1 = v1  v2 = v2  a = a  b = b  c = c  k1 = k1  r1 = r1  m1 = m1  m2 = m2
    f1 = f1  f2 = f2  c3 = c3
    NoOwner = NoOwner
    NoRef = NoRef
    NoPath = NoPath
    Owners <- MCOwners
    Refs <- MCRefs
    AccountLimits <- MCLimits
    MaxTracked = 2
    Paths <- MCPaths
    MaxPatch = 1
    Keys = {k1}
    Routes = {r1}
    Groups = {u1, u2}
    Models = {m1, m2}
    Credentials = {a, b, c3}
    ProviderOf <- MCProviderOf
    Unknown = Unknown
    RouteRules <- MCRouteRules
    KeyRules <- MCKeyRules
    GroupChoices <- MCGroupChoices
    AccessChoices <- MCAccess
    Rotations <- MCRotations
    Absent = Absent
    SchedulerScopes = {k1}
    Pools = {r1}
    Candidates = {1, 2, 3}
    Weights = {1, 2}
    MaxPools = 1
    MaxPerPool = 3
    MaxReweighings = 1
    MaxPasses = 6
    NoPool = NoPool
    Callers = {u1, u2}
    Queries <- MCQueries
    Databases = {v1, v2}
    Documents <- MCDocuments
    NoRate = NoRate
    Capacity = 1
    Durations = {30, 1500}
    MaxCalls = 3
    MaxVersions = 2
    MaxEvents = 1
    NoCaller = NoCaller
    Requests = {u1, u2}
    Upstreams = {v1, v2}
    NoUpstream = NoUpstream
    MaxEntries = 2
    MaxBody = 2
    MaxTotal = 4
    MaxListeners = 1
    MaxHooks = 5
    NoAnswer = NoAnswer
    ApiKeys <- MCKeys
    NoAccount = NoAccount
    NoMigration = NoMigration
    Logins = {1, 2}
    NoSession = NoSession
    MaxLogins = 1
    Pages = {u1, u2}
    Width = 2
    Contents <- MCContents
    Ids = {1, 2}
    MaxUploads = 2
    NoUpload = NoUpload
    MaxSaves = 1
    Files = {f1, f2}
    Texts = {"t"}
    Policies <- MCPolicies
    DefaultPolicy <- MCDefaultPolicy
    MaxHashes = 1
    Retention = 1
    Names = {"", "message", "response.created", "response.completed", "response.failed"}
    Payloads = {"created", "completed", "untyped", "failed", "unfinished", "open", "close", "[DONE]"}
    MaxLines = 4
    None = None
    Accounts = {a, b, c3}
    ClassOf <- MCClassOf
    Classified = {a, b}
    KeyDecisions <- MCKeyDecisions
    StateSettings <- MCStateSettings
    Offers <- MCOffers
    NoPick = NoPick
SYMMETRY Symmetry
INVARIANTS
    RotationSurvives
    RoutingResolves
    AccessFollowsRules
    FairShare
    CaptureAccounts
    AccessFollowsRotation
    TokenUsedOnce
    AnswersAreTrue
    CompletionIsEvidence
    RiskSurvivesRestart
    PickAgreesWithCheck
PROPERTIES
    ImplementsAccountPool
    RotationCarriesAccess
    ResolvedInForce
    PausesOutliveManagers
    PageShowsWhatIsRetained
    SavesAreWholeAndCurrent
CHECK_DEADLOCK FALSE
