SPECIFICATION Spec
CONSTANTS
    a1 = a1
    a2 = a2
    m1 = m1
    r1 = r1
    r2 = r2
    old = old
    new = new
    other = other
    Accounts <- OneAccount
    Models <- OneModel
    Requests <- OneRequest
    Values <- TwoAges
    IssuedAt <- Issues
    LengthOf <- Lengths
    IssuedTo <- Owners
    Configs <- Lifetimes
    DefaultConfig <- Short
    PluginSettings = {TRUE}
    Hour = 2
    PendingLife = 1
    MaxPending = 1
    MaxDiscarded = 2
    NoValue = NoValue
    NoPending = NoPending
    NoBucket = NoBucket
    NoFile = NoFile
    Idle = Idle
    MaxTime = 2
    MaxWrites = 3
    MaxEpoch = 2
INVARIANTS
    DiscardedStaysGone
    RestartKeepsSaved
    ExpiredStaysExpired
PROPERTIES
    StaleResponsesTeachNothing
