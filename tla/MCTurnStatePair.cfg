SPECIFICATION Spec
CONSTANTS
    a1 = a1
    a2 = a2
    m1 = m1
    r1 = r1
    r2 = r2
    old = old
    new = new
    other = other
    Accounts <- TwoAccounts
    Models <- OneModel
    Requests <- TwoRequests
    Values <- TwoOwners
    IssuedAt <- Issues
    LengthOf <- Lengths
    IssuedTo <- Owners
    Configs <- OnAndOff
    DefaultConfig <- Partial
    PluginSettings = {TRUE, FALSE}
    Hour = 2
    PendingLife = 0
    MaxPending = 1
    MaxDiscarded = 2
    NoValue = NoValue
    NoPending = NoPending
    NoBucket = NoBucket
    NoFile = NoFile
    Idle = Idle
    MaxTime = 0
    MaxWrites = 2
    MaxEpoch = 2
INVARIANTS
    LookedAtTemplatesServe
