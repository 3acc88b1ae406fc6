SPECIFICATION SettingsSpec
CONSTANTS
    o1 = o1
    o2 = o2
    a = a
    b = b
    c = c
    p1 = p1
    p2 = p2
    NoOwner = NoOwner
    NoRef = NoRef
    NoPath = NoPath
    Owners <- MCOwners
    Refs <- MCRefs
    AccountLimits <- BinaryLimits
    MaxTracked = 2
    Paths <- OnePath
    MaxPatch = 1

INVARIANT RotatedCredentialsShareOnePool
