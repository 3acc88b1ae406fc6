SPECIFICATION FairSpec
CONSTANTS
    c1 = c1
    c2 = c2
    r1 = r1
    r2 = r2
    t1 = t1
    k1 = k1
    a = a
    b = b
    NoRequest = NoRequest
    NoOwner = NoRequest
    NoScope = NoScope
    NoRef = NoRef
    NoCall = NoCall
    Calls <- MCCalls
    Requests <- OneRequest
    Tests <- NoTests
    Owners <- MCOwners
    Scopes <- MCScopes
    Refs <- OneRef
    KeyLimits <- NoLimit
    AccountLimits <- MCLimits
    MaxTracked = 2
    MaxTests = 1
PROPERTIES
    CallsReturn
    SlotsFreedForGood
