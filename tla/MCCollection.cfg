SPECIFICATION FairSpec
CONSTANTS
    i1 = i1  i2 = i2  t1 = t1  t2 = t2  l1 = l1  p1 = p1  p2 = p2
    s1 = s1  s2 = s2  a1 = a1  a2 = a2  m1 = m1  m2 = m2  e1 = e1  e2 = e2  x1 = x1
    Parts = {"collectors", "host", "probe"}
    Instances = {i1, i2}
    Ticks = {t1, t2}
    Lanes = {l1}
    Installations = {p1, p2}
    LeaseLife = 1
    LaneWindow = 1
    MaxDue = 1
    MaxRevision = 2
    MaxSettings = 1
    MaxRestarts = 1
    NoInstance = NoInstance
    NoChange = NoChange
    Slots <- MCSlots
    Accounts <- MCAccounts
    ProbeModels <- MCModels
    Exits <- MCExits
    Rotating <- MCRotating
    Direct = Direct
    NoExit = NoExit
    NoBucket = NoBucket
    NoProbe = NoProbe
    ProbeSettings <- MCProbeSettings
    Hour = 2
    MaxUsage = 3
    Pacing = 1
    RefreshRoundLimit = 25
    MaxStops = 1
INVARIANTS
    IntentIsSaved
    WakesAreAnswered
    ProbesStayWithinLimits
PROPERTIES
    StopAdmitsNoProbe
    RefusalsPause
    CollectionGoesOn
    NoBucketStarves
