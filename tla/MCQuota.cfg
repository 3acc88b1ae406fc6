SPECIFICATION Spec
CONSTANTS
    k1 = k1
    pa = pa
    w1 = w1
    m1 = m1
    m2 = m2
    db1 = db1
    db2 = db2
    AutoModel = AutoModel
    NoPlan = NoPlan
    NoWindow = NoWindow
    NoCycle = NoCycle
    NoTime = NoTime
    Scopes <- OneKey
    PlanIds <- OnePlan
    WindowIds <- OneWindow
    Models <- TwoModels
    Paths <- OneDatabase
    Offers <- ScopedOffers
    SaveAnswers <- Reliable
    MaxCount = 2
    MaxPending = 1
    MaxTime = 2
    MaxEvents = 2
SYMMETRY Symmetry
INVARIANTS
    CyclesCountTheirRecords
