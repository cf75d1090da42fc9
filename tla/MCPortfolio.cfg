SPECIFICATION PortfolioSpec
CONSTANTS
    Externals = {x1}
    Lots = 2
    Writers = {w1, w2}
    MaxJobs = 4
    Unrecorded = Unrecorded  Unlinked = Unlinked
    h1 = h1  h2 = h2
    p1 = p1  p2 = p2  p3 = p3
    k1 = k1  k2 = k2
    l1 = l1  l2 = l2
    Handlers <- MCHandlers
    Plans <- MCPlans
    Keys <- MCKeys
    KeyOf <- MCKeyOf
    LedgerIds <- MCLedgerIds
    LedgerOf <- MCLedgerOf
    Ids = {i1, i2}
    NoPlan = NoPlan  NoId = NoId  NoHandler = NoHandler
    Threads = {t1, t2}
    MaxOps = 2  Window = 2  LastTime = 4
    NotRead = NotRead
SYMMETRY Symmetry
CHECK_DEADLOCK FALSE
INVARIANTS
    PortfolioTypeOK FilledOnlyByEvidence ExpiredNotResting
    PlacedOncePerKey PlacedOrdersFound LedgerWithOrder
    WindowKept
PROPERTIES
    CancelKept
