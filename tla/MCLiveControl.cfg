SPECIFICATION LiveSpec
CONSTANTS
    ConfigEntries = TRUE
    NoText = NoText  Unparsable = Unparsable  Missing = Missing
    on = on  off = off
    Updaters = {u1, u2}
    Fields = {enabled, price_band}
    Settings = {on, off}
    Default = on
    NoConfig = NoConfig  TornConfig = TornConfig  NoUpdate = NoUpdate
    w1 = w1  w2 = w2  yes = yes  no = no
    Whole = 2
    Dollars = {0, 1, 2}
    Sleeves = {w1, w2}
    Sides = {yes, no}
    RequestCount = 3
    Requests <- MCRequests
    Accounts <- MCAccounts
    SideCaps <- MCSideCaps
    SleeveCaps <- MCSleeveCaps
    NoCap = NoCap  NoAccount = NoAccount
    Tokens = {a, b}
    SleeveIds = {s1, s2}
    Times = {0, 2}
    Cooldown = 1
    SignalCount = 3
    NoSignal = NoSignal  NoToken = NoToken
    MaxShares = 3
    PlanSleeves = 2
    OrderCount = 2
    MinSize = 2
SYMMETRY Symmetry
CHECK_DEADLOCK FALSE
INVARIANTS
    LiveTypeOK PauseSurvives LoopIsCaptured RunHasLoop
    UpdatesKept
    CapLawful BuysWithinCaps
    CooldownKept ExitPrevails ProposalSound
    AllocationMatches CoveredTokenIsCovered
PROPERTIES
    CoveredOnce
