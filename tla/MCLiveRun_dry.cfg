SPECIFICATION Spec
CONSTANTS
    g1 = g1  s1 = s1  s2 = s2  home = home  away = away
    NoSignal = NoSignal
    Games <- OneGame
    Signals <- TwoSignals
    GameOf <- SameGame
    OutcomeOf <- TwoSides
    Costs = {1}
    MaxOrders = 3
    Lots = 1
    DryRun = TRUE
    MaxEntryOrders = 2
    MaxEntryNotional = 2
    AnswersSeen = {"accepted", "failed"}
    QuotesComplete = FALSE
    MaxCrashes = 1
    CyclesRaise = TRUE
INVARIANT PhantomDropped
