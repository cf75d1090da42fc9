SPECIFICATION FairSpec
CONSTANTS
    g1 = g1  s1 = s1  s2 = s2  home = home  away = away
    NoSignal = NoSignal
    Games <- OneGame
    Signals <- OneSignal
    GameOf <- GameOfOne
    OutcomeOf <- OutcomeOfOne
    Costs = {1}
    MaxOrders = 2
    Lots = 1
    DryRun = FALSE
    MaxEntryOrders = 2
    MaxEntryNotional = 2
    AnswersSeen = {"accepted_without_id", "failed"}
    QuotesComplete = FALSE
    MaxCrashes = 0
    CyclesRaise = FALSE
PROPERTY UnfilledEntryCanceled
