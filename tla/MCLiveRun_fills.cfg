SPECIFICATION FairSpec
CONSTANTS
    g1 = g1  s1 = s1  s2 = s2  home = home  away = away
    NoSignal = NoSignal
    Games <- OneGame
    Signals <- OneSignal
    GameOf <- GameOfOne
    OutcomeOf <- OutcomeOfOne
    Costs = {1}
    MaxOrders = 2
    Lots = 2
    DryRun = FALSE
    MaxEntryOrders = 2
    MaxEntryNotional = 3
    AnswersSeen = {"accepted", "failed"}
    QuotesComplete = FALSE
    MaxCrashes = 0
    CyclesRaise = TRUE
PROPERTIES ImplementsOrderLedger EntryLeaves
