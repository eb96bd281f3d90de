SPECIFICATION GuardsSpec
CONSTANTS
    Guards = {"watcher", "flattener", "feed"}
    LotSeq <- MCOneLot
    SideOf <- MCLong
    LotQty = 1
    Entry = 10
    Bracketed = {"l1"}
    Prices = {8, 13}
    FillPrices = {8}
    Checks = {c1, c2}
    Arms <- MCArms
    MaxArms = 1
    MaxRearms = 1
    MaxTicks = 1
    MaxTurns = 0
    MaxManual = 1
    MaxFailures = 1
    None = None
    Rows = {"nifty_I", "nifty_D", "bank"}
    KeyOf <- MCKey
    Held <- MCHeld
    FlatCalls = {1}
    Freeze = 2
    Listed = {"bank"}
    MaxCalls = 1
    nifty = nifty
    bank = bank
    Keys = {nifty, bank}
    Sessions = {phone, web}
    Wishes <- SomeWishes
    Holdings <- LotsOfBank
    Trackings <- TrackBank
    Quick = {}
    D30Cap = 1
    StaleAfter = 3
    D30StaleAfter = 2
    Cooldown = 2
    EscalateAfter = 2
    AlertAfter = 1
    MaxChanges = 2
    MaxFaults = 1
    NoMode = NoMode
SYMMETRY CheckSymmetry
INVARIANTS
    GuardsTypeOK ReversedOnlyWhenUnsettled SuccessLeavesNothingOpen DemandIsServed
PROPERTIES
    WatcherExitsWithinPosition EpochGoesBackOnlyAfterAQuote
CHECK_DEADLOCK FALSE
