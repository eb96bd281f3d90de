SPECIFICATION GuardsFairSpec
CONSTANTS
    Guards = {"watcher", "feed"}
    LotSeq <- MCOneLot
    SideOf <- MCLong
    LotQty = 1
    Entry = 10
    Bracketed = {}
    Prices = {8}
    FillPrices = {8}
    Checks = {c1, c2}
    Arms <- MCPercentage
    MaxArms = 1
    MaxRearms = 1
    MaxTicks = 2
    MaxTurns = 2
    MaxManual = 0
    MaxFailures = 1
    None = None
    Rows = {"nifty_I", "nifty_D", "bank"}
    KeyOf <- MCKey
    Held <- MCHeld
    FlatCalls = {1}
    Freeze = 2
    Listed = {"bank"}
    MaxCalls = 1
    nifty = nifty
    bank = bank
    Keys = {nifty, bank}
    Sessions = {phone}
    Wishes <- SomeWishes
    Holdings <- LotsOfBank
    Trackings <- TrackBank
    Quick = {nifty, bank}
    D30Cap = 1
    StaleAfter = 3
    D30StaleAfter = 2
    Cooldown = 2
    EscalateAfter = 2
    AlertAfter = 1
    MaxChanges = 2
    MaxFaults = 1
    NoMode = NoMode
PROPERTIES
    LastingBreachIsAnswered
    SilenceIsAnswered
CHECK_DEADLOCK FALSE
