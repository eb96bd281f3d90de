SPECIFICATION ServicesSpec
CONSTANTS
    Services = {"journal"}
    link1 = link1
    link2 = link2
    view = view
    Links = {link1, link2}
    Clients = {c1}
    Generations = {1, 2}
    Views <- OneView
    MaxRevision = 1
    Alarm = 1
    Nobody = Nobody
    Traded = {"opt"}
    Indices = {"idx"}
    Minute = 2
    TradeTimes = {2, 3, 4}
    TradePrices = {1, 2}
    OwnCandles <- SomeOwnCandles
    MaxFeedTicks = 4
    MaxCharts = 1
    NoCandle = NoCandle
    Books <- SomeBooks
    OfiWindow = 3
    SpreadWindow = 4
    MinSamples = 3
    Refills = 2
    Threshold = 4
    Sustained = 2
    MaxBooks = 5
    NoBook = NoBook
    Requests <- SomeRequests
    NoValue = NoValue
    buy = buy
    sell1 = sell1
    sell2 = sell2
    Executed <- OneBuyTwoSales
    Signed <- UnitFills
    Entries = {m1}
    Resembles <- LikeTheFirst
    Late = {}
    Flaky = {}
    Calls = {}
    NoCharge = NoCharge
    Days = 2
    MaxAttempts = 2
    MaxLosses = 1
    MaxUncounted = 1
    Nights = 2
    Freshness = 7
    NoFigure = NoFigure
    LastDay = 2
    Retention = 1
    MaxRecorded = 3
    Severities = {"critical"}
    Wants <- OffOrCritical
    one = one
    other = other
    Workers = {one, other}
    SlotsOfDay = 2
    LastSlot = 4
    Expiries = {0, 2}
    RollingDays = 1
    MaxFetches = 3
    Nothing = Nothing
CONSTRAINT JournalMeetings
INVARIANT PassIsIdempotent
CHECK_DEADLOCK FALSE
