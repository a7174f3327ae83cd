SPECIFICATION GridSpec
CONSTANTS
    t1 = t1
    t2 = t2
    Traders = {t1, t2}
    Prices = {2, 3}
    Sizes = {1, 2}
    FlagSets = {{}, {"ioc"}, {"fok"}, {"post_only"}}
    Budgets = {0, 1}
    TickSize = 1
    LotSize = 1
    FeeBps = 5000
    MaxMatches = 2
    NoPrice = NoPrice
    NoOrder = NoOrder
    MaxNonce = 4
    MaxHeight = 1
    GridParams <- MCGridParams
    GeomScale = 10
    MaxLevels = 2
    MaxOrders = 3
    NoWork = NoWork
SYMMETRY TraderSymmetry
INVARIANTS
    BookMirrorsOrders
    EscrowCoversOrders
    CancelledGridsAreOut
    NoTradeThrough
PROPERTIES
    PriceTimePriority
    TerminalOrdersAreFinal
    MatchingEndsClean
