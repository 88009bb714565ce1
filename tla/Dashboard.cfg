SPECIFICATION Spec
CONSTANTS
    Keys = {k1}
    Readers = {r1, r2}
    NodeCount = 2
    Lag <- MCLag
    MaxLag = 2
    Ttl = 1
    Timeout = 1
    BodyLimit = 1
    CacheMax = 1
    MaxTime = 6
    Base = 2
    FundamentalWeight = 3
    MarketWeight = 2
    Agents = {a1, a2}
    Known = {}
    Shown = a1
    Creator = cr
    Payers = {cr, p1, p2}
    CredTarget = 1
    Limit = 2
    OrderLimit = 1
    RecentLimit = 1
    LaunchLimit = 1
    MaxAge = 1
    LoadLimit = 1
    RefreshEvery = 2
    StaleAfter = 0
    MaxEvents = 3
    LastTime = 3
    maker = maker
    trader = trader
    None = None
    Addr = {maker, trader}
    Publisher = maker
    BpsDenominator = 4
    MaxVersion = 1
    MinNavShare = 1
    MinCreatorShare = 1
    MaxTradeFee = 2
    DefaultTradeFee = 1
    DefaultTradeShares <- MCShares
    DefaultServiceShares <- MCShares
    DefaultTokenServiceShares <- MCShares
    DefaultCredTarget = 2
    AddressChoices <- NoChoices
    CreatorChoices <- NoChoices
    ShareChoices <- NoChoices
    FeeChoices = {1, 2}
    CredTargetChoices <- NoChoices
    VirtualSui = 3
    VirtualToken = 2
    SaleSupply = 4
    LpSupply = 1
    MaxU64 = 5
    SuiSupply <- MCSui
    ObjectIds <- NoChoices
    Thresholds = {0}
    MinOuts = {0}
    GasReserve = 1
    Subunits = 2
    TypedAmounts = {2, 5}
    OtherAmounts = {2}
    MaxMoves = 3
    Clicks = {c1}
    Slippages = {0, 1}
    MaxPolls = 1
    Skews <- MCSkews
SYMMETRY Symmetry
CHECK_DEADLOCK FALSE
INVARIANTS AgeBounded ReadsGoForward ListingsExplained CautionExplained LiveMeansRecent QuietPoolFills
PROPERTIES FilledAsShown BalanceFollowsWallet
