SPECIFICATION ClientSpec
CONSTANTS
    maker = maker
    buyer = buyer
    None = None
    Addr = {maker, buyer}
    Publisher = maker
    BpsDenominator = 4
    MaxVersion = 1
    MinNavShare = 1
    MinCreatorShare = 1
    MaxTradeFee = 2
    DefaultTradeFee = 1
    DefaultTradeShares <- MCShares
    DefaultServiceShares <- MCShares
    DefaultTokenServiceShares <- MCShares
    DefaultCredTarget = 2
    AddressChoices <- NoChoices
    CreatorChoices <- NoChoices
    ShareChoices <- NoChoices
    FeeChoices = {}
    CredTargetChoices <- NoChoices
    VirtualSui = 3
    VirtualToken = 2
    SaleSupply = 1
    LpSupply = 1
    MaxU64 = 9
    SuiSupply <- MCSui
    ObjectIds <- NoChoices
    Thresholds = {0}
    MinOuts = {0}
    CapIds = {cap}
    TargetSets = {{}}
    LimitChoices = {0}
    TtlChoices = {0}
    MaxTtl = 2
    MaxTargets = 0
    DayLength = 2
    MaxTime = 3
    OrderIds = {o1}
    MinAmount = 2
    MinWindow = 1
    MaxWindow = 1
    AmountChoices = {2}
    DeadlineChoices = {2}
    WindowChoices = {1}
    LastReceipt = 3
    Watched = o1
    WorkerCap = cap
    Skews <- MCSkews
    CommandTerm = 2
    CommandWindow = 1
    Jobs = {j1, j2}
    Clicks = 1
CHECK_DEADLOCK FALSE
INVARIANT QuietPageOffersAll
PROPERTIES ActsOnWhatWasSeen ReceiptStands
