SPECIFICATION Spec
CONSTANTS
    admin = admin
    maker = maker
    trader = trader
    dw = dw
    None = None
    Addr = {admin, maker, trader}
    Publisher = admin
    BpsDenominator = 4
    MaxVersion = 1
    MinNavShare = 1
    MinCreatorShare = 1
    MaxTradeFee = 2
    DefaultTradeFee = 1
    DefaultTradeShares <- MCTradeShares
    DefaultServiceShares <- MCServiceShares
    DefaultTokenServiceShares <- MCTokenShares
    DefaultCredTarget = 2
    AddressChoices <- NoChoices
    CreatorChoices = {}
    ShareChoices <- NoChoices
    FeeChoices = {}
    CredTargetChoices <- NoChoices
    VirtualSui = 3
    VirtualToken = 2
    SaleSupply = 1
    LpSupply = 1
    MaxU64 = 9
    SuiSupply <- MCOrderSui
    ObjectIds <- NoChoices
    Thresholds = {0}
    MinOuts = {0}
    CapIds = {cap}
    TargetSets = {{}}
    LimitChoices = {0}
    TtlChoices = {0, 2}
    MaxTtl = 2
    MaxTargets = 0
    DayLength = 2
    MaxTime = 4
    OrderIds = {o1}
    MinAmount = 2
    MinWindow = 1
    MaxWindow = 2
    AmountChoices = {1, 4}
    DeadlineChoices = {0, 2}
    WindowChoices = {0, 2, 3}
    LastReceipt = 2
CHECK_DEADLOCK FALSE
PROPERTY CredFollowsBuyer
