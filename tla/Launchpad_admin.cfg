SPECIFICATION LaunchpadSpec
CONSTANTS
    admin = admin
    maker = maker
    trader = trader
    dw = dw
    None = None
    Addr = {admin, maker}
    Publisher = admin
    BpsDenominator = 4
    MaxVersion = 2
    MinNavShare = 1
    MinCreatorShare = 1
    MaxTradeFee = 2
    DefaultTradeFee = 1
    DefaultTradeShares <- MCTradeShares
    DefaultServiceShares <- MCServiceShares
    DefaultTokenServiceShares <- MCTokenShares
    DefaultCredTarget = 2
    AddressChoices = {admin, maker}
    CreatorChoices = {admin, maker}
    ShareChoices <- MCShareChoices
    FeeChoices = {0, 3}
    CredTargetChoices = {0, 3}
    VirtualSui = 3
    VirtualToken = 2
    SaleSupply = 4
    LpSupply = 1
    MaxU64 = 5
    SuiSupply <- MCAdminSui
    ObjectIds = {dw}
    Thresholds = {0}
    MinOuts = {0}
PROPERTIES FrozenOnVersionSkew AdminHandover
