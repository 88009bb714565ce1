SPECIFICATION LaunchpadSpec
CONSTANTS
    admin = admin
    maker = maker
    trader = trader
    dw = dw
    None = None
    Addr = {admin, maker, trader}
    Publisher = admin
    BpsDenominator = 4
    MaxVersion = 1
    MinNavShare = 1
    MinCreatorShare = 1
    MaxTradeFee = 2
    DefaultTradeFee = 1
    DefaultTradeShares <- MCTradeShares
    DefaultServiceShares <- MCServiceShares
    DefaultTokenServiceShares <- MCTokenShares
    DefaultCredTarget = 2
    AddressChoices <- NoChoices
    CreatorChoices = {trader}
    ShareChoices <- NoChoices
    FeeChoices = {1, 2}
    CredTargetChoices = {4}
    VirtualSui = 3
    VirtualToken = 2
    SaleSupply = 4
    LpSupply = 1
    MaxU64 = 5
    SuiSupply <- MCTradingSui
    ObjectIds <- NoChoices
    Thresholds = {0}
    MinOuts = {0, 2}
INVARIANTS Solvent SuiConserved TokensConserved
PROPERTIES KNeverFalls TradesAreTight HirePriceNeverFalls CredBacked NoSelfCred
