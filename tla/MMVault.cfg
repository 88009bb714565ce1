SPECIFICATION Spec
CONSTANTS
    VirtualShares = 3
    VirtualAssets = 3
    PositionIds = {p1, p2, p3}
    Cash = 14
    MaxEpoch = 2
INVARIANT WithdrawNeverAborts
