SPECIFICATION HireSpec
CONSTANTS
    Digests = {d1}
    Requests = {r1, r2}
    Routes = {"hire", "promote"}
    Floor <- MCFloor
    Amounts = {4, 5}
    Freshness = 1
    ClaimTtl = 3
    RequestLimit = 1
    MaxTime = 2
    HirePrices = {5}
    Grain = 2
    NoRequest = NoRequest
CHECK_DEADLOCK FALSE
SYMMETRY RequestSymmetry
INVARIANTS SingleUse
