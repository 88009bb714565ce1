SPECIFICATION HireSpec
CONSTANTS
    Digests = {d1}
    Requests = {r1, r2, r3}
    Routes = {"hire", "promote"}
    Floor <- MCFloor
    Amounts = {5}
    Freshness = 1
    ClaimTtl = 3
    RequestLimit = 1
    MaxTime = 4
    HirePrices = {1, 3, 5}
    Grain = 2
    NoRequest = NoRequest
CHECK_DEADLOCK FALSE
SYMMETRY RequestSymmetry
INVARIANTS PaidIsServed SingleUseUncontended ServedStaysClaimed ClaimsExplained WorkIsPaid
