SPECIFICATION TreasurySpec
CONSTANTS
    CapIds = {c1, c2}
    Recipients = {vendor, other}
    TargetSets = {{}, {vendor}, {vendor, other}}
    LimitChoices = {2}
    TtlChoices = {0, 1, 4}
    MaxTtl = 3
    MaxTargets = 1
    DayLength = 2
    MaxTime = 2
    SuiTotal = 2
    TokenTotal = 1
CHECK_DEADLOCK FALSE
SYMMETRY CapSymmetry
INVARIANT DailyBudgetKept
PROPERTY ImplementsAllowance
