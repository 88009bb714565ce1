SPECIFICATION FairSpec
CONSTANTS
    Ticks = {t1, t2}
    Kinds = {"launch", "trade"}
    Window = 1
    PostCap = 1
    MaxEvents = 2
    MaxFaults = 2
    Rounds = {t1, t2}
    LastDay = 4
    MaxDigestFaults = 1
CHECK_DEADLOCK FALSE
INVARIANTS RepeatsExplained BacklogExplained DigestsExplained EveryDayCovered
PROPERTY EventsHandled
