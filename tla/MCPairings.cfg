SPECIFICATION Spec
CONSTANTS
    MaxTeams = 5
    MaxPoints = 2
    MaxExtra = 4
    MaxSize = 64
INVARIANTS
    AsManyAsPossible
    SitsOutFairly
    ClosestOpponents
    EveryPairMeetsOnce
    EveryWinnerReachesTheFinal
CHECK_DEADLOCK FALSE
