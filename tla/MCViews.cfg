CONSTANTS
    Tournaments <- MCTournaments
    MaxTime = 2
SPECIFICATION Spec
INVARIANTS EachMatchListedOnce PagesAgree WinnersFollowConnectors
CHECK_DEADLOCK FALSE
