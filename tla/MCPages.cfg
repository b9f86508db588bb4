CONSTANTS
    AllTeams = {t1}
    Nobody = none
SPECIFICATION PagesSpec
INVARIANTS EveryLinkLands RequestsAreAllowed
CHECK_DEADLOCK FALSE
