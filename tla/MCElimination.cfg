SPECIFICATION Spec
CONSTANTS
    Matches <- MCMatches
    RoundOf <- MCRoundOf
    Feeder <- MCFeeder
    Entrants <- MCEntrants
    Seed <- MCSeed
    Scores <- MCScores
    Edited <- MCEdited
INVARIANTS
    TypeOK
    DecidedAdvances
    OneMatchPerRound
PROPERTIES
    KeepsPromise
    CompleteUpdateChangesNothing
    RequestsKeepFollowing
