SPECIFICATION Spec
CONSTANTS
    Matches <- MCMatches
    RoundOf <- MCRoundOf
    Feeder <- MCFeeder
    Entrants <- MCEntrants
    Seed <- MCSeed
    Scores <- MCScores
    Edited <- MCMatches
    Requests = {r1, r2}
INVARIANT
    QuietDecidedAdvances
