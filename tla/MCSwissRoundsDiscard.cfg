CONSTANTS
    Inputs = {a, b, c}
    Pages = {p1, p2}
    SlowPages = {p1}
    MaxRounds = 2
    MaxMatches = 2
SYMMETRY Symmetry
SPECIFICATION Spec
PROPERTIES DiscardsDraftsOnly
CHECK_DEADLOCK FALSE
