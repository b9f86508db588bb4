SPECIFICATION Spec
CONSTANTS
    t = t
    u = u
    None = None
    StageIds <- MCStages
    ItemIds <- MCItems
    Teams <- MCTeams
    TeamCount = 2
    Setups <- MCSetups
    MaxChanges = 2
PROPERTY
    SomeStageStaysActive
CHECK_DEADLOCK FALSE
