SPECIFICATION Spec
CONSTANTS
    d1 = d1
    d2 = d2
    d3 = d3
    d4 = d4
    d5 = d5
    d6 = d6
    lidA = lidA
    lidB = lidB
    NoId = NoId
    NoDefinition = NoDefinition
    Ids = {d1, d2, d3, d4, d5, d6}
    Sources <- MCSources
    Workspaces <- MCWorkspaces
    Options <- Filtered
    Edits <- MCEdits
    MaxEdits = 0
    RequestsFail = FALSE
INVARIANT
    SourceItemsSurvive
CHECK_DEADLOCK FALSE
