SPECIFICATION FairSpec
CONSTANTS
    r1 = r1
    r2 = r2
    p1 = p1
    Runs <- MCRuns
    Pruners <- MCPruners
    Asked <- MCAsked
    MaxStops = 1
CHECK_DEADLOCK FALSE
INVARIANTS LedgerCurrent FinalStatusTrue
PROPERTY CommandsEnd
