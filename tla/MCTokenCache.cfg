SPECIFICATION Spec
CONSTANTS
    p1 = p1
    p2 = p2
    p3 = p3
    First = old
    old = old
    Missing = Missing
    Blank = Blank
    Garbage = Garbage
    NoToken = NoToken
    Elsewhere = Elsewhere
    Processes <- MCProcesses
    Programs <- MCPrograms
    Lasting <- MCLasting
    Margin = 1
    Life = 2
    MaxClock = 2
    MaxBreaks = 1
CHECK_DEADLOCK FALSE
INVARIANTS LastSaveStands LogoutHolds NewestKept
PROPERTY HandedOutFits
