SPECIFICATION Spec
CONSTANTS
    Shapes = {"lro", "bytes", "item", "session", "statement", "export", "follow"}
    Limits = {0, 1, 4, 10, 22}
    Ends = {0, 1, 3, 5, 11, 40}
    Headers = {0, 2, 9}
    Pause = 1
    MaxPause = 2
    MaxAnswer = 1
    MaxToken = 1
    Backoff = 0
    MaxPark = 2
    RefreshAfter = 6
    Margin = 8
CHECK_DEADLOCK FALSE
INVARIANT TakenIsComplete
