SPECIFICATION FairSpec
CONSTANTS
    t1 = t1
    t2 = t2
    NoToken = NoToken
    Tasks <- MCTasks
    Programs <- MCPrograms
    MaxRetries = 1
    MaxPages = 2
    Lengths = {1, 2, 3}
    MaxRevokes = 1
CHECK_DEADLOCK FALSE
PROPERTY RetryHasNewToken
