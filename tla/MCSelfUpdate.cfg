SPECIFICATION UpdateSpec
CONSTANTS
    c1 = c1
    c2 = c2
    Installed = Installed
    None = None
    Torn = Torn
    Commands <- MCCommands
    Mixes <- MCMixes
    Platforms <- MCPlatforms
    FirstCaches <- MCCaches
    Newest = 3
    RefreshAfter = 1
    RetryAfter = 1
    MaxHours = 1
    MaxStops = 1
CHECK_DEADLOCK FALSE
INVARIANTS
    BinaryRemains
    SuccessLasts
PROPERTIES
    Throttled

