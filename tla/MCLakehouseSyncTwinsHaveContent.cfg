SPECIFICATION Spec
CONSTANTS
    a = a
    b = b
    sub = sub
    x = x
    y = y
    Absent = Absent
    Hollow = Hollow
    Paths <- MCPaths
    Nested <- MCNested
    Contents <- MCContents
    Sizes <- MCSizes
    Requests <- MCRequests
    Listings <- MCListings
    Pages <- MCPages
CHECK_DEADLOCK FALSE
INVARIANT TwinsHaveContent
