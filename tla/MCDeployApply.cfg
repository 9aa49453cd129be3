CONSTANTS
    Changesets <- AllChangesets
    Concurrency = 2
    MaxNameTries = 2
SPECIFICATION FairSpec
INVARIANTS
    EarlierTierResolved
    DeletesLast
    ReportTrue
    CalleesFirst
    HooksFirst
PROPERTIES
    ImplementsTieredWork
    ApplyEnds
CHECK_DEADLOCK FALSE
