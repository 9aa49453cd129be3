SPECIFICATION FairSpec
CONSTANTS
    NItems <- MCNItems
    Concurrency <- MCConcurrency
    MaxRetries <- MCMaxRetries
INVARIANTS
    ResultsTruthful
    ReturnedInInputOrder
PROPERTIES
    BatchEnds
    ImplementsCollectAll
CHECK_DEADLOCK FALSE
