SPECIFICATION FairSpec
CONSTANTS
    Workers = 2
    MaxLines = 5
    Starts <- SomeStarts
    Pending = Pending
INVARIANTS TypeOK EveryHitOnce
PROPERTY ImplementsLineFilter
