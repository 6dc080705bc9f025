SPECIFICATION FairSpec
CONSTANTS
    Callers = {h1, h2}
    PerCaller = 2
    LogBuffer = 2
INVARIANTS TypeOK Conserved DirectInOrder DrainWritesQueued
PROPERTY ImplementsEntryLog
