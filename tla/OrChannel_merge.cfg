SPECIFICATION FairSpec
CONSTANTS
    MaxInputs = 4
INVARIANTS TypeOK OneWriter
PROPERTIES ReaderReleased FiredGoroutinesEnd
CHECK_DEADLOCK FALSE
