SPECIFICATION CalculateSpec
CONSTANTS
    Values <- MixedSigns
    MaxLen = 5
    MaxProcs = 4
    Threshold = 4
    Percents <- LowAndHigh
    None = None
    NoValue = NoValue
INVARIANTS WellTyped SumAndCount ExtremesWhenBusy TargetInRange PercentileRank
PROPERTY Terminates
