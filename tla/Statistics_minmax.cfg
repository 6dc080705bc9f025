SPECIFICATION CalculateSpec
CONSTANTS
    Values <- Positive
    MaxLen = 5
    MaxProcs = 4
    Threshold = 3
    Percents <- LowAndHigh
    None = None
    NoValue = NoValue
INVARIANT MinMaxOfNumbers
