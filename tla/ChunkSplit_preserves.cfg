SPECIFICATION SplitSpec
CONSTANTS
    MaxLen = 4
    MaxN = 3
INVARIANT PreservesAllLines
