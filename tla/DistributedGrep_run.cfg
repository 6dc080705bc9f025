SPECIFICATION SearchSpec
CONSTANTS
    MaxLen = 6
    MaxN = 4
    N = 2
    Inputs <- OnlyNothing
    Sent <- SomeTexts
    Troubled <- SomeTroubled
    Quorums <- SomeQuorums
    Retries <- WithRetry
    MaxStarts = 1
INVARIANTS SearchTypeOK NothingLost NumbersRight PrintedIsGrep NoNeedlessFailure
