SPECIFICATION FairSpec
CONSTANTS
    N = 3
    Inputs <- SomeInputs
    Quorums <- SomeQuorums
    Retries <- WithRetry
INVARIANTS TypeOK ResultInFileOrder QuorumIsReal AllCountedInTime ExitCodeSound
PROPERTY Terminates
