SPECIFICATION FairSpec
CONSTANTS
    MaxRequests = 4
    MaxWorkers = 3
    Sizes <- SomeSizes
INVARIANTS TypeOK ReportIsTrue
PROPERTY EndsWithReport
