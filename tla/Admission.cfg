SPECIFICATION LiveSpec
CONSTANTS
    r1 = r1  r2 = r2  r3 = r3  r4 = r4  r5 = r5
    Requests <- FiveRequests
    MaxConcurrency = 2
    QueueSize = 2
INVARIANTS PermitsBalanced WorkConserving
PROPERTY Served
