SPECIFICATION FairSpec
CONSTANTS
    Cards = {c1, c2}
    Batches = {b1}
    BatchOf <- OneBatch
    HasCommand = {b1}
    Worker = worker
    Token = {1, 2, 3, 4}
    NoToken = 0
    NoCard = NoCard
    NoBatch = NoBatch
    UITimeout = 2
    SubmitBound = 1
    FinishLease = 1
    WorkerLease = 1
    RetryDelay = 1
    MaxTime = 4
    LastClick = 0
    Horizon = 2
    MaxFaults = 1
    MaxCrashes = 1
INVARIANTS CommandPreserved
PROPERTIES AllRetire
