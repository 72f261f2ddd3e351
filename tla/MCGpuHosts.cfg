SPECIFICATION HostsSpec
CONSTANTS
    Asks = {r1, r2}
    NoAsk = NoAsk
    MaxLevels = 1
    MaxRuntimeFaults = 1
    IdleCycles = 2
    MaxWatchFaults = 2
    MaxOperator = 2
INVARIANTS WorkerInv WatchInv
PROPERTIES RightRequestEnds DesktopLetsGo OperatorStopRespected FollowsPressure
CHECK_DEADLOCK FALSE
