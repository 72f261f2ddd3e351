SPECIFICATION FairSpec
CONSTANTS
    Requests = {1, 2, 3}
    Owner <- Askers
    Nobody = Nobody
    Capacity = 2
    PerUser = 1
    Impatient = {1}
    MaxFaults = 1
INVARIANTS InferenceInv
PROPERTIES CancelWins Drains
CHECK_DEADLOCK FALSE
