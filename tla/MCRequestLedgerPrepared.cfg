SPECIFICATION Spec
CONSTANTS
    Forms = {3}
    DirectMessages = {}
    NoKey = NoKey
    Units = {"s1", "s2"}
    SelectedSeerr <- AskSeerr
    SelectedDirect <- AskSonarr
    MaxFaults = 0
    MaxCrashes = 1
INVARIANTS ReconciledAfterRestart
CHECK_DEADLOCK FALSE
