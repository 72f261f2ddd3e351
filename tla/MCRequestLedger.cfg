SPECIFICATION FairSpec
CONSTANTS
    Forms = {1, 2, 4}
    DirectMessages = {4}
    NoKey = NoKey
    Units = {"s1", "e1"}
    SelectedSeerr <- AskSeerr
    SelectedDirect <- AskSonarr
    MaxFaults = 1
    MaxCrashes = 1
INVARIANTS LedgerInv
PROPERTIES LedgerSteps MentionArrives
CHECK_DEADLOCK FALSE
