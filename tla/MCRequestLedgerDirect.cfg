SPECIFICATION Spec
CONSTANTS
    Forms = {1, 2}
    DirectMessages = {2}
    NoKey = NoKey
    Units = {"s1", "s2", "e1"}
    SelectedSeerr <- AskSeerr
    SelectedDirect <- AskSonarr
    MaxFaults = 1
    MaxCrashes = 0
PROPERTIES RefusedOnlyByFault
CHECK_DEADLOCK FALSE
