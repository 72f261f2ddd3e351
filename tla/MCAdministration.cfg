SPECIFICATION AdminSpec
CONSTANTS
    Events = {e1}
    NoEvent = NoEvent
    Grace = 0
    MaxSlots = 2
    MaxRemotes = 4
    MaxRevision = 3
    MaxTime = 2
    Leads <- ScaledLeads
    StartGrace = 0
    BatchLimit = 1
    SlotCounts = {1}
    GuildKnown = TRUE
    RoleUsable = TRUE
    MaxFaults = 1
    Editors = {h1, h2}
    NoEditor = NoEditor
    MaxDashChanges = 3
    MaxDashFaults = 2
    Torrents = {1, 2}
    LastKey = 2
    Notable = {1}
    Places = {1, 2, 3, 4}
    NoPlace = 0
    MaxCardFaults = 2
    Sessions = {1, 2}
    Manifests = {m1, m2}
    Files = {1, 2}
    NoManifest = NoManifest
    PollRounds = 2
    MaxReviewClicks = 4
    MaxReviewFaults = 1
    Forms = {f1, f2}
    DirectForms = {f2}
    Keys = {k1, k2}
    TypedKeys = {k2}
    Handlers = {a1, a2}
    Queues = {a1}
    Nobody = Nobody
    MaxReportFaults = 1
    MaxRevisions = 3
INVARIANTS PingOnce DashboardInv OwnerCardsInv ReviewInv ReportsInv
PROPERTIES DecisionsAreFresh CleanupSpares ShownForward ClosedMeansSettled ClaimsHold
CHECK_DEADLOCK FALSE
