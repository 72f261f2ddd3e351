SPECIFICATION LiveSpec
CONSTANTS
    Events = {e1}
    NoEvent = NoEvent
    Grace = 1
    MaxSlots = 2
    MaxRemotes = 4
    MaxRevision = 2
    MaxTime = 2
    Leads <- ScaledLeads
    StartGrace = 0
    BatchLimit = 2
    SlotCounts = {1, 2}
    GuildKnown = TRUE
    RoleUsable = FALSE
    MaxFaults = 1
INVARIANTS NativeInv
PROPERTIES EventsSettle
