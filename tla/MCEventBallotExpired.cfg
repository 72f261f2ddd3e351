SPECIFICATION Spec
CONSTANTS
    Events = {e1}
    NoEvent = NoEvent
    Grace = 0
    MaxSlots = 2
    MaxRemotes = 0
    MaxRevision = 5
    MaxTime = 2
    Titles = {}
    Users = {u1}
    Admins = {}
    VoteLimit = 1
    SlotCounts = {1}
    AddCounts = {1}
    MaxOptions = 2
    None = None
    PresetTimes <- Generic
PROPERTIES ExpiredVotesKept
CHECK_DEADLOCK FALSE
