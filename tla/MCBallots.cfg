SPECIFICATION BallotsSpec
CONSTANTS
    Events = {e1}
    NoEvent = NoEvent
    Grace = 0
    MaxSlots = 2
    MaxRemotes = 0
    MaxRevision = 6
    MaxTime = 2
    Titles = {t1, t2, t3}
    Users = {u1, u2}
    Admins = {a1}
    VoteLimit = 2
    SlotCounts = {1}
    AddCounts = {1}
    MaxOptions = 2
    None = None
    PresetTimes <- Generic
INVARIANTS BallotInv
PROPERTIES VotesAsShown PublishedTimeWon
SYMMETRY BallotSymmetry
CHECK_DEADLOCK FALSE
