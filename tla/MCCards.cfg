SPECIFICATION AllSpec
CONSTANTS
    Cards = {c1, c2}
    Batches = {b1, b2}
    BatchOf <- OwnBatch
    HasCommand = {b1}
    Worker = worker
    Token = {1, 2, 3, 4}
    NoToken = 0
    NoCard = NoCard
    NoBatch = NoBatch
    UITimeout = 2
    SubmitBound = 1
    FinishLease = 1
    WorkerLease = 1
    RetryDelay = 1
    MaxTime = 3
    LastClick = 3
    Horizon = 3
    MaxFaults = 1
    MaxCrashes = 1
    ProviderPages <- Results
    Rank <- Ranks
    PageSize = 2
    NoTitle = 0
    MaxClicks = 3
    MaxSearchFaults = 1
    MusicCards = {"m1", "m2", "m3", "m4", "m5"}
    Tracks = {"t1", "t2", "t3"}
    TrackOf <- TrackFor
    Similar <- SameQuery
    MusicMember <- MemberFor
    Scope <- ScopeFor
    Direct = "dm"
    Hasty = {"m2"}
    RecentHours = 1
    MaxHour = 2
    MaxMusicFaults = 1
    Questions = {1, 2, 3}
    KeptTurns = 1
    MaxPresses = 3
    MaxProgress = 1
    MaxChatFaults = 1
    Captures = {k1}
    LifeTasks = {x1, x2}
    LifeProposals = {1, 2}
    NoItem = NoItem
    MaxLifeClicks = 3
    MaxLifeFaults = 1
    MaxEdits = 1
INVARIANTS RetiredMeansGone DeletedMeansGone
    SearchInv MusicInv ConversationInv LifeInv
PROPERTIES NoExpiryUnderUser ImplementsCustody
    ReceiptKept AcceptanceStands AnswersStand
CHECK_DEADLOCK FALSE
