SPECIFICATION FairSpec
CHECK_DEADLOCK FALSE
INVARIANTS TypeOK NoOrphanBarrier DeadlineIsCurrent OneDeadline
PROPERTIES GiveUpOnlyWhenExhausted ImplementsSequentialTwin EveryTurnCommits
CONSTANTS
    Zone <- MCZone
    Event <- MCEvent
    Ingress = {"start", "light"}
    SpontaneousEvent = {"overdue"}
    Message = {"lux", "become_on"}
    Reply = {"real", "made_up"}
    NoReply = NoReply
    NoTell = NoTell
    Command = {"lamp_on", "horn"}
    Twin = {"off", "on", "lit", "dim"}
    InitTwin = "off"
    Silent = {"w"}
    MaxRetries = 1
    ChannelCapacity = 1
    MaxEvents = 2
    Route <- MCRoute
    CommitTurn <- MCCommitTurn
    Actions <- MCActions
    Synthetic <- MCSynthetic
