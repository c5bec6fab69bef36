SPECIFICATION FairSpec
INVARIANTS TypeOK SilencedFromFatalOn MotorFollowsCommands
PROPERTIES ImplementsCommandRelay SendReturns EveryCommandWritten
CHECK_DEADLOCK FALSE
CONSTANTS
    Nothing = Nothing
    Capacity = 1
    MaxCommands = 5
    MaxFrames = 2
