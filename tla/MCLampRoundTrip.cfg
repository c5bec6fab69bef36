SPECIFICATION StartedSpec
INVARIANTS RoundTripTypeOK HeardLampIsBelieved UndisturbedTwinKnows
PROPERTY ConfirmationTrueOrOvertaken
CHECK_DEADLOCK FALSE
CONSTANTS
    Nothing = Nothing
    SessionModulus = 2
    SequenceModulus = 4
    ChannelCapacity = 1
    MaxCommands = 2
    MaxSession = 1
    MaxFrames = 2
    Lux <- MCLux
    MaxRetries = 1
    MaxTurns = 5
    MaxRetells = 1
    MaxOpen = 2
