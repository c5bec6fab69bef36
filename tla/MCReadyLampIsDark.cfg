SPECIFICATION PatientSpec
INVARIANT ReadyLampIsDark
CHECK_DEADLOCK FALSE
CONSTANTS
    Nothing = Nothing
    SessionModulus = 2
    SequenceModulus = 4
    ChannelCapacity = 1
    MaxCommands = 1
    MaxSession = 0
    MaxFrames = 1
    Lux <- MCLux
    MaxRetries = 1
    MaxTurns = 5
    MaxRetells = 0
    MaxOpen = 1
