SPECIFICATION Spec
INVARIANT TypeOK
PROPERTIES AnswersLatest ConfirmedLampIsSet ImplementsCommandFeedback
CONSTANTS
    Nothing = Nothing
    SessionModulus = 2
    SequenceModulus = 2
    ChannelCapacity = 1
    MaxCommands = 3
    MaxSession = 2
    MaxFrames = 3
