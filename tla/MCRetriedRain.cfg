SPECIFICATION StartedSpec
CHECK_DEADLOCK FALSE
INVARIANT MotorFollowsWiper
CONSTANTS
    Rpm <- MCRpm
    Lux <- MCLux
    Ingress <- RainIngress
    Silent = {}
    MaxRetries = 1
    ChannelCapacity = 1
    MaxIngress = 3
