SPECIFICATION StartedSpec
CHECK_DEADLOCK FALSE
INVARIANT RequestHasDeadline
PROPERTY CommitsAsDigitalTwin
CONSTANTS
    Rpm <- MCRpm
    Lux <- MCLux
    Ingress <- NightIngress
    Silent = {}
    MaxRetries = 0
    ChannelCapacity = 1
    MaxIngress = 4
