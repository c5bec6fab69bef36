SPECIFICATION Spec
CHECK_DEADLOCK FALSE
INVARIANT TypeOK
PROPERTY ImplementsDigitalTwin
CONSTANTS
    Rpm <- MCRpm
    Lux <- MCLux
    Ingress <- LampIngress
    Silent = {}
    MaxRetries = 0
    ChannelCapacity = 1
    MaxIngress = 3
