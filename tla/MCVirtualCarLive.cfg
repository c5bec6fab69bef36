SPECIFICATION FairSpec
CHECK_DEADLOCK FALSE
PROPERTIES PreparingEnds RequestSettles
CONSTANTS
    Rpm <- MCRpm
    Lux <- MCLux
    Ingress <- LampIngress
    Silent = {"Wiper"}
    MaxRetries = 1
    ChannelCapacity = 1
    MaxIngress = 2
