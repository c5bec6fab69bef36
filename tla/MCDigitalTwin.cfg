SPECIFICATION Spec
INVARIANTS TypeOK CountdownIsOpenTurns QuiescentAfterCommit DangerIsReal BuzzerSoundsInAlarm
CONSTANTS
    Rpm <- MCRpm
    Lux <- MCLux
