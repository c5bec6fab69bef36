SPECIFICATION BornOrStartedSpec
INVARIANTS TypeOK GapMeansDrop RowsChain SnapshotReconciles ConsoleShowsMode
CONSTANTS
    Rpm <- MCRpm
    Lux <- MCLux
    Kind <- MCKind
    Stale <- MCStale
    SinkCapacity = 2
    MaxTurns = 4
CHECK_DEADLOCK FALSE
