SPECIFICATION FairSpec
CONSTANTS
    Position <- MCPosition
    Drive <- MCDrive
    MaxDrive = 255
    Commander = {}
    Observer = {o}
    AppCommand <- MCAppCommand
    LeftCommand <- MCAnyLeftCommand
    DeviceStatus <- MCDeviceStatus
    StatusPredicate <- MCStatusPredicate
    kFaultThreshold = 3
    kInitialReadAttempts = 3
    FailureModulus = 4
    MaxExchanges = 2
PROPERTIES
    ImplementsImageWait
    EmptyMeansNotYet
    AttachMovesNothing
    WaitsReturn
    StopEnds
