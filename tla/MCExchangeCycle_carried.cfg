SPECIFICATION Spec
CONSTANTS
    Position <- MCPosition
    Drive <- MCDrive
    MaxDrive = 255
    Commander = {c}
    Observer = {}
    AppCommand <- MCAppCommand
    LeftCommand <- MCLeftCommand
    DeviceStatus <- MCQuietStatus
    StatusPredicate <- MCStatusPredicate
    kFaultThreshold = 3
    kInitialReadAttempts = 3
    FailureModulus = 5
    MaxExchanges = 3
PROPERTIES
    CarriedMeansGripperHasIt
