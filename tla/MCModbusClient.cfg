\* Three transactions on the line: one given up, one that hears its late reply,
\* one more.
SPECIFICATION ClientSpec
CONSTANTS
    kCommandAddress = 1
    kStatusAddress = 6
    kBlockRegisters = 4
    kRegisterCountOnWire = 3
    Grippers <- MCGrippers
    Openings <- MCOpenings
    Faults <- MCFaults
    RawWrites <- MCRawWrites
    MaxRequests = 3
INVARIANTS
    AnswerIsOwn
    NothingLeftBehind
    OpeningReadsBack
    StatusFollowsCommand
PROPERTY
    FaultLatches
