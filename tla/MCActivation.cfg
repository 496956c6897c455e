SPECIFICATION FairSpec
CONSTANT PowerMayFail = TRUE
INVARIANTS
    HealthyIsUndisturbed
    LatchedFaultStays
PROPERTIES
    RecoveredMeansReset
    NoResetLeftBehind
    ProcedureReturns
