\* Six units a second, three ticks a second; frequencies in halves of a hertz,
\* one below, one above and one of 1.5 Hz between the limits: periods of 0, 2, 4
\* and 6 units.
SPECIFICATION Spec
CONSTANTS
    PerSecond = 6
    TicksPerSecond = 3
    MaxTicks = 20
    PerHertz = 2
    kMinFrequency = 2
    kMaxFrequency = 6
    Millisecond = 2
    MaxDuration = 40
    Frequencies = {0, 1, 3, 10}
    LogPeriod = 3
    MaxStart = 1
    MaxTime = 10
INVARIANTS
    NoBurst
    NoDrift
    FailuresAreHeard
