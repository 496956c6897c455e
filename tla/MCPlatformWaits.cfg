\* Two waiters: every wake-up the standard allows, left-over tokens and
\* stolen ones.
SPECIFICATION FairSpec
CONSTANTS
    Waiter = {w1, w2}
    MaxCount = 2
INVARIANTS WaitersAreCounted SuspendedAreWoken MissesAtMostOneRecord
PROPERTIES ImplementsImageWait CloseReleasesWaiters DeadlineEndsWait
