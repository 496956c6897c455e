\* One waiter and no record: a close against a wait that was woken for nothing.
SPECIFICATION Spec
CONSTANTS
    Waiter = {w1}
    MaxCount = 1
INVARIANT CloseWakesSleepers
