\* A read of two bytes that arrive one at a time.
SPECIFICATION Spec
CONSTANTS
    MaxSize = 2
    InputRoom = 2
    OutputRoom = 1
    Timeout = {0, 10}
    DwordModulus = 256
    Baudrate = {115200}
    LatencyMs = {0}
INVARIANT HangUpMeansGone
