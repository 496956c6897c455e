\* Requests of up to three bytes through queues of three and two; drains, byte
\* timeouts, transactions and a timeout that a DWORD cuts to none; a rate termios
\* lacks, a timer left alone, the default one and one the kernel rejects.
SPECIFICATION FairSpec
CONSTANTS
    MaxSize = 3
    InputRoom = 3
    OutputRoom = 2
    Timeout = {0, 10, 50, 256}
    DwordModulus = 256
    Baudrate = {115200, 100000}
    LatencyMs = {0, 1, 300}
INVARIANTS ShortMeansLate SilenceIsNoHangUp CallsUseTheirTimeout
PROPERTIES WriteMeansSent CallsReturn TimerIsAsLogged
