---------------------------- MODULE DefaultSerial ----------------------------
(***************************************************************************)
(* DefaultSerial, the part that Linux, macOS and Windows share: a port     *)
(* that is published once it is configured, calls that are refused while   *)
(* there is none, and the latency timer of an FTDI adapter, which open     *)
(* sets through sysfs on Linux.  Each system's module says what its port   *)
(* does in these steps.                                                    *)
(***************************************************************************)
EXTENDS Integers

CONSTANTS
    Baudrate,    \* SerialConfig::baudrate, of which one is configured
    LatencyMs    \* SerialConfig::latencyTimerMs; zero leaves the timer alone

ASSUME ConfigAssumption == Baudrate \subseteq Nat /\ LatencyMs \subseteq Nat

VARIABLES
    system,      \* the system built for
    config,      \* _config
    port,        \* _port: "closed", "open"
    result,      \* how the last call ended
    latency,     \* the adapter's latency_timer, or NoTimer
    writable,    \* whether sysfs lets this process set it
    logged       \* what the last open said about the timer

configVars == <<system, config, writable>>
timerVars == <<latency, logged>>
serialVars == <<configVars, port, result, timerVars>>

System == {"linux", "macos", "windows"}
SerialConfig == [baudrate : Baudrate, latencyTimerMs : LatencyMs]

(* The other device is not an FTDI adapter.                                *)
NoTimer == -1
(* What the kernel's driver starts an adapter with, and what it accepts.   *)
KernelDefault == 16
Accepted == 1..255

SerialInit ==
    /\ system \in System
    /\ config \in SerialConfig
    /\ port = "closed"
    /\ result = "none"
    /\ latency \in {NoTimer, KernelDefault} \cup (LatencyMs \cap Accepted)
    /\ writable \in BOOLEAN
    /\ logged = "nothing"

-----------------------------------------------------------------------------
(* Mutant: the attribute is written without being read first.              *)
applyLatencyTimerBlindly ==
    writable /\ config.latencyTimerMs \in Accepted

(* Whether applyLatencyTimer succeeds: another may have set the value, and *)
(* a value out of range is rejected when the write reaches the kernel.     *)
applyLatencyTimer ==
    \/ latency = config.latencyTimerMs
    \/ writable /\ config.latencyTimerMs \in Accepted

(* The end of DefaultSerial::open: the timer, which never fails it.        *)
SetsTimer ==
    LET asked == config.latencyTimerMs > 0
        found == system = "linux" /\ latency # NoTimer
    IN  /\ logged' = CASE asked /\ found /\ applyLatencyTimer -> "set"
                       [] asked /\ found /\ ~applyLatencyTimer -> "not set"
                       [] asked /\ system = "macos" -> "not set"
                       [] OTHER -> "nothing"
        /\ latency' = IF asked /\ found /\ applyLatencyTimer
                        THEN config.latencyTimerMs ELSE latency

(* DefaultSerial::open publishes the port once it is configured ...        *)
Open ==
    /\ port = "closed"
    /\ port' = "open"
    /\ result' = "ok"
    /\ SetsTimer
    /\ UNCHANGED configVars

(* ... a failure leaves it closed, and open on an open port is ignored.    *)
OpenFails ==
    /\ port = "closed"
    /\ result' = "failed"
    /\ UNCHANGED <<configVars, port, timerVars>>

OpenAgain ==
    /\ port = "open"
    /\ result' = "ok"
    /\ UNCHANGED <<configVars, port, timerVars>>

Close ==
    /\ port' = "closed"
    /\ result' = "ok"
    /\ UNCHANGED <<configVars, timerVars>>

CallOnClosedPort ==
    /\ port = "closed"
    /\ result' = "refused"
    /\ UNCHANGED <<configVars, port, timerVars>>

(* An adapter that is plugged in again starts with the kernel's default.   *)
Replugged == latency' = IF latency = NoTimer THEN NoTimer ELSE KernelDefault
=============================================================================
