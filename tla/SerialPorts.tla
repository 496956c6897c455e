----------------------------- MODULE SerialPorts -----------------------------
(***************************************************************************)
(* The serial transport on each of its systems: DefaultSerial over the     *)
(* POSIX port on Linux and macOS and over the Windows port on Windows.     *)
(***************************************************************************)
EXTENDS PosixSerialPort, Win32SerialPort

vars == <<serialVars, posixVars, winVars>>

Init == SerialInit /\ PosixInit /\ WinInit

Next ==
    \/ system # "windows" /\ PosixNext /\ UNCHANGED winVars
    \/ system = "windows" /\ WinNext /\ UNCHANGED posixVars

Spec == Init /\ [][Next]_vars

(* The calling thread runs and the clock does; nothing is said of signals, *)
(* of bytes or of the other end.                                           *)
FairSpec ==
    /\ Spec
    /\ WF_linkVars(Reading) /\ WF_linkVars(Writing) /\ WF_linkVars(Expire)

-----------------------------------------------------------------------------
(* PROPERTIES                                                              *)

(* What open says of the latency timer is so: it reports success exactly   *)
(* when the adapter has the timer asked for, whoever set it, and also when *)
(* the adapter was plugged in again since the last open (applyLatencyTimer *)
(* reading before it writes).                                              *)
TimerIsAsLogged ==
    [][port = "closed" /\ port' = "open" /\ system = "linux" =>
         /\ logged' = "set" => latency' = config.latencyTimerMs
         /\ logged' = "not set" => latency' # config.latencyTimerMs]_vars
=============================================================================
