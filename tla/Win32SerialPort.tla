--------------------------- MODULE Win32SerialPort ---------------------------
(***************************************************************************)
(* The Windows serial port.  Reads and writes share one structure of       *)
(* timeouts in the driver; the port remembers the pair it last set, sets   *)
(* it again only when one of the two changes, and relies on its memory for *)
(* the other one.  The driver (external) may refuse any call.              *)
(***************************************************************************)
EXTENDS DefaultSerial

CONSTANTS
    Timeout,         \* timeouts a caller uses, in milliseconds; zero is one
    DwordModulus     \* where a DWORD wraps, 2^32 in the code

ASSUME TimeoutAssumption ==
    /\ Timeout \subseteq Nat
    /\ 0 \in Timeout
    /\ DwordModulus \in Nat \ {0}

VARIABLES
    cached,    \* _readTimeoutMs, _writeTimeoutMs
    applied,   \* the pair the driver carries; zero waits for ever
    asked      \* the timeout the last call was given

winVars == <<cached, applied, asked>>

(* No pair yet; for the driver, one somebody else left.                    *)
Unset == [read |-> -1, write |-> -1]

WinInit ==
    /\ cached = Unset
    /\ applied = Unset
    /\ asked = 0

-----------------------------------------------------------------------------
(* Mutant: the pair is remembered before the driver has taken it.          *)
CachedIfRefused(p) == p

(* What is remembered when the driver refuses pair p.                      *)
CachedRefused(p) == cached

(* COMMTIMEOUTS: a read interval of MAXDWORD for a read timeout of zero,   *)
(* and otherwise the milliseconds cut to a DWORD.                          *)
Immediate == -2
CommTimeouts(p) ==
    [read  |-> IF p.read = 0 THEN Immediate ELSE p.read % DwordModulus,
     write |-> p.write % DwordModulus]

(* setTimeouts returns early, succeeds, or throws.                         *)
Sets(p) ==
    /\ cached' = p
    /\ applied' = IF p = cached THEN applied ELSE CommTimeouts(p)
Refused(p) ==
    /\ p # cached
    /\ cached' = CachedRefused(p)
    /\ applied' = applied

(* A new SerialPort; one that cannot be opened, configured or given its    *)
(* timeouts is closed and dropped.                                         *)
WinOpen ==
    /\ Open
    /\ Sets([read |-> 0, write |-> 0])
    /\ asked' = 0

(* close; whatever uses the device next leaves its own timeouts.           *)
WinClose ==
    /\ Close
    /\ cached' = Unset
    /\ applied' = Unset
    /\ asked' = 0

(* The driver does not notice.                                             *)
WinRefuses ==
    /\ OpenFails \/ OpenAgain \/ CallOnClosedPort
    /\ UNCHANGED winVars

ForRead(t) == [cached EXCEPT !.read = t]
ForWrite(t) == [cached EXCEPT !.write = t]

(* read and write: set the pair, then ReadFile or WriteFile.               *)
Read(t) ==
    /\ port = "open"
    /\ Sets(ForRead(t))
    /\ result' \in {"read", "failed"}
    /\ asked' = t
    /\ UNCHANGED <<configVars, port, timerVars>>

Write(t) ==
    /\ port = "open"
    /\ Sets(ForWrite(t))
    /\ result' \in {"written", "failed"}
    /\ asked' = t
    /\ UNCHANGED <<configVars, port, timerVars>>

CallRefused(p, t) ==
    /\ port = "open"
    /\ Refused(p)
    /\ result' = "failed"
    /\ asked' = t
    /\ UNCHANGED <<configVars, port, timerVars>>

WinNext ==
    \/ WinOpen \/ WinClose \/ WinRefuses
    \/ \E t \in Timeout : \/ Read(t) \/ CallRefused(ForRead(t), t)
                          \/ Write(t) \/ CallRefused(ForWrite(t), t)

-----------------------------------------------------------------------------
(* PROPERTIES                                                              *)

(* A read or write that reached the driver ran under the timeout it was    *)
(* given, however the calls before it were mixed and whatever the driver   *)
(* refused: the memory of the pair is never ahead of the driver.  A zero   *)
(* read takes what is there; a timeout that a DWORD does not hold is cut,  *)
(* and nothing is said of it.                                              *)
CallsUseTheirTimeout ==
    system = "windows" /\ asked < DwordModulus =>
      /\ result = "read" => applied.read = IF asked = 0 THEN Immediate ELSE asked
      /\ result = "written" => applied.write = asked
=============================================================================
