--------------------------- MODULE PosixSerialPort ---------------------------
(***************************************************************************)
(* The POSIX serial port: one thread that opens the port, reads, writes    *)
(* and closes it through DefaultSerial, and the kernel's terminal beneath  *)
(* it (external), which receives bytes, sends bytes, loses its other end   *)
(* and interrupts system calls at any moment.                              *)
(*                                                                         *)
(* Bytes are counted.  Time is whether the deadline of the call under way  *)
(* has passed; a timeout of zero has passed from the start of a read and   *)
(* never passes in a write.  A poll is given INT32_MAX milliseconds at     *)
(* most, so that one for a longer time may end before the deadline.  A     *)
(* system call that fails with EINTR and is made again at once is no step. *)
(***************************************************************************)
EXTENDS DefaultSerial, FiniteSetsExt

CONSTANTS
    MaxSize,     \* bound: bytes one call asks for
    InputRoom,   \* room of the kernel's input queue
    OutputRoom   \* room of its output queue

ASSUME SizeAssumption ==
    MaxSize \in Nat \ {0} /\ InputRoom \in Nat /\ OutputRoom \in Nat \ {0}

VARIABLES
    at,              \* where the thread stands in a call
    size, done,      \* bytes asked for; received or sent so far
    timeout,         \* of the call: "zero", "usual", or "long", past a poll's
    expired,         \* its deadline has passed
    polledReadable,  \* read's local of that name
    input,           \* kernel: bytes that arrived and are not read
    queued,          \* kernel: bytes written and not sent
    peer             \* the other end: "up", "gone"

callVars == <<size, done, timeout, polledReadable>>
kernelVars == <<input, queued, peer>>
posixVars == <<at, callVars, expired, kernelVars>>
linkVars == <<serialVars, posixVars>>
Timeouts == {"zero", "usual", "long"}
bounded == timeout # "zero"
(* What no step of a call touches.                                         *)
portVars == <<configVars, port, timerVars>>

PosixInit ==
    /\ at = "idle"
    /\ size = 0 /\ done = 0 /\ timeout = "zero" /\ polledReadable = FALSE
    /\ expired = FALSE
    /\ input = 0 /\ queued = 0
    /\ peer = "up"

-----------------------------------------------------------------------------
(* The rates termios has a constant for.                                   *)
baudConstants ==
    {1200, 2400, 4800, 9600, 19200, 38400, 57600, 115200, 230400,
     460800, 500000, 921600, 1000000}

(* SerialPort::open and configure succeed only on a terminal that is       *)
(* there, at a rate it has.                                                *)
PosixOpen ==
    /\ at = "idle"
    /\ config.baudrate \in baudConstants
    /\ Open
    /\ peer' = "up"
    /\ UNCHANGED <<at, callVars, expired, input, queued>>

(* Closing the descriptor discards what the terminal holds.                *)
PosixClose ==
    /\ at = "idle"
    /\ Close
    /\ input' = 0 /\ queued' = 0
    /\ UNCHANGED <<at, callVars, expired, peer>>

(* Between calls the terminal does not notice.                             *)
PosixRefuses ==
    /\ at = "idle"
    /\ OpenFails \/ OpenAgain \/ CallOnClosedPort
    /\ UNCHANGED posixVars

Call(what, n, ms) ==
    /\ at = "idle"
    /\ port = "open"
    /\ at' = what
    /\ result' = "none"
    /\ size' = n /\ done' = 0 /\ timeout' = ms /\ polledReadable' = FALSE
    /\ expired' = (what = "read" /\ ms = "zero")
    /\ UNCHANGED <<portVars, kernelVars>>

CallRead(n, ms) == Call("read", n, ms)
CallWrite(n, ms) == Call("write", n, ms)

(* The call ends with r.                                                   *)
Ends(r) == at' = "idle" /\ result' = r /\ UNCHANGED <<callVars, expired>>

(* The loop of the call goes on at p.                                      *)
Goes(p) == at' = p /\ UNCHANGED <<result, callVars, expired>>

-----------------------------------------------------------------------------
(* SerialPort::read.                                                       *)

Taken == Min({input, size - done})

ReadTakes ==
    /\ at = "read"
    /\ done < size /\ input > 0
    /\ done' = done + Taken
    /\ input' = input - Taken
    /\ UNCHANGED <<portVars, at, result, size, timeout, expired, polledReadable,
                   queued, peer>>

ReadCompletes ==
    /\ at = "read"
    /\ done = size
    /\ Ends("ok")
    /\ UNCHANGED <<portVars, kernelVars>>

(* ::read finds nothing: a zero count, or an error if the peer is gone.    *)
ReadFindsHangUp ==
    /\ at = "read"
    /\ done < size /\ input = 0
    /\ polledReadable
    /\ Ends("hangup")
    /\ UNCHANGED <<portVars, kernelVars>>

ReadFails ==
    /\ at = "read"
    /\ done < size /\ input = 0
    /\ peer = "gone"
    /\ Ends("failed")
    /\ UNCHANGED <<portVars, kernelVars>>

ReadGivesUp ==
    /\ at = "read"
    /\ done < size /\ input = 0
    /\ ~polledReadable
    /\ expired
    /\ Ends("short")
    /\ UNCHANGED <<portVars, kernelVars>>

ReadPolls ==
    /\ at = "read"
    /\ done < size /\ input = 0
    /\ ~polledReadable
    /\ ~expired
    /\ Goes("poll")
    /\ UNCHANGED <<portVars, kernelVars>>

(* waitReady: poll says readable, also at the end of the input ...         *)
PollReady ==
    /\ at = "poll"
    /\ input > 0 \/ peer = "gone"
    /\ polledReadable' = TRUE
    /\ at' = "read"
    /\ UNCHANGED <<portVars, result, size, done, timeout, expired, kernelVars>>

(* ... or POLLHUP, raised at once if there is nothing to read ...          *)
PollHangUp ==
    /\ at = "poll"
    /\ peer = "gone"
    /\ input = 0
    /\ Ends("hangup")
    /\ UNCHANGED <<portVars, kernelVars>>

PollFails ==
    /\ at \in {"poll", "pollout"}
    /\ peer = "gone"
    /\ Ends("failed")
    /\ UNCHANGED <<portVars, kernelVars>>

(* Mutant: every poll that does not time out counts as readable.           *)
InterruptedReadable == TRUE

(* What an interrupted poll says of the input.                             *)
Interrupted == FALSE

PollInterrupted ==
    /\ at = "poll"
    /\ polledReadable' = Interrupted
    /\ at' = "read"
    /\ UNCHANGED <<portVars, result, size, done, timeout, expired, kernelVars>>

(* Mutant: a timeout a little early, for a remainder that is rounded down. *)
PollOverEarly == input = 0

(* poll's time, the remainder rounded up and cut to INT32_MAX, is over and *)
(* nothing came.                                                           *)
PollOver == (expired \/ timeout = "long") /\ input = 0

PollTimesOut ==
    /\ at = "poll"
    /\ PollOver
    /\ Ends("short")
    /\ UNCHANGED <<portVars, kernelVars>>

-----------------------------------------------------------------------------
(* SerialPort::write, then SerialPort::drain.                              *)
WriteSends ==
    /\ at = "write"
    /\ done < size /\ queued < OutputRoom
    /\ peer = "up"
    /\ LET n == Min({OutputRoom - queued, size - done})
       IN  /\ done' = done + n
           /\ queued' = queued + n
    /\ UNCHANGED <<portVars, at, result, size, timeout, expired, polledReadable,
                   input, peer>>

(* Mutant: only tcdrain, which has no deadline.                            *)
AfterWriteUnwatched == "tcdrain"

AfterWrite == "drain"

(* All is written; the drain has a deadline of its own.                    *)
WriteCompletes ==
    /\ at = "write"
    /\ done = size
    /\ at' = AfterWrite
    /\ expired' = FALSE
    /\ UNCHANGED <<portVars, result, callVars, input, queued, peer>>

WriteFails ==
    /\ at = "write"
    /\ done < size
    /\ peer = "gone"
    /\ Ends("failed")
    /\ UNCHANGED <<portVars, kernelVars>>

WritePolls ==
    /\ at = "write"
    /\ done < size /\ queued = OutputRoom
    /\ ~(bounded /\ expired)
    /\ Goes("pollout")
    /\ UNCHANGED <<portVars, kernelVars>>

(* poll says writable, or was interrupted.                                 *)
PolloutReturns ==
    /\ at = "pollout"
    /\ Goes("write")
    /\ UNCHANGED <<portVars, kernelVars>>

(* The time is up, in the loop or in poll, which is given INT32_MAX for a  *)
(* timeout of zero too: "write timeout".                                   *)
WriteTimesOut ==
    /\ done < size /\ queued = OutputRoom
    /\ \/ at \in {"write", "pollout"} /\ bounded /\ expired
       \/ at = "pollout" /\ timeout # "usual"
    /\ Ends("short")
    /\ UNCHANGED <<portVars, kernelVars>>

(* Mutant: write does not look at what drain returns.                      *)
UndrainedIgnored == "written"

(* DefaultSerial::write when drain returns false: "write timeout".         *)
Undrained == "short"

DrainTimesOut ==
    /\ at = "drain"
    /\ queued > 0
    /\ bounded /\ expired
    /\ Ends(Undrained)
    /\ UNCHANGED <<portVars, kernelVars>>

DrainEmpty ==
    /\ at = "drain"
    /\ queued = 0
    /\ Goes("tcdrain")
    /\ UNCHANGED <<portVars, kernelVars>>

(* The terminal is gone: the queue cannot be asked for and tcdrain fails.  *)
DrainFails ==
    /\ at \in {"drain", "tcdrain"}
    /\ peer = "gone"
    /\ Ends("failed")
    /\ UNCHANGED <<portVars, kernelVars>>

(* tcdrain returns with the queue empty, and so does write.                *)
Tcdrain ==
    /\ at = "tcdrain"
    /\ queued = 0
    /\ Ends("written")
    /\ UNCHANGED <<portVars, kernelVars>>

-----------------------------------------------------------------------------
(* The terminal and the clock.                                             *)
Arrives ==
    /\ peer = "up"
    /\ port = "open"
    /\ input < InputRoom
    /\ input' = input + 1
    /\ UNCHANGED <<portVars, at, result, callVars, expired, queued, peer>>

Sends ==
    /\ queued > 0
    /\ queued' = queued - 1
    /\ UNCHANGED <<portVars, at, result, callVars, expired, input, peer>>

HangsUp ==
    /\ peer = "up"
    /\ peer' = "gone"
    /\ Replugged
    /\ UNCHANGED <<configVars, port, logged, at, result, callVars, expired,
                   input, queued>>

Expire ==
    /\ at # "idle"
    /\ bounded /\ ~expired
    /\ expired' = TRUE
    /\ UNCHANGED <<portVars, at, result, callVars, input, queued, peer>>

Reading ==
    \/ ReadTakes \/ ReadCompletes \/ ReadFindsHangUp \/ ReadFails
    \/ ReadGivesUp \/ ReadPolls \/ PollReady \/ PollHangUp \/ PollTimesOut
Writing ==
    \/ WriteSends \/ WriteCompletes \/ WriteFails \/ WritePolls
    \/ PolloutReturns \/ WriteTimesOut \/ DrainTimesOut \/ DrainEmpty
    \/ DrainFails \/ Tcdrain

PosixNext ==
    \/ PosixOpen \/ PosixClose \/ PosixRefuses
    \/ \E n \in 1..MaxSize, ms \in Timeouts : CallRead(n, ms) \/ CallWrite(n, ms)
    \/ Reading \/ Writing \/ PollFails \/ PollInterrupted
    \/ Arrives \/ Sends \/ HangsUp \/ Expire

-----------------------------------------------------------------------------
(* PROPERTIES                                                              *)

(* A call falls short only when its deadline has passed: a poll that was   *)
(* interrupted or rounded does not end it.  The longest poll does, in a    *)
(* read or write whose timeout is beyond it and in a write without one; a  *)
(* drain ends by nothing but its deadline.                                 *)
ShortMeansLate ==
    result = "short" => expired \/ (timeout # "usual" /\ done < size)

(* A read that received nothing raises a hang-up only if the other end is  *)
(* gone: neither a poll that was interrupted nor an empty read before the  *)
(* first poll is taken for one.                                            *)
SilenceIsNoHangUp == result = "hangup" /\ done = 0 => peer = "gone"

(* A positive timeout waits for the bytes or the deadline: a hang-up is    *)
(* raised only if the other end is gone.                                   *)
HangUpMeansGone == result = "hangup" => peer = "gone"

(* DefaultSerial::write returns normally only when all of its bytes, and   *)
(* those an earlier write that timed out left behind, have left the queue, *)
(* wherever in write and drain it returns.                                 *)
WriteMeansSent ==
    [][at # "idle" /\ result' = "written" => done = size /\ queued' = 0]_linkVars

(* Every call that has a deadline returns, whatever the terminal and the   *)
(* signals do: a stalled other end does not hang the drain, and a stream   *)
(* of signals does not keep read from looking at its deadline.             *)
CallsReturn ==
    (at # "idle" /\ (bounded \/ at \in {"read", "poll"})) ~> at = "idle"
=============================================================================
