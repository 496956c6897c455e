------------------------- MODULE SerialPorts_proofs -------------------------
(***************************************************************************)
(* On Windows the remembered timeouts are the driver's, for any set of     *)
(* timeouts; on POSIX systems calls end as they say, for any sizes of the  *)
(* requests and of the kernel's queues.                                    *)
(***************************************************************************)
EXTENDS SerialPorts, TLAPS

Complete == [read: Timeout, write: Timeout]

(* What makes the memory safe to rely on: while the port is open it is     *)
(* complete and the driver carries what it asks for; a new port has none.  *)
MemoryIsExact ==
    /\ port \in {"closed", "open"}
    /\ port = "open" => applied = CommTimeouts(cached) /\ cached \in Complete
    /\ port = "closed" => cached = Unset

IInv == system = "windows" => MemoryIsExact /\ CallsUseTheirTimeout

(* The pairs a read and a write ask for are complete.                      *)
LEMMA PairsAsked ==
  ASSUME MemoryIsExact, port = "open", NEW t \in Timeout
  PROVE  /\ ForRead(t) \in Complete
         /\ ForRead(t).read = t
         /\ ForWrite(t) \in Complete
         /\ ForWrite(t).write = t
BY DEF MemoryIsExact, Complete, ForRead, ForWrite

(* A timeout that fits is not cut.                                         *)
LEMMA CutLess ==
  ASSUME NEW t \in Timeout, t < DwordModulus
  PROVE  t % DwordModulus = t
BY TimeoutAssumption

(* No step of the POSIX port changes the system.                           *)
LEMMA SystemStaysPosix == PosixNext => system' = system
<1> SUFFICES ASSUME PosixNext PROVE system' = system
  OBVIOUS
<1> USE DEF configVars, serialVars, portVars, Ends, Goes, Call
<1>1. CASE PosixOpen \/ PosixClose \/ PosixRefuses
  BY <1>1 DEF PosixOpen, PosixClose, PosixRefuses, Open, Close, OpenFails,
              OpenAgain, CallOnClosedPort
<1>2. ASSUME NEW n \in 1..MaxSize, NEW ms \in Timeouts,
             CallRead(n, ms) \/ CallWrite(n, ms)
      PROVE  system' = system
  BY <1>2 DEF CallRead, CallWrite
<1>3. CASE Reading
  BY <1>3 DEF Reading, ReadTakes, ReadCompletes, ReadFindsHangUp, ReadFails,
              ReadGivesUp, ReadPolls, PollReady, PollHangUp, PollTimesOut
<1>4. CASE Writing
  BY <1>4 DEF Writing, WriteSends, WriteCompletes, WriteFails, WritePolls,
              PolloutReturns, WriteTimesOut, DrainTimesOut, DrainEmpty,
              DrainFails, Tcdrain
<1>5. CASE PollFails \/ PollInterrupted \/ Arrives \/ Sends \/ HangsUp \/ Expire
  BY <1>5 DEF PollFails, PollInterrupted, Arrives, Sends, HangsUp, Expire
<1> QED BY <1>1, <1>2, <1>3, <1>4, <1>5 DEF PosixNext

(* The system never changes: every step of either port keeps it.           *)
LEMMA SystemStays == [Next]_vars => system' = system
<1> SUFFICES ASSUME [Next]_vars PROVE system' = system
  OBVIOUS
<1> USE DEF configVars, serialVars, portVars
<1>1. CASE PosixNext
  BY <1>1, SystemStaysPosix
<1>2. CASE WinNext
  <2>1. CASE WinOpen \/ WinClose \/ WinRefuses
    BY <2>1 DEF WinOpen, WinClose, WinRefuses, Open, Close, OpenFails,
                OpenAgain, CallOnClosedPort
  <2>2. ASSUME NEW t \in Timeout, NEW p,
               Read(t) \/ Write(t) \/ CallRefused(p, t)
        PROVE  system' = system
    BY <2>2 DEF Read, Write, CallRefused
  <2> QED BY <1>2, <2>1, <2>2 DEF WinNext
<1>3. CASE UNCHANGED vars
  BY <1>3 DEF vars
<1> QED BY <1>1, <1>2, <1>3 DEF Next

(* Every step on Windows keeps the invariant: setTimeouts changes the      *)
(* driver and the memory together or neither.                              *)
LEMMA StepKeeps == IInv /\ [Next]_vars => IInv'
<1> SUFFICES ASSUME IInv, [Next]_vars PROVE IInv'
  OBVIOUS
<1>s. system' = system
  BY SystemStays
<1> SUFFICES ASSUME system = "windows"
             PROVE  MemoryIsExact' /\ CallsUseTheirTimeout'
  BY <1>s DEF IInv
<1>i. MemoryIsExact /\ CallsUseTheirTimeout
  BY DEF IInv
<1>1. CASE WinOpen
  <2>1. [read |-> 0, write |-> 0] \in Complete
    BY TimeoutAssumption DEF Complete
  <2>2. [read |-> 0, write |-> 0] # cached
    BY <1>1, <1>i DEF WinOpen, Open, MemoryIsExact, Unset
  <2> QED BY <1>1, <2>1, <2>2
      DEF WinOpen, Open, Sets, MemoryIsExact, CallsUseTheirTimeout, CommTimeouts
<1>2. CASE WinClose
  BY <1>2 DEF WinClose, Close, MemoryIsExact, CallsUseTheirTimeout
<1>3. CASE WinRefuses
  BY <1>3, <1>i DEF WinRefuses, winVars, OpenFails, OpenAgain,
                    CallOnClosedPort, MemoryIsExact, CallsUseTheirTimeout
<1>4. ASSUME NEW t \in Timeout, Read(t)
      PROVE  MemoryIsExact' /\ CallsUseTheirTimeout'
  <2>1. port = "open" BY <1>4 DEF Read
  <2>2. cached' = ForRead(t) /\ applied' = CommTimeouts(ForRead(t))
    BY <1>4, <1>i, <2>1 DEF Read, Sets, MemoryIsExact
  <2>3. MemoryIsExact'
    BY <1>4, <1>i, <2>1, <2>2, PairsAsked DEF Read, MemoryIsExact, CommTimeouts
  <2>4. result' # "written" /\ asked' = t
    BY <1>4 DEF Read
  <2>5. t < DwordModulus => applied'.read = IF t = 0 THEN Immediate ELSE t
    BY <1>i, <2>1, <2>2, PairsAsked, CutLess DEF CommTimeouts
  <2> QED BY <2>3, <2>4, <2>5 DEF CallsUseTheirTimeout
<1>5. ASSUME NEW t \in Timeout, Write(t)
      PROVE  MemoryIsExact' /\ CallsUseTheirTimeout'
  <2>1. port = "open" BY <1>5 DEF Write
  <2>2. cached' = ForWrite(t) /\ applied' = CommTimeouts(ForWrite(t))
    BY <1>5, <1>i, <2>1 DEF Write, Sets, MemoryIsExact
  <2>3. MemoryIsExact'
    BY <1>5, <1>i, <2>1, <2>2, PairsAsked DEF Write, MemoryIsExact, CommTimeouts
  <2>4. result' # "read" /\ asked' = t
    BY <1>5 DEF Write
  <2>5. t < DwordModulus => applied'.write = t
    BY <1>i, <2>1, <2>2, PairsAsked, CutLess DEF CommTimeouts
  <2> QED BY <2>3, <2>4, <2>5 DEF CallsUseTheirTimeout
<1>6. ASSUME NEW t \in Timeout, NEW p, CallRefused(p, t)
      PROVE  MemoryIsExact' /\ CallsUseTheirTimeout'
  BY <1>6, <1>i DEF CallRefused, Refused, CachedRefused, MemoryIsExact,
                    CallsUseTheirTimeout
<1>7. CASE UNCHANGED vars
  BY <1>7, <1>i DEF vars, serialVars, winVars, MemoryIsExact,
                    CallsUseTheirTimeout
<1> QED BY <1>1, <1>2, <1>3, <1>4, <1>5, <1>6, <1>7 DEF Next, WinNext

(* Whatever mix of drains, reads and writes, and whatever the driver       *)
(* refuses, a call that reaches the driver runs under its own timeout      *)
(* (Win32 SerialPort::setTimeouts).                                        *)
THEOREM TimeoutsAreTheCallers == Spec => []CallsUseTheirTimeout
<1>1. Init => IInv
  BY DEF Init, SerialInit, WinInit, IInv, MemoryIsExact, CallsUseTheirTimeout
<1>2. IInv => CallsUseTheirTimeout
  BY DEF IInv, CallsUseTheirTimeout
<1> QED BY <1>1, <1>2, StepKeeps, PTL DEF Spec

-----------------------------------------------------------------------------
(* How calls end on POSIX systems.                                         *)

(* A call under way has no result yet, one that fell short is late, and    *)
(* the drain begins with everything written.                               *)
CInv ==
    /\ system = "windows" => at = "idle"
    /\ at # "idle" => result = "none"
    /\ ShortMeansLate
    /\ at \in {"drain", "tcdrain"} => done = size
    /\ at = "poll" => done < size

(* What a step of the POSIX port may do to what CInv and WriteMeansSent    *)
(* speak of: one that ends a call says why.                                *)
Late == expired \/ (timeout # "usual" /\ done < size)
Step ==
    \/ /\ at = "idle" /\ at' = "idle"
       /\ result' \in {"ok", "failed", "refused"}
    \/ at' \in {"read", "write"} /\ result' = "none"
    \/ /\ at = at' /\ result' = result /\ (expired => expired')
       /\ UNCHANGED <<size, done, timeout>>
    \/ at # "idle" /\ result' = result /\ at' \in {"read", "write", "pollout"}
    \/ at = "read" /\ result' = result /\ at' = "poll" /\ done' < size'
    \/ at # "idle" /\ at' = "idle" /\ result' \in {"failed", "hangup"}
    \/ at \notin {"idle", "tcdrain"} /\ at' = "idle" /\ result' = "short" /\ Late'
    \/ at = "read" /\ at' = "idle" /\ result' = "ok"
    \/ at = "write" /\ at' = "drain" /\ result' = result /\ done' = size'
    \/ at = "drain" /\ at' = "tcdrain" /\ result' = result /\ UNCHANGED <<size, done>>
    \/ at = "tcdrain" /\ at' = "idle" /\ result' = "written" /\ queued' = 0

(* Every step of the POSIX port is one of those.                           *)
LEMMA PosixSteps == CInv /\ PosixNext => Step
<1> SUFFICES ASSUME CInv, PosixNext PROVE Step
  OBVIOUS
<1> USE DEF callVars, kernelVars, Step, Late, Ends, Goes
<1>1. CASE PosixOpen \/ PosixClose \/ PosixRefuses
  BY <1>1 DEF PosixOpen, PosixClose, PosixRefuses, posixVars, Open, Close, OpenFails,
              OpenAgain, CallOnClosedPort
<1>2. ASSUME NEW n \in 1..MaxSize, NEW ms \in Timeouts, CallRead(n, ms) \/ CallWrite(n, ms)
      PROVE  Step
  BY <1>2 DEF CallRead, CallWrite, Call
<1>3. CASE Reading
  <2>1. CASE ReadTakes \/ ReadCompletes \/ ReadFindsHangUp \/ ReadFails \/ ReadGivesUp
    BY <2>1 DEF ReadTakes, ReadCompletes, ReadFindsHangUp, ReadFails, ReadGivesUp
  <2>2. CASE ReadPolls \/ PollReady \/ PollHangUp
    BY <2>2 DEF ReadPolls, PollReady, PollHangUp
  <2>3. CASE PollTimesOut
    <3>1. expired \/ (timeout = "long" /\ done < size)
      BY <2>3 DEF PollTimesOut, PollOver, CInv
    <3> QED BY <2>3, <3>1 DEF PollTimesOut
  <2> QED BY <1>3, <2>1, <2>2, <2>3 DEF Reading
<1>4. CASE Writing
  <2>1. CASE WriteSends \/ WriteCompletes \/ WriteFails \/ WritePolls \/ PolloutReturns
    BY <2>1 DEF WriteSends, WriteCompletes, AfterWrite, WriteFails, WritePolls,
                PolloutReturns
  <2>2. CASE WriteTimesOut \/ DrainTimesOut \/ DrainEmpty \/ DrainFails \/ Tcdrain
    BY <2>2 DEF WriteTimesOut, DrainTimesOut, Undrained, bounded, DrainEmpty, DrainFails,
                Tcdrain
  <2> QED BY <1>4, <2>1, <2>2 DEF Writing
<1>5. CASE PollFails \/ PollInterrupted
  BY <1>5 DEF PollFails, PollInterrupted
<1>6. CASE Arrives \/ Sends \/ HangsUp \/ Expire
  BY <1>6 DEF Arrives, Sends, HangsUp, Expire
<1> QED BY <1>1, <1>2, <1>3, <1>4, <1>5, <1>6 DEF PosixNext

(* On Windows no call ends in one of POSIX's ways.                         *)
LEMMA WinResults ==
    WinNext => result' \in {"ok", "failed", "refused", "read", "written"}
<1> SUFFICES ASSUME WinNext
             PROVE  result' \in {"ok", "failed", "refused", "read", "written"}
  OBVIOUS
<1>1. CASE WinOpen \/ WinClose \/ WinRefuses
  BY <1>1 DEF WinOpen, WinClose, WinRefuses, Open, Close, OpenFails, OpenAgain,
              CallOnClosedPort
<1>2. ASSUME NEW t \in Timeout, NEW p, Read(t) \/ Write(t) \/ CallRefused(p, t)
      PROVE  result' \in {"ok", "failed", "refused", "read", "written"}
  BY <1>2 DEF Read, Write, CallRefused
<1> QED BY <1>1, <1>2 DEF WinNext

(* CInv holds from the start and every step keeps it.                      *)
LEMMA CallsKeep == Spec => []CInv
<1>1. Init => CInv
  BY DEF Init, SerialInit, PosixInit, CInv, ShortMeansLate
<1>2. CInv /\ [Next]_vars => CInv'
  <2> SUFFICES ASSUME CInv, [Next]_vars PROVE CInv'
    OBVIOUS
  <2>1. system' = system
    BY SystemStays
  <2>2. CASE system # "windows" /\ PosixNext
    <3>1. Step
      BY <2>2, PosixSteps
    <3> QED BY <2>1, <2>2, <3>1 DEF Step, Late, CInv, ShortMeansLate
  <2>3. CASE system = "windows" /\ WinNext /\ UNCHANGED posixVars
    BY <2>1, <2>3, WinResults DEF posixVars, callVars, CInv, ShortMeansLate
  <2>4. CASE UNCHANGED vars
    BY <2>4 DEF vars, serialVars, configVars, posixVars, callVars, CInv, ShortMeansLate
  <2> QED BY <2>2, <2>3, <2>4 DEF Next
<1> QED BY <1>1, <1>2, PTL DEF Spec

(* A call falls short only when its deadline has passed, whatever is       *)
(* interrupted and however the bytes come (SerialPort::read, write, drain).*)
THEOREM ShortCallsAreLate == Spec => []ShortMeansLate
<1>1. CInv => ShortMeansLate
  BY DEF CInv
<1> QED BY <1>1, CallsKeep, PTL

(* A read in which a poll said there was input has input to take, has      *)
(* taken some, or has lost its other end.                                  *)
PInv ==
    /\ system = "windows" => at = "idle" /\ result # "hangup"
    /\ at # "idle" => result # "hangup"
    /\ input \in Nat
    /\ at \in {"read", "poll"} => size \in Nat /\ done \in 0..size
    /\ at = "read" /\ polledReadable => input # 0 \/ peer = "gone" \/ done # 0
    /\ SilenceIsNoHangUp

(* What a read takes is there and is asked for.                            *)
LEMMA TakenSome ==
  ASSUME input \in Nat, size \in Nat, done \in 0..size
  PROVE  Taken \in 0..input /\ Taken <= size - done
         /\ (input > 0 /\ done < size => Taken > 0)
<1>1. ASSUME NEW a \in Int, NEW b \in Int
      PROVE  Min({a, b}) = IF a <= b THEN a ELSE b
  BY DEF Min
<1>2. Taken = IF input <= size - done THEN input ELSE size - done
  BY <1>1 DEF Taken
<1> QED BY <1>2

(* Every step of the POSIX port keeps PInv.                                *)
LEMMA PollStep == PInv /\ system # "windows" /\ PosixNext => PInv'
<1> SUFFICES ASSUME PInv, system # "windows", PosixNext PROVE PInv'
  OBVIOUS
<1> USE DEF PInv, SilenceIsNoHangUp, callVars, kernelVars, configVars, serialVars,
        portVars, Ends, Goes
<1>0. system' = system
  BY SystemStaysPosix
<1>1. CASE PosixOpen \/ PosixClose \/ PosixRefuses
  BY <1>1, <1>0 DEF PosixOpen, PosixClose, PosixRefuses, posixVars, Open, Close,
                OpenFails, OpenAgain, CallOnClosedPort
<1>2. ASSUME NEW n \in 1..MaxSize, NEW ms \in Timeouts, CallRead(n, ms) \/ CallWrite(n, ms)
      PROVE  PInv'
  BY <1>2, SizeAssumption, <1>0 DEF CallRead, CallWrite, Call
<1>3. CASE ReadTakes
  BY <1>3, <1>0, TakenSome DEF ReadTakes
<1>4. CASE ReadCompletes \/ ReadFindsHangUp \/ ReadFails \/ ReadGivesUp \/ ReadPolls
  BY <1>4, <1>0 DEF ReadCompletes, ReadFindsHangUp, ReadFails, ReadGivesUp, ReadPolls
<1>5. CASE PollReady \/ PollHangUp \/ PollTimesOut \/ PollFails \/ PollInterrupted
  BY <1>5, <1>0 DEF PollReady, PollHangUp, PollTimesOut, PollFails, PollInterrupted,
                Interrupted
<1>6. CASE Writing
  BY <1>6, <1>0 DEF Writing, WriteSends, WriteCompletes, AfterWrite, WriteFails, WritePolls,
                PolloutReturns, WriteTimesOut, DrainTimesOut, Undrained, DrainEmpty,
                DrainFails, Tcdrain
<1>7. CASE Arrives \/ Sends \/ HangsUp \/ Expire
  BY <1>7, <1>0 DEF Arrives, Sends, HangsUp, Expire
<1> QED BY <1>1, <1>2, <1>3, <1>4, <1>5, <1>6, <1>7 DEF PosixNext, Reading

(* A read that received nothing raises a hang-up only if the other end is  *)
(* gone, whatever is interrupted and however large the queues are.         *)
THEOREM SilentPeerIsUp == Spec => []SilenceIsNoHangUp
<1>1. Init => PInv
  BY DEF Init, SerialInit, PosixInit, PInv, SilenceIsNoHangUp
<1>2. PInv /\ [Next]_vars => PInv'
  <2> SUFFICES ASSUME PInv, [Next]_vars PROVE PInv'
    OBVIOUS
  <2>1. CASE system # "windows" /\ PosixNext
    BY <2>1, PollStep
  <2>2. CASE system = "windows" /\ WinNext /\ UNCHANGED posixVars
    BY <2>2, WinResults, SystemStays
       DEF posixVars, callVars, kernelVars, PInv, SilenceIsNoHangUp
  <2>3. CASE UNCHANGED vars
    BY <2>3 DEF vars, serialVars, configVars, posixVars, callVars, kernelVars, PInv,
                SilenceIsNoHangUp
  <2> QED BY <2>1, <2>2, <2>3 DEF Next
<1>3. PInv => SilenceIsNoHangUp
  BY DEF PInv
<1> QED BY <1>1, <1>2, <1>3, PTL DEF Spec

(* A write that returns normally has sent all it was given, and all that   *)
(* an earlier one left in the queue, wherever it returns: it does so only  *)
(* behind a drain that came to its end (DefaultSerial::write, drain).      *)
THEOREM WritesAreSent == Spec => WriteMeansSent
<1>1. CInv /\ [Next]_vars =>
        [at # "idle" /\ result' = "written" => done = size /\ queued' = 0]_linkVars
  <2> SUFFICES ASSUME CInv, [Next]_vars, at # "idle", result' = "written"
               PROVE  done = size /\ queued' = 0
    OBVIOUS
  <2>1. result = "none" /\ system # "windows"
    BY DEF CInv
  <2>2. CASE PosixNext
    <3>1. Step
      BY <2>2, PosixSteps
    <3>2. at = "tcdrain" /\ queued' = 0
      BY <2>1, <3>1 DEF Step
    <3> QED BY <3>2 DEF CInv
  <2>3. CASE UNCHANGED vars
    BY <2>1, <2>3 DEF vars, serialVars
  <2> QED BY <2>1, <2>2, <2>3 DEF Next
<1> QED BY <1>1, CallsKeep, PTL DEF Spec, WriteMeansSent

-----------------------------------------------------------------------------
(* The latency timer.                                                      *)

(* Only open takes a port from closed to open, also on Windows.            *)
LEMMA OpensOnce ==
  ASSUME [Next]_vars, port = "closed", port' = "open"
  PROVE  SetsTimer
<1> USE DEF portVars
<1>1. CASE PosixNext
  <2>1. CASE PosixOpen \/ PosixClose \/ PosixRefuses
    BY <2>1 DEF PosixOpen, PosixClose, PosixRefuses, Open, Close, OpenFails,
                OpenAgain, CallOnClosedPort
  <2>2. ASSUME NEW n \in 1..MaxSize, NEW ms \in Timeouts, CallRead(n, ms) \/ CallWrite(n, ms)
        PROVE  FALSE
    BY <2>2 DEF CallRead, CallWrite, Call
  <2>3. ~Reading
    BY DEF Reading, ReadTakes, ReadCompletes, ReadFindsHangUp, ReadFails, ReadGivesUp,
           ReadPolls, PollReady, PollHangUp, PollTimesOut
  <2>4. ~Writing
    BY DEF Writing, WriteSends, WriteCompletes, WriteFails, WritePolls, PolloutReturns,
           WriteTimesOut, DrainTimesOut, DrainEmpty, DrainFails, Tcdrain
  <2>5. ~(PollFails \/ PollInterrupted \/ Arrives \/ Sends \/ HangsUp \/ Expire)
    BY DEF PollFails, PollInterrupted, Arrives, Sends, HangsUp, Expire
  <2> QED BY <1>1, <2>1, <2>2, <2>3, <2>4, <2>5 DEF PosixNext
<1>2. CASE WinNext
  <2>1. CASE WinOpen \/ WinClose \/ WinRefuses
    BY <2>1 DEF WinOpen, WinClose, WinRefuses, Open, Close, OpenFails, OpenAgain,
                CallOnClosedPort
  <2>2. ASSUME NEW t \in Timeout, NEW p, Read(t) \/ Write(t) \/ CallRefused(p, t)
        PROVE  FALSE
    BY <2>2 DEF Read, Write, CallRefused
  <2> QED BY <1>2, <2>1, <2>2 DEF WinNext
<1>3. ~UNCHANGED vars
  BY DEF vars, serialVars
<1> QED BY <1>1, <1>2, <1>3 DEF Next

(* What open says of the latency timer is so, whoever set it before and    *)
(* wherever the adapter was plugged in again (applyLatencyTimer).          *)
THEOREM TimerIsSaid == Spec => TimerIsAsLogged
<1>1. [Next]_vars =>
        [port = "closed" /\ port' = "open" /\ system = "linux" =>
           /\ logged' = "set" => latency' = config.latencyTimerMs
           /\ logged' = "not set" => latency' # config.latencyTimerMs]_vars
  <2> SUFFICES ASSUME [Next]_vars, port = "closed", port' = "open", system = "linux"
               PROVE  /\ logged' = "set" => latency' = config.latencyTimerMs
                      /\ logged' = "not set" => latency' # config.latencyTimerMs
    OBVIOUS
  <2>1. SetsTimer
    BY OpensOnce
  <2> QED
    BY <2>1 DEF SetsTimer, applyLatencyTimer
<1> QED BY <1>1, PTL DEF Spec, TimerIsAsLogged
=============================================================================
