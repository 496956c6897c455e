-------------------------------- MODULE Timing --------------------------------
(***************************************************************************)
(* The driver's time arithmetic: ThreadX ticks, exchange frequencies and   *)
(* periods.  Time is in one unit, PerSecond of them a second (nanoseconds  *)
(* in the tick conversion, microseconds in a period); a frequency is in    *)
(* parts of a hertz, down to the tenth that kMinFrequency is.              *)
(***************************************************************************)
EXTENDS Naturals

CONSTANTS
    PerSecond,                    \* kNsPerSecond
    TicksPerSecond,               \* TX_TIMER_TICKS_PER_SECOND
    MaxTicks,                     \* TX_WAIT_FOREVER - 1
    PerHertz,                     \* the units of frequency in a hertz
    kMinFrequency, kMaxFrequency, \* in those units
    Millisecond,                  \* the clock's units in a millisecond
    MaxDuration                   \* steady_clock::duration::max()

ASSUME TimingAssumption ==
    /\ PerSecond \in Nat \ {0}
    /\ TicksPerSecond \in Nat \ {0}
    /\ PerSecond % TicksPerSecond = 0
    /\ MaxTicks \in Nat \ {0}
    /\ PerHertz \in Nat \ {0}
    /\ kMinFrequency \in Nat \ {0}
    /\ kMaxFrequency \in Nat
    /\ kMinFrequency <= kMaxFrequency
    /\ Millisecond \in Nat \ {0}
    /\ MaxDuration \in Nat

(* A tick, in units of time.                                               *)
Tick == PerSecond \div TicksPerSecond

(* kMaxNs                                                                  *)
MaxBlocking == (MaxTicks * PerSecond) \div TicksPerSecond

Shorter(a, b) == IF a < b THEN a ELSE b
Later(a, b) == IF a > b THEN a ELSE b

(* The ticks to block for from one point in time to another, 0 for none.   *)
blockingTicks(from, to) ==
    IF to <= from THEN 0
    ELSE (Shorter(to - from, MaxBlocking) * TicksPerSecond + PerSecond - 1)
           \div PerSecond

(* A wait's deadline, the timeout in milliseconds.                         *)
deadlineAfter(now, timeout) ==
    now + Shorter(timeout, (MaxDuration \div Millisecond) \div 2) * Millisecond

(* The milliseconds left of it: a part of one counts whole.                *)
remaining(now, deadline) ==
    IF deadline > now THEN (deadline - now + Millisecond - 1) \div Millisecond ELSE 0

(* A frequency f, in units, in the supported range; zero is free-run.  A   *)
(* negative one throws, and no driver is made.                             *)
clampFrequency(f) ==
    IF f = 0 THEN 0 ELSE Later(kMinFrequency, Shorter(f, kMaxFrequency))

(* A second over so many hertz, std::llround: to the nearest unit of time. *)
Dividend == PerSecond * PerHertz

exchangePeriodFromFrequency(f) ==
    LET supported == clampFrequency(f)
    IN  IF supported = 0 THEN 0
        ELSE (2 * Dividend + supported) \div (2 * supported)

(* makeFakeGripper: no link paces a fake, so free-run is the ceiling.      *)
fakeFrequency(f) ==
    LET supported == clampFrequency(f)
    IN  IF supported = 0 THEN kMaxFrequency ELSE supported
=============================================================================
