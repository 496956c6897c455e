-------------------------------- MODULE Pacing --------------------------------
(***************************************************************************)
(* When the exchange thread starts its exchanges: GripperState::start over *)
(* a platform's sleepUntil, with exchanges of any duration that succeed or *)
(* fail, sleeps of a hosted system that end early or late, a Windows timer *)
(* that fails, and on ThreadX sleeps of whole ticks.  Time passes between  *)
(* any two of the thread's steps.                                          *)
(***************************************************************************)
EXTENDS Timing, Integers

CONSTANTS
    Frequencies,   \* connectionFrequency, of which one is configured
    LogPeriod,     \* of the throttle of the failure's log line
    MaxStart,      \* bound: how long the clock has run before the driver starts
    MaxTime        \* bound: when a behaviour ends

ASSUME PacingAssumption ==
    /\ Frequencies \subseteq Nat
    /\ LogPeriod \in Nat
    /\ MaxStart \in Nat
    /\ MaxTime \in Nat
    /\ exchangePeriodFromFrequency(kMinFrequency) + Tick <= MaxBlocking

VARIABLES
    now,          \* steady_clock
    platform,     \* whose sleepUntil it is; "std" has no waitable timer
    period,       \* _period
    at,           \* where the thread stands
    nextCycle,    \* when the next exchange is due
    by,           \* hosted: what the sleep under way is timed by
    wake,         \* ThreadX: when the sleep under way ends
    last,         \* Throttle's _last
    first,        \* history: when the first exchange was due
    cycles,       \* history: exchanges started, up to three
    older, previous, latest,   \* history: when the last three started
    overran,      \* history: whether one ended past the next one's time
    loggedAt,     \* history: when the failure line was last logged, if ever
    failedAt      \* history: when an exchange last failed, if ever

configVars == <<platform, period, first>>
sleepVars == <<by, wake>>
throttleVars == <<last, loggedAt, failedAt>>
startVars == <<cycles, older, previous, latest>>
vars == <<now, configVars, at, nextCycle, sleepVars, throttleVars, startVars, overran>>

Periods == {exchangePeriodFromFrequency(f) : f \in Frequencies}
             \cup {exchangePeriodFromFrequency(fakeFrequency(f)) : f \in Frequencies}

Init ==
    /\ now \in 0..MaxStart
    /\ platform \in {"std", "windows", "threadx"}
    /\ period \in Periods
    /\ at = "check"
    /\ nextCycle = now
    /\ by = "std"
    /\ wake = now
    /\ last = 0
    /\ first = now
    /\ cycles = 0
    /\ older = 0 /\ previous = 0 /\ latest = 0
    /\ overran = FALSE
    /\ loggedAt = {}
    /\ failedAt = {}

(* Free-run, or between the periods of the two limits.                     *)
SupportedPeriod == {0} \cup exchangePeriodFromFrequency(kMaxFrequency)
                            ..exchangePeriodFromFrequency(kMinFrequency)

(* Whatever frequency was configured, the period in use is a supported one *)
(* (frequency.hpp, exchange_period.hpp); the rest is bookkeeping.          *)
TypeOK ==
    /\ now \in Nat /\ nextCycle \in Nat /\ wake \in Nat /\ last \in Nat
    /\ first \in Nat
    /\ platform \in {"std", "windows", "threadx"}
    /\ by \in {"std", "timer"}
    /\ period \in SupportedPeriod
    /\ at \in {"check", "exchange", "failed", "pace", "sleep", "test", "asleep"}
    /\ cycles \in 0..3
    /\ older \in Nat /\ previous \in Nat /\ latest \in Nat
    /\ overran \in BOOLEAN
    /\ loggedAt \in SUBSET Nat /\ failedAt \in SUBSET Nat

-----------------------------------------------------------------------------
Passes ==
    /\ now < MaxTime
    /\ now' = now + 1
    /\ UNCHANGED <<configVars, at, nextCycle, sleepVars, throttleVars, startVars, overran>>

(* The loop calls exchangeOnce.                                            *)
Begins ==
    /\ at = "check"
    /\ at' = "exchange"
    /\ cycles' = Shorter(cycles + 1, 3)
    /\ older' = previous
    /\ previous' = latest
    /\ latest' = now
    /\ UNCHANGED <<now, configVars, nextCycle, sleepVars, throttleVars, overran>>

Succeeds ==
    /\ at = "exchange"
    /\ at' = "pace"
    /\ UNCHANGED <<now, configVars, nextCycle, sleepVars, throttleVars, startVars, overran>>

Fails ==
    /\ at = "exchange"
    /\ at' = "failed"
    /\ UNCHANGED <<now, configVars, nextCycle, sleepVars, throttleVars, startVars, overran>>

(* Mutant: a call that is turned down moves the throttle on too.           *)
LastAfterAlways(allowed) == now

LastAfter(allowed) == IF allowed THEN now ELSE last

(* _failureLogThrottle.executeIfAllowed                                    *)
Logs ==
    /\ at = "failed"
    /\ at' = "pace"
    /\ LET allowed == now >= last + LogPeriod
       IN  /\ last' = LastAfter(allowed)
           /\ loggedAt' = IF allowed THEN {now} ELSE loggedAt
    /\ failedAt' = {now}
    /\ UNCHANGED <<now, configVars, nextCycle, sleepVars, startVars, overran>>

(* Mutant: an overrun leaves a backlog.                                    *)
DueWithBacklog == nextCycle + period

(* Mutant: every cycle is timed from its own end.                          *)
DueFromNow == now + period

Due == Later(nextCycle + period, now)

Paces ==
    /\ at = "pace"
    /\ at' = "sleep"
    /\ nextCycle' = Due
    /\ overran' = (overran \/ now > nextCycle + period)
    /\ UNCHANGED <<now, configVars, sleepVars, throttleVars, startVars>>

(* tx_thread_sleep ends at the given tick interrupt from now (external),   *)
(* at once for none.                                                       *)
WakeAt ==
    LET ticks == blockingTicks(now, nextCycle)
    IN  IF ticks = 0 THEN now ELSE (now \div Tick + ticks) * Tick

sleepUntil ==
    /\ at = "sleep"
    /\ IF platform = "threadx"
         THEN at' = "asleep" /\ wake' = WakeAt /\ UNCHANGED by
         ELSE /\ at' = "test"
              /\ by' = IF platform = "windows" THEN "timer" ELSE "std"
              /\ UNCHANGED wake
    /\ UNCHANGED <<now, configVars, nextCycle, throttleVars, startVars, overran>>

TicksPass ==
    /\ at = "asleep" /\ platform = "threadx"
    /\ now >= wake
    /\ at' = "check"
    /\ UNCHANGED <<now, configVars, nextCycle, sleepVars, throttleVars, startVars, overran>>

(* The hosted loops: sleep on for what remains, or return.                 *)
Tests ==
    /\ at = "test"
    /\ at' = IF now >= nextCycle THEN "check" ELSE "asleep"
    /\ UNCHANGED <<now, configVars, nextCycle, sleepVars, throttleVars, startVars, overran>>

(* The system's sleep ends, early or late, or the waitable timer failed    *)
(* and std's sleep takes over.                                             *)
SleepEnds ==
    /\ at = "asleep" /\ platform # "threadx"
    /\ at' = "test"
    /\ by' \in {by, "std"}
    /\ UNCHANGED <<now, configVars, nextCycle, wake, throttleVars, startVars, overran>>

Ended == now = MaxTime /\ UNCHANGED vars

Next == \/ Passes \/ Begins \/ Succeeds \/ Fails \/ Logs \/ Paces
        \/ sleepUntil \/ TicksPass \/ Tests \/ SleepEnds \/ Ended

Spec == Init /\ [][Next]_vars

-----------------------------------------------------------------------------
(* PROPERTIES                                                              *)

(* How much before its time a platform's sleep may end: less than a tick.  *)
Early == IF platform = "threadx" THEN Tick - 1 ELSE 0

(* However long exchanges take and however late sleeps end, three          *)
(* exchanges never start within one period: overruns leave no backlog that *)
(* bursts on recovery (start's comment), on any platform.                  *)
NoBurst == cycles = 3 => latest + Early >= older + period

(* As long as no exchange overran its period the cycle keeps to the grid   *)
(* of its first start: a late wake-up is made up for, and does not add up. *)
NoDrift ==
    ~overran => IF period = 0 THEN nextCycle = first
                              ELSE (nextCycle - first) % period = 0

(* A link that fails is never silent: past the first LogPeriod of the      *)
(* clock, whenever an exchange fails a line was logged within LogPeriod.   *)
FailuresAreHeard ==
    \A t \in failedAt : t >= LogPeriod => \E l \in loggedAt : t < l + LogPeriod \/ t = l
=============================================================================
