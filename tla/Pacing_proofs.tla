---------------------------- MODULE Pacing_proofs ----------------------------
(***************************************************************************)
(* Proofs about the tick conversion and the pace of the exchange thread,   *)
(* for every tick rate, frequency and duration.                            *)
(***************************************************************************)
EXTENDS Pacing, TLAPS

(* Integer division by a positive number, as an inequality.                *)
LEMMA Division ==
    ASSUME NEW n \in Nat, NEW d \in Nat, d > 0
    PROVE  /\ n \div d \in Nat
           /\ (n \div d) * d <= n
           /\ n < (n \div d) * d + d
OBVIOUS

(* A common positive factor can be taken out of an inequality.             *)
LEMMA Cancel ==
    ASSUME NEW a \in Nat, NEW b \in Nat, NEW c \in Nat, c > 0, b * c <= a * c
    PROVE  b <= a
OBVIOUS

(* The same of a strict one.                                               *)
LEMMA CancelStrict ==
    ASSUME NEW a \in Nat, NEW b \in Nat, NEW c \in Nat, b * c < a * c
    PROVE  b < a
OBVIOUS

(* A tick is a whole number of units.                                      *)
LEMMA TickFacts == Tick \in Nat /\ Tick > 0 /\ PerSecond = Tick * TicksPerSecond
<1>1. PerSecond = (PerSecond \div TicksPerSecond) * TicksPerSecond
  BY TimingAssumption
<1>2. PerSecond \div TicksPerSecond \in Nat
  BY TimingAssumption, Division
<1>3. PerSecond \div TicksPerSecond > 0
  BY <1>1, <1>2, TimingAssumption
<1> QED
  BY <1>1, <1>2, <1>3 DEF Tick

(* The longest blocking time is the longest number of ticks.               *)
LEMMA MaxBlockingFacts ==
    MaxBlocking \in Nat /\ MaxBlocking * TicksPerSecond <= MaxTicks * PerSecond
<1>1. MaxTicks * PerSecond \in Nat
  BY TimingAssumption
<1> QED
  BY <1>1, TimingAssumption, Division DEF MaxBlocking

-----------------------------------------------------------------------------
(* A wait in ticks is never TX_WAIT_FOREVER, blocks whenever there is time *)
(* left, and when it is not cut to the longest one it lasts long enough.   *)
THEOREM TicksAreSafe ==
    ASSUME NEW from \in Nat, NEW to \in Nat
    PROVE  /\ blockingTicks(from, to) \in 0..MaxTicks
           /\ from < to /\ to - from <= MaxBlocking =>
                to - from <= blockingTicks(from, to) * Tick
<1> DEFINE d == Shorter(to - from, MaxBlocking)
<1> DEFINE num == d * TicksPerSecond + PerSecond - 1
<1>1. CASE to <= from
  BY <1>1, TimingAssumption DEF blockingTicks
<1>2. CASE from < to
  <2>1. d \in Nat /\ d <= MaxBlocking /\ (to - from <= MaxBlocking => d = to - from)
    BY <1>2, MaxBlockingFacts DEF Shorter
  <2>2. d * TicksPerSecond \in Nat /\ d * TicksPerSecond <= MaxBlocking * TicksPerSecond
    BY <2>1, MaxBlockingFacts, TimingAssumption
  <2> HIDE DEF d
  <2>3. num \in Nat /\ blockingTicks(from, to) = num \div PerSecond
    BY <1>2, <2>2, TimingAssumption DEF blockingTicks, d
  <2>4. d * TicksPerSecond <= MaxTicks * PerSecond
    BY <2>2, MaxBlockingFacts, TimingAssumption
  <2>5. num < (MaxTicks + 1) * PerSecond
    BY <2>2, <2>4, TimingAssumption
  <2>6. PerSecond \in Nat /\ PerSecond > 0 /\ TicksPerSecond \in Nat /\ TicksPerSecond > 0
          /\ MaxTicks \in Nat
    BY TimingAssumption
  <2> DEFINE q == num \div PerSecond
  <2>7. q \in Nat /\ q * PerSecond <= num /\ num < q * PerSecond + PerSecond
    BY <2>3, <2>6, Division
  <2>8. d * TicksPerSecond < q * PerSecond + 1
    BY <2>2, <2>6, <2>7
  <2> HIDE DEF num, q
  <2>9. q * PerSecond < (MaxTicks + 1) * PerSecond
    BY <2>3, <2>5, <2>6, <2>7
  <2>10. q < MaxTicks + 1
    BY <2>6, <2>7, <2>9, CancelStrict
  <2>11. q * PerSecond = (q * Tick) * TicksPerSecond
    BY <2>6, <2>7, TickFacts
  <2>12. q * Tick \in Nat
    BY <2>7, TickFacts
  <2>13. d <= q * Tick
    BY <2>1, <2>2, <2>6, <2>8, <2>11, <2>12, Cancel
  <2> QED
    BY <2>1, <2>3, <2>6, <2>7, <2>10, <2>13 DEF q
<1> QED
  BY <1>1, <1>2

-----------------------------------------------------------------------------
(* What a frequency divides is a number.                                   *)
LEMMA DividendType == Dividend \in Nat
  BY TimingAssumption DEF Dividend

(* The period of a higher frequency is no longer.                          *)
LEMMA PeriodAntitone ==
    ASSUME NEW a \in Nat, NEW b \in Nat, a > 0, a <= b
    PROVE  /\ (2 * Dividend + b) \div (2 * b) \in Nat
           /\ (2 * Dividend + b) \div (2 * b) <= (2 * Dividend + a) \div (2 * a)
<1> DEFINE p == (2 * Dividend + b) \div (2 * b)
<1> DEFINE q == (2 * Dividend + a) \div (2 * a)
<1>1. Dividend \in Nat
  BY DividendType
<1>2. p \in Nat /\ p * (2 * b) <= 2 * Dividend + b
  BY <1>1, Division
<1>3. q \in Nat /\ 2 * Dividend + a < q * (2 * a) + 2 * a
  BY <1>1, Division
<1> HIDE DEF p, q
<1>4. SUFFICES ASSUME q < p PROVE FALSE
  BY <1>2, <1>3 DEF p, q
<1>5. q + 1 <= p
  BY <1>2, <1>3, <1>4
<1>6. (2 * q + 1) * a > 2 * Dividend
  BY <1>1, <1>3
<1>7. (2 * p - 1) * b <= 2 * Dividend
  BY <1>1, <1>2
<1>8. 2 * q + 1 \in Nat /\ 2 * p - 1 \in Nat /\ 2 * q + 1 <= 2 * p - 1
  BY <1>2, <1>3, <1>5
<1>9. (2 * q + 1) * a <= (2 * p - 1) * a
  BY <1>8
<1>10. (2 * p - 1) * a <= (2 * p - 1) * b
  BY <1>8
<1> QED
  BY <1>1, <1>6, <1>7, <1>8, <1>9, <1>10

(* Every configured frequency gives free-run or a supported period.        *)
LEMMA PeriodsSupported == Periods \subseteq SupportedPeriod
<1> DEFINE Of(f) == (2 * Dividend + f) \div (2 * f)
<1>1. \A f \in kMinFrequency..kMaxFrequency :
        Of(f) \in Of(kMaxFrequency)..Of(kMinFrequency)
  BY PeriodAntitone, TimingAssumption
<1>2. \A f \in Nat : clampFrequency(f) \in {0} \cup kMinFrequency..kMaxFrequency
  BY TimingAssumption DEF clampFrequency, Later, Shorter
<1>3. \A f \in kMinFrequency..kMaxFrequency : clampFrequency(f) = f /\ f # 0
  BY TimingAssumption DEF clampFrequency, Later, Shorter
<1>4. SupportedPeriod = {0} \cup Of(kMaxFrequency)..Of(kMinFrequency)
  <2>1. /\ exchangePeriodFromFrequency(kMaxFrequency) = Of(kMaxFrequency)
        /\ exchangePeriodFromFrequency(kMinFrequency) = Of(kMinFrequency)
    BY <1>3, TimingAssumption DEF exchangePeriodFromFrequency
  <2> QED
    BY <2>1 DEF SupportedPeriod
<1>5. \A f \in Nat : exchangePeriodFromFrequency(f) \in SupportedPeriod
  BY <1>1, <1>2, <1>4 DEF exchangePeriodFromFrequency
<1>6. \A f \in Nat : fakeFrequency(f) \in Nat
  BY <1>2, TimingAssumption DEF fakeFrequency
<1> QED
  BY <1>5, <1>6, PacingAssumption DEF Periods

-----------------------------------------------------------------------------
(* The pace.                                                               *)

(* The next exchange is never due further away than a period and what a    *)
(* sleep may be early by; it starts no earlier than that before its time.  *)
Reach ==
    /\ nextCycle <= now + period + Early
    /\ at \notin {"sleep", "test", "asleep"} => nextCycle <= now + Early
    /\ at = "asleep" /\ platform = "threadx" => nextCycle <= wake + Early
    /\ at = "test" => platform # "threadx"

(* Between two exchanges the next one is due after the last start, and a   *)
(* period after the one before it.                                         *)
Spacing ==
    /\ latest <= now
    /\ at \in {"exchange", "failed", "pace"} /\ cycles >= 2 => nextCycle >= previous
    /\ at \in {"check", "sleep", "test", "asleep"} /\ cycles >= 1 => nextCycle >= latest
    /\ at \in {"check", "sleep", "test", "asleep"} /\ cycles >= 2
         => nextCycle >= previous + period

PInv == TypeOK /\ Reach /\ Spacing /\ NoBurst

(* The cycle is never due before its first start, and the throttle's last  *)
(* time is that of the last line, if there was one.                        *)
Heard ==
    /\ nextCycle >= first
    /\ (loggedAt = {} /\ last = 0) \/ loggedAt = {last}

HInv == Heard /\ NoDrift /\ FailuresAreHeard

(* What a sleep may be early by is a number.                               *)
LEMMA EarlyType == TypeOK => Early \in Nat
BY TickFacts DEF TypeOK, Early

(* A supported period is a number, within the longest wait.                *)
LEMMA PeriodType ==
    TypeOK => period \in Nat /\ period + Tick <= MaxBlocking
<1> DEFINE Longest == exchangePeriodFromFrequency(kMinFrequency)
<1>1. Longest \in Nat
  BY TimingAssumption, DividendType, Division
     DEF exchangePeriodFromFrequency, clampFrequency, Later, Shorter
<1>2. exchangePeriodFromFrequency(kMaxFrequency) \in Nat
  BY TimingAssumption, DividendType, Division
     DEF exchangePeriodFromFrequency, clampFrequency, Later, Shorter
<1>3. Longest + Tick <= MaxBlocking
  BY PacingAssumption
<1> HIDE DEF Longest
<1>4. TypeOK => period = 0 \/ period \in exchangePeriodFromFrequency(kMaxFrequency)..Longest
  BY DEF TypeOK, SupportedPeriod, Longest
<1> QED
  BY <1>1, <1>2, <1>3, <1>4, TickFacts, MaxBlockingFacts

(* A sleep ends less than a tick before its time, or not before it.        *)
LEMMA WakeInTime ==
    ASSUME TypeOK, platform = "threadx", nextCycle <= now + period + Early
    PROVE  WakeAt \in Nat /\ nextCycle <= WakeAt + Early
<1>1. now \in Nat /\ nextCycle \in Nat
  BY DEF TypeOK
<1> DEFINE ticks == blockingTicks(now, nextCycle)
<1> DEFINE base == now \div Tick
<1>2. ticks \in Nat
  BY <1>1, TicksAreSafe, TimingAssumption
<1>3. base \in Nat /\ now < base * Tick + Tick
  BY <1>1, TickFacts, Division
<1>4. now < nextCycle => nextCycle - now <= ticks * Tick
  <2>1. nextCycle - now <= MaxBlocking
    BY <1>1, PeriodType, TickFacts, MaxBlockingFacts DEF Early
  <2> QED
    BY <1>1, <2>1, TicksAreSafe
<1>5. nextCycle <= now => ticks = 0
  BY <1>1 DEF blockingTicks
<1> HIDE DEF ticks, base
<1>6. WakeAt = IF ticks = 0 THEN now ELSE (base + ticks) * Tick
  BY DEF WakeAt, ticks, base
<1>7. (base + ticks) * Tick = base * Tick + ticks * Tick
  BY <1>2, <1>3, TickFacts
<1>8. base * Tick \in Nat /\ ticks * Tick \in Nat
  BY <1>2, <1>3, TickFacts
<1>9. CASE ticks = 0
  <2>1. ticks * Tick = 0
    BY <1>9, TickFacts
  <2> QED
    BY <1>1, <1>4, <1>6, <1>9, <2>1, TickFacts DEF Early
<1>10. CASE ticks # 0
  <2>1. WakeAt = base * Tick + ticks * Tick /\ WakeAt \in Nat
    BY <1>6, <1>7, <1>8, <1>10
  <2>2. now < nextCycle
    BY <1>1, <1>5, <1>10
  <2> QED
    BY <1>1, <1>3, <1>4, <1>8, <2>1, <2>2, TickFacts DEF Early
<1> QED
  BY <1>9, <1>10

(* The invariant holds when the thread starts.                             *)
LEMMA InitPInv == Init => PInv
<1> SUFFICES ASSUME Init PROVE PInv
  OBVIOUS
<1>1. TypeOK
  <2>1. now \in Nat /\ period \in SupportedPeriod
    BY PeriodsSupported, PacingAssumption DEF Init
  <2>2. overran \in BOOLEAN
    BY DEF Init
  <2> QED
    BY <2>1, <2>2 DEF Init, TypeOK
<1> QED
  BY <1>1, EarlyType, PeriodType
     DEF Init, PInv, TypeOK, Reach, Spacing, NoBurst

(* Every step keeps it.                                                    *)
LEMMA NextPInv == PInv /\ [Next]_vars => PInv'
<1> SUFFICES ASSUME PInv, [Next]_vars PROVE PInv'
  OBVIOUS
<1> USE DEF configVars, sleepVars, throttleVars, startVars
<1>1. /\ now \in Nat /\ nextCycle \in Nat /\ wake \in Nat /\ period \in Nat
      /\ older \in Nat /\ previous \in Nat /\ latest \in Nat /\ Early \in Nat
  BY EarlyType, PeriodType DEF PInv, TypeOK
<1>2. CASE Passes
  BY <1>1, <1>2 DEF Passes, PInv, TypeOK, Reach, Spacing, NoBurst, Early
<1>3. CASE Begins
  BY <1>1, <1>3 DEF Begins, PInv, TypeOK, Reach, Spacing, NoBurst, Early, Shorter
<1>4. CASE Succeeds \/ Fails
  <2>1. /\ UNCHANGED <<now, configVars, nextCycle, sleepVars, throttleVars, startVars, overran>>
        /\ at = "exchange" /\ at' \in {"pace", "failed"}
    BY <1>4 DEF Succeeds, Fails
  <2>2. TypeOK'
    BY <2>1 DEF PInv, TypeOK
  <2>3. Early' = Early
    BY <2>1 DEF Early
  <2> QED
    BY <1>1, <2>1, <2>2, <2>3 DEF PInv, Reach, Spacing, NoBurst
<1>5. CASE Logs
  <2>1. last' \in Nat /\ loggedAt' \in SUBSET Nat /\ failedAt' \in SUBSET Nat
    BY <1>1, <1>5 DEF Logs, LastAfter, PInv, TypeOK
  <2> QED
    BY <1>1, <1>5, <2>1 DEF Logs, PInv, TypeOK, Reach, Spacing, NoBurst, Early
<1>6. CASE Paces
  <2>1. /\ nextCycle' \in Nat /\ nextCycle' >= nextCycle + period /\ nextCycle' >= now
        /\ nextCycle' = nextCycle + period \/ nextCycle' = now
    BY <1>1, <1>6 DEF Paces, Due, Later
  <2>2. Early' = Early
    BY <1>6 DEF Paces, Early
  <2>3. overran' \in BOOLEAN
    BY <1>6 DEF Paces, PInv, TypeOK
  <2>4. TypeOK'
    BY <1>6, <2>1, <2>3 DEF Paces, PInv, TypeOK
  <2> QED
    BY <1>1, <1>6, <2>1, <2>2, <2>4 DEF Paces, PInv, Reach, Spacing, NoBurst
<1>7. CASE sleepUntil
  <2>1. platform = "threadx" => wake' \in Nat /\ nextCycle <= wake' + Early
    BY <1>7, WakeInTime DEF sleepUntil, PInv, Reach
  <2>2. by' \in {"std", "timer"} /\ wake' \in Nat /\ at' \in {"test", "asleep"}
    BY <1>1, <1>7, <2>1 DEF sleepUntil, PInv, TypeOK
  <2>3. TypeOK' /\ Early' = Early
    BY <1>7, <2>2 DEF sleepUntil, PInv, TypeOK, Early
  <2>4. Reach'
    BY <1>1, <1>7, <2>1, <2>2, <2>3 DEF sleepUntil, PInv, Reach
  <2> QED
    BY <1>1, <1>7, <2>2, <2>3, <2>4 DEF sleepUntil, PInv, Spacing, NoBurst
<1>8. CASE TicksPass
  BY <1>1, <1>8 DEF TicksPass, PInv, TypeOK, Reach, Spacing, NoBurst, Early
<1>9. CASE Tests
  BY <1>1, <1>9 DEF Tests, PInv, TypeOK, Reach, Spacing, NoBurst, Early
<1>10. CASE SleepEnds
  BY <1>1, <1>10 DEF SleepEnds, PInv, TypeOK, Reach, Spacing, NoBurst, Early
<1>11. CASE UNCHANGED vars
  BY <1>11 DEF vars, PInv, TypeOK, Reach, Spacing, NoBurst, Early
<1> QED
  BY <1>2, <1>3, <1>4, <1>5, <1>6, <1>7, <1>8, <1>9, <1>10, <1>11 DEF Next, Ended

(* At every frequency, on every platform, whatever exchanges and sleeps    *)
(* take, the exchange thread never bursts.                                 *)
THEOREM CycleNeverBursts == Spec => []NoBurst
<1>1. PInv => NoBurst
  BY DEF PInv
<1> QED
  BY <1>1, InitPInv, NextPInv, PTL DEF Spec

(* Whatever frequency is configured, the period the thread runs with is    *)
(* free-run or between those of the two limits.                            *)
THEOREM PeriodIsSupported == Spec => [](period \in SupportedPeriod)
<1>1. PInv => period \in SupportedPeriod
  BY DEF PInv, TypeOK
<1> QED
  BY <1>1, InitPInv, NextPInv, PTL DEF Spec

-----------------------------------------------------------------------------
(* The grid of the cycle, and the line about a link that fails.            *)

(* A multiple of the period stays one when a period is added.              *)
LEMMA GridStep ==
    ASSUME NEW d \in Nat, NEW p \in Nat, p > 0, d % p = 0
    PROVE  (d + p) % p = 0
<1> DEFINE k == d \div p
<1> DEFINE q == (d + p) \div p
<1> DEFINE m == (d + p) % p
<1>1. k \in Nat /\ d = k * p
  OBVIOUS
<1>2. q \in Nat /\ m \in Nat /\ m < p /\ d + p = q * p + m
  OBVIOUS
<1> HIDE DEF k, q, m
<1>3. m = (k + 1 - q) * p
  BY <1>1, <1>2
<1>4. k + 1 - q \in Int
  BY <1>1, <1>2
<1>5. k + 1 - q < 1
  <2>1. SUFFICES ASSUME k + 1 - q >= 1 PROVE FALSE
    BY <1>4
  <2>2. (k + 1 - q) * p >= 1 * p
    BY <1>4, <2>1
  <2> QED
    BY <1>2, <1>3, <2>2
<1>6. k + 1 - q > -1
  <2>1. SUFFICES ASSUME k + 1 - q <= -1 PROVE FALSE
    BY <1>4
  <2>2. (k + 1 - q) * p <= (-1) * p
    BY <1>4, <2>1
  <2> QED
    BY <1>2, <1>3, <2>2
<1>7. k + 1 - q = 0
  BY <1>4, <1>5, <1>6
<1> QED
  BY <1>3, <1>7 DEF m

(* The cycle starts on its grid, with nothing failed.                      *)
LEMMA InitHInv == Init => HInv
<1> SUFFICES ASSUME Init PROVE HInv
  OBVIOUS
<1>1. now \in Nat /\ nextCycle = now /\ first = now
  BY PacingAssumption DEF Init
<1>2. period \in Nat
  BY InitPInv, PeriodType DEF PInv
<1>3. NoDrift
  <2>1. nextCycle - first = 0
    BY <1>1
  <2>2. period > 0 => 0 % period = 0
    BY <1>2
  <2> QED
    BY <1>1, <1>2, <2>1, <2>2 DEF NoDrift
<1>4. loggedAt = {} /\ last = 0 /\ failedAt = {}
  BY DEF Init
<1> QED
  BY <1>1, <1>3, <1>4 DEF HInv, Heard, FailuresAreHeard

(* Every step keeps the cycle on its grid and the failures heard.          *)
LEMMA NextHInv == PInv /\ HInv /\ [Next]_vars => HInv'
<1> SUFFICES ASSUME PInv, HInv, [Next]_vars PROVE HInv'
  OBVIOUS
<1> USE DEF configVars, sleepVars, throttleVars, startVars
<1>1. /\ now \in Nat /\ nextCycle \in Nat /\ period \in Nat /\ first \in Nat
      /\ last \in Nat /\ LogPeriod \in Nat
  BY PeriodType, PacingAssumption DEF PInv, TypeOK
<1>2. CASE Paces
  <2>1. UNCHANGED <<throttleVars, period, first>>
    BY <1>2 DEF Paces
  <2>2. nextCycle' \in Nat /\ nextCycle' >= nextCycle
          /\ (~overran' => ~overran /\ nextCycle' = nextCycle + period)
    <3>1. ~overran' => ~overran /\ ~(now > nextCycle + period)
      BY <1>2, Zenon DEF Paces
    <3>2. nextCycle' = IF nextCycle + period > now THEN nextCycle + period ELSE now
      BY <1>2 DEF Paces, Due, Later
    <3> QED
      BY <1>1, <3>1, <3>2
  <2>3. NoDrift'
    <3>1. SUFFICES ASSUME ~overran' PROVE NoDrift'
      BY DEF NoDrift
    <3>2. CASE period = 0
      BY <1>1, <2>1, <2>2, <3>1, <3>2 DEF HInv, NoDrift
    <3>3. CASE period > 0
      <4>1. nextCycle - first \in Nat /\ (nextCycle - first) % period = 0
        BY <1>1, <2>2, <3>1, <3>3 DEF HInv, Heard, NoDrift
      <4>2. ((nextCycle - first) + period) % period = 0
        BY <1>1, <3>3, <4>1, GridStep
      <4>3. nextCycle' - first' = (nextCycle - first) + period /\ period' = period
        BY <1>1, <2>1, <2>2, <3>1
      <4> QED
        BY <3>3, <4>2, <4>3 DEF NoDrift
    <3> QED
      BY <1>1, <3>2, <3>3
  <2> QED
    BY <1>1, <2>1, <2>2, <2>3 DEF HInv, Heard, FailuresAreHeard
<1>3. CASE Logs
  <2>1. UNCHANGED <<nextCycle, period, first, overran>>
    BY <1>3 DEF Logs
  <2>2. CASE now >= last + LogPeriod
    BY <1>1, <1>3, <2>1, <2>2
       DEF Logs, LastAfter, HInv, Heard, NoDrift, FailuresAreHeard
  <2>3. CASE ~(now >= last + LogPeriod)
    BY <1>1, <1>3, <2>1, <2>3
       DEF Logs, LastAfter, HInv, Heard, NoDrift, FailuresAreHeard
  <2> QED
    BY <2>2, <2>3
<1>4. ASSUME UNCHANGED <<nextCycle, first, period, overran, throttleVars>> PROVE HInv'
  BY <1>4 DEF HInv, Heard, NoDrift, FailuresAreHeard
<1> QED
  BY <1>2, <1>3, <1>4 DEF Next, Passes, Begins, Succeeds, Fails, sleepUntil,
     TicksPass, Tests, SleepEnds, Ended, vars

(* Without an overrun the cycle stays on the grid of its first start, at   *)
(* every period and whatever the lateness of its sleeps.                   *)
THEOREM CycleNeverDrifts == Spec => []NoDrift
<1>1. HInv => NoDrift
  BY DEF HInv
<1> QED
  BY <1>1, InitPInv, InitHInv, NextPInv, NextHInv, PTL DEF Spec

(* However often the throttle turns a line down, a failure past the first  *)
(* LogPeriod of the clock has a line logged at most LogPeriod before it.   *)
THEOREM FailuresAlwaysHeard == Spec => []FailuresAreHeard
<1>1. HInv => FailuresAreHeard
  BY DEF HInv
<1> QED
  BY <1>1, InitPInv, InitHInv, NextPInv, NextHInv, PTL DEF Spec

-----------------------------------------------------------------------------
(* Deadlines.                                                              *)

(* The deadline of a wait is in the clock's range for every timeout, also  *)
(* milliseconds::max(), in the first half of that range.                   *)
THEOREM DeadlineFits ==
    ASSUME NEW time \in Nat, NEW timeout \in Nat, 2 * time <= MaxDuration
    PROVE  deadlineAfter(time, timeout) \in time..MaxDuration
<1> DEFINE most == MaxDuration \div Millisecond
<1> DEFINE longest == most \div 2
<1>1. Millisecond \in Nat /\ Millisecond > 0 /\ MaxDuration \in Nat
  BY TimingAssumption
<1>2. most \in Nat /\ most * Millisecond <= MaxDuration
  BY <1>1, Division
<1> HIDE DEF most
<1>3. longest \in Nat /\ longest * 2 <= most
  BY <1>2, Division
<1> DEFINE cut == Shorter(timeout, longest)
<1> HIDE DEF longest
<1>4. cut \in Nat /\ cut * 2 <= most
  <2>1. CASE timeout < longest
    BY <1>2, <1>3, <2>1 DEF Shorter
  <2>2. CASE ~(timeout < longest)
    BY <1>2, <1>3, <2>2 DEF Shorter
  <2> QED
    BY <2>1, <2>2
<1> HIDE DEF cut
<1>5. (cut * 2) * Millisecond <= most * Millisecond
  BY <1>1, <1>2, <1>4
<1>6. cut * Millisecond \in Nat /\ 2 * (cut * Millisecond) <= MaxDuration
  BY <1>1, <1>2, <1>4, <1>5
<1>7. deadlineAfter(time, timeout) = time + cut * Millisecond
  BY DEF deadlineAfter, cut, longest, most
<1> QED
  BY <1>1, <1>6, <1>7

(* What is left of a deadline in whole milliseconds ends at the deadline   *)
(* or less than one after it, never before: no wait spins to its deadline. *)
THEOREM RemainingReachesDeadline ==
    ASSUME NEW time \in Nat, NEW deadline \in Nat, time < deadline
    PROVE  /\ remaining(time, deadline) \in Nat \ {0}
           /\ time + remaining(time, deadline) * Millisecond >= deadline
           /\ time + remaining(time, deadline) * Millisecond < deadline + Millisecond
<1> DEFINE n == deadline - time + Millisecond - 1
<1>1. Millisecond \in Nat /\ Millisecond > 0
  BY TimingAssumption
<1>2. n \in Nat
  BY <1>1
<1> DEFINE q == n \div Millisecond
<1>3. q \in Nat /\ q * Millisecond <= n /\ n < q * Millisecond + Millisecond
  BY <1>1, <1>2, Division
<1>4. remaining(time, deadline) = q
  BY DEF remaining
<1> HIDE DEF q
<1>5. q * Millisecond \in Nat
  BY <1>1, <1>3
<1>6. q # 0
  <2>1. SUFFICES ASSUME q = 0 PROVE FALSE
    OBVIOUS
  <2>2. q * Millisecond = 0
    BY <1>1, <2>1
  <2> QED
    BY <1>1, <1>3, <2>2
<1> QED
  BY <1>1, <1>3, <1>4, <1>5, <1>6
=============================================================================
