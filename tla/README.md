# The Robotiq gripper SDK in TLA+

A verification development of the C++ driver under `src/sdk_cpp`: what its
threads, its waits, its procedures and its transports may do, checked with TLC
on small instances and, for every safety property of a passing run, proved with
TLAPS for every instance.
Paths below are relative to `src/sdk_cpp` unless they name a module.

## 1. The system

A `Gripper` owns one serial link to one gripper. A background thread, the
*exchange thread*, sends the current command block and reads a status block
back in one Modbus transaction (FC 0x17), period after period. It keeps a
*process image*: the command the application last set, and the record of the
newest completed exchange (count, time stamp, the block it carried, the status
that answered). Applications set commands without waiting, read the image, or
wait for a record; blocking procedures (`activate`, `recoverFromFault`) are
written on those waits.

| Component | State | Operations | Used by / uses |
|---|---|---|---|
| Exchange cycle, `src/gripper_state.cpp` | `_running`, `_connectionState`, `_consecutiveFailures`, `_period`, throttle | `initializeImage`, `start`, `exchangeOnce`, `stop` | calls the Modbus client, publishes to the image |
| Process image, `src/process_image.cpp` | `_command`, `_stamped`, `_closed` under one mutex, one condition variable | `seed`, `setCommand`, `command`, `stampedExchange`, `publish`, `sync`, `close` | shared by the exchange thread and every application thread |
| Waits, `src/wait.cpp`, `wait.hpp` | locals: baseline count, deadline | `waitFor`, `setCommandAndWaitForExchange`, the named waits | loops over `waitForExchangeCount` |
| Facade and procedures, `src/gripper.cpp` | locals: previous command, deadline | construction, destruction, `activate`, `recoverFromFault` | image and waits |
| Modbus client, `src/modbus_client.cpp` | nanomodbus's message state | `readStatus`, `writeCommand`, `exchange` | the `Serial` interface, through callbacks |
| Serial transport, `src/detail/` | descriptor or handle; the adapter's latency timer; on Windows the remembered timeouts | `open`, `close`, `read`, `write`, `drain` | the operating system |
| Hosted platform, `src/hosted/std_platform.cpp` | generation counter, `condition_variable_any` | `waitUntil`, `notifyAll`, `sleepUntil`, mutex, thread | image and cycle |
| ThreadX port, `ports/threadx/` | waiter counter, semaphore | the same, in ticks | image and cycle |
| Cycle timing, `src/frequency.hpp`, `src/exchange_period.hpp`, `throttle.hpp` | the throttle's last time | clamping, period, throttle | cycle |
| Blocks and units, `command.hpp`, `status.hpp`, `byte_packing.hpp`, `src/units.cpp` | none | packing, scaling | everywhere |
| Fake gripper, `src/fake/` | register file, rACT edge memory, reply queue | register reads and writes, `processCommand`, `deliver`, `drain` | stands in for the serial link |
| The `exchange_log` program, `examples/` | recorder's counters and stop flag, the file | `main`, `Recorder::run`, `stop`, `moveTo` | a whole program on the facade and the waits |
| Logging, text, other examples and tools | | | not modelled |

What is hard here, and what makes each part correct:

* **Cycle, image, waits.** Three kinds of thread meet in the image. The block on
  the wire is a copy that a `setCommand` can overtake; a count is read before a
  command is set; a record and the link state are two separate stores; a
  failure counter of 32 bits wraps on a link that stays down; a destructor runs
  while others wait. *Correct* means: a record is one whole exchange that took
  place; a wait returns a record newer than the wait that its predicate holds
  for, and an empty return overlooked nothing; at most one exchange after a
  `setCommand` is stale; Faulted says exactly that the threshold was reached;
  attaching to a gripper that holds something moves nothing; `stop` ends and
  releases everybody.
* **Procedures.** They talk to the gripper through a level, not a queue: a
  second command replaces a first one no cycle has latched, and every record
  may be of an exchange latched earlier. *Correct* means: success means the
  gripper was reset and swept; a healthy gripper is not disturbed; a latched
  fault is not cleared by `activate`; a timeout leaves no reset behind; every
  call returns.
* **Condition variables.** Neither platform's notification takes the image's
  mutex, so that it can miss a thread that is about to sleep. *Correct* means:
  `sync` keeps the promise of `ImageWait`, and what a missed notification costs
  is bounded.
* **Transport.** Partial reads and writes, interrupted polls, hang-ups, output
  that never drains, replies lost, garbled or late, and no transaction number.
  *Correct* means: short only at the deadline; a hang-up only when the other end
  is gone; sent when `write` returns; every bounded call returns; each call under
  its own timeout; a latency timer that is what `open` says; an answer is the
  answer to the request, or at worst a late one to an earlier request of its
  kind.
* **A program.** Its recorder is slower than the cycle or waits on a link that
  fell silent, `main` leaves in the middle, and a gripper that has not started
  to move looks like one that has arrived. *Correct* means: every exchange is a
  row or counted as skipped; the gripper outlives its users; a move that
  succeeded is over; the program ends.
* **Timing, fake, units.** Overruns and whole ticks; partial register writes;
  rounding. *Correct* means: no bursts, no drift, no silence; the fake's status
  follows its command block; an opening reads back within half a step.

`PROJECT.json` lists every hazard at its line with the properties that cover it.

## 2. The modules

| Module | Models | Notes |
|---|---|---|
| `GripperBlocks` | the two blocks as records | no state |
| `ExchangeCycle` | construction, exchange thread, image, waits, destruction | the core |
| `ImageWait` | the abstract promise of the image to its waiters | refined by `ExchangeCycle` and by `PlatformWaits` |
| `ExchangeCycle_proofs` | theorems about the core, its refinement of `ImageWait` | |
| `Activation`, `Activation_proofs` | `activate`, `recoverFromFault`, the handshake, against a gripper | |
| `ImageSync` | the image's half of a wait: mutex, `publish`, `close`, the loop of `sync` | what both platforms share |
| `StdConditionVariable`, `ThreadXConditionVariable` | the two platforms' condition variables | actions and state of their own |
| `PlatformWaits` | `ImageSync` over either condition variable | the contract `ExchangeCycle` assumes, opened up |
| `PlatformWaits_proofs` | theorems about both, their refinement of `ImageWait` | |
| `DefaultSerial` | what the systems share: publishing the port, refusals, the latency timer | |
| `PosixSerialPort` | `read`, `write`, `drain`, `open`, `close` over the terminal | |
| `Win32SerialPort` | the same over the Windows driver's timeouts | |
| `SerialPorts` | `DefaultSerial` over the port of the system built for | |
| `SerialPorts_proofs` | theorems about both ports | |
| `ModbusLink`, `ModbusLink_proofs` | Modbus RTU transactions over an unreliable line | what `ExchangeCycle` assumes of an exchange |
| `Units`, `FakeGripper`, `FakeGripper_proofs` | scaling; register file, server, transport and client calls | |
| `ModbusClient` | the client over either transport: `ModbusLink` or `FakeGripper` | |
| `Timing`, `Pacing`, `Pacing_proofs` | time arithmetic; when exchanges start | |
| `ExchangeLog`, `ExchangeLog_proofs` | the `exchange_log` program: `main`, the recorder, the exchange thread, the gripper | |
| `MCExchangeCycle`, `MCModbusClient` | constants for TLC | the others take theirs from the cfg |

### How state and actions correspond to code

**ExchangeCycle.** An action is what no other thread can split: a section under
the image's mutex, one operation on an atomic, one event on the wire. The
exchange thread is `CycleCheck` (the loop's test), `CycleLatch` (`command()`),
`GripperApplies` and `CycleAnswered` or `CycleFails` (the transaction: a failed
one may or may not have reached the gripper), `CycleState` (the two atomics),
`CyclePublish`, `CycleNotify` and `CycleSleep`. An application thread calls a
wait, checks (`WaitBlocks`, `WaitAccepts`, `WaitRejects`, `WaitEmpty`) and, when
it must wait, first enters `waitUntil` and then sleeps (`WaitSleeps`). Neither
platform's `notifyAll` takes the image's mutex, so `NotifyAll` sends every
sleeper back to the check and may or may not reach a thread that is entering; a
sleeper may also wake for nothing (`Wakes`) or be woken inside `waitUntil` and
enter again (`Stirs`). `setCommandAndWaitForExchange` is two steps before that, the count and
the set. Destruction is `StopRunning`, `StopCloses`, `StopNotifies`,
`StopJoins`. A deadline is a flag that `Expire` raises at any moment. Variables
marked *history* (`log`, `setAt`, `sinceRecord`, `asked`) record what properties
speak of and guard nothing. A thread's locals return to their first values when
they go out of scope (`Forgets`).

**Activation.** The image is reduced to the bits the procedures write and the
newest status, and a wait's counting to one flag: a record came out since it
last looked. The gripper is external; it is modelled from the protocol the SDK
and its fake use: clear rACT resets it and its fault, a rising edge starts a
sweep of any length, it may fault and, when `PowerMayFail`, lose power. Half of
the timeout and the whole of it are two moments, which is all the code asks of
the clock. Controller faults (kFLT) are left out, since no procedure looks at
them.

**ImageWait.** What the image promises: `sync` returns for its record, the close
or its deadline, every `publish` and `close` is followed by a notification, and
that is over only when every thread that has been *asleep* since before the
change has been sent back to the check. `due` holds the sleepers each
notification is going to reach. A thread that is awake inside `waitUntil`, on its
way to sleep or stirred, may be missed: that is what both platforms really do,
and a stronger promise would be false of them.

**PlatformWaits.** The image's mutex, count and `closed`, the loop of `sync` and
the two steps of `publish` and `close` (under the mutex, then `notifyAll`) are
`ImageSync`. Under them lie the generation, `notifyAll`'s two steps and every
wake-up the standard allows on the hosted platform; the waiter counter, the
tokens and the kernel's suspension queue on ThreadX, where a semaphore wait may
also end up to a tick before its deadline. One variable says which platform it
is; the mutex is explicit. For `ImageWait` a thread is asleep exactly while it
sleeps in the system's wait, whatever it has been told; it is entering while it
is awake and its next test will let it sleep; and the sleepers due are those
asleep when a notification is owed, those with an older generation once it is
raised, those found suspended once the waiters are counted.

**SerialPorts.** Bytes are counted; the kernel's two queues have room for a few;
the peer may stall or vanish; signals interrupt polls. A system call that
returns EINTR and is repeated at once is no step. A timeout is zero, usual, or
longer than the INT32_MAX milliseconds a poll takes at most. The Windows port keeps the pair
of timeouts the driver holds, cut to DWORDs, and its memory of it, which is not. `open` runs to its end in one
step: refused, or configured with whatever became of the latency timer. An
adapter that hangs up comes back with the kernel's default timer.

**ModbusLink.** A reply is a head and a tail; the line loses or garbles either
and delays both without bound. The client sees only what RTU carries; the
request a part belongs to is known to the model alone, and the checksum of a
tail fits every head of its kind, since those are the same bytes.

**FakeGripper.** Registers are real 16-bit words, packed and unpacked as the
code does; the model's blocks have four registers of which three travel, as the
code's have eight and three. A reply is its function code, its registers and
its checksum, one item each. Raw accesses touch single registers outside the
status block, in and out of range. **Units** works on integers in one small
unit and fractions of it: what is lost is a double's last bit and what is not
finite.

**Pacing.** Time passes between any two steps of the thread. On a hosted system
`sleepUntil` is its loop: `Tests` what remains, sleep for it, be woken early or
late (`SleepEnds`), test again; on Windows the sleep starts on the waitable timer
and falls back to the standard one when that fails. ThreadX's interrupts come
every `Tick`, and a sleep of *n* ticks ends at the *n*-th of them (external), so
it may be almost a tick short.

**ExchangeLog.** `main`'s waits are reduced to one flag, as in `Activation`, and
`activate` and `recoverFromFault` to their results; the recorder keeps its
counts. The gripper (external) takes a request, starts to move a little later
and reports Moving only from then on; a short motion may never be seen. That its
lag is shorter than the 200 ms `moveTo` gives it is an assumption (`LagIsOver`),
and `SettledMeansOver` rests on it. After `MaxExchanges` records the link is down
for good, which is also what makes the program's waits time out.

## 3. The runs

Passing runs:

| Run | Question | Bounds | States |
|---|---|---|---|
| `exchange_cycle` | Are records, results, link state and blocks right in every interleaving of one commander with the cycle, over a failing link? | 3 exchanges, counter modulo 5, threshold 3 | 748 k |
| `waits` | Does an observer get what it waits for, is an empty return honest, is attaching harmless, does the image keep its promise, do waits return and does stop end? | 2 exchanges, three ways a gripper was left, counter modulo 4 | 379 k |
| `activation` | Do the procedures mean what they return, and do they return? | none: the model is finite | 474 k |
| `platform_waits` | Do both condition variables keep `ImageWait`'s promise, wake and time out? | 2 waiters, 2 records | 168 k |
| `serial_ports` | Are calls right over a hostile terminal, and under a driver that refuses? Is the timer as logged? | 3 bytes a call, queues of 3 and 2; 3 kinds of timeout, 4 on Windows, 2 rates, 3 timers | 278 k |
| `modbus_client` | On a line, is an answer the answer? On the fake, are register file, replies and conversions consistent? | 3 transactions; 2 profiles, 3 openings, 5 raw writes, 1 fault byte | 691 k |
| `pacing` | Does the schedule burst, drift or go silent, on any platform? | 10 units of time, 4 periods, one of a fractional frequency, 3 ticks in 6 units | 3.5 M |
| `exchange_log` | Does the program lose, misjudge or hang? | 5 exchanges | 375 k |

Why the bounds are enough for the cases meant. Three exchanges make one that is
stale, one that is not and one more; the modulus lets the failure counter wrap
below the threshold; a second record is the first a notification can miss; two
waiters make a token that can be stolen; three bytes make a read of two pieces
with one missing; five exchanges carry both moves and let the recorder fall
behind; three transactions make one given up, one that hears its late
reply and one after that; ten units of time hold three cycles of the shorter
periods with an overrun in between. `waits` lets the gripper report everything
the protocol allows, an activated one that holds with rGTO clear included;
`exchange_cycle` and `carried` leave out the statuses of motion and of holding,
which their properties do not look at. Every mutant listed in `PROJECT.json`, a
plausible slip in the code, is found within these bounds.

`TypeOK` is checked for the driver only, where the width of the failure counter
makes it a property of the code; the schedule's is proved.

Runs that find a disagreement between the code and what the repository says:

* `carried` — `setCommandAndWaitForExchange` counts, then sets, and accepts any
  later record that carries an *equal* block. An application that sent A, then
  B, and calls it with A can be given the old A's exchange while B is already
  on the wire; when it returns the gripper has B. `docs/03-how-it-works.md:40`
  and `tests/test_wait_for_exchange.cpp:333` say the gripper has the block.
* `handshake_goto` — a handshake whose wait for the reset times out although
  the reset reached the gripper restores the previous block, rGTO included.
  For the gripper that is a rising edge of rACT with rGTO set: it activates and
  then moves. `gripper.hpp:160` says rGTO is cleared when the handshake runs.

* `close_lost` — on the hosted platform `close`'s notification takes no lock. A
  waiter that woke for nothing has tested the generation and is about to block
  again when the generation is raised and everybody notified; it then sleeps to
  its own deadline on a closed image. `src/process_image.hpp:44` says that every
  waiter returns at once.

* `false_hangup` — `read` remembers that a poll said readable after it has taken
  the bytes that poll announced. When the bytes of one read arrive in two parts,
  the empty `::read` between them is taken for a hang-up: an exception with the
  other end up, and the part that had arrived is lost with the call.
  `src/detail/serial_port.hpp:12` says that a positive timeout waits for the bytes
  or the deadline, and `tests/test_default_serial.cpp:319` that a read has to wait
  for the tail of a frame; the test sends the head before the read begins, so that
  no poll precedes it. What does hold is `SilenceIsNoHangUp`: a read that has
  received nothing raises a hang-up only if the other end is gone.

One more disagreement is in the model and has no run of its own. On ThreadX a
waiter that registers after the tokens were counted can take the token of one
that registered before and has not reached the semaphore; that one then sleeps
although its record is there and no notification is under way
(`PlatformWaits`, two waiters and two records: `Register`, `Publish`, `Load`,
`PutKeeps`, `Done`, the other's `Register` and `GetTakes`, then `GetSuspends`).
`threadx_platform.hpp:76` says of notifications that "none is ever lost". The next
one makes up for it, and for the last one, `close`, it cannot happen
(`CloseReleasesWaiters`): nobody registers on a closed image. This is why
`ImageWait` promises nothing to a thread on its way to sleep.

Limits of the code that show in the models and are not contradicted by its
documentation strongly enough to be a finding:

* `activate` judges the first record after the call, which may be of an exchange
  latched before the caller's own last command.
* A reply so late that it arrives after the next request emptied the buffer
  answers that request if it is of the same kind, and may even lend it only its
  head or its tail; this is why `AnswerIsOwn` admits parts of what was still under
  way when the transaction began.
* On POSIX a poll takes at most INT32_MAX milliseconds and its end is taken for
  the end of the call: a read or write with a longer timeout, and a write with
  none, can fall short after some 25 days without progress, where
  `serial_port.hpp:41` says that a zero timeout never times out. On Windows a
  timeout past a DWORD is cut, to none at worst. `ShortMeansLate` and
  `CallsUseTheirTimeout` say where these cases begin.

### Fairness

Liveness is checked under no more than this:

* `ExchangeCycle`: weak fairness of construction, the exchange thread,
  destruction once begun, every application thread inside a wait, the clock
  (`Expire`) and the end of a platform's wait at its deadline. An exchange ends
  because serial reads and writes end (`CallsReturn` of `serial_ports`), and a
  wait of the platform because `DeadlineEndsWait` of `platform_waits` holds.
  Nothing makes a wait wake for nothing or the application destroy the gripper,
  and a notification may miss whoever is entering. The bound on exchanges stands
  in for a predicate that is faster than the cycle.
* `Activation`: weak fairness of the cycle, of the commander and of time; strong
  fairness of the commander's timeout, since it looks at a record far faster
  than the cycle makes one. A predicate slower than the cycle is a hazard of
  its own (`wait.hpp:45`) and not covered by this run.
* `PlatformWaits`: weak fairness of running threads, strong fairness of
  taking the mutex, which is never held across a wait.
* `SerialPorts`: weak fairness of the calling thread and of the clock; nothing of
  signals, bytes or the other end.
* `ExchangeLog`: weak fairness of `main` and the recorder, of an exchange once it
  is on the wire, and of the gripper's lag; no record and no end of a motion is
  promised.

## 4. What is proved

TLAPS checks these for every value of the constants, from the named assumptions
only.

**The driver** (`ExchangeCycle_proofs`; `ByteAssumption`, `BlockAssumption`,
`LimitAssumption`: blocks are blocks, thresholds positive, the counter's modulus
above the threshold). Any number of threads, blocks, failures and exchanges.
`TypeCorrect`, `ImageIsFaithful`, `WaitsAreCorrect`, `EmptyIsHonest`,
`LinkStateIsExact`, `CommandsAreFresh`, `AttachIsSafe`. None of the properties is
inductive alone; `IInv` adds to them

* `Unseeded`: before the seed nothing runs and nobody waits, so that a first
  record exists whenever one is read;
* `FlightLogged`: the exchange between the wire and the image is the newest of
  the log, which is what `publish` then needs;
* `TurnedDown`: a wait whose desired count moved on has rejected the record
  before it, which is why an empty return is honest;
* `CounterCounts`: what the wrapped failure counter says while the link is not
  Faulted;
* `FlightFresh`: the block in flight is the image's unless the last `setCommand`
  came after it was latched;
* `SeedKept`: until the application asks, image and gripper agree.

Each has a step lemma of its own (`LogStep`, `WaitStep`, `LinkStep`,
`FreshStep`, `SeedStep`), split by who takes the step.

`ImageWaitImplemented`: every step of the driver is a step of `ImageWait` or
none, under the mapping in `ExchangeCycle`; `DueMaps` shows that a notification
reaches whoever slept at its change. `OpenInv` is needed: the image is
open until destruction, and nobody is in a call before the constructor returns.

**The procedures** (`Activation_proofs`; `PowerAssumption`; with and without
power failures). `HealthyUndisturbed`, `FaultStays`, `RecoveryIsReal`,
`CallersCommandKept`, `TypeCorrect`. The difficulty is that every record may be of an
exchange latched before the command it is judged by, so `IInv` says what the
three places of an exchange (the image, the wire, the answer on its way) can
still hold: `Sound` (the gripper's own bits agree), `AnswerSound` (only a power
cycle can lie between an answer and the gripper it describes), `HealthyKept` and
`FaultKept` (until `activate` has looked, nothing on the image or the wire asks
for a reset), `CommandKept` (what the procedure will restore is what it was
called with), and for `recoverFromFault` `ResetSeen` and `SweepSeen`: it believes
the reset only when the gripper is reset and no block on the wire could start
the activation early, so what it then sees complete is the activation it asked
for.

**The platforms' waits** (`PlatformWaits_proofs`; `WaiterAssumption`,
`BoundAssumption`, `FiniteAssumption`: the waiters are a finite set of threads,
of any size). `ImageWaitImplemented`: either condition variable under the image's
own code implements `ImageWait`. Every step is a step of the image (`SyncMaps`,
`StdMaps`, `ThreadXMaps`) that also keeps the sleepers due (`DueMaps`): on the
hosted platform because nobody asleep began with the generation a notification
makes, on ThreadX because whoever was suspended when the waiters were counted is
due until it wakes. `Done` then ends a notification with nobody due, by
`DueFirst`. The generation's rise, the count and the single tokens are wake-ups
or nothing to the image.
`CountIsRight`,
`NotifyReachesAll` and `AtMostOneMissed` are the platforms' own books. `IInv`
adds the mutex (`Exclusive`: whoever runs under it holds it), `Generations` (how
a wait's generation, its count and a notification under way hang together, which
is why only one can be missed), `QueueSound` (the semaphore's queue holds the
suspended threads, each once), `DueFirst` (the threads a notifyAll found are at
the head of that queue and it has a token left for each, so late-comers cannot
steal theirs) and `ClosedOnce`.

**Serial ports** (`SerialPorts_proofs`; any sizes of requests and queues, any
timeouts). `TimeoutsAreTheCallers`: a Windows call that reaches the driver runs
under its own timeout, if a DWORD holds it, because while the port is open the
driver has what the memory of the pair says (`MemoryIsExact`).
`ShortCallsAreLate`, `SilentPeerIsUp`, `WritesAreSent`: how POSIX calls end;
`PInv` says that a read that was told of input and has received nothing still
finds that input, or the other end is gone; `TimerIsSaid`: what `open` logs of the
latency timer is so, since only `open` opens a port. Their invariant ties the place of the call to its
deadline and its byte counts, and every action is first shown to be one of a few
kinds of step (`PosixSteps`).

**Pacing** (`Pacing_proofs`; `TimingAssumption`: a tick is a whole number of
units, the limits are ordered; `PacingAssumption`: the longest period and a tick
fit in the longest finite wait; frequencies are in parts of a hertz). `TicksAreSafe`: a wait becomes at most the
largest finite number of ticks and covers the time asked for unless it
saturates. `CycleNeverBursts`: three exchanges never start within a period, less
a tick on ThreadX; `PInv` adds how far ahead the next start may lie and how
starts are spaced around it. `PeriodIsSupported` comes with it.
`CycleNeverDrifts` and `FailuresAlwaysHeard` rest on `HInv`: the next start is on
the grid while nothing overran, and the throttle's memory is the last line
logged, or the epoch. `DeadlineFits` and `RemainingReachesDeadline` are about the
arithmetic of deadlines: the capped sum stays in the clock's range for every
timeout, and what is left, rounded up to milliseconds, reaches the deadline.

**The link** (`ModbusLink_proofs`; any number of transactions). `OwnAnswers`.
`LineTrusted` follows the parts of replies wherever they are: those in the buffer
and on their way are of the transaction under way or of one that was late when it
began, of the kind they claim, and of a request that wrote if they claim a write;
`HeadChecked` is what the client knows of a reply when it takes its tail. Both
survive the next transaction because the flush leaves nothing but what is late.

**The fake and the units** (`FakeGripper_proofs`; `RegisterAssumption`: blocks of
at least the registers that travel, of those at least the three with fields,
apart from each other, profiles with byte positions, sixteen-bit words).
`StatusReportsCommand`, `LineIsEmpty`, `OpeningComesBack`, and
`FaultIsLatched`, which excludes a raw write into the register with the fault:
the code replaces the fault then. The lemmas are a small theory of the encoding:
a register holds its two bytes (`WordOfBytes`), the flags of a status share a
byte and come back (`FlagsByte`), a status stored is the status read
(`SetStatus`), a command stored is the command acted on (`CommandStored`), and
the register of an opening lies in the profile's band, half a step from it
(`RegisterInBand`, `BandReadsBack`), for every profile. `ReplyFits`, the
inductive part, says that the reply under way is as long as what the client will
still take and that its third word has the position.

**The program** (`ExchangeLog_proofs`; `BoundAssumption`). `EveryExchangeCounts`,
`UsersLeaveFirst`, `MovesAreOver`. `BooksBalance` relates rows, skipped records
and the recorder's last count at each of its steps; `RecorderJoined` orders its
end before the gripper's; `InOrder`, `LagIsSeen` and `WaitsInOrder` follow a move
from its command through the lag to `moveTo`'s three waits. That the lag is over
by the end of the second wait is the model's assumption (`LagIsOver`).

**Only model-checked.** The seven liveness properties (`CloseReleasesWaiters`,
`WaitsReturn`, `StopEnds`, `ProcedureReturns`, `DeadlineEndsWait`, `CallsReturn`,
`ProgramEnds`): fairness and ENABLED are out of the prover's reach. The four
properties of the runs that expect a violation are false.

## 5. What is not modelled

Terminal attributes (settings of the system); the standard thread (the system's
own); the deprecated polling waits; a predicate slower than the cycle
(`wait.hpp:45`: it needs records without end and a predicate with a duration);
the uncapped sum of `activate`'s own deadline (`gripper.cpp:178`), for which
`DeadlineFits` does not hold; `effortToRegister` and the normalized position,
which use the rounding `Units` has; force and the automatic-release bits, which
no decision reads; logging and text; `exchange_rate_probe`, which only measures,
and `snippets`, excerpts for the documentation; nanomodbus beyond what the client
and the fake use.

## 6. Plan

Done: the core (`ExchangeCycle`, `ImageWait`), the procedures, both platforms'
waits, the serial ports of three systems, the link and the fake with its units, the
schedule on three platforms and one whole program; every safety property of
their passing runs proved, and both refinements of `ImageWait`.

Next, in this order:

1. The fake as one of `Activation`'s grippers: that what `FakeGripper` does to a
   command block is allowed by the gripper `Activation` assumes.
2. What of `ImageWait`'s own promise follows from its steps alone, so that both
   implementations inherit it.
