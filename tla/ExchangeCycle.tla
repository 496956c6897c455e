---------------------------- MODULE ExchangeCycle ----------------------------
(***************************************************************************)
(* The life of one Gripper: construction, the exchange thread, the process *)
(* image it shares with the application, the waits on that image, and the  *)
(* destructor.                                                             *)
(*                                                                         *)
(* Each action is one step that other threads cannot split: what runs      *)
(* under the image's mutex, one operation on an atomic, one event on the   *)
(* wire.  A deadline is a flag, expired, that Expire raises at any moment  *)
(* of a wait.  The condition variable is what both platforms have in       *)
(* common: notifyAll sends every sleeping thread back to the check, may    *)
(* miss one on its way to sleep, and a thread may wake for no reason.      *)
(***************************************************************************)
EXTENDS GripperBlocks, Integers, Sequences

CONSTANTS
    Commander,             \* threads that write commands
    Observer,              \* threads that only wait
    AppCommand,            \* command blocks the application writes
    DeviceStatus,          \* status blocks the gripper answers with
    LeftCommand,           \* blocks a gripper may have been left with
    StatusPredicate,       \* the waits by name: the statuses each waits for
    kFaultThreshold,       \* consecutive failed exchanges that fault the link
    kInitialReadAttempts,  \* status reads before construction fails
    FailureModulus,        \* where the failure counter wraps, 2^32 in the code
    MaxExchanges           \* bound: exchanges one behaviour may complete

AppThread == Commander \cup Observer

ASSUME BlockAssumption ==
    /\ AppCommand \subseteq Command
    /\ DeviceStatus \subseteq Status
    /\ LeftCommand \subseteq Command
    /\ StatusPredicate \in [DOMAIN StatusPredicate -> SUBSET Status]
    /\ "any" \in DOMAIN StatusPredicate
    /\ StatusPredicate["any"] = Status
ASSUME LimitAssumption ==
    /\ kFaultThreshold \in Nat \ {0}
    /\ kInitialReadAttempts \in Nat \ {0}
    /\ FailureModulus \in Nat
    /\ FailureModulus > kFaultThreshold
    /\ MaxExchanges \in Nat

VARIABLES
    life,                 \* progress of the constructor and the destructor
    attempt,              \* initializeImage's current status read
    running,              \* _running
    closed,               \* ProcessImage::_closed
    command,              \* ProcessImage::_command
    stamped,              \* ProcessImage::_stamped
    connectionState,      \* _connectionState
    consecutiveFailures,  \* _consecutiveFailures
    cycle,                \* where the exchange thread stands
    commandCopy,          \* the block exchangeOnce latched
    freshStatus,          \* the status that answered it
    gripper,              \* the block the gripper last applied
    pc,                   \* where each application thread stands
    target,               \* the block a setCommandAndWaitForExchange hands over
    wants,                \* the predicate a wait is for
    before,               \* the count a wait started from
    desired,              \* the count its next record must reach
    expired,              \* whether the deadline of a wait has passed
    result,               \* what the last wait returned: {} or {record}
    log,                  \* history: the seed, then every completed exchange
    setAt,                \* history: the count at the last setCommand
    sinceRecord,          \* history: failures since the last record, saturated
    asked                 \* history: the application has set a command

imageVars == <<closed, command, stamped>>
linkVars  == <<connectionState, consecutiveFailures>>
cycleVars == <<cycle, commandCopy, freshStatus, gripper>>
waitVars  == <<pc, target, wants, before, desired, expired, result>>
histVars  == <<log, setAt, sinceRecord, asked>>
lifeVars  == <<life, attempt, running>>
vars == <<lifeVars, imageVars, linkVars, cycleVars, waitVars, histVars>>

Life == {"reading", "seeded", "live", "stopping", "closing", "joining",
         "gone", "failed"}
CyclePoint == {"none", "check", "latch", "wire", "applied", "state",
               "publish", "notify", "sleep", "exited"}
(* Between latching a block and publishing the exchange that carried it.   *)
InFlight == {"wire", "applied", "state", "publish"}
(* The exchange completed on the wire and its record is not out yet.       *)
Unpublished == {"state", "publish"}

(* Types: the failure counter keeps to its width (gripper_state.hpp), and  *)
(* threads, cycle and records to the states the code has.                  *)
TypeOK ==
    /\ life \in Life
    /\ attempt \in 1..kInitialReadAttempts
    /\ running \in BOOLEAN
    /\ closed \in BOOLEAN
    /\ command \in Command
    /\ stamped \in Record
    /\ connectionState \in {"Connecting", "Operational", "Faulted"}
    /\ consecutiveFailures \in 0..(FailureModulus - 1)
    /\ cycle \in CyclePoint
    /\ commandCopy \in Command
    /\ freshStatus \in Status
    /\ gripper \in Command
    /\ pc \in [AppThread -> {"idle", "set", "sync", "entering", "asleep",
                          "returned"}]
    /\ target \in [AppThread -> SUBSET Command]
    /\ wants \in [AppThread -> DOMAIN StatusPredicate]
    /\ before \in [AppThread -> Int]
    /\ desired \in [AppThread -> Nat]
    /\ expired \in [AppThread -> BOOLEAN]
    /\ result \in [AppThread -> SUBSET Record]
    /\ log \in Seq(Exchange)
    /\ setAt \in Nat
    /\ sinceRecord \in 0..kFaultThreshold
    /\ asked \in BOOLEAN

-----------------------------------------------------------------------------
(* The gripper was left by whoever used it last, with any block applied.   *)
Init ==
    /\ life = "reading"
    /\ attempt = 1
    /\ running = FALSE
    /\ closed = FALSE
    /\ command = ZeroCommand
    /\ stamped = [count |-> 0, command |-> ZeroCommand, status |-> ZeroStatus]
    /\ connectionState = "Connecting"
    /\ consecutiveFailures = 0
    /\ cycle = "none"
    /\ commandCopy = ZeroCommand
    /\ freshStatus = ZeroStatus
    /\ gripper \in LeftCommand
    /\ pc = [t \in AppThread |-> "idle"]
    /\ target = [t \in AppThread |-> {}]
    /\ wants = [t \in AppThread |-> "any"]
    /\ before = [t \in AppThread |-> 0]
    /\ desired = [t \in AppThread |-> 0]
    /\ expired = [t \in AppThread |-> FALSE]
    /\ result = [t \in AppThread |-> {}]
    /\ log = <<>>
    /\ setAt = 0
    /\ sinceRecord = 0
    /\ asked = FALSE

-----------------------------------------------------------------------------
(* Construction: initializeImage, then start.                              *)

(* A status read fails.  The last one ends construction: the exception     *)
(* destroys GripperState, whose stop finds no thread to join.              *)
InitialReadFails ==
    /\ life = "reading"
    /\ IF attempt >= kInitialReadAttempts
         THEN /\ life' = "failed"
              /\ closed' = TRUE
              /\ UNCHANGED attempt
         ELSE /\ attempt' = attempt + 1
              /\ UNCHANGED <<life, closed>>
    /\ UNCHANGED <<running, command, stamped, linkVars, cycleVars, waitVars,
                   histVars>>

(* A status read answers: seed the image from it.                          *)
InitialReadAnswers ==
    /\ life = "reading"
    /\ \E s \in DeviceStatus :
         LET seed == [command |-> SeedCommand(s), status |-> s]
         IN  /\ Reports(gripper, s)
             /\ stamped' = Stamp(0, seed)
             /\ command' = seed.command
             /\ log' = <<seed>>
    /\ connectionState' = "Operational"
    /\ life' = "seeded"
    /\ attempt' = 1
    /\ UNCHANGED <<running, closed, consecutiveFailures, cycleVars,
                   waitVars, setAt, sinceRecord, asked>>

(* The exchange thread is spawned and the constructor returns.             *)
Start ==
    /\ life = "seeded"
    /\ life' = "live"
    /\ running' = TRUE
    /\ cycle' = "check"
    /\ UNCHANGED <<attempt, imageVars, linkVars, commandCopy, freshStatus,
                   gripper, waitVars, histVars>>

(* The platform cannot spawn: start throws, and stop runs with no thread.  *)
StartFails ==
    /\ life = "seeded"
    /\ life' = "failed"
    /\ closed' = TRUE
    /\ UNCHANGED <<attempt, running, command, stamped, linkVars, cycleVars,
                   waitVars, histVars>>

-----------------------------------------------------------------------------
(* The exchange thread.                                                    *)

(* Mutant: a faulted link keeps the loop going.                            *)
LoopUnlessFaulted ==
    IF running \/ connectionState = "Faulted" THEN "latch" ELSE "exited"

Loop == IF running THEN "latch" ELSE "exited"

CycleCheck ==
    /\ cycle = "check"
    /\ cycle' = Loop
    /\ UNCHANGED <<lifeVars, imageVars, linkVars, commandCopy, freshStatus,
                   gripper, waitVars, histVars>>

(* Mutant: the block of the newest record is sent again.                   *)
LatchedRecorded == stamped.command

(* ProcessImage::command, under the lock.                                  *)
Latched == command

CycleLatch ==
    /\ cycle = "latch"
    /\ commandCopy' = Latched
    /\ cycle' = "wire"
    /\ UNCHANGED <<lifeVars, imageVars, linkVars, freshStatus, gripper,
                   waitVars, histVars>>

(* The request arrives and the gripper applies its block.                  *)
GripperApplies ==
    /\ cycle = "wire"
    /\ gripper' = commandCopy
    /\ cycle' = "applied"
    /\ UNCHANGED <<lifeVars, imageVars, linkVars, commandCopy, freshStatus,
                   waitVars, histVars>>

(* The reply arrives whole: the exchange is complete.                      *)
CycleAnswered ==
    /\ cycle = "applied"
    /\ stamped.count < MaxExchanges
    /\ \E s \in DeviceStatus :
         /\ Reports(gripper, s)
         /\ freshStatus' = s
         /\ log' = Append(log, [command |-> commandCopy, status |-> s])
    /\ consecutiveFailures' = 0
    /\ cycle' = "state"
    /\ UNCHANGED <<lifeVars, imageVars, connectionState, commandCopy, gripper,
                   waitVars, setAt, sinceRecord, asked>>

(* The connection state turns before the record that announces it.         *)
CycleState ==
    /\ cycle = "state"
    /\ connectionState' = "Operational"
    /\ cycle' = "publish"
    /\ UNCHANGED <<lifeVars, imageVars, consecutiveFailures, commandCopy,
                   freshStatus, gripper, waitVars, histVars>>

(* Mutant: publish forgets to count.                                       *)
PublishedUncounted ==
    [count |-> stamped.count, command |-> commandCopy, status |-> freshStatus]

Published ==
    [count   |-> stamped.count + 1,
     command |-> commandCopy,
     status  |-> freshStatus]

(* publish, up to its unlock.                                              *)
CyclePublish ==
    /\ cycle = "publish"
    /\ stamped' = Published
    /\ cycle' = "notify"
    /\ sinceRecord' = 0
    /\ UNCHANGED <<lifeVars, closed, command, linkVars, commandCopy,
                   freshStatus, gripper, waitVars, log, setAt, asked>>

(* ConditionVariable::notifyAll: every thread that sleeps goes back to the *)
(* check; it takes no lock, and may or may not reach one that is entering  *)
(* the wait, for the first time or again.                                  *)
NotifyAll ==
    \E reached \in SUBSET {t \in AppThread : pc[t] = "entering"} :
      pc' = [t \in AppThread |-> IF pc[t] = "asleep" \/ t \in reached
                                   THEN "sync" ELSE pc[t]]

(* exchangeOnce returns or throws, and its locals are gone.                *)
CycleEnds ==
    /\ cycle' = "sleep"
    /\ commandCopy' = ZeroCommand
    /\ freshStatus' = ZeroStatus

CycleNotify ==
    /\ cycle = "notify"
    /\ NotifyAll
    /\ CycleEnds
    /\ UNCHANGED <<lifeVars, imageVars, linkVars, gripper, target, wants,
                   before, desired, expired, result, histVars>>

(* Mutant: a counter without the wrap of its width.                        *)
FailureCountUnbounded == consecutiveFailures + 1

FailureCount == (consecutiveFailures + 1) % FailureModulus

(* Mutant: the state follows the counter, also when it wraps.              *)
FailureStateFollows(n) ==
    IF n >= kFaultThreshold THEN "Faulted" ELSE "Operational"

FailureState(n) ==
    IF n >= kFaultThreshold THEN "Faulted" ELSE connectionState

(* The exchange throws, before or after the gripper applied the block.     *)
CycleFails ==
    /\ cycle \in {"wire", "applied"}
    /\ consecutiveFailures' = FailureCount
    /\ connectionState' = FailureState(FailureCount)
    /\ sinceRecord' = IF sinceRecord < kFaultThreshold
                        THEN sinceRecord + 1 ELSE sinceRecord
    /\ CycleEnds
    /\ UNCHANGED <<lifeVars, imageVars, gripper, waitVars, log, setAt, asked>>

CycleSleep ==
    /\ cycle = "sleep"
    /\ cycle' = "check"
    /\ UNCHANGED <<lifeVars, imageVars, linkVars, commandCopy, freshStatus,
                   gripper, waitVars, histVars>>

-----------------------------------------------------------------------------
(* The application threads.  A call starts only between the end of the     *)
(* constructor and the start of the destructor; one already waiting may    *)
(* overlap the destructor.                                                 *)

Calls(t) == life = "live" /\ pc[t] = "idle"

SetImageCommand(c) ==
    /\ command' = c
    /\ setAt' = stamped.count
    /\ asked' = TRUE

SetCommand(t, c) ==
    /\ Calls(t)
    /\ SetImageCommand(c)
    /\ UNCHANGED <<lifeVars, closed, stamped, linkVars, cycleVars, waitVars,
                   log, sinceRecord>>

(* Starts a wait for a record past count n: one that carries a block of cs *)
(* (any block if cs is empty) and whose status satisfies predicate p.      *)
StartWait(t, n, cs, p, next) ==
    /\ before' = [before EXCEPT ![t] = n]
    /\ desired' = [desired EXCEPT ![t] = n + 1]
    /\ target' = [target EXCEPT ![t] = cs]
    /\ wants' = [wants EXCEPT ![t] = p]
    /\ pc' = [pc EXCEPT ![t] = next]
    /\ UNCHANGED <<expired, result>>

Accepts(t, x) ==
    /\ \A c \in target[t] : x.command = c
    /\ x.status \in StatusPredicate[wants[t]]

(* setCommandAndWaitForExchange: counted before the block lands ...        *)
SetAndWaitCounts(t, c) ==
    /\ Calls(t)
    /\ StartWait(t, stamped.count, {c}, "any", "set")
    /\ UNCHANGED <<lifeVars, imageVars, linkVars, cycleVars, histVars>>

(* ... then the block lands, and the wait begins.                          *)
SetAndWaitSets(t) ==
    /\ pc[t] = "set"
    /\ \E c \in target[t] : SetImageCommand(c)
    /\ pc' = [pc EXCEPT ![t] = "sync"]
    /\ UNCHANGED <<lifeVars, closed, stamped, linkVars, cycleVars, target,
                   wants, before, desired, expired, result, log, sinceRecord>>

(* waitFor, and the named waits built on it.                               *)
WaitFor(t, p) ==
    /\ Calls(t)
    /\ StartWait(t, stamped.count, {}, p, "sync")
    /\ UNCHANGED <<lifeVars, imageVars, linkVars, cycleVars, histVars>>

(* waitForExchangeCount(n): any record counted n or more; n is any count.  *)
WaitForExchangeCount(t, n) ==
    /\ Calls(t)
    /\ StartWait(t, n - 1, {}, "any", "sync")
    /\ UNCHANGED <<lifeVars, imageVars, linkVars, cycleVars, histVars>>

(* Mutant: sync returns one record too early.                              *)
FreshTooEarly(t) == stamped.count + 1 >= desired[t]

(* The image's count has reached the one t waits for.                      *)
Fresh(t) == stamped.count >= desired[t]

(* Mutant: sync gives up at the deadline only.                             *)
GivesUpAtDeadline(t) == expired[t]

(* Mutant: sync gives up on a closed image only.                           *)
GivesUpClosed(t) == closed

GivesUp(t) == closed \/ expired[t]

(* sync, with the mutex held: nothing new, so it calls waitUntil ...       *)
WaitBlocks(t) ==
    /\ pc[t] = "sync"
    /\ ~Fresh(t)
    /\ ~GivesUp(t)
    /\ pc' = [pc EXCEPT ![t] = "entering"]
    /\ UNCHANGED <<lifeVars, imageVars, linkVars, cycleVars, target, wants,
                   before, desired, expired, result, histVars>>

(* ... which puts the thread to sleep.                                     *)
WaitSleeps(t) ==
    /\ pc[t] = "entering"
    /\ pc' = [pc EXCEPT ![t] = "asleep"]
    /\ UNCHANGED <<lifeVars, imageVars, linkVars, cycleVars, target, wants,
                   before, desired, expired, result, histVars>>

(* Mutant: a record found after the deadline is not returned.              *)
ReturnsInTime(t, r) ==
    /\ result' = [result EXCEPT ![t] = IF expired[t] THEN {} ELSE r]
    /\ pc' = [pc EXCEPT ![t] = "returned"]

(* A wait returns r; its caller looks at it, then t may call again.        *)
Returns(t, r) ==
    /\ result' = [result EXCEPT ![t] = r]
    /\ pc' = [pc EXCEPT ![t] = "returned"]

(* sync gives up: the wait returns empty.                                  *)
WaitEmpty(t) ==
    /\ pc[t] = "sync"
    /\ ~Fresh(t)
    /\ GivesUp(t)
    /\ Returns(t, {})
    /\ UNCHANGED <<lifeVars, imageVars, linkVars, cycleVars, target, wants,
                   before, desired, expired, histVars>>

(* sync returns a new record and the predicate holds for it.               *)
WaitAccepts(t) ==
    /\ pc[t] = "sync"
    /\ Fresh(t)
    /\ Accepts(t, stamped)
    /\ Returns(t, {stamped})
    /\ UNCHANGED <<lifeVars, imageVars, linkVars, cycleVars, target, wants,
                   before, desired, expired, histVars>>

(* The predicate does not hold: wait for the next record, deadline or not. *)
WaitRejects(t) ==
    /\ pc[t] = "sync"
    /\ Fresh(t)
    /\ ~Accepts(t, stamped)
    /\ desired' = [desired EXCEPT ![t] = stamped.count + 1]
    /\ UNCHANGED <<lifeVars, imageVars, linkVars, cycleVars, pc, target,
                   wants, before, expired, result, histVars>>

(* The caller is done with the result, and the call's locals are gone.     *)
Forgets(t) ==
    /\ pc[t] = "returned"
    /\ pc' = [pc EXCEPT ![t] = "idle"]
    /\ target' = [target EXCEPT ![t] = {}]
    /\ wants' = [wants EXCEPT ![t] = "any"]
    /\ before' = [before EXCEPT ![t] = 0]
    /\ desired' = [desired EXCEPT ![t] = 0]
    /\ expired' = [expired EXCEPT ![t] = FALSE]
    /\ result' = [result EXCEPT ![t] = {}]
    /\ UNCHANGED <<lifeVars, imageVars, linkVars, cycleVars, histVars>>

(* waitUntil returns for no reason, or at its deadline.                    *)
Wakes(t) ==
    /\ pc[t] \in {"entering", "asleep"}
    /\ pc' = [pc EXCEPT ![t] = "sync"]
    /\ UNCHANGED <<lifeVars, imageVars, linkVars, cycleVars, target, wants,
                   before, desired, expired, result, histVars>>
WakesAtDeadline(t) == expired[t] /\ Wakes(t)

(* The thread is woken inside waitUntil, which will put it to sleep again. *)
Stirs(t) ==
    /\ pc[t] = "asleep"
    /\ pc' = [pc EXCEPT ![t] = "entering"]
    /\ UNCHANGED <<lifeVars, imageVars, linkVars, cycleVars, target, wants,
                   before, desired, expired, result, histVars>>

(* The deadline of t's wait passes.                                        *)
Expire(t) ==
    /\ pc[t] \notin {"idle", "returned"}
    /\ ~expired[t]
    /\ expired' = [expired EXCEPT ![t] = TRUE]
    /\ UNCHANGED <<lifeVars, imageVars, linkVars, cycleVars, pc, target,
                   wants, before, desired, result, histVars>>

-----------------------------------------------------------------------------
(* The destructor: GripperState::stop.                                     *)

StopRunning ==
    /\ life = "live"
    /\ life' = "stopping"
    /\ running' = FALSE
    /\ UNCHANGED <<attempt, imageVars, linkVars, cycleVars, waitVars, histVars>>

StopCloses ==
    /\ life = "stopping"
    /\ life' = "closing"
    /\ closed' = TRUE
    /\ UNCHANGED <<attempt, running, command, stamped, linkVars, cycleVars,
                   waitVars, histVars>>

StopNotifies ==
    /\ life = "closing"
    /\ life' = "joining"
    /\ NotifyAll
    /\ UNCHANGED <<attempt, running, imageVars, linkVars, cycleVars, target,
                   wants, before, desired, expired, result, histVars>>

StopJoins ==
    /\ life = "joining"
    /\ cycle = "exited"
    /\ life' = "gone"
    /\ UNCHANGED <<attempt, running, imageVars, linkVars, cycleVars, waitVars,
                   histVars>>

(* Nothing is left to do.                                                  *)
Terminated ==
    /\ life \in {"gone", "failed"}
    /\ \A t \in AppThread : pc[t] = "idle"
    /\ UNCHANGED vars

-----------------------------------------------------------------------------
Construct == InitialReadFails \/ InitialReadAnswers \/ Start \/ StartFails
Cycle == \/ CycleCheck \/ CycleLatch \/ GripperApplies \/ CycleAnswered
         \/ CycleState \/ CyclePublish \/ CycleNotify \/ CycleFails
         \/ CycleSleep
Proceed(t) == \/ SetAndWaitSets(t) \/ WaitBlocks(t) \/ WaitSleeps(t)
              \/ WaitEmpty(t) \/ WaitAccepts(t) \/ WaitRejects(t) \/ Forgets(t)
Request(t) == \E c \in AppCommand : SetCommand(t, c) \/ SetAndWaitCounts(t, c)
Observe(t) == \/ \E p \in DOMAIN StatusPredicate : WaitFor(t, p)
              \/ \E n \in 0..MaxExchanges + 1 : WaitForExchangeCount(t, n)
Destroy == StopCloses \/ StopNotifies \/ StopJoins

Next ==
    \/ Construct
    \/ Cycle
    \/ \E t \in Commander : Request(t)
    \/ \E t \in Observer : Observe(t)
    \/ \E t \in AppThread : Proceed(t) \/ Wakes(t) \/ Stirs(t) \/ Expire(t)
    \/ StopRunning
    \/ Destroy
    \/ Terminated

Spec == Init /\ [][Next]_vars

(* A serial read or write ends by its timeout, so an exchange on the wire  *)
(* ends; threads that can run do run; the clock does, and a wait of the    *)
(* platform ends by its deadline.  Nothing wakes a wait before that        *)
(* without a notification, or makes the application destroy the gripper.   *)
Fairness ==
    /\ WF_vars(Construct)
    /\ WF_vars(Cycle)
    /\ WF_vars(Destroy)
    /\ \A t \in AppThread : /\ WF_vars(Proceed(t)) /\ WF_vars(Expire(t))
                            /\ WF_vars(WakesAtDeadline(t))
FairSpec == Spec /\ Fairness

-----------------------------------------------------------------------------
(* PROPERTIES                                                              *)

(* Records are the exchanges: the record in the image is the exchange of   *)
(* that number, whole, and every exchange completed on the wire is         *)
(* published exactly once and in order (only the newest may still be       *)
(* between the wire and the image).  ProcessImage::publish and seed, with  *)
(* exchangeOnce.                                                           *)
RecordsAreExchanges ==
    log # <<>> =>
      /\ Len(log) = stamped.count + (IF cycle \in Unpublished THEN 2 ELSE 1)
      /\ stamped = Stamp(stamped.count, log[stamped.count + 1])

(* What a wait returns: a record of a completed exchange, past the count   *)
(* the wait started from, that the predicate holds for.  Gripper's         *)
(* waitForExchangeCount and waitForExchangeAfter.                          *)
ResultsAnswerTheCall ==
    \A t \in AppThread : \A r \in result[t] :
      /\ before[t] < r.count
      /\ r.count <= stamped.count
      /\ r = Stamp(r.count, log[r.count + 1])
      /\ Accepts(t, r)

(* A wait that returns empty has not overlooked the newest record: it is   *)
(* no newer than the start of the wait, or the predicate fails for it.     *)
(* The recheck in sync and the advance of desired in waitForExchangeAfter. *)
EmptyMeansNotYet ==
    [][\A t \in AppThread :
         pc[t] = "sync" /\ pc'[t] = "returned" /\ result'[t] = {} =>
           \/ stamped.count <= before[t]
           \/ ~Accepts(t, stamped)]_vars

(* The link is Faulted only while at least kFaultThreshold exchanges in a  *)
(* row have failed since the newest record, so a thread a record wakes     *)
(* never reads a fault that record ended; and it is Faulted in all of that *)
(* time, however often the failure counter wraps, but for the moment       *)
(* between turning the state and publishing the record.  exchangeOnce.     *)
FaultedMeansNoRecordSince ==
    /\ connectionState = "Faulted" => sinceRecord >= kFaultThreshold
    /\ sinceRecord >= kFaultThreshold /\ cycle # "publish" =>
         connectionState = "Faulted"

(* A command written while an exchange is on the wire misses that exchange *)
(* and no other: from the second record after the last setCommand on, the  *)
(* newest record carries the command in the image and the gripper has it.  *)
(* exchangeOnce latching the image's command.                              *)
AtMostOneStaleExchange ==
    stamped.count >= setAt + 2 =>
      /\ stamped.command = command
      /\ gripper = command

(* The image as its waiters see it.  A thread is in sync or out of it; a   *)
(* construction that fails closes an image nobody ever saw.                *)
InSync(t) == pc[t] \in {"sync", "entering", "asleep"}
ImageAt == [t \in AppThread |-> IF ~InSync(t) THEN "out"
                                ELSE IF pc[t] = "sync" THEN "check" ELSE pc[t]]
ImageDesired == [t \in AppThread |-> IF InSync(t) THEN desired[t] ELSE 0]
ImageExpired == [t \in AppThread |-> IF InSync(t) THEN expired[t] ELSE FALSE]
ImageClosed == closed /\ life # "failed"
ImageOwed == (IF cycle = "notify" THEN {"publish"} ELSE {})
               \cup (IF life = "closing" THEN {"close"} ELSE {})

ImageDue == [n \in {"publish", "close"} |->
               {t \in AppThread : n \in ImageOwed /\ pc[t] = "asleep"}]

Contract == INSTANCE ImageWait WITH
    Waiter  <- AppThread,
    count   <- stamped.count,
    closed  <- ImageClosed,
    owed    <- ImageOwed,
    due     <- ImageDue,
    at      <- ImageAt,
    desired <- ImageDesired,
    expired <- ImageExpired

(* Every step of the driver is one the image's promise to its waiters      *)
(* allows: they return only for a record, the close or the deadline, every *)
(* change is followed by a notification, and those that sleep check again  *)
(* after it.                                                               *)
ImplementsImageWait == Contract!Spec

(* Attaching moves nothing: until the application sets a command, no step  *)
(* changes the activation or the position the gripper was left with, or    *)
(* turns its go-to request on.  initializeImage seeding the command from   *)
(* the echoes.                                                             *)
AttachMovesNothing ==
    [][~asked' => /\ gripper'.act = gripper.act
                  /\ gripper'.pos = gripper.pos
                  /\ gripper'.gto => gripper.gto]_vars

(* Every call returns, by its deadline at the latest: on a silent link,    *)
(* while records come that it turns down, when the notification of its     *)
(* record or of the close missed it, and across the destructor.  sync's    *)
(* loop under waitForExchangeAfter's.                                      *)
WaitsReturn == \A t \in AppThread : pc[t] # "idle" ~> pc[t] = "idle"

(* The destructor returns: the exchange thread sees running fall, wherever *)
(* in its cycle it was, and is joined.  GripperState::stop.                *)
StopEnds == life = "stopping" ~> life = "gone"

(* When setCommandAndWaitForExchange returns an exchange, the gripper has  *)
(* the block, and keeps it until the application writes another one.       *)
CarriedMeansGripperHasIt ==
    [][\A t \in AppThread :
         pc[t] = "sync" /\ pc'[t] = "returned" /\ result'[t] # {} =>
           \A c \in target[t] : gripper = c]_vars
=============================================================================
