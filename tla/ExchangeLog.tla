---------------------------- MODULE ExchangeLog ----------------------------
(***************************************************************************)
(* A whole program on the SDK, the exchange_log example: main activates    *)
(* the gripper and moves it twice, a recorder thread writes one row for    *)
(* every exchange, and the exchange thread serves both.                    *)
(*                                                                         *)
(* A wait of main looks only at records that came out since it last        *)
(* looked: fresh.  activate and recoverFromFault are their results.  The   *)
(* gripper (external) starts a motion a little after it took the request   *)
(* and reports Moving only from then on; a short motion is never seen.     *)
(***************************************************************************)
EXTENDS Naturals

CONSTANT MaxExchanges    \* bound: after as many records the link is down

ASSUME BoundAssumption == MaxExchanges \in Nat

VARIABLES
    at,          \* where main stands
    move,        \* the moveTo it is in, the first or the second
    fresh,       \* a record came out since main's wait last looked
    settled,     \* the last moveTo that succeeded, and what it was shown
    rec,         \* where the recorder stands
    stop,        \* Recorder::_stop
    first,       \* run's first exchange count
    written,     \* run's written
    got,         \* the exchange count the wait returned
    rows, skipped, writeFailed,     \* Recorder's counters
    reported,    \* main logged them
    running,     \* GripperState::_running
    command,     \* the command block: the move it asks for, 0 before
    link,        \* the exchange thread: "idle", "wire" or "answered"
    copy,        \* the block on the wire
    sample,      \* the gripper's phase when it answered
    count,       \* the exchange count
    record,      \* the newest record
    goal, phase  \* the gripper: the request it acts on, and its motion

mainVars == <<at, move, fresh, settled, reported>>
recVars == <<rec, first, written, got, rows, skipped, writeFailed>>
linkVars == <<link, copy, sample, count, record>>
devVars == <<goal, phase>>
vars == <<mainVars, recVars, stop, running, command, linkVars, devVars>>

Init ==
    /\ at = "connect" /\ move = 1 /\ fresh = FALSE /\ reported = FALSE
    /\ settled = [move |-> 0, carried |-> 0, phase |-> "rest"]
    /\ rec = "none" /\ stop = FALSE
    /\ first = 0 /\ written = 0 /\ got = 0
    /\ rows = 0 /\ skipped = 0 /\ writeFailed = FALSE
    /\ running = FALSE /\ command = 0
    /\ link = "idle" /\ copy = 0 /\ sample = "rest" /\ count = 0
    /\ goal = 0
    /\ phase \in {"rest", "moving"}     \* left by an earlier program
    /\ record = [carried |-> 0, phase |-> phase]

-----------------------------------------------------------------------------
(* The exchange thread and the gripper.                                    *)
Latch ==
    /\ running /\ link = "idle" /\ count < MaxExchanges
    /\ copy' = command
    /\ link' = "wire"
    /\ UNCHANGED <<mainVars, recVars, stop, running, command, sample, count,
                   record, devVars>>

(* A new request starts a motion, or redirects the one under way.          *)
Answer ==
    /\ link = "wire"
    /\ goal' = copy
    /\ phase' = IF copy # goal /\ phase = "rest" THEN "lag" ELSE phase
    /\ sample' = phase'
    /\ link' = "answered"
    /\ UNCHANGED <<mainVars, recVars, stop, running, command, copy, count, record>>

Publish ==
    /\ link = "answered"
    /\ record' = [carried |-> copy, phase |-> sample]
    /\ count' = count + 1
    /\ fresh' = TRUE
    /\ link' = "idle"
    /\ UNCHANGED <<at, move, settled, reported, recVars, stop, running, command,
                   copy, sample, devVars>>

(* The request or its answer is lost.                                      *)
Fail ==
    /\ link # "idle"
    /\ link' = "idle"
    /\ UNCHANGED <<mainVars, recVars, stop, running, command, copy, sample,
                   count, record, devVars>>

LagEnds ==
    /\ phase = "lag"
    /\ phase' \in {"moving", "rest"}
    /\ UNCHANGED <<mainVars, recVars, stop, running, command, linkVars, goal>>

MotionEnds ==
    /\ phase = "moving"
    /\ phase' = "rest"
    /\ UNCHANGED <<mainVars, recVars, stop, running, command, linkVars, goal>>

-----------------------------------------------------------------------------
(* The recorder: Recorder::run.                                            *)
RecorderUnchanged == UNCHANGED <<mainVars, stop, running, command, linkVars, devVars>>

TakeFirst ==
    /\ rec = "first"
    /\ first' = count
    /\ written' = count
    /\ rec' = "loop"
    /\ UNCHANGED <<got, rows, skipped, writeFailed>> /\ RecorderUnchanged

Loop ==
    /\ rec = "loop"
    /\ rec' = IF stop THEN "ended" ELSE "sync"
    /\ UNCHANGED <<first, written, got, rows, skipped, writeFailed>>
    /\ RecorderUnchanged

(* waitForExchangeCount(written + 1) returns the newest record.            *)
Synced ==
    /\ rec = "sync"
    /\ count > written
    /\ got' = count
    /\ rec' = "row"
    /\ UNCHANGED <<first, written, rows, skipped, writeFailed>>
    /\ RecorderUnchanged

(* Mutant: a stalled recorder waits again without a look at _stop.         *)
AfterStallWait == "sync"

AfterStall == "loop"

Stalled ==
    /\ rec = "sync"
    /\ count <= written
    /\ rec' = AfterStall
    /\ UNCHANGED <<first, written, got, rows, skipped, writeFailed>>
    /\ RecorderUnchanged

(* Mutant: the exchange the row is for is counted as skipped too.          *)
MissedAll == IF got # written + 1 THEN got - written ELSE 0

Missed == IF got # written + 1 THEN got - written - 1 ELSE 0

(* One row, whole or not: a failed write ends the thread.                  *)
WriteRow(fails) ==
    /\ rec = "row"
    /\ skipped' = skipped + Missed
    /\ written' = got
    /\ writeFailed' = fails
    /\ rows' = IF fails THEN rows ELSE rows + 1
    /\ rec' = IF fails THEN "ended" ELSE "loop"
    /\ UNCHANGED <<first, got>> /\ RecorderUnchanged

-----------------------------------------------------------------------------
(* main: it goes from here to there, and one that changes nothing else.    *)
Goes(here, there) == at = here /\ at' = there
Elsewhere == UNCHANGED <<recVars, stop, running, command, linkVars, devVars>>
Steps(here, there) ==
    Goes(here, there) /\ UNCHANGED <<move, fresh, settled, reported>> /\ Elsewhere

(* The file cannot be opened, or connectGripper returns no gripper.        *)
NotConnected == Steps("connect", "exit")

(* The Gripper runs its exchange thread; the Recorder starts its own.      *)
Connects ==
    /\ Goes("connect", "activate")
    /\ running' = TRUE
    /\ rec' = "first"
    /\ UNCHANGED <<move, fresh, settled, reported, first, written, got, rows, skipped,
                   writeFailed, stop, command, linkVars, devVars>>

(* Mutant: main returns before the recorder is joined.                     *)
AfterFailureAbrupt == "destroy"

(* main returns, and its locals are destroyed, the latest first.           *)
AfterFailure == "unwind"

(* activateOrRecover: a gripper that was active already may be moving.     *)
Activates ==
    \/ Steps("activate", "prepare")
    \/ Steps("activate", "recover")
    \/ Steps("activate", AfterFailure)
    \/ phase = "rest" /\ Steps("recover", "prepare")
    \/ Steps("recover", AfterFailure)

(* setSpeed and moveTo find no register value.                             *)
NoRegisterValue == Steps("prepare", "stop")

(* A wait takes its baseline: the count of the newest record.              *)
Baseline(here, there) ==
    /\ Goes(here, there)
    /\ fresh' = FALSE
    /\ UNCHANGED <<move, settled, reported>> /\ Elsewhere

(* setCommandAndWaitForExchange counts, then sets the command.             *)
Sends ==
    /\ Goes("send", "awaitCarried")
    /\ command' = move
    /\ UNCHANGED <<move, fresh, settled, reported, recVars, stop, running,
                   linkVars, devVars>>

(* A record ends the wait or is not the one; with none left the wait may   *)
(* time out.                                                               *)
Await(here, Wanted, there) == fresh /\ Wanted /\ Steps(here, there)
Unwanted(here, Wanted) == fresh /\ ~Wanted /\ Baseline(here, here)
TimesOut(here, there) == ~fresh /\ Steps(here, there)

IsMoving == record.phase = "moving"
IsCarried == record.carried = move

(* Mutant: moveTo does not give the motion time to start.                  *)
AfterCarriedEnd == "startEnd"

AfterCarried == "startMoving"

AwaitCarried ==
    \/ Await("awaitCarried", IsCarried, AfterCarried)
    \/ Unwanted("awaitCarried", IsCarried)
    \/ TimesOut("awaitCarried", "stop")

(* 200 ms are longer than the gripper's lag (external), also for an answer *)
(* that is on its way.                                                     *)
LagIsOver == phase # "lag" /\ ~(link = "answered" /\ sample = "lag")

AwaitMoving ==
    \/ Await("awaitMoving", IsMoving, "startEnd")
    \/ Unwanted("awaitMoving", IsMoving)
    \/ LagIsOver /\ TimesOut("awaitMoving", "startEnd")

AwaitEnd ==
    \/ Unwanted("awaitEnd", ~IsMoving)
    \/ TimesOut("awaitEnd", "stop")
    \/ Await("awaitEnd", ~IsMoving, "stop")   \* openingFromRegister has none

(* moveTo returns true: the next move, or the end of the program.          *)
Settles ==
    /\ Goes("awaitEnd", IF move = 1 THEN "prepare" ELSE "stop")
    /\ fresh /\ ~IsMoving
    /\ settled' = [move |-> move, carried |-> record.carried, phase |-> record.phase]
    /\ move' = 2
    /\ UNCHANGED <<fresh, reported>> /\ Elsewhere

MoveTo ==
    \/ NoRegisterValue \/ Baseline("prepare", "send") \/ Sends \/ AwaitCarried
    \/ Baseline("startMoving", "awaitMoving") \/ AwaitMoving
    \/ Baseline("startEnd", "awaitEnd") \/ AwaitEnd \/ Settles

(* Recorder::stop, called by main and by the destructor.                   *)
Stop(here, there) ==
    /\ Goes(here, there)
    /\ stop' = TRUE
    /\ UNCHANGED <<move, fresh, settled, reported, recVars, running, command,
                   linkVars, devVars>>
Join(here, there) == rec = "ended" /\ Steps(here, there)

Reports ==
    /\ Goes("report", "unwind")
    /\ reported' = TRUE
    /\ UNCHANGED <<move, fresh, settled>> /\ Elsewhere

(* The Gripper stops its exchange thread and is gone.                      *)
Destroys ==
    /\ Goes("destroy", "joinCycle")
    /\ running' = FALSE
    /\ UNCHANGED <<move, fresh, settled, reported, recVars, stop, command,
                   linkVars, devVars>>

Ends ==
    \/ Stop("stop", "join") \/ Join("join", "report") \/ Reports
    \/ Stop("unwind", "rejoin") \/ Join("rejoin", "destroy")
    \/ Destroys
    \/ link = "idle" /\ Steps("joinCycle", "exit")

Main == NotConnected \/ Connects \/ Activates \/ MoveTo \/ Ends
Record == TakeFirst \/ Loop \/ Synced \/ Stalled \/ \E f \in BOOLEAN : WriteRow(f)
Cycle == Latch \/ Answer \/ Publish \/ Fail
Terminated == at = "exit" /\ UNCHANGED vars

Next == Main \/ Record \/ Cycle \/ LagEnds \/ MotionEnds \/ Terminated

Spec == Init /\ [][Next]_vars

(* Threads run, an exchange ends, and so does the gripper's lag; no record *)
(* and no end of a motion is promised.                                     *)
FairSpec ==
    /\ Spec
    /\ WF_vars(Main) /\ WF_vars(Record) /\ WF_vars(Publish \/ Fail) /\ WF_vars(LagEnds)

-----------------------------------------------------------------------------
(* PROPERTIES                                                              *)

(* When main reports, every exchange from the recorder's first to its last *)
(* is a row of the file, or counted as skipped, or the row whose write     *)
(* failed; main reads the counters after the recorder's last write.        *)
ReportAccountsForEveryExchange ==
    reported =>
      /\ first + rows + skipped + (IF writeFailed THEN 1 ELSE 0) = written
      /\ rec = "ended"

(* Nobody is in a call of the gripper when its destructor starts, on every *)
(* way out of main: the locals of main are destroyed in the right order.   *)
GripperOutlivesUsers ==
    at \in {"destroy", "joinCycle", "exit"} => rec \in {"none", "ended"}

(* moveTo succeeds only on a record that carried its command, from a       *)
(* gripper whose motion for it is over: not before it started, although a  *)
(* gripper at rest reports the same as one that has not started to move.   *)
SettledMeansOver ==
    settled.move # 0 =>
      settled.carried = settled.move /\ settled.phase = "rest"

(* The program ends, whatever the link does and although the motion may    *)
(* never end, with the recorder blocked on records that do not come.       *)
ProgramEnds == <>(at = "exit")
=============================================================================
