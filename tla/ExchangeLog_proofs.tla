------------------------ MODULE ExchangeLog_proofs ------------------------
(***************************************************************************)
(* The exchange_log program accounts for every exchange, outlives nobody   *)
(* who uses its gripper and moves on only when a motion is over, for any   *)
(* number of exchanges.                                                    *)
(***************************************************************************)
EXTENDS ExchangeLog, TLAPS

-----------------------------------------------------------------------------
(* The recorder's books.                                                   *)

(* Every count up to written is before the first row, in a row, skipped or *)
(* lost with the write that failed, at every step of the recorder; the row *)
(* it is about to write is newer than the last.                            *)
BooksBalance ==
    /\ first \in Nat /\ written \in Nat /\ got \in Nat /\ rows \in Nat
    /\ skipped \in Nat /\ count \in Nat /\ writeFailed \in BOOLEAN
    /\ rec \in {"none", "first", "loop", "sync", "row", "ended"}
    /\ first + rows + skipped + (IF writeFailed THEN 1 ELSE 0) = written
    /\ rec # "ended" => ~writeFailed
    /\ rec \in {"none", "first"} => rows = 0 /\ skipped = 0
    /\ rec = "row" => got > written

(* Where main stands and what the recorder is then: main leaves the        *)
(* program only past the recorder's end, or without ever starting it.      *)
RecorderJoined ==
    /\ at = "connect" => rec = "none"
    /\ at \in {"report", "destroy", "joinCycle"} => rec = "ended"
    /\ at = "exit" => rec \in {"none", "ended"}
    /\ at \notin {"connect", "exit"} => rec # "none"
    /\ reported => rec = "ended"

-----------------------------------------------------------------------------
(* The motion.                                                             *)
Phase == {"rest", "lag", "moving"}
Sent == {"startMoving", "awaitMoving", "startEnd", "awaitEnd"}

(* Commands reach the gripper, and come back in records, in order.         *)
InOrder ==
    /\ move \in 1..2
    /\ command \in 0..2 /\ copy \in 0..2 /\ goal \in 0..2
    /\ record.carried \in 0..2 /\ record.phase \in Phase
    /\ sample \in Phase /\ phase \in Phase
    /\ record.carried <= goal /\ goal <= copy /\ copy <= command /\ command <= move
    /\ link = "answered" => goal = copy

(* A lag that a sample has not seen is over, and no new one begins for a   *)
(* request the gripper has.                                                *)
LagIsSeen ==
    /\ link = "answered" /\ sample # "lag" => phase # "lag"
    /\ record.carried = move /\ record.phase # "lag" => LagIsOver

(* What moveTo has established when it gets to each of its waits.          *)
WaitsInOrder ==
    /\ at = "awaitCarried" => command = move
    /\ at \in Sent => record.carried = move
    /\ at \in {"startEnd", "awaitEnd"} => LagIsOver
    /\ at = "awaitEnd" /\ fresh => record.phase # "lag"

IInv == /\ BooksBalance /\ RecorderJoined
        /\ InOrder /\ LagIsSeen /\ WaitsInOrder /\ SettledMeansOver

-----------------------------------------------------------------------------
(* Who touches what: main leaves the recorder, the link and the gripper    *)
(* alone, but for starting the recorder; nobody else moves main on.        *)
LEMMA MainFrame ==
    Main => /\ UNCHANGED <<first, written, got, rows, skipped, writeFailed>>
            /\ UNCHANGED <<linkVars, devVars>>
            /\ rec' = IF at = "connect" /\ at' = "activate" THEN "first" ELSE rec
<1> SUFFICES ASSUME Main
             PROVE  /\ UNCHANGED <<first, written, got, rows, skipped, writeFailed>>
                    /\ UNCHANGED <<linkVars, devVars>>
                    /\ rec' = IF at = "connect" /\ at' = "activate" THEN "first" ELSE rec
  OBVIOUS
<1> USE DEF Steps, Goes, Elsewhere, recVars
<1>1. CASE NotConnected \/ Connects \/ Activates
  BY <1>1 DEF NotConnected, Connects, Activates, AfterFailure
<1>2. CASE MoveTo
  BY <1>2 DEF MoveTo, NoRegisterValue, Baseline, Sends, AwaitCarried, AwaitMoving,
              AwaitEnd, Await, Unwanted, TimesOut, Settles
<1>3. CASE Ends
  BY <1>3 DEF Ends, Stop, Join, Reports, Destroys
<1> QED
  BY <1>1, <1>2, <1>3 DEF Main

(* The recorder keeps to its own variables.                                *)
LEMMA RecordFrame ==
    Record => UNCHANGED <<mainVars, stop, running, command, linkVars, devVars>>
BY DEF Record, TakeFirst, Loop, Synced, Stalled, WriteRow, RecorderUnchanged

(* The exchange thread and the gripper do not touch main or the recorder,  *)
(* but for the news that a record came out.                                *)
LEMMA LinkFrame ==
    Cycle \/ LagEnds \/ MotionEnds =>
      UNCHANGED <<at, move, settled, reported, recVars, command>>
BY DEF Cycle, Latch, Answer, Publish, Fail, LagEnds, MotionEnds, mainVars

-----------------------------------------------------------------------------
(* The books balance from the start, and every step keeps them so.         *)
LEMMA BooksStep == BooksBalance /\ RecorderJoined /\ [Next]_vars => BooksBalance'
<1> SUFFICES ASSUME BooksBalance, RecorderJoined, [Next]_vars PROVE BooksBalance'
  OBVIOUS
<1> USE DEF BooksBalance
<1>1. CASE Main
  BY <1>1, MainFrame DEF linkVars, RecorderJoined
<1>2. CASE Cycle \/ LagEnds \/ MotionEnds
  <2>1. count' \in Nat
    BY <1>2 DEF Cycle, Latch, Answer, Publish, Fail, LagEnds, MotionEnds, linkVars
  <2> QED
    BY <1>2, <2>1, LinkFrame DEF recVars
<1>3. CASE TakeFirst \/ Loop \/ Synced \/ Stalled
  BY <1>3 DEF TakeFirst, Loop, Synced, Stalled, AfterStall, RecorderUnchanged, linkVars
<1>4. ASSUME NEW f \in BOOLEAN, WriteRow(f)
      PROVE  BooksBalance'
  BY <1>4 DEF WriteRow, Missed, RecorderUnchanged, linkVars
<1>5. CASE UNCHANGED vars
  BY <1>5 DEF vars, recVars, linkVars
<1> QED
  BY <1>1, <1>2, <1>3, <1>4, <1>5 DEF Next, Record, Terminated

(* main never gets past the recorder.                                      *)
LEMMA JoinedStep == BooksBalance /\ RecorderJoined /\ [Next]_vars => RecorderJoined'
<1> SUFFICES ASSUME BooksBalance, RecorderJoined, [Next]_vars PROVE RecorderJoined'
  OBVIOUS
<1> USE DEF RecorderJoined
<1>1. CASE NotConnected \/ Connects \/ Activates
  BY <1>1 DEF NotConnected, Connects, Activates, AfterFailure, Steps, Goes, Elsewhere,
              recVars, BooksBalance
<1>2. CASE MoveTo
  BY <1>2 DEF MoveTo, NoRegisterValue, Baseline, Sends, AwaitCarried, AfterCarried,
              AwaitMoving, AwaitEnd, Await, Unwanted, TimesOut, Settles, Steps, Goes,
              Elsewhere, recVars
<1>3. CASE Ends
  BY <1>3 DEF Ends, Stop, Join, Reports, Destroys, Steps, Goes, Elsewhere, recVars
<1>4. CASE Record
  <2>1. rec \notin {"none", "ended"} /\ rec' # "none"
    BY <1>4 DEF Record, TakeFirst, Loop, Synced, Stalled, AfterStall, WriteRow
  <2> QED
    BY <1>4, <2>1, RecordFrame DEF mainVars
<1>5. CASE Cycle \/ LagEnds \/ MotionEnds
  BY <1>5, LinkFrame DEF recVars
<1>6. CASE UNCHANGED vars
  BY <1>6 DEF vars, mainVars, recVars
<1> QED
  BY <1>1, <1>2, <1>3, <1>4, <1>5, <1>6 DEF Next, Main, Terminated

-----------------------------------------------------------------------------
(* What the motion part of the invariant speaks of.                        *)
Motion == InOrder /\ LagIsSeen /\ WaitsInOrder /\ SettledMeansOver

(* Every step of main keeps it: each wait passes on what it has seen.      *)
LEMMA MotionMain == Motion /\ Main => Motion'
<1> SUFFICES ASSUME Motion, Main PROVE Motion'
  OBVIOUS
<1>1. UNCHANGED <<link, copy, sample, record, goal, phase>>
  BY MainFrame DEF linkVars, devVars
<1>2. LagIsOver' <=> LagIsOver
  BY <1>1 DEF LagIsOver
<1> USE DEF Motion, InOrder, LagIsSeen, WaitsInOrder, SettledMeansOver
<1>3. CASE NotConnected \/ Connects \/ Activates \/ NoRegisterValue
  BY <1>1, <1>2, <1>3 DEF NotConnected, Connects, Activates, AfterFailure,
              NoRegisterValue, Steps, Goes, Elsewhere, Sent
<1>4. CASE Baseline("prepare", "send") \/ Baseline("startMoving", "awaitMoving")
             \/ Baseline("startEnd", "awaitEnd")
  BY <1>1, <1>2, <1>4 DEF Baseline, Goes, Elsewhere, Sent
<1>5. CASE Sends
  BY <1>1, <1>2, <1>5 DEF Sends, Goes, Sent
<1>6. CASE AwaitCarried
  BY <1>1, <1>2, <1>6 DEF AwaitCarried, AfterCarried, IsCarried, Await, Unwanted,
              TimesOut, Baseline, Steps, Goes, Elsewhere, Sent
<1>7. CASE AwaitMoving
  BY <1>1, <1>2, <1>7 DEF AwaitMoving, IsMoving, Await, Unwanted, TimesOut, Baseline,
              Steps, Goes, Elsewhere, Sent
<1>8. CASE AwaitEnd
  BY <1>1, <1>2, <1>8 DEF AwaitEnd, Await, Unwanted, TimesOut, Baseline, Steps, Goes,
              Elsewhere, Sent
<1>9. CASE Settles
  BY <1>1, <1>2, <1>9 DEF Settles, IsMoving, Goes, Elsewhere, Sent, Phase
<1>10. CASE Ends
  BY <1>1, <1>2, <1>10 DEF Ends, Stop, Join, Reports, Destroys, Steps, Goes, Elsewhere,
              Sent
<1> QED
  BY <1>3, <1>4, <1>5, <1>6, <1>7, <1>8, <1>9, <1>10 DEF Main, MoveTo

(* So does every exchange, and the gripper.                                *)
LEMMA MotionLink == Motion /\ (Cycle \/ LagEnds \/ MotionEnds) => Motion'
<1> SUFFICES ASSUME Motion, Cycle \/ LagEnds \/ MotionEnds PROVE Motion'
  OBVIOUS
<1>1. UNCHANGED <<at, move, settled, command>>
  BY LinkFrame
<1> USE DEF Motion, InOrder, LagIsSeen, WaitsInOrder, SettledMeansOver, LagIsOver, Sent,
            Phase
<1>2. CASE Latch
  BY <1>1, <1>2 DEF Latch, mainVars, devVars
<1>3. CASE Answer
  BY <1>1, <1>3 DEF Answer, mainVars
<1>4. CASE Publish
  BY <1>1, <1>4 DEF Publish, devVars
<1>5. CASE Fail
  BY <1>1, <1>5 DEF Fail, mainVars, devVars
<1>6. CASE LagEnds \/ MotionEnds
  BY <1>1, <1>6 DEF LagEnds, MotionEnds, mainVars, linkVars
<1> QED
  BY <1>2, <1>3, <1>4, <1>5, <1>6 DEF Cycle

(* And the recorder has no part in it.                                     *)
LEMMA MotionStep == Motion /\ [Next]_vars => Motion'
<1> SUFFICES ASSUME Motion, [Next]_vars PROVE Motion'
  OBVIOUS
<1>1. CASE Record \/ UNCHANGED vars
  <2>1. UNCHANGED <<mainVars, command, linkVars, devVars>>
    BY <1>1, RecordFrame DEF vars
  <2> QED
    BY <2>1 DEF Motion, InOrder, LagIsSeen, WaitsInOrder, SettledMeansOver, LagIsOver,
                Sent, Phase, mainVars, linkVars, devVars
<1> QED
  BY <1>1, MotionMain, MotionLink DEF Next, Terminated

-----------------------------------------------------------------------------
(* The invariant holds throughout.                                         *)
LEMMA Invariant == Spec => []IInv
<1>1. Init => IInv
  <2> SUFFICES ASSUME Init PROVE IInv
    OBVIOUS
  <2>1. BooksBalance
    <3>1. writeFailed \in BOOLEAN /\ ~writeFailed
      BY DEF Init
    <3>2. /\ first = 0 /\ written = 0 /\ got = 0 /\ rows = 0 /\ skipped = 0
          /\ count = 0 /\ rec = "none"
      BY DEF Init
    <3> QED
      BY <3>1, <3>2 DEF BooksBalance
  <2>2. RecorderJoined
    BY DEF Init, RecorderJoined
  <2>3. InOrder /\ LagIsSeen
    BY DEF Init, InOrder, LagIsSeen, LagIsOver, Phase
  <2>4. WaitsInOrder /\ SettledMeansOver
    BY DEF Init, WaitsInOrder, SettledMeansOver, Sent
  <2> QED
    BY <2>1, <2>2, <2>3, <2>4 DEF IInv
<1>2. IInv /\ [Next]_vars => IInv'
  BY BooksStep, JoinedStep, MotionStep DEF IInv, Motion
<1> QED
  BY <1>1, <1>2, PTL DEF Spec

(* However far the recorder fell behind and wherever its write failed,     *)
(* what main reports adds up (Recorder::run, main).                        *)
THEOREM EveryExchangeCounts == Spec => []ReportAccountsForEveryExchange
<1>1. IInv => ReportAccountsForEveryExchange
  BY DEF IInv, BooksBalance, RecorderJoined, ReportAccountsForEveryExchange
<1> QED
  BY <1>1, Invariant, PTL

(* On every way out of main the recorder has ended before the gripper it   *)
(* waits on is destroyed.                                                  *)
THEOREM UsersLeaveFirst == Spec => []GripperOutlivesUsers
<1>1. IInv => GripperOutlivesUsers
  BY DEF IInv, RecorderJoined, GripperOutlivesUsers
<1> QED
  BY <1>1, Invariant, PTL

(* moveTo's three waits in a row tell a motion that is over from one that  *)
(* has not begun, provided the gripper's lag ends within the second one.   *)
THEOREM MovesAreOver == Spec => []SettledMeansOver
<1>1. IInv => SettledMeansOver
  BY DEF IInv
<1> QED
  BY <1>1, Invariant, PTL
=============================================================================
