------------------------ MODULE ExchangeCycle_proofs ------------------------
(***************************************************************************)
(* Proofs about ExchangeCycle, for any threads, blocks, thresholds and     *)
(* number of exchanges.                                                    *)
(***************************************************************************)
EXTENDS ExchangeCycle, TLAPS

USE DEF Life, CyclePoint, InFlight, Unpublished

-----------------------------------------------------------------------------
(* The zero blocks and the seed are blocks.                                *)
LEMMA BlockTypes ==
    /\ ZeroCommand \in Command
    /\ ZeroStatus \in Status
    /\ \A s \in Status : SeedCommand(s) \in Command
    /\ \A n \in Nat, x \in Exchange : Stamp(n, x) \in Record
BY ByteAssumption
   DEF ZeroCommand, ZeroStatus, Command, Status, SeedCommand, Stamp, Record,
       Exchange

(* Types of the parameters, in the form the steps below need.              *)
LEMMA ParameterTypes ==
    /\ AppCommand \subseteq Command
    /\ LeftCommand \subseteq Command
    /\ DeviceStatus \subseteq Status
    /\ "any" \in DOMAIN StatusPredicate
    /\ kFaultThreshold \in Nat
    /\ kInitialReadAttempts \in Nat
    /\ FailureModulus \in Nat
    /\ kFaultThreshold > 0
    /\ kInitialReadAttempts > 0
    /\ FailureModulus > kFaultThreshold
    /\ MaxExchanges \in Nat
BY BlockAssumption, LimitAssumption

(* Below its modulus a counter does not wrap.                              *)
LEMMA NoWrap == \A n, m \in Nat : n < m => n % m = n
BY SMT

(* Every behaviour starts with well-typed variables.                       *)
LEMMA InitType == Init => TypeOK
<1> SUFFICES ASSUME Init PROVE TypeOK
  OBVIOUS
<1>1. stamped \in Record
  BY BlockTypes DEF Init, Record
<1>2. log \in Seq(Exchange)
  BY DEF Init
<1>3. /\ attempt \in 1..kInitialReadAttempts
      /\ consecutiveFailures \in 0..(FailureModulus - 1)
      /\ setAt \in Nat
      /\ sinceRecord \in 0..kFaultThreshold
      /\ before \in [AppThread -> Int]
      /\ desired \in [AppThread -> Nat]
  BY ParameterTypes DEF Init
<1>4. gripper \in Command
  BY ParameterTypes DEF Init
<1> QED
  BY <1>1, <1>2, <1>3, <1>4, BlockTypes, ParameterTypes DEF Init, TypeOK

(* Each step keeps the variables well-typed.                               *)
LEMMA NextType == TypeOK /\ [Next]_vars => TypeOK'
<1> SUFFICES ASSUME TypeOK, [Next]_vars PROVE TypeOK'
  OBVIOUS
<1> USE ParameterTypes, BlockTypes
<1>1. CASE InitialReadFails
  <2>1. CASE attempt >= kInitialReadAttempts
    BY <1>1, <2>1 DEF TypeOK, InitialReadFails, linkVars, cycleVars, waitVars,
                      histVars
  <2>2. CASE ~(attempt >= kInitialReadAttempts)
    <3>1. attempt + 1 \in 1..kInitialReadAttempts
      BY <2>2 DEF TypeOK
    <3> QED
      BY <1>1, <2>2, <3>1 DEF TypeOK, InitialReadFails, linkVars, cycleVars,
                              waitVars, histVars
  <2> QED
    BY <2>1, <2>2
<1>2. CASE InitialReadAnswers
  <2>1. PICK s \in DeviceStatus :
          /\ stamped' = Stamp(0, [command |-> SeedCommand(s), status |-> s])
          /\ command' = SeedCommand(s)
          /\ log' = <<[command |-> SeedCommand(s), status |-> s]>>
    BY <1>2 DEF InitialReadAnswers
  <2>2. [command |-> SeedCommand(s), status |-> s] \in Exchange
    BY <2>1 DEF Exchange
  <2>3. stamped' \in Record /\ command' \in Command /\ log' \in Seq(Exchange)
    BY <2>1, <2>2
  <2> QED
    BY <1>2, <2>3 DEF TypeOK, InitialReadAnswers, cycleVars, waitVars
<1>3. CASE Start
  BY <1>3 DEF TypeOK, Start, imageVars, linkVars, waitVars, histVars
<1>4. CASE StartFails
  BY <1>4 DEF TypeOK, StartFails, linkVars, cycleVars, waitVars, histVars
<1>5. CASE CycleCheck
  BY <1>5 DEF TypeOK, CycleCheck, Loop, lifeVars, imageVars, linkVars,
              waitVars, histVars
<1>6. CASE CycleLatch
  BY <1>6 DEF TypeOK, CycleLatch, Latched, lifeVars, imageVars, linkVars,
              waitVars, histVars
<1>7. CASE GripperApplies
  BY <1>7 DEF TypeOK, GripperApplies, lifeVars, imageVars, linkVars, waitVars,
              histVars
<1>8. CASE CycleAnswered
  <2>1. PICK s \in DeviceStatus :
          /\ freshStatus' = s
          /\ log' = Append(log, [command |-> commandCopy, status |-> s])
    BY <1>8 DEF CycleAnswered
  <2>2. [command |-> commandCopy, status |-> s] \in Exchange
    BY <2>1 DEF TypeOK, Exchange
  <2>3. log' \in Seq(Exchange) /\ freshStatus' \in Status
    BY <2>1, <2>2 DEF TypeOK
  <2> QED
    BY <1>8, <2>3 DEF TypeOK, CycleAnswered, lifeVars, imageVars, waitVars
<1>9. CASE CycleState
  BY <1>9 DEF TypeOK, CycleState, lifeVars, imageVars, waitVars, histVars
<1>10. CASE CyclePublish
  <2>1. stamped' \in Record
    BY <1>10 DEF TypeOK, CyclePublish, Published, Record
  <2> QED
    BY <1>10, <2>1 DEF TypeOK, CyclePublish, lifeVars, linkVars, waitVars
<1>11. CASE CycleNotify
  BY <1>11 DEF TypeOK, CycleNotify, NotifyAll, CycleEnds, lifeVars, imageVars,
               linkVars, histVars
<1>12. CASE CycleFails
  <2>1. FailureCount \in 0..(FailureModulus - 1)
    BY DEF TypeOK, FailureCount
  <2> QED
    BY <1>12, <2>1 DEF TypeOK, CycleFails, FailureState, CycleEnds, lifeVars,
                       imageVars, waitVars
<1>13. CASE CycleSleep
  BY <1>13 DEF TypeOK, CycleSleep, lifeVars, imageVars, linkVars, waitVars,
               histVars
<1>14. ASSUME NEW t \in Commander, Request(t) PROVE TypeOK'
  <2>1. stamped.count \in Nat
    BY DEF TypeOK, Record
  <2>2. CASE \E c \in AppCommand : SetCommand(t, c)
    BY <2>1, <2>2 DEF TypeOK, SetCommand, SetImageCommand, lifeVars, linkVars,
                      cycleVars, waitVars
  <2>3. CASE \E c \in AppCommand : SetAndWaitCounts(t, c)
    BY <2>1, <2>3 DEF TypeOK, SetAndWaitCounts, StartWait, AppThread, lifeVars,
                      imageVars, linkVars, cycleVars, histVars
  <2> QED
    BY <1>14, <2>2, <2>3 DEF Request
<1>15. ASSUME NEW t \in Observer, Observe(t) PROVE TypeOK'
  <2>1. stamped.count \in Nat
    BY DEF TypeOK, Record
  <2>2. CASE \E p \in DOMAIN StatusPredicate : WaitFor(t, p)
    BY <2>1, <2>2 DEF TypeOK, WaitFor, StartWait, AppThread, lifeVars,
                      imageVars, linkVars, cycleVars, histVars
  <2>3. CASE \E n \in 0..MaxExchanges + 1 : WaitForExchangeCount(t, n)
    BY <2>3 DEF TypeOK, WaitForExchangeCount, StartWait, AppThread, lifeVars,
                imageVars, linkVars, cycleVars, histVars
  <2> QED
    BY <1>15, <2>2, <2>3 DEF Observe
<1>16. ASSUME NEW t \in AppThread, Proceed(t) PROVE TypeOK'
  <2>1. stamped.count \in Nat
    BY DEF TypeOK, Record
  <2>2. CASE SetAndWaitSets(t)
    BY <2>1, <2>2 DEF TypeOK, SetAndWaitSets, SetImageCommand, lifeVars,
                      linkVars, cycleVars
  <2>3. CASE WaitBlocks(t)
    BY <2>3 DEF TypeOK, WaitBlocks, lifeVars, imageVars, linkVars, cycleVars,
                histVars
  <2>4. CASE WaitEmpty(t)
    BY <2>4 DEF TypeOK, WaitEmpty, Returns, lifeVars, imageVars, linkVars,
                cycleVars, histVars
  <2>5. CASE WaitAccepts(t)
    BY <2>5 DEF TypeOK, WaitAccepts, Returns, lifeVars, imageVars, linkVars,
                cycleVars, histVars
  <2>6. CASE WaitRejects(t)
    BY <2>1, <2>6 DEF TypeOK, WaitRejects, lifeVars, imageVars, linkVars,
                      cycleVars, histVars
  <2>7. CASE Forgets(t)
    BY <2>7 DEF TypeOK, Forgets, lifeVars, imageVars, linkVars, cycleVars,
                histVars
  <2>8. CASE WaitSleeps(t)
    BY <2>8 DEF TypeOK, WaitSleeps, lifeVars, imageVars, linkVars, cycleVars,
                histVars
  <2> QED
    BY <1>16, <2>2, <2>3, <2>4, <2>5, <2>6, <2>7, <2>8 DEF Proceed
<1>17. ASSUME NEW t \in AppThread, Wakes(t) \/ Stirs(t) \/ Expire(t) PROVE TypeOK'
  <2>1. CASE Wakes(t)
    BY <2>1 DEF TypeOK, Wakes, lifeVars, imageVars, linkVars, cycleVars,
                histVars
  <2>3. CASE Stirs(t)
    BY <2>3 DEF TypeOK, Stirs, lifeVars, imageVars, linkVars, cycleVars,
                histVars
  <2>2. CASE Expire(t)
    BY <2>2 DEF TypeOK, Expire, lifeVars, imageVars, linkVars, cycleVars,
                histVars
  <2> QED
    BY <1>17, <2>1, <2>2, <2>3
<1>18. CASE StopRunning \/ Destroy
  BY <1>18 DEF TypeOK, StopRunning, Destroy, StopCloses, StopNotifies,
               StopJoins, NotifyAll, imageVars, linkVars, cycleVars, waitVars,
               histVars
<1>19. CASE UNCHANGED vars
  BY <1>19 DEF TypeOK, vars, lifeVars, imageVars, linkVars, cycleVars,
               waitVars, histVars
<1> QED
  BY <1>1, <1>2, <1>3, <1>4, <1>5, <1>6, <1>7, <1>8, <1>9, <1>10, <1>11,
     <1>12, <1>13, <1>14, <1>15, <1>16, <1>17, <1>18, <1>19
  DEF Next, Construct, Cycle, Terminated

(* Every variable of the driver keeps its type, in every behaviour.        *)
THEOREM TypeCorrect == Spec => []TypeOK
BY InitType, NextType, PTL DEF Spec

-----------------------------------------------------------------------------
(* The inductive invariant: what the properties of ExchangeCycle need to   *)
(* hold after every step.                                                  *)

(* Before the image is seeded nothing runs and nobody waits.               *)
Unseeded ==
    /\ life = "reading" => log = <<>> /\ cycle = "none"
    /\ life = "seeded" => log # <<>> /\ cycle = "none"
    /\ log = <<>> =>
         /\ life \in {"reading", "failed"}
         /\ cycle = "none"
         /\ stamped.count = 0
         /\ setAt = 0
         /\ \A t \in AppThread : pc[t] = "idle"
    /\ \A t \in AppThread : pc[t] # "returned" => result[t] = {}

(* The exchange between the wire and the image is the last of the log.     *)
FlightLogged ==
    cycle \in Unpublished =>
      log[stamped.count + 2] = [command |-> commandCopy, status |-> freshStatus]

(* A wait has looked at and turned down the record before the one it       *)
(* waits for, unless that is the one it started from.                      *)
TurnedDown ==
    \A t \in AppThread : pc[t] # "idle" =>
      /\ before[t] < desired[t]
      /\ \/ desired[t] = before[t] + 1
         \/ /\ desired[t] \in 1..(stamped.count + 1)
            /\ ~Accepts(t, log[desired[t]])

(* The failure counter counts the failures since the last record until it  *)
(* reaches the threshold.                                                  *)
CounterCounts ==
    /\ cycle \in Unpublished => consecutiveFailures = 0
    /\ cycle = "publish" => connectionState # "Faulted"
    /\ cycle = "none" => sinceRecord = 0
    /\ cycle \notin Unpublished /\ sinceRecord < kFaultThreshold =>
         consecutiveFailures = sinceRecord

(* Only the exchange on the wire at the last setCommand carries an older   *)
(* block than the image holds.                                             *)
FlightFresh ==
    /\ setAt <= stamped.count
    /\ cycle \in InFlight => commandCopy = command \/ stamped.count = setAt
    /\ cycle \in InFlight \ {"wire"} => gripper = commandCopy

(* Until the application asks, the image asks for what the gripper was     *)
(* left with, and nothing else is on the wire.                             *)
SeedKept ==
    ~asked /\ log # <<>> =>
      /\ command.act = gripper.act
      /\ command.pos = gripper.pos
      /\ command.gto => gripper.gto
      /\ cycle \in InFlight => commandCopy = command

-----------------------------------------------------------------------------
(* Frames: what the application and the destructor leave alone, and what   *)
(* the exchange thread leaves alone.                                       *)

AppStep ==
    \/ \E t \in Commander : Request(t)
    \/ \E t \in Observer : Observe(t)
    \/ \E t \in AppThread : Proceed(t) \/ Wakes(t) \/ Stirs(t) \/ Expire(t)
    \/ StopRunning
    \/ Destroy
    \/ UNCHANGED vars

(* What an application's step can change: never the link, the cycle or     *)
(* the log.                                                                *)
LEMMA AppFrame ==
    AppStep => UNCHANGED <<linkVars, cycleVars, stamped, log, sinceRecord>>
BY DEF AppStep, Request, SetCommand, SetAndWaitCounts, SetImageCommand, Observe,
       WaitFor, WaitForExchangeCount, Proceed, SetAndWaitSets, WaitBlocks,
       WaitSleeps,
       WaitEmpty, WaitAccepts, WaitRejects, Forgets, Wakes, Stirs, Expire,
       StopRunning,
       Destroy, StopCloses, StopNotifies, StopJoins, vars, imageVars, linkVars,
       cycleVars, histVars

(* What a step of the exchange thread can change: never a wait's own       *)
(* locals.                                                                 *)
LEMMA CycleFrame ==
    Cycle => UNCHANGED <<lifeVars, closed, command, target, wants, before,
                         desired, expired, result, setAt, asked>>
BY DEF Cycle, CycleCheck, CycleLatch, GripperApplies, CycleAnswered, CycleState,
       CyclePublish, CycleNotify, CycleFails, CycleSleep, imageVars, histVars,
       waitVars

(* What attaching leaves alone.                                            *)
LEMMA ConstructFrame ==
    Construct => UNCHANGED <<consecutiveFailures, commandCopy, freshStatus,
                             gripper, waitVars, setAt, sinceRecord, asked>>
BY DEF Construct, InitialReadFails, InitialReadAnswers, Start, StartFails,
       linkVars, cycleVars, histVars

(* A step is the constructor's, the exchange thread's or an                *)
(* application's.                                                          *)
LEMMA StepKinds == [Next]_vars => Construct \/ Cycle \/ AppStep
BY DEF Next, AppStep, Terminated

-----------------------------------------------------------------------------
(* The link state and the failure counter.                                 *)
LinkInv == CounterCounts /\ FaultedMeansNoRecordSince

(* LinkInv is preserved: the counter's meaning and the state's go          *)
(* together.                                                               *)
LEMMA LinkStep ==
    TypeOK /\ Unseeded /\ LinkInv /\ [Next]_vars => LinkInv'
<1> SUFFICES ASSUME TypeOK, Unseeded, LinkInv, [Next]_vars PROVE LinkInv'
  OBVIOUS
<1> USE ParameterTypes DEF LinkInv, CounterCounts, FaultedMeansNoRecordSince
<1>1. CASE Construct
  BY <1>1, ConstructFrame
     DEF Construct, InitialReadFails, InitialReadAnswers, Start, StartFails,
         Unseeded, linkVars, cycleVars
<1>2. CASE AppStep
  BY <1>2, AppFrame DEF linkVars, cycleVars
<1>3. CASE CycleFails
  <2>1. sinceRecord < kFaultThreshold => FailureCount = sinceRecord + 1
    <3> SUFFICES ASSUME sinceRecord < kFaultThreshold
                 PROVE  FailureCount = sinceRecord + 1
      OBVIOUS
    <3>1. consecutiveFailures = sinceRecord
      BY <1>3 DEF CycleFails
    <3>2. sinceRecord + 1 \in Nat /\ sinceRecord + 1 < FailureModulus
      BY DEF TypeOK
    <3> QED
      BY <3>1, <3>2, NoWrap DEF FailureCount
  <2> QED
    BY <1>3, <2>1 DEF CycleFails, FailureState, CycleEnds, TypeOK
<1>4. CASE Cycle /\ ~CycleFails
  BY <1>4 DEF Cycle, CycleCheck, CycleLatch, GripperApplies, CycleAnswered,
              CycleState, CyclePublish, CycleNotify, CycleSleep, CycleEnds,
              Loop, linkVars, histVars, TypeOK
<1> QED
  BY <1>1, <1>2, <1>3, <1>4, StepKinds

-----------------------------------------------------------------------------
(* Stale blocks.                                                           *)
FreshInv == FlightFresh /\ AtMostOneStaleExchange

(* FreshInv is preserved: the exchange under way took the newest block or  *)
(* the one before the pending setCommand.                                  *)
LEMMA FreshStep ==
    TypeOK /\ Unseeded /\ FreshInv /\ [Next]_vars => FreshInv'
<1> SUFFICES ASSUME TypeOK, Unseeded, FreshInv, [Next]_vars PROVE FreshInv'
  OBVIOUS
<1> USE DEF FreshInv, FlightFresh, AtMostOneStaleExchange
<1>0. stamped.count \in Nat /\ setAt \in Nat
  BY DEF TypeOK, Record
<1>1. CASE InitialReadAnswers
  <2>1. stamped'.count = 0 /\ setAt' = 0 /\ cycle' = "none"
    BY <1>1 DEF InitialReadAnswers, Unseeded, Stamp, cycleVars
  <2> QED
    BY <2>1
<1>2. CASE Construct /\ ~InitialReadAnswers
  BY <1>0, <1>2, ConstructFrame
     DEF Construct, InitialReadFails, Start, StartFails, cycleVars, imageVars
<1>3. CASE AppStep
  <2>1. UNCHANGED <<cycle, commandCopy, gripper, stamped>>
    BY <1>3, AppFrame DEF cycleVars
  <2>2. UNCHANGED <<command, setAt>> \/ setAt' = stamped.count
    BY <1>3
       DEF AppStep, Request, SetCommand, SetAndWaitCounts, SetImageCommand,
           Observe, WaitFor, WaitForExchangeCount, Proceed, SetAndWaitSets,
           WaitBlocks, WaitSleeps, WaitEmpty, WaitAccepts, WaitRejects,
           Forgets, Wakes, Stirs,
           Expire, StopRunning, Destroy, StopCloses, StopNotifies, StopJoins,
           vars, imageVars, histVars
  <2> QED
    BY <1>0, <2>1, <2>2
<1>4. CASE CyclePublish
  BY <1>0, <1>4 DEF CyclePublish, Published
<1>5. CASE Cycle /\ ~CyclePublish
  <2>1. UNCHANGED <<command, setAt, stamped>>
    BY <1>5, CycleFrame
       DEF Cycle, CycleCheck, CycleLatch, GripperApplies, CycleAnswered,
           CycleState, CycleNotify, CycleFails, CycleSleep, imageVars
  <2> QED
    BY <1>0, <1>5, <2>1
       DEF Cycle, CycleCheck, CycleLatch, GripperApplies, CycleAnswered,
           CycleState, CycleNotify, CycleFails, CycleSleep, CycleEnds, Latched,
           Loop
<1> QED
  BY <1>1, <1>2, <1>3, <1>4, <1>5, StepKinds

-----------------------------------------------------------------------------
(* Attaching.                                                              *)
(* SeedKept is preserved: before the first setCommand every copy is the    *)
(* seed.                                                                   *)
LEMMA SeedStep ==
    TypeOK /\ Unseeded /\ SeedKept /\ [Next]_vars => SeedKept'
<1> SUFFICES ASSUME TypeOK, Unseeded, SeedKept, [Next]_vars,
                    ~asked', log' # <<>>
             PROVE  SeedKept'
  BY DEF SeedKept
<1> USE DEF SeedKept
<1>1. CASE InitialReadAnswers
  <2>1. PICK s \in DeviceStatus :
          Reports(gripper, s) /\ command' = SeedCommand(s)
    BY <1>1 DEF InitialReadAnswers
  <2>2. gripper' = gripper /\ cycle' = "none"
    BY <1>1 DEF InitialReadAnswers, Unseeded, cycleVars
  <2> QED
    BY <2>1, <2>2 DEF Reports, SeedCommand
<1>2. CASE Construct /\ ~InitialReadAnswers
  BY <1>2, ConstructFrame
     DEF Construct, InitialReadFails, Start, StartFails, cycleVars, imageVars,
         histVars
<1>3. CASE AppStep
  <2>1. UNCHANGED <<cycle, commandCopy, gripper, log>>
    BY <1>3, AppFrame DEF cycleVars
  <2>2. UNCHANGED <<command, asked>> \/ asked' = TRUE
    BY <1>3
       DEF AppStep, Request, SetCommand, SetAndWaitCounts, SetImageCommand,
           Observe, WaitFor, WaitForExchangeCount, Proceed, SetAndWaitSets,
           WaitBlocks, WaitSleeps, WaitEmpty, WaitAccepts, WaitRejects,
           Forgets, Wakes, Stirs,
           Expire, StopRunning, Destroy, StopCloses, StopNotifies, StopJoins,
           vars, imageVars, histVars
  <2> QED
    BY <2>1, <2>2
<1>4. CASE Cycle
  <2>1. UNCHANGED <<command, asked>>
    BY <1>4, CycleFrame
  <2>2. log # <<>>
    BY <1>4
       DEF Unseeded, Cycle, CycleCheck, CycleLatch, GripperApplies,
           CycleAnswered, CycleState, CyclePublish, CycleNotify, CycleFails,
           CycleSleep
  <2> QED
    BY <1>4, <2>1, <2>2
       DEF Cycle, CycleCheck, CycleLatch, GripperApplies, CycleAnswered,
           CycleState, CyclePublish, CycleNotify, CycleFails, CycleSleep,
           CycleEnds, Latched, Loop
<1> QED
  BY <1>1, <1>2, <1>3, <1>4, StepKinds

(* The one step that changes what the gripper does carries the seed.       *)
LEMMA SeedMoves ==
    Unseeded /\ SeedKept /\ [Next]_vars /\ ~asked' =>
      /\ gripper'.act = gripper.act
      /\ gripper'.pos = gripper.pos
      /\ gripper'.gto => gripper.gto
<1> SUFFICES ASSUME Unseeded, SeedKept, [Next]_vars, ~asked'
             PROVE  /\ gripper'.act = gripper.act
                    /\ gripper'.pos = gripper.pos
                    /\ gripper'.gto => gripper.gto
  OBVIOUS
<1>1. CASE GripperApplies
  <2>1. asked' = asked /\ gripper' = commandCopy /\ cycle = "wire"
    BY <1>1 DEF GripperApplies, histVars
  <2> QED
    BY <2>1 DEF Unseeded, SeedKept
<1>2. CASE ~GripperApplies
  <2>1. gripper' = gripper
    BY <1>2, StepKinds, AppFrame, ConstructFrame
       DEF Cycle, CycleCheck, CycleLatch, CycleAnswered, CycleState,
           CyclePublish, CycleNotify, CycleFails, CycleSleep, cycleVars
  <2> QED
    BY <2>1
<1> QED
  BY <1>1, <1>2

-----------------------------------------------------------------------------
(* The image and the log of exchanges.                                     *)
(* Unseeded is preserved: before attaching nothing has been exchanged.     *)
LEMMA UnseededStep ==
    TypeOK /\ Unseeded /\ [Next]_vars => Unseeded'
<1> SUFFICES ASSUME TypeOK, Unseeded, [Next]_vars PROVE Unseeded'
  OBVIOUS
<1> USE DEF Unseeded
<1>1. CASE InitialReadAnswers
  <2>1. log' # <<>>
    BY <1>1 DEF InitialReadAnswers
  <2> QED
    BY <1>1, <2>1 DEF InitialReadAnswers, cycleVars, waitVars
<1>2. CASE Construct /\ ~InitialReadAnswers
  BY <1>2, ConstructFrame
     DEF Construct, InitialReadFails, Start, StartFails, cycleVars, imageVars,
         histVars, waitVars
<1>3. CASE Cycle
  <2>1. cycle # "none" /\ log # <<>>
    BY <1>3
       DEF Cycle, CycleCheck, CycleLatch, GripperApplies, CycleAnswered,
           CycleState, CyclePublish, CycleNotify, CycleFails, CycleSleep
  <2>2. log' # <<>>
    <3>1. CASE CycleAnswered
      <4>1. PICK s \in DeviceStatus :
              log' = Append(log, [command |-> commandCopy, status |-> s])
        BY <3>1 DEF CycleAnswered
      <4>2. log \in Seq(Exchange)
            /\ [command |-> commandCopy, status |-> s] \in Exchange
        BY ParameterTypes DEF TypeOK, Exchange
      <4>3. Len(log') = Len(log) + 1 /\ Len(log) \in Nat
        BY <4>1, <4>2
      <4> QED
        BY <4>3
    <3>2. CASE ~CycleAnswered
      BY <1>3, <2>1, <3>2
         DEF Cycle, CycleCheck, CycleLatch, GripperApplies, CycleState,
             CyclePublish, CycleNotify, CycleFails, CycleSleep, histVars
    <3> QED
      BY <3>1, <3>2
  <2>3. \A t \in AppThread :
          result'[t] = result[t] /\ (pc[t] = "returned" => pc'[t] = "returned")
    BY <1>3, CycleFrame
       DEF TypeOK, Cycle, CycleCheck, CycleLatch, GripperApplies,
           CycleAnswered, CycleState, CyclePublish, CycleNotify, NotifyAll,
           CycleFails, CycleSleep, waitVars
  <2> QED
    BY <2>1, <2>2, <2>3, <1>3, CycleFrame DEF lifeVars
<1>4. CASE AppStep
  <2>1. UNCHANGED <<cycle, stamped, log>>
    BY <1>4, AppFrame DEF cycleVars
  <2>2. CASE log = <<>>
    BY <1>4, <2>1, <2>2
       DEF AppStep, Request, SetCommand, SetAndWaitCounts, Calls, Observe,
           WaitFor, WaitForExchangeCount, Proceed, SetAndWaitSets, WaitBlocks,
           WaitSleeps,
           WaitEmpty, WaitAccepts, WaitRejects, Forgets, Wakes, Stirs, Expire,
           StopRunning, Destroy, StopCloses, StopNotifies, StopJoins, vars,
           lifeVars, waitVars, histVars, AppThread
  <2>3. CASE log # <<>>
    <3>1. life' = life \/ life' \in {"stopping", "closing", "joining", "gone"}
      BY <1>4
         DEF AppStep, Request, SetCommand, SetAndWaitCounts, Observe, WaitFor,
             WaitForExchangeCount, Proceed, SetAndWaitSets, WaitBlocks,
             WaitSleeps,
             WaitEmpty, WaitAccepts, WaitRejects, Forgets, Wakes, Stirs, Expire,
             StopRunning, Destroy, StopCloses, StopNotifies, StopJoins, vars,
             lifeVars
    <3>2. \A t \in AppThread : pc'[t] # "returned" => result'[t] = {}
      <4>1. CASE StopRunning \/ Destroy \/ UNCHANGED vars
        BY <4>1
           DEF TypeOK, StopRunning, Destroy, StopCloses, StopNotifies,
               StopJoins, NotifyAll, vars, waitVars
      <4>2. CASE \E t \in AppThread : Wakes(t) \/ Stirs(t) \/ Expire(t)
        BY <4>2 DEF TypeOK, Wakes, Stirs, Expire
      <4>3. ASSUME NEW t \in AppThread, Proceed(t)
            PROVE  \A u \in AppThread : pc'[u] # "returned" => result'[u] = {}
        BY <4>3
           DEF TypeOK, Proceed, SetAndWaitSets, WaitBlocks, WaitSleeps,
               WaitEmpty,
               WaitAccepts, WaitRejects, Returns, Forgets
      <4>4. CASE \/ \E t \in Commander : Request(t)
                 \/ \E t \in Observer : Observe(t)
        BY <4>4
           DEF TypeOK, Request, SetCommand, SetAndWaitCounts, Calls, Observe,
               WaitFor, WaitForExchangeCount, StartWait, AppThread, waitVars
      <4> QED
        BY <1>4, <4>1, <4>2, <4>3, <4>4 DEF AppStep
    <3> QED
      BY <2>1, <2>3, <3>1, <3>2
  <2> QED
    BY <2>2, <2>3
<1> QED
  BY <1>1, <1>2, <1>3, <1>4, StepKinds

LogInv == RecordsAreExchanges /\ FlightLogged

(* LogInv is preserved: a published record is the exchange just logged.    *)
LEMMA LogStep ==
    TypeOK /\ Unseeded /\ LogInv /\ [Next]_vars => LogInv'
<1> SUFFICES ASSUME TypeOK, Unseeded, LogInv, [Next]_vars PROVE LogInv'
  OBVIOUS
<1> USE DEF LogInv, RecordsAreExchanges, FlightLogged
<1>0. stamped.count \in Nat /\ log \in Seq(Exchange) /\ stamped \in Record
  BY DEF TypeOK, Record
<1>1. CASE InitialReadAnswers
  <2>1. PICK x : stamped' = Stamp(0, x) /\ log' = <<x>>
    BY <1>1 DEF InitialReadAnswers
  <2>2. cycle' = "none"
    BY <1>1 DEF InitialReadAnswers, Unseeded, cycleVars
  <2> QED
    BY <2>1, <2>2 DEF Stamp
<1>2. CASE Construct /\ ~InitialReadAnswers
  BY <1>2 DEF Unseeded, Construct, InitialReadFails, Start, StartFails,
      cycleVars,
              imageVars, histVars
<1>3. CASE AppStep
  BY <1>3, AppFrame DEF cycleVars
<1>4. CASE CycleAnswered
  <2>1. log # <<>> /\ cycle = "applied" /\ cycle' = "state"
    BY <1>4 DEF CycleAnswered, Unseeded
  <2>2. PICK s \in DeviceStatus :
          /\ freshStatus' = s
          /\ log' = Append(log, [command |-> commandCopy, status |-> s])
    BY <1>4 DEF CycleAnswered
  <2>3. stamped' = stamped /\ commandCopy' = commandCopy
    BY <1>4 DEF CycleAnswered, imageVars
  <2>4. Len(log) = stamped.count + 1
    BY <2>1
  <2>5. /\ Len(log') = stamped.count + 2
        /\ log'[stamped.count + 1] = log[stamped.count + 1]
        /\ log'[stamped.count + 2] = [command |-> commandCopy, status |-> freshStatus']
    BY <1>0, <2>2, <2>4
  <2> QED
    BY <2>1, <2>3, <2>5
<1>5. CASE CyclePublish
  <2>1. /\ stamped' = Published /\ log' = log
        /\ cycle = "publish" /\ cycle' = "notify" /\ log # <<>>
    BY <1>5 DEF CyclePublish, Unseeded
  <2>2. stamped'.count = stamped.count + 1
    BY <2>1 DEF Published
  <2>3. stamped' = Stamp(stamped.count + 1, log[stamped.count + 2])
    BY <2>1 DEF Published, Stamp
  <2> QED
    BY <1>0, <2>1, <2>2, <2>3
<1>6. CASE Cycle /\ ~CycleAnswered /\ ~CyclePublish
  BY <1>6 DEF Cycle, CycleCheck, CycleLatch, GripperApplies, CycleState,
              CycleNotify, CycleFails, CycleSleep, CycleEnds, Loop, imageVars,
              histVars
<1> QED
  BY <1>1, <1>2, <1>3, <1>4, <1>5, <1>6, StepKinds

-----------------------------------------------------------------------------
(* The waits.                                                              *)
WaitInv == TurnedDown /\ ResultsAnswerTheCall

(* Both, for one thread.                                                   *)
WaitOK(u) ==
    /\ pc[u] # "idle" =>
         /\ before[u] < desired[u]
         /\ \/ desired[u] = before[u] + 1
            \/ /\ desired[u] \in 1..(stamped.count + 1)
               /\ ~Accepts(u, log[desired[u]])
    /\ \A r \in result[u] :
         /\ before[u] < r.count
         /\ r.count <= stamped.count
         /\ r = Stamp(r.count, log[r.count + 1])
         /\ Accepts(u, r)

(* WaitInv is preserved: each wait's copy stays a record after its call.   *)
LEMMA WaitStep ==
    TypeOK /\ Unseeded /\ LogInv /\ WaitInv /\ [Next]_vars => WaitInv'
<1> SUFFICES ASSUME TypeOK, Unseeded, LogInv, WaitInv, [Next]_vars,
                    NEW u \in AppThread
             PROVE  WaitOK(u)'
  BY DEF WaitInv, TurnedDown, ResultsAnswerTheCall, WaitOK
<1> USE DEF Accepts, WaitOK
<1>0. /\ stamped.count \in Nat /\ before[u] \in Int /\ desired[u] \in Nat
      /\ stamped \in Record
      /\ \A r \in result[u] : r.count \in Nat
  BY DEF TypeOK, Record
<1>I. WaitOK(u)
  BY DEF WaitInv, TurnedDown, ResultsAnswerTheCall
(* A step that leaves the wait of u alone and only lengthens the log.      *)
<1>F. ASSUME UNCHANGED <<target, wants, before, desired, result>>,
             pc[u] = "idle" => pc'[u] = "idle",
             stamped'.count \in Nat, stamped.count <= stamped'.count,
             \A n \in 1..(stamped.count + 1) : log'[n] = log[n]
      PROVE  WaitOK(u)'
  <2>1. CASE pc'[u] # "idle"
    BY <1>0, <1>I, <1>F, <2>1
  <2>2. \A r \in result[u] : r.count + 1 \in 1..(stamped.count + 1)
    BY <1>0, <1>I
  <2>3. \A r \in result'[u] :
          /\ before'[u] < r.count
          /\ r.count <= stamped'.count
          /\ r = Stamp(r.count, log'[r.count + 1])
          /\ Accepts(u, r)'
    BY <1>0, <1>I, <1>F, <2>2
  <2> QED
    BY <2>1, <2>3
<1>1. CASE log = <<>>
  <2>1. result[u] = {} /\ pc[u] = "idle"
    BY <1>1 DEF Unseeded
  <2>2. result'[u] = {} /\ pc'[u] = "idle"
    BY <1>1, <2>1, StepKinds, ConstructFrame
       DEF Unseeded, Cycle, CycleCheck, CycleLatch, GripperApplies,
           CycleAnswered, CycleState, CyclePublish, CycleNotify, CycleFails,
           CycleSleep, AppStep, Request, SetCommand, SetAndWaitCounts, Calls,
           Observe, WaitFor, WaitForExchangeCount, Proceed, SetAndWaitSets,
           WaitBlocks, WaitSleeps, WaitEmpty, WaitAccepts, WaitRejects,
           Forgets, Wakes, Stirs,
           Expire, StopRunning, Destroy, StopCloses, StopNotifies, StopJoins,
           vars, waitVars, AppThread
  <2> QED
    BY <2>2
<1>2. CASE Construct /\ log # <<>>
  <2>1. UNCHANGED <<stamped, log>>
    BY <1>2 DEF Construct, InitialReadFails, InitialReadAnswers, Start,
                StartFails, Unseeded, imageVars, histVars
  <2> QED
    BY <1>0, <1>2, <1>F, <2>1, ConstructFrame DEF waitVars
<1>3. CASE Cycle /\ log # <<>>
  <2>1. pc[u] = "idle" => pc'[u] = "idle"
    BY <1>3
       DEF TypeOK, Cycle, CycleCheck, CycleLatch, GripperApplies,
           CycleAnswered, CycleState, CyclePublish, CycleNotify, NotifyAll,
           CycleFails, CycleSleep, waitVars
  <2>2. stamped'.count \in Nat /\ stamped.count <= stamped'.count
    BY <1>0, <1>3
       DEF Cycle, CycleCheck, CycleLatch, GripperApplies, CycleAnswered,
           CycleState, CyclePublish, Published, CycleNotify, CycleFails,
           CycleSleep, imageVars
  <2>3. \A n \in 1..(stamped.count + 1) : log'[n] = log[n]
    <3>1. CASE CycleAnswered
      <4>1. PICK s \in DeviceStatus :
              log' = Append(log, [command |-> commandCopy, status |-> s])
        BY <3>1 DEF CycleAnswered
      <4>2. log \in Seq(Exchange) /\ Len(log) = stamped.count + 1
        BY <1>3, <3>1 DEF TypeOK, LogInv, RecordsAreExchanges, CycleAnswered
      <4> QED
        BY <1>0, <4>1, <4>2
    <3>2. CASE ~CycleAnswered
      BY <1>3, <3>2
         DEF Cycle, CycleCheck, CycleLatch, GripperApplies, CycleState,
             CyclePublish, CycleNotify, CycleFails, CycleSleep, histVars
    <3> QED
      BY <3>1, <3>2
  <2> QED
    BY <1>3, <1>F, <2>1, <2>2, <2>3, CycleFrame
<1>4. CASE AppStep /\ log # <<>>
  <2>1. UNCHANGED <<stamped, log>>
    BY <1>4, AppFrame
  <2>2. CASE StopRunning \/ Destroy \/ UNCHANGED vars
    <3>1. UNCHANGED <<target, wants, before, desired, result>>
      BY <2>2 DEF StopRunning, Destroy, StopCloses, StopNotifies, StopJoins,
                  vars, waitVars
    <3>2. pc[u] = "idle" => pc'[u] = "idle"
      BY <2>2 DEF StopRunning, Destroy, StopCloses, StopNotifies, StopJoins,
                  NotifyAll, vars, waitVars
    <3> QED
      BY <1>0, <1>F, <2>1, <3>1, <3>2
  <2>3. ASSUME NEW t \in AppThread, Wakes(t) \/ Stirs(t) \/ Expire(t)
                                    \/ SetAndWaitSets(t)
                                    \/ WaitBlocks(t) \/ WaitSleeps(t)
        PROVE  /\ UNCHANGED <<target, wants, before, desired, result>>
               /\ pc[u] = "idle" => pc'[u] = "idle"
    BY <2>3 DEF TypeOK, Wakes, Stirs, Expire, SetAndWaitSets, WaitBlocks,
                WaitSleeps
  <2>4. ASSUME NEW t \in AppThread, t # u,
               \/ t \in Commander /\ Request(t)
               \/ t \in Observer /\ Observe(t)
               \/ Proceed(t)
        PROVE  /\ UNCHANGED <<target[u], wants[u], before[u], desired[u],
                              result[u], pc[u]>>
    BY <2>4
       DEF TypeOK, Request, SetCommand, SetAndWaitCounts, Observe, WaitFor,
           WaitForExchangeCount, StartWait, Proceed, SetAndWaitSets,
           WaitBlocks, WaitSleeps, WaitEmpty, WaitAccepts, WaitRejects,
           Returns, Forgets,
           waitVars
  <2>5. CASE u \in Commander /\ Request(u)
    <3>1. CASE UNCHANGED waitVars
      BY <1>0, <1>F, <2>1, <3>1 DEF waitVars
    <3>2. CASE \E c \in AppCommand : SetAndWaitCounts(u, c)
      BY <1>0, <2>1, <3>2 DEF TypeOK, SetAndWaitCounts, Calls, StartWait, Unseeded
    <3> QED
      BY <2>5, <3>1, <3>2 DEF Request, SetCommand
  <2>6. CASE u \in Observer /\ Observe(u)
    <3>1. PICK n \in Int : /\ before'[u] = n
                           /\ desired'[u] = n + 1
                           /\ pc[u] = "idle"
                           /\ result' = result
      <4>1. CASE \E p \in DOMAIN StatusPredicate : WaitFor(u, p)
        BY <1>0, <4>1 DEF TypeOK, WaitFor, Calls, StartWait
      <4>2. CASE \E n \in 0..MaxExchanges + 1 : WaitForExchangeCount(u, n)
        BY <4>2, ParameterTypes
           DEF TypeOK, WaitForExchangeCount, Calls, StartWait
      <4> QED
        BY <2>6, <4>1, <4>2 DEF Observe
    <3>2. result'[u] = {}
      BY <3>1 DEF Unseeded
    <3> QED
      BY <3>1, <3>2
  <2>7. CASE WaitEmpty(u)
    BY <1>0, <1>I, <2>1, <2>7 DEF TypeOK, WaitEmpty, Returns
  <2>8. CASE WaitAccepts(u)
    <3>1. stamped = Stamp(stamped.count, log[stamped.count + 1])
      BY <1>4 DEF LogInv, RecordsAreExchanges
    <3>2. result'[u] = {stamped} /\ pc'[u] = "returned" /\ Accepts(u, stamped)
          /\ UNCHANGED <<target, wants, before, desired>>
      BY <2>8 DEF TypeOK, WaitAccepts, Returns
    <3>3. before[u] < stamped.count
      BY <1>0, <1>I, <2>8 DEF WaitAccepts, Fresh
    <3>4. \A r \in result'[u] :
            /\ before'[u] < r.count
            /\ r.count <= stamped'.count
            /\ r = Stamp(r.count, log'[r.count + 1])
            /\ Accepts(u, r)'
      <4> SUFFICES /\ before'[u] < stamped.count
                   /\ stamped.count <= stamped'.count
                   /\ stamped = Stamp(stamped.count, log'[stamped.count + 1])
                   /\ Accepts(u, stamped)'
        BY <2>1, <3>2
      <4>1. stamped.count <= stamped'.count
        BY <1>0, <2>1
      <4> QED
        BY <2>1, <3>1, <3>2, <3>3, <4>1
    <3>5. /\ before'[u] < desired'[u]
          /\ \/ desired'[u] = before'[u] + 1
             \/ /\ desired'[u] \in 1..(stamped'.count + 1)
                /\ ~Accepts(u, log[desired[u]])'
      BY <1>I, <2>1, <2>8, <3>2 DEF WaitAccepts
    <3> QED
      BY <3>4, <3>5
  <2>9. CASE WaitRejects(u)
    <3>1. stamped = Stamp(stamped.count, log[stamped.count + 1])
      BY <1>4 DEF LogInv, RecordsAreExchanges
    <3>2. /\ pc[u] = "sync" /\ ~Accepts(u, stamped)
          /\ desired'[u] = stamped.count + 1
          /\ desired[u] <= stamped.count
          /\ UNCHANGED <<pc, target, wants, before, result>>
      BY <1>0, <2>9 DEF TypeOK, WaitRejects, Fresh
    <3>3. ~Accepts(u, log[stamped.count + 1])
      BY <3>1, <3>2 DEF Stamp
    <3>4. result[u] = {}
      BY <3>2 DEF Unseeded
    <3> QED
      BY <1>0, <1>I, <2>1, <3>2, <3>3, <3>4
  <2>10. CASE Forgets(u)
    BY <2>10 DEF TypeOK, Forgets
  <2>11. ASSUME UNCHANGED <<target[u], wants[u], before[u], desired[u],
                            result[u], pc[u]>>
         PROVE  WaitOK(u)'
    BY <1>0, <1>I, <2>1, <2>11
  <2>12. stamped'.count \in Nat /\ stamped.count <= stamped'.count
         /\ \A n \in 1..(stamped.count + 1) : log'[n] = log[n]
    BY <1>0, <2>1
  <2>13. CASE \E t \in AppThread : Wakes(t) \/ Stirs(t) \/ Expire(t)
                                   \/ SetAndWaitSets(t)
                                   \/ WaitBlocks(t) \/ WaitSleeps(t)
    BY <1>F, <2>3, <2>12, <2>13
  <2> QED
    BY <1>4, <2>2, <2>4, <2>5, <2>6, <2>7, <2>8, <2>9, <2>10, <2>11, <2>13
       DEF AppStep, Proceed, AppThread
<1> QED
  BY <1>1, <1>2, <1>3, <1>4, StepKinds

-----------------------------------------------------------------------------
(* The inductive invariant and what it gives.                              *)
IInv ==
    /\ TypeOK
    /\ Unseeded
    /\ LogInv
    /\ WaitInv
    /\ LinkInv
    /\ FreshInv
    /\ SeedKept

(* The inductive invariant holds initially.                                *)
LEMMA InitIInv == Init => IInv
<1> SUFFICES ASSUME Init PROVE IInv
  OBVIOUS
<1>1. TypeOK
  BY InitType
<1>2. Unseeded /\ WaitInv /\ SeedKept
  BY DEF Init, Unseeded, WaitInv, TurnedDown, ResultsAnswerTheCall, SeedKept
<1>3. LogInv /\ LinkInv /\ FreshInv
  BY ParameterTypes
     DEF Init, LogInv, RecordsAreExchanges, FlightLogged, LinkInv,
         CounterCounts, FaultedMeansNoRecordSince, FreshInv, FlightFresh,
         AtMostOneStaleExchange
<1> QED
  BY <1>1, <1>2, <1>3 DEF IInv

(* The inductive invariant is preserved by every step.                     *)
LEMMA NextIInv == IInv /\ [Next]_vars => IInv'
BY NextType, UnseededStep, LogStep, WaitStep, LinkStep, FreshStep, SeedStep
   DEF IInv

(* IInv holds in every reachable state, for every value of the constants.  *)
THEOREM Inductive == Spec => []IInv
BY InitIInv, NextIInv, PTL DEF Spec

(* The image always holds a whole exchange that took place, and every      *)
(* completed exchange is published once and in order.                      *)
THEOREM ImageIsFaithful == Spec => []RecordsAreExchanges
<1>1. IInv => RecordsAreExchanges
  BY DEF IInv, LogInv
<1> QED
  BY <1>1, Inductive, PTL

(* Every wait that returns a record returns one of an exchange completed   *)
(* after the call that its predicate holds for, whatever the threads do.   *)
THEOREM WaitsAreCorrect == Spec => []ResultsAnswerTheCall
<1>1. IInv => ResultsAnswerTheCall
  BY DEF IInv, WaitInv
<1> QED
  BY <1>1, Inductive, PTL

(* The connection state is Faulted exactly after kFaultThreshold failures  *)
(* without a record, for every threshold below the counter's modulus.      *)
THEOREM LinkStateIsExact == Spec => []FaultedMeansNoRecordSince
<1>1. IInv => FaultedMeansNoRecordSince
  BY DEF IInv, LinkInv
<1> QED
  BY <1>1, Inductive, PTL

(* At most one exchange after a setCommand carries an older block.         *)
THEOREM CommandsAreFresh == Spec => []AtMostOneStaleExchange
<1>1. IInv => AtMostOneStaleExchange
  BY DEF IInv, FreshInv
<1> QED
  BY <1>1, Inductive, PTL

(* Until the application sets a command the gripper keeps doing what it    *)
(* did.                                                                    *)
THEOREM AttachIsSafe == Spec => AttachMovesNothing
<1>1. IInv /\ [Next]_vars =>
        [~asked' => /\ gripper'.act = gripper.act
                    /\ gripper'.pos = gripper.pos
                    /\ gripper'.gto => gripper.gto]_vars
  BY SeedMoves DEF IInv
<1> QED
  BY <1>1, Inductive, PTL DEF Spec, AttachMovesNothing

(* A wait that returns empty has not overlooked the newest record.         *)
THEOREM EmptyIsHonest == Spec => EmptyMeansNotYet
<1>1. IInv /\ [Next]_vars =>
        [\A t \in AppThread :
           pc[t] = "sync" /\ pc'[t] = "returned" /\ result'[t] = {} =>
             \/ stamped.count <= before[t]
             \/ ~Accepts(t, stamped)]_vars
  <2> SUFFICES ASSUME IInv, [Next]_vars, NEW t \in AppThread,
                      pc[t] = "sync", pc'[t] = "returned", result'[t] = {},
                      ~(stamped.count <= before[t]), Accepts(t, stamped)
               PROVE  FALSE
    OBVIOUS
  <2>0. /\ stamped.count \in Nat /\ before[t] \in Int /\ desired[t] \in Nat
        /\ pc \in [AppThread -> {"idle", "set", "sync", "entering", "asleep",
                             "returned"}]
        /\ result \in [AppThread -> SUBSET Record]
    BY DEF IInv, TypeOK, Record
  <2>1. WaitEmpty(t)
    <3>1. ~(Construct \/ Cycle)
      BY ConstructFrame, <2>0
         DEF Cycle, CycleCheck, CycleLatch, GripperApplies, CycleAnswered,
             CycleState, CyclePublish, CycleNotify, NotifyAll, CycleFails,
             CycleSleep, waitVars
    <3>2. PICK u \in AppThread : \/ u \in Commander /\ Request(u)
                                 \/ u \in Observer /\ Observe(u)
                                 \/ Proceed(u)
                                 \/ Wakes(u)
                                 \/ Stirs(u)
                                 \/ Expire(u)
      BY <3>1, <2>0, StepKinds
         DEF AppStep, StopRunning, Destroy, StopCloses, StopNotifies, StopJoins,
             NotifyAll, vars, waitVars, AppThread
    <3>3. u = t /\ (WaitEmpty(t) \/ WaitAccepts(t))
      BY <2>0, <3>2
         DEF Request, SetCommand, SetAndWaitCounts, Calls, StartWait, Observe,
             WaitFor, WaitForExchangeCount, Proceed, SetAndWaitSets,
             WaitBlocks, WaitSleeps, WaitEmpty, WaitAccepts, WaitRejects,
             Forgets, Returns,
             Wakes, Stirs, Expire, waitVars
    <3>4. ~WaitAccepts(t)
      BY <2>0 DEF WaitAccepts, Returns
    <3> QED
      BY <3>3, <3>4
  <2>2. stamped.count < desired[t]
    BY <2>0, <2>1 DEF WaitEmpty, Fresh
  <2>3. desired[t] = stamped.count + 1 /\ ~Accepts(t, log[stamped.count + 1])
    BY <2>0, <2>2 DEF IInv, WaitInv, TurnedDown
  <2>4. stamped = Stamp(stamped.count, log[stamped.count + 1])
    BY DEF IInv, Unseeded, LogInv, RecordsAreExchanges
  <2>5. Accepts(t, log[stamped.count + 1])
    BY <2>4 DEF Accepts, Stamp
  <2> QED
    BY <2>3, <2>5
<1> QED
  BY <1>1, Inductive, PTL DEF Spec, EmptyMeansNotYet

-----------------------------------------------------------------------------
(* The refinement: the driver implements the promise the process image     *)
(* makes to the threads that wait on it.                                   *)

(* The image is open until the destructor, or a failed construction,       *)
(* closes it, and nobody is in a call before the constructor returns.      *)
OpenInv ==
    /\ closed => life \in {"closing", "joining", "gone", "failed"}
    /\ life \in {"reading", "seeded", "failed"} =>
         \A t \in AppThread : pc[t] = "idle"

(* Every step keeps it so.                                                 *)
LEMMA OpenStep == TypeOK /\ OpenInv /\ [Next]_vars => OpenInv'
<1> SUFFICES ASSUME TypeOK, OpenInv, [Next]_vars PROVE OpenInv'
  OBVIOUS
<1>1. CASE Construct
  BY <1>1 DEF OpenInv, Construct, InitialReadFails, InitialReadAnswers, Start,
              StartFails, imageVars, waitVars
<1>2. CASE Cycle
  <2>1. UNCHANGED <<closed, life>>
    BY <1>2, CycleFrame DEF lifeVars
  <2>2. \A t \in AppThread : pc[t] = "idle" => pc'[t] = "idle"
    BY <1>2 DEF Cycle, CycleCheck, CycleLatch, GripperApplies, CycleAnswered,
                CycleState, CyclePublish, CycleNotify, NotifyAll, CycleFails,
                CycleSleep, waitVars
  <2> QED
    BY <2>1, <2>2 DEF OpenInv
<1>3. CASE StopRunning \/ Destroy \/ UNCHANGED vars
  BY <1>3 DEF OpenInv, StopRunning, Destroy, StopCloses, StopNotifies,
              StopJoins, vars, lifeVars, imageVars, waitVars
<1>4. ASSUME NEW t \in AppThread,
             Request(t) \/ Observe(t) \/ Proceed(t) \/ Wakes(t) \/ Stirs(t) \/ Expire(t)
      PROVE  OpenInv'
  <2>1. UNCHANGED <<closed, life>>
    BY <1>4 DEF Request, SetCommand, SetAndWaitCounts, Observe, WaitFor,
                WaitForExchangeCount, Proceed, SetAndWaitSets, WaitBlocks,
                WaitSleeps,
                WaitEmpty, WaitAccepts, WaitRejects, Forgets, Wakes, Stirs,
                Expire,
                lifeVars, imageVars
  <2>2. life \notin {"reading", "seeded", "failed"}
    BY <1>4 DEF OpenInv, Request, SetCommand, SetAndWaitCounts, Calls, Observe,
                WaitFor, WaitForExchangeCount, Proceed, SetAndWaitSets,
                WaitBlocks, WaitSleeps, WaitEmpty, WaitAccepts, WaitRejects,
                Forgets,
                Wakes, Stirs, Expire
  <2> QED
    BY <2>1, <2>2 DEF OpenInv
<1> QED
  BY <1>1, <1>2, <1>3, <1>4, StepKinds DEF AppStep, AppThread

-----------------------------------------------------------------------------
(* What a waiter sees of the image, and of the waits of the others.        *)
WaiterVars == <<ImageAt, ImageDesired, ImageExpired>>
SharedVars == <<stamped.count, ImageClosed, ImageOwed>>

(* The waiters' view depends on the wait variables only.                   *)
LEMMA WaiterFrame ==
    UNCHANGED <<pc, desired, expired>> => UNCHANGED WaiterVars
BY DEF WaiterVars, ImageAt, ImageDesired, ImageExpired, InSync

(* The shared view depends on the count, the close and the notifications.  *)
LEMMA SharedFrame ==
    UNCHANGED <<stamped, closed, life, cycle>> => UNCHANGED SharedVars
BY DEF SharedVars, ImageClosed, ImageOwed

(* Who is due for a notification depends on what is owed and who sleeps.   *)
LEMMA DueFrame == UNCHANGED <<ImageAt, ImageOwed>> => UNCHANGED ImageDue
<1>1. \A t \in AppThread : /\ pc[t] = "asleep" <=> ImageAt[t] = "asleep"
                           /\ pc'[t] = "asleep" <=> ImageAt'[t] = "asleep"
  BY DEF ImageAt, InSync
<1> QED
  BY <1>1 DEF ImageDue

(* All who sleep are due for what is owed, and stay so.                    *)
LEMMA DueMaps == Contract!Due
<1>1. \A t \in AppThread : /\ pc[t] = "asleep" <=> ImageAt[t] = "asleep"
                           /\ pc'[t] = "asleep" <=> ImageAt'[t] = "asleep"
  BY DEF ImageAt, InSync
<1>2. \A n \in Contract!Change :
        ImageDue'[n] = {t \in AppThread : n \in ImageOwed' /\ pc'[t] = "asleep"}
  BY DEF ImageDue, Contract!Change
<1>3. ImageDue' \in [Contract!Change -> SUBSET AppThread]
  BY DEF ImageDue, Contract!Change
<1> QED
  BY <1>1, <1>2, <1>3 DEF Contract!Due

(* A notification sends every sleeping thread back to check.               *)
LEMMA NotifyMaps ==
    ASSUME TypeOK, NotifyAll, UNCHANGED <<desired, expired>>,
           UNCHANGED <<stamped, ImageClosed>>, NEW n \in Contract!Change
    PROVE  Contract!Stirs /\ \A t \in ImageDue[n] : ImageAt'[t] = "check"
<1>1. UNCHANGED <<ImageDesired, ImageExpired>>
  BY DEF TypeOK, NotifyAll, ImageDesired, ImageExpired, InSync
<1>2. ImageAt' \in [AppThread -> Contract!Place]
  BY DEF TypeOK, NotifyAll, ImageAt, InSync, Contract!Place
<1>3. \A t \in AppThread :
        \/ ImageAt'[t] = ImageAt[t]
        \/ ImageAt[t] \in {"entering", "asleep"} /\ ImageAt'[t] = "check"
  BY DEF TypeOK, NotifyAll, ImageAt, InSync
<1>4. \A t \in ImageDue[n] : ImageAt'[t] = "check"
  BY DEF TypeOK, NotifyAll, ImageAt, ImageDue, InSync, Contract!Change
<1> QED
  BY <1>1, <1>2, <1>3, <1>4 DEF Contract!Stirs

(* The constructor is no step of the image, or one that nobody sees.       *)
LEMMA ConstructMaps ==
    TypeOK /\ Unseeded /\ OpenInv /\ Construct => UNCHANGED Contract!vars
<1> SUFFICES ASSUME TypeOK, Unseeded, OpenInv, Construct
             PROVE  UNCHANGED Contract!vars
  OBVIOUS
<1>1. UNCHANGED WaiterVars
  BY ConstructFrame, WaiterFrame DEF waitVars
<1>2. UNCHANGED stamped.count
  BY DEF Construct, InitialReadFails, InitialReadAnswers, Start, StartFails,
         imageVars, Unseeded, Stamp
<1>3. UNCHANGED ImageClosed
  BY DEF Construct, InitialReadFails, InitialReadAnswers, Start, StartFails,
         imageVars, ImageClosed, OpenInv
<1>4. UNCHANGED ImageOwed
  BY DEF Construct, InitialReadFails, InitialReadAnswers, Start, StartFails,
         cycleVars, Unseeded, ImageOwed
<1> QED
  BY <1>1, <1>2, <1>3, <1>4, DueFrame DEF Contract!vars, WaiterVars

(* The exchange thread publishes, notifies, or does nothing to the image.  *)
LEMMA CycleMaps ==
    TypeOK /\ Cycle =>
      Contract!Publish \/ Contract!Notify("publish") \/ UNCHANGED Contract!vars
<1> SUFFICES ASSUME TypeOK, Cycle
             PROVE  \/ Contract!Publish
                    \/ Contract!Notify("publish")
                    \/ UNCHANGED Contract!vars
  OBVIOUS
<1>1. CASE CyclePublish
  <2>1. UNCHANGED WaiterVars /\ UNCHANGED ImageClosed
    BY <1>1, WaiterFrame
       DEF CyclePublish, waitVars, lifeVars, ImageClosed
  <2>2. stamped'.count = stamped.count + 1
    BY <1>1 DEF CyclePublish, Published
  <2>3. /\ "publish" \notin ImageOwed
        /\ ImageOwed' = ImageOwed \cup {"publish"}
    BY <1>1 DEF CyclePublish, lifeVars, ImageOwed
  <2> QED
    BY <2>1, <2>2, <2>3 DEF Contract!Publish, WaiterVars
<1>2. CASE CycleNotify
  <2>1. NotifyAll /\ UNCHANGED <<desired, expired, stamped, ImageClosed>>
    BY <1>2 DEF CycleNotify, lifeVars, imageVars, ImageClosed
  <2>2. /\ "publish" \in ImageOwed
        /\ ImageOwed' = ImageOwed \ {"publish"}
    BY <1>2 DEF CycleNotify, CycleEnds, lifeVars, ImageOwed
  <2> QED
    BY <2>1, <2>2, NotifyMaps DEF Contract!Notify, Contract!Change
<1>3. CASE Cycle /\ ~CyclePublish /\ ~CycleNotify
  <2>1. UNCHANGED <<stamped, closed, life, pc, desired, expired>>
    BY <1>3 DEF Cycle, CycleCheck, CycleLatch, GripperApplies, CycleAnswered,
                CycleState, CycleFails, CycleSleep, lifeVars, imageVars,
                waitVars
  <2>2. cycle # "notify" /\ cycle' # "notify"
    BY <1>3 DEF Cycle, CycleCheck, Loop, CycleLatch, GripperApplies,
                CycleAnswered, CycleState, CycleFails, CycleSleep, CycleEnds
  <2>3. UNCHANGED <<ImageClosed, ImageOwed>>
    BY <2>1, <2>2 DEF ImageClosed, ImageOwed
  <2> QED
    BY <2>1, <2>3, WaiterFrame, DueFrame DEF Contract!vars, WaiterVars
<1> QED
  BY <1>1, <1>2, <1>3

(* The destructor closes, notifies, or does nothing to the image.          *)
LEMMA StopMaps ==
    TypeOK /\ OpenInv /\ (StopRunning \/ Destroy) =>
      Contract!Close \/ Contract!Notify("close") \/ UNCHANGED Contract!vars
<1> SUFFICES ASSUME TypeOK, OpenInv, StopRunning \/ Destroy
             PROVE  \/ Contract!Close
                    \/ Contract!Notify("close")
                    \/ UNCHANGED Contract!vars
  OBVIOUS
<1>1. CASE StopCloses
  <2>1. UNCHANGED WaiterVars /\ UNCHANGED stamped
    BY <1>1, WaiterFrame DEF StopCloses, waitVars
  <2>2. ~ImageClosed /\ ImageClosed' = TRUE
    BY <1>1 DEF StopCloses, ImageClosed, OpenInv, TypeOK
  <2>3. ImageOwed' = ImageOwed \cup {"close"}
    BY <1>1 DEF StopCloses, cycleVars, ImageOwed
  <2> QED
    BY <2>1, <2>2, <2>3 DEF Contract!Close, WaiterVars
<1>2. CASE StopNotifies
  <2>1. NotifyAll /\ UNCHANGED <<desired, expired, stamped, ImageClosed>>
    BY <1>2 DEF StopNotifies, imageVars, ImageClosed
  <2>2. "close" \in ImageOwed /\ ImageOwed' = ImageOwed \ {"close"}
    BY <1>2 DEF StopNotifies, cycleVars, ImageOwed
  <2> QED
    BY <2>1, <2>2, NotifyMaps DEF Contract!Notify, Contract!Change
<1>3. CASE StopRunning \/ StopJoins
  <2>1. UNCHANGED WaiterVars /\ UNCHANGED <<stamped, ImageClosed, ImageOwed>>
    BY <1>3, WaiterFrame DEF StopRunning, StopJoins, imageVars, cycleVars,
                             waitVars, ImageClosed, ImageOwed
  <2> QED
    BY <2>1, DueFrame DEF Contract!vars, WaiterVars
<1> QED
  BY <1>1, <1>2, <1>3 DEF Destroy

-----------------------------------------------------------------------------
(* The application: a step of one thread, which others do not see.         *)

(* A thread enters sync.                                                   *)
LEMMA CallMaps ==
    ASSUME TypeOK, NEW t \in AppThread, UNCHANGED SharedVars,
           pc[t] \in {"idle", "set"}, pc' = [pc EXCEPT ![t] = "sync"],
           desired' = [desired EXCEPT ![t] = desired'[t]], desired'[t] \in Nat,
           UNCHANGED expired
    PROVE  Contract!Call(t)
<1>1. /\ ImageAt[t] = "out"
      /\ ImageAt' = [ImageAt EXCEPT ![t] = "check"]
  BY DEF TypeOK, ImageAt, InSync
<1>2. /\ ImageDesired'[t] \in Nat
      /\ ImageDesired' = [ImageDesired EXCEPT ![t] = ImageDesired'[t]]
  BY DEF TypeOK, ImageDesired, InSync
<1>3. /\ ImageExpired'[t] \in BOOLEAN
      /\ ImageExpired' = [ImageExpired EXCEPT ![t] = ImageExpired'[t]]
  BY DEF TypeOK, ImageExpired, InSync
<1> QED
  BY <1>1, <1>2, <1>3 DEF Contract!Call, SharedVars

(* A thread leaves sync.                                                   *)
LEMMA LeaveMaps ==
    ASSUME TypeOK, NEW t \in AppThread, UNCHANGED SharedVars,
           pc[t] = "sync", pc' = [pc EXCEPT ![t] = "returned"],
           stamped.count >= desired[t] \/ ImageClosed \/ expired[t],
           UNCHANGED <<desired, expired>>
    PROVE  Contract!Leave(t)
<1>1. /\ ImageAt[t] = "check"
      /\ ImageAt' = [ImageAt EXCEPT ![t] = "out"]
  BY DEF TypeOK, ImageAt, InSync
<1>2. /\ ImageDesired[t] = desired[t]
      /\ ImageDesired' = [ImageDesired EXCEPT ![t] = 0]
  BY DEF TypeOK, ImageDesired, InSync
<1>3. /\ ImageExpired[t] = expired[t]
      /\ ImageExpired' = [ImageExpired EXCEPT ![t] = FALSE]
  BY DEF TypeOK, ImageExpired, InSync
<1> QED
  BY <1>1, <1>2, <1>3 DEF Contract!Leave, Contract!Reached, SharedVars

(* A thread that is not in sync before and after a step shows nothing.     *)
LEMMA OutsideMaps ==
    ASSUME TypeOK, NEW t \in AppThread, UNCHANGED SharedVars,
           ~InSync(t), ~InSync(t)',
           \A u \in AppThread \ {t} :
             UNCHANGED <<pc[u], desired[u], expired[u]>>
    PROVE  UNCHANGED Contract!vars
<1>1. UNCHANGED ImageAt
  BY DEF TypeOK, ImageAt, InSync
<1>2. UNCHANGED ImageDesired
  BY DEF TypeOK, ImageDesired, InSync
<1>3. UNCHANGED ImageExpired
  BY DEF TypeOK, ImageExpired, InSync
<1> QED
  BY <1>1, <1>2, <1>3, DueFrame DEF Contract!vars, SharedVars

(* What one thread may do to the image, as its promise has it.             *)
Waits(t) == \/ Contract!Call(t) \/ Contract!Block(t) \/ Contract!Sleep(t)
            \/ Contract!Leave(t) \/ Contract!Again(t) \/ Contract!Expire(t)
            \/ Contract!Wake

(* A call to the gripper enters sync, or stays out of it.                  *)
LEMMA RequestMaps ==
    ASSUME TypeOK, Unseeded, NEW t \in AppThread, Request(t) \/ Observe(t)
    PROVE  Waits(t) \/ UNCHANGED Contract!vars
<1>0. stamped.count \in Nat /\ MaxExchanges \in Nat
  BY ParameterTypes DEF TypeOK, Record
<1>1. UNCHANGED SharedVars
  BY SharedFrame
     DEF Request, SetCommand, SetAndWaitCounts, Observe, WaitFor,
         WaitForExchangeCount, lifeVars, imageVars, cycleVars
<1>2. CASE Request(t)
  <2>1. ~InSync(t) /\ ~InSync(t)'
    BY <1>2 DEF TypeOK, Request, SetCommand, SetAndWaitCounts, StartWait, Calls,
                waitVars, InSync
  <2>2. \A u \in AppThread \ {t} : UNCHANGED <<pc[u], desired[u], expired[u]>>
    BY <1>2 DEF TypeOK, Request, SetCommand, SetAndWaitCounts, StartWait,
                waitVars
  <2> QED
    BY <1>1, <2>1, <2>2, OutsideMaps
<1>3. CASE \E p \in DOMAIN StatusPredicate : WaitFor(t, p)
  <2>1. Contract!Call(t)
    <3>1. /\ pc[t] = "idle" /\ pc' = [pc EXCEPT ![t] = "sync"]
          /\ desired' = [desired EXCEPT ![t] = stamped.count + 1]
          /\ UNCHANGED expired
      BY <1>3 DEF WaitFor, StartWait, Calls
    <3>2. desired'[t] = stamped.count + 1
      BY <3>1 DEF TypeOK
    <3>3. desired' = [desired EXCEPT ![t] = desired'[t]]
      BY <3>1, <3>2
    <3>4. desired'[t] \in Nat /\ pc[t] \in {"idle", "set"}
      BY <1>0, <3>1, <3>2
    <3> QED
      BY <1>1, <3>1, <3>3, <3>4, CallMaps
  <2> QED
    BY <2>1 DEF Waits
<1>4. CASE \E n \in 0..MaxExchanges + 1 : WaitForExchangeCount(t, n)
  <2>1. PICK n \in 0..MaxExchanges + 1 : WaitForExchangeCount(t, n)
    BY <1>4
  <2>2. /\ pc[t] = "idle" /\ pc' = [pc EXCEPT ![t] = "sync"]
        /\ desired' = [desired EXCEPT ![t] = n]
        /\ UNCHANGED expired
    BY <1>0, <2>1 DEF WaitForExchangeCount, StartWait, Calls
  <2>3. desired'[t] = n
    BY <2>2 DEF TypeOK
  <2>4. desired' = [desired EXCEPT ![t] = desired'[t]]
    BY <2>2, <2>3
  <2>5. desired'[t] \in Nat /\ pc[t] \in {"idle", "set"}
    BY <1>0, <2>2, <2>3
  <2>6. Contract!Call(t)
    BY <1>1, <2>2, <2>4, <2>5, CallMaps
  <2> QED
    BY <2>6 DEF Waits
<1> QED
  BY <1>2, <1>3, <1>4 DEF Observe

(* A thread in a call checks, blocks, wakes and leaves as sync may.        *)
LEMMA ProceedMaps ==
    ASSUME TypeOK, OpenInv, NEW t \in AppThread,
           Proceed(t) \/ Wakes(t) \/ Stirs(t) \/ Expire(t)
    PROVE  Waits(t) \/ UNCHANGED Contract!vars
<1>0. stamped.count \in Nat /\ desired[t] \in Nat /\ expired[t] \in BOOLEAN
  BY DEF TypeOK, Record
<1>1. UNCHANGED SharedVars
  BY SharedFrame
     DEF Proceed, SetAndWaitSets, WaitBlocks, WaitSleeps, WaitEmpty,
         WaitAccepts,
         WaitRejects, Forgets, Wakes, Stirs, Expire, lifeVars, imageVars, cycleVars
<1>2. CASE SetAndWaitSets(t)
  <2>1. /\ pc[t] \in {"idle", "set"} /\ pc' = [pc EXCEPT ![t] = "sync"]
        /\ UNCHANGED <<desired, expired>>
    BY <1>2 DEF SetAndWaitSets
  <2>2. desired' = [desired EXCEPT ![t] = desired'[t]] /\ desired'[t] \in Nat
    BY <1>0, <2>1 DEF TypeOK
  <2>3. Contract!Call(t)
    BY <1>1, <2>1, <2>2, CallMaps
  <2> QED
    BY <2>3 DEF Waits
<1>3. CASE WaitBlocks(t)
  <2>1. /\ pc[t] = "sync" /\ pc' = [pc EXCEPT ![t] = "entering"]
        /\ UNCHANGED <<desired, expired>>
        /\ ~(stamped.count >= desired[t]) /\ ~closed /\ ~expired[t]
    BY <1>3 DEF WaitBlocks, WaitSleeps, Fresh, GivesUp
  <2>2. /\ ImageAt[t] = "check"
        /\ ImageAt' = [ImageAt EXCEPT ![t] = "entering"]
        /\ ImageDesired[t] = desired[t] /\ ~ImageExpired[t] /\ ~ImageClosed
        /\ UNCHANGED <<ImageDesired, ImageExpired>>
    BY <2>1 DEF TypeOK, ImageAt, ImageDesired, ImageExpired, ImageClosed, InSync
  <2>3. Contract!Block(t)
    BY <1>1, <2>1, <2>2 DEF Contract!Block, Contract!Reached, SharedVars
  <2> QED
    BY <2>3 DEF Waits
<1>4. CASE WaitEmpty(t) \/ WaitAccepts(t)
  <2>1. /\ pc[t] = "sync" /\ pc' = [pc EXCEPT ![t] = "returned"]
        /\ UNCHANGED <<desired, expired>>
    BY <1>4 DEF WaitEmpty, WaitAccepts, Returns
  <2>2. life # "failed" \/ ~closed \/ stamped.count >= desired[t] \/ expired[t]
    BY <2>1 DEF OpenInv
  <2>3. stamped.count >= desired[t] \/ ImageClosed \/ expired[t]
    BY <1>4, <2>2 DEF WaitEmpty, WaitAccepts, Fresh, GivesUp, ImageClosed
  <2>4. Contract!Leave(t)
    BY <1>1, <2>1, <2>3, LeaveMaps
  <2> QED
    BY <2>4 DEF Waits
<1>5. CASE WaitRejects(t)
  <2>1. /\ pc[t] = "sync"
        /\ desired' = [desired EXCEPT ![t] = stamped.count + 1]
        /\ UNCHANGED <<pc, expired>>
        /\ stamped.count >= desired[t]
    BY <1>5 DEF WaitRejects, Fresh
  <2>2. /\ ImageAt[t] = "check"
        /\ ImageDesired[t] = desired[t]
        /\ ImageDesired' = [ImageDesired EXCEPT ![t] = stamped.count + 1]
        /\ UNCHANGED <<ImageAt, ImageExpired>>
    BY <2>1 DEF TypeOK, ImageAt, ImageDesired, ImageExpired, InSync
  <2>3. Contract!Again(t)
    BY <1>1, <2>1, <2>2 DEF Contract!Again, Contract!Reached, SharedVars
  <2> QED
    BY <2>3 DEF Waits
<1>6. CASE Forgets(t)
  <2>1. ~InSync(t) /\ ~InSync(t)'
    BY <1>6 DEF TypeOK, Forgets, InSync
  <2>2. \A u \in AppThread \ {t} : UNCHANGED <<pc[u], desired[u], expired[u]>>
    BY <1>6 DEF TypeOK, Forgets
  <2> QED
    BY <1>1, <2>1, <2>2, OutsideMaps
<1>7. CASE Wakes(t) \/ Stirs(t)
  <2>1. UNCHANGED <<ImageDesired, ImageExpired>>
    BY <1>7 DEF Wakes, Stirs, TypeOK, ImageDesired, ImageExpired, InSync
  <2>2. ImageAt' \in [AppThread -> Contract!Place]
    BY <1>7 DEF Wakes, Stirs, TypeOK, ImageAt, InSync, Contract!Place
  <2>3. \A u \in AppThread :
          \/ ImageAt'[u] = ImageAt[u]
          \/ ImageAt[u] \in {"entering", "asleep"} /\ ImageAt'[u] = "check"
          \/ ImageAt[u] = "asleep" /\ ImageAt'[u] = "entering"
    BY <1>7 DEF Wakes, Stirs, TypeOK, ImageAt, InSync
  <2>4. Contract!Wake
    BY <1>1, <2>1, <2>2, <2>3 DEF Contract!Wake, Contract!Stirs, SharedVars
  <2> QED
    BY <2>4 DEF Waits
<1>10. CASE WaitSleeps(t)
  <2>1. /\ ImageAt[t] = "entering"
        /\ ImageAt' = [ImageAt EXCEPT ![t] = "asleep"]
        /\ UNCHANGED <<ImageDesired, ImageExpired>>
    BY <1>10 DEF WaitSleeps, TypeOK, ImageAt, ImageDesired, ImageExpired, InSync
  <2>2. Contract!Sleep(t)
    BY <1>1, <2>1 DEF Contract!Sleep, SharedVars
  <2> QED
    BY <2>2 DEF Waits
<1>8. CASE Expire(t) /\ InSync(t)
  <2>1. /\ ImageAt[t] # "out"
        /\ ImageExpired' = [ImageExpired EXCEPT ![t] = TRUE]
        /\ UNCHANGED <<ImageAt, ImageDesired>>
    BY <1>8 DEF Expire, TypeOK, ImageAt, ImageDesired, ImageExpired, InSync
  <2>2. Contract!Expire(t)
    BY <1>1, <2>1 DEF Contract!Expire, SharedVars
  <2> QED
    BY <2>2 DEF Waits
<1>9. CASE Expire(t) /\ ~InSync(t)
  <2>1. ~InSync(t)'
    BY <1>9 DEF Expire, InSync
  <2>2. \A u \in AppThread \ {t} : UNCHANGED <<pc[u], desired[u], expired[u]>>
    BY <1>9 DEF TypeOK, Expire
  <2> QED
    BY <1>1, <1>9, <2>1, <2>2, OutsideMaps
<1> QED
  BY <1>2, <1>3, <1>4, <1>5, <1>6, <1>7, <1>8, <1>9, <1>10 DEF Proceed

-----------------------------------------------------------------------------
(* The initial states map to the initial state of the image.               *)
LEMMA InitMaps == Init => Contract!Init
BY DEF Init, Contract!Init, Contract!Change, ImageClosed, ImageOwed, ImageDue,
       ImageAt, ImageDesired, ImageExpired, InSync

(* Every step maps to a step of the image, or to none.                     *)
LEMMA NextMaps ==
    TypeOK /\ Unseeded /\ OpenInv /\ [Next]_vars =>
      [Contract!Next]_(Contract!vars)
<1> SUFFICES ASSUME TypeOK, Unseeded, OpenInv, [Next]_vars
             PROVE  Contract!Next \/ UNCHANGED Contract!vars
  OBVIOUS
<1>1. CASE Construct
  BY <1>1, ConstructMaps
<1>2. CASE Cycle
  BY <1>2, CycleMaps, DueMaps DEF Contract!Next, Contract!Change
<1>3. CASE StopRunning \/ Destroy
  BY <1>3, StopMaps, DueMaps DEF Contract!Next, Contract!Change
<1>4. ASSUME NEW t \in AppThread,
             Request(t) \/ Observe(t) \/ Proceed(t) \/ Wakes(t) \/ Stirs(t) \/ Expire(t)
      PROVE  Contract!Next \/ UNCHANGED Contract!vars
  <2>1. Waits(t) \/ UNCHANGED Contract!vars
    BY <1>4, RequestMaps, ProceedMaps
  <2> QED
    BY <2>1, DueMaps DEF Waits, Contract!Next
<1>5. CASE UNCHANGED vars
  BY <1>5, WaiterFrame, SharedFrame, DueFrame
     DEF vars, lifeVars, imageVars, cycleVars, waitVars, Contract!vars,
         WaiterVars, SharedVars
<1> QED
  BY <1>1, <1>2, <1>3, <1>4, <1>5, StepKinds DEF AppStep, AppThread

(* The driver implements the promise of its process image, for any number  *)
(* of threads, exchanges and failures: waiters return only for a record,   *)
(* the close or their deadline, every change is followed by a              *)
(* notification, and who sleeps through the change checks again after it.  *)
THEOREM ImageWaitImplemented == Spec => ImplementsImageWait
<1>1. Init => OpenInv
  BY DEF Init, OpenInv
<1>2. IInv => TypeOK /\ Unseeded
  BY DEF IInv
<1> QED
  BY <1>1, <1>2, OpenStep, InitMaps, NextMaps, Inductive, PTL
     DEF Spec, ImplementsImageWait, Contract!Spec
=============================================================================
