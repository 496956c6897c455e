------------------------ MODULE Activation_proofs ------------------------
(***************************************************************************)
(* activate and recoverFromFault keep their promises to the application    *)
(* whatever the gripper and the link do, power failures included.          *)
(***************************************************************************)
EXTENDS Activation, TLAPS

-----------------------------------------------------------------------------
(* The inductive invariant.                                                *)

(* The gripper reports an activation, or a fault, only of a block with     *)
(* rACT, and has then seen its edge; a procedure that runs has no result.  *)
Sound ==
    /\ dev.act => dev.edge
    /\ dev.sta # "Reset" => dev.act
    /\ dev.flt # "None" => dev.act
    /\ op = "none" <=> at = "idle"
    /\ op # "none" => result = "none"

(* What an answer on its way still says about the gripper: a power cycle   *)
(* is all that can have come between.                                      *)
AnswerSound ==
    link = "applied" =>
      /\ sample.act = copy.act
      /\ ~copy.act => sample.sta = "Reset"
      /\ dev.sta # "Reset" =>
           /\ sample.sta # "Reset"
           /\ sample.flt = "Major" => dev.flt = "Major"

(* Nothing on the image or the wire asks for a reset.                      *)
KeepsAct == command.act /\ (link # "idle" => copy.act)

(* What lets activate recognise a gripper it must leave alone, in the      *)
(* first record that comes out after the call.                             *)
HealthyKept ==
    op = "activate" /\ spared = "healthy" =>
      /\ at \in {"startOperational", "awaitOperational", "startComplete",
                 "awaitComplete"}
      /\ KeepsAct
      /\ dev.sta # "Reset" /\ dev.flt # "Major"
      /\ at = "awaitOperational" /\ fresh =>
           record.sta # "Reset" /\ record.flt # "Major"

FaultKept ==
    op = "activate" /\ spared = "faulted" =>
      /\ at \in {"startOperational", "awaitOperational"}
      /\ KeepsAct
      /\ dev.flt = "Major"
      /\ link = "applied" => sample.flt = "Major"
      /\ at = "awaitOperational" /\ fresh => record.flt = "Major"

(* The image between the call and the return.                              *)
CommandKept ==
    /\ at \in {"startOperational", "awaitOperational", "handshake"} => command = called
    /\ at \in {"startDeactivated", "awaitDeactivated", "restore", "reactivate"} =>
         previous = called
    /\ at \in {"startComplete", "awaitComplete"} =>
         command = called \/ command = ActivateBlock

(* The gripper was reset since the call, and no activation began since.    *)
Emptied == trail = "reset" /\ dev.sta = "Reset" /\ ~dev.act

(* A record came out since the call, so what is on the wire is newer.      *)
Synced ==
    \/ at = "awaitOperational" /\ fresh
    \/ at \in {"handshake", "startDeactivated", "awaitDeactivated"}

(* The handshake believes the gripper reset only when it is, with no block *)
(* on the wire that could start the activation early ...                   *)
ResetSeen ==
    op = "recoverFromFault" =>
      /\ Synced /\ link = "applied" /\ ~copy.act => Emptied
      /\ at \in {"startDeactivated", "awaitDeactivated", "reactivate"} => ~command.act
      /\ at = "reactivate" \/ (at = "awaitDeactivated" /\ fresh /\ ~record.act) =>
           Emptied /\ (link # "idle" => ~copy.act)

(* ... so that what it then sees complete is the activation it asked for.  *)
SweepSeen ==
    op = "recoverFromFault" /\ at \in {"startComplete", "awaitComplete"} =>
      /\ command.act /\ trail # "none"
      /\ dev.sta = "InProgress" => trail \in {"rising", "swept"}
      /\ dev.sta = "Complete" => trail = "swept"
      /\ link = "applied" /\ sample.sta = "Complete" => trail = "swept"
      /\ at = "awaitComplete" /\ fresh /\ record.sta = "Complete" =>
           trail = "swept" /\ (link # "idle" => copy.act)

IInv == /\ TypeOK /\ Sound /\ AnswerSound
        /\ HealthyKept /\ FaultKept /\ CommandKept /\ ResetSeen /\ SweepSeen

-----------------------------------------------------------------------------
(* What the steps of the gripper do to it, field by field.                 *)
(* A block the gripper applies.                                            *)
LEMMA ApplyFacts ==
  ASSUME TypeOK, Apply
  PROVE  /\ dev' \in Device
         /\ dev'.act = copy.act /\ dev'.edge = copy.act
         /\ dev'.flt = (IF copy.act THEN dev.flt ELSE "None")
         /\ ~copy.act => dev'.sta = "Reset"
         /\ copy.act /\ ~dev.edge => dev'.sta \in {"InProgress", "Complete"}
         /\ copy.act /\ dev.edge => dev'.sta = dev.sta
         /\ sample' \in Status
         /\ sample'.act = dev'.act /\ sample'.sta = dev'.sta /\ sample'.flt = dev'.flt
<1> USE DEF TypeOK
<1> DEFINE S == IF ~copy.act THEN {"Reset"}
                ELSE IF ~dev.edge THEN {"InProgress", "Complete"}
                ELSE {dev.sta}
<1>1. PICK s \in S :
        dev' = [act |-> copy.act, gto |-> copy.gto, edge |-> copy.act,
                sta |-> s, flt |-> IF copy.act THEN dev.flt ELSE "None"]
  BY DEF Apply, Applied
<1>2. copy.act \in BOOLEAN /\ copy.gto \in BOOLEAN /\ dev.edge \in BOOLEAN
  BY DEF Block, Device
<1>3. dev.sta \in ActivationState /\ dev.flt \in FaultSeverity
  BY DEF Device
<1>4. s \in ActivationState /\ (IF copy.act THEN dev.flt ELSE "None") \in FaultSeverity
  BY <1>3 DEF ActivationState, FaultSeverity
<1>5. dev' \in Device
  BY <1>1, <1>2, <1>4 DEF Device
<1>6. /\ dev'.act = copy.act /\ dev'.edge = copy.act /\ dev'.sta = s
      /\ dev'.flt = (IF copy.act THEN dev.flt ELSE "None")
  BY <1>1
<1>7. sample' = [act |-> dev'.act, sta |-> dev'.sta, flt |-> dev'.flt]
  BY DEF Apply, Reported
<1>8. sample' \in Status
  BY <1>2, <1>4, <1>6, <1>7 DEF Status
<1> QED
  BY <1>5, <1>6, <1>7, <1>8

(* What the gripper does by itself.                                        *)
SweepFacts ==
    /\ dev.sta = "InProgress" /\ dev'.sta = "Complete"
    /\ dev'.act = dev.act /\ dev'.edge = dev.edge /\ dev'.flt = dev.flt
    /\ trail' = Follow(dev, dev') /\ spared' = spared
FaultFacts ==
    /\ dev.act /\ dev.flt = "None"
    /\ dev'.act = dev.act /\ dev'.edge = dev.edge /\ dev'.sta = dev.sta
    /\ trail' = trail /\ spared' = "no"
MinorFacts ==
    /\ dev.flt = "Minor" /\ dev'.flt = "None"
    /\ dev'.act = dev.act /\ dev'.edge = dev.edge /\ dev'.sta = dev.sta
    /\ trail' = trail /\ spared' = spared
PowerFacts ==
    /\ ~dev'.act /\ dev'.sta = "Reset" /\ dev'.flt = "None"
    /\ trail' = trail /\ spared' = "no"

LEMMA GripperFacts ==
  ASSUME TypeOK, Gripper
  PROVE  /\ UNCHANGED <<command, record, fresh, link, copy, sample, op, at, previous,
                       result, half, expired, called>>
         /\ SweepFacts \/ FaultFacts \/ MinorFacts \/ PowerFacts
<1>1. dev \in Device
  BY DEF TypeOK
<1>2. CASE SweepEnds
  BY <1>1, <1>2 DEF SweepEnds, SweepFacts, Device, imageVars, linkVars, procVars, timeVars
<1>3. CASE FaultArises
  <2>1. PICK f \in {"Minor", "Major"} : dev' = [dev EXCEPT !.flt = f]
    BY <1>3 DEF FaultArises
  <2> QED
    BY <1>1, <1>3, <2>1 DEF FaultArises, FaultFacts, Device, imageVars, linkVars,
                            procVars, timeVars
<1>4. CASE MinorClears
  BY <1>1, <1>4 DEF MinorClears, MinorFacts, Device, imageVars, linkVars, procVars,
                    timeVars, histVars
<1>5. CASE PowerCycles
  <2>1. PICK e \in BOOLEAN : dev' = [act |-> FALSE, gto |-> FALSE, edge |-> e,
                                    sta |-> "Reset", flt |-> "None"]
    BY <1>5 DEF PowerCycles
  <2> QED
    BY <1>5, <2>1 DEF PowerCycles, PowerFacts, imageVars, linkVars, procVars, timeVars
<1> QED
  BY <1>2, <1>3, <1>4, <1>5 DEF Gripper

(* The history of a reset.                                                 *)
LEMMA FollowFacts ==
  ASSUME TypeOK, NEW d \in Device, NEW e \in Device
  PROVE  /\ Follow(d, e) \in {"none", "reset", "rising", "swept"}
         /\ ~e.act => Follow(d, e) \in {"reset"}
         /\ e.act /\ trail = "none" => Follow(d, e) = "none"
         /\ e.act /\ trail = "swept" => Follow(d, e) = "swept"
         /\ e.act /\ trail = "reset" /\ d.edge => Follow(d, e) = "reset"
         /\ e.act /\ ((trail = "reset" /\ ~d.edge) \/ trail = "rising") =>
              Follow(d, e) = (IF e.sta = "Complete" THEN "swept" ELSE "rising")
  BY DEF TypeOK, Follow

-----------------------------------------------------------------------------
(* Types.                                                                  *)

(* The part of them that the procedure's steps set.                        *)
ProcOK ==
    /\ op \in Procedure \cup {"none"} /\ at \in Point
    /\ previous \in Block /\ called \in Block
    /\ fresh \in BOOLEAN /\ half \in BOOLEAN /\ expired \in BOOLEAN
    /\ result \in ActivationResult \cup {"none"}
    /\ spared \in {"no", "healthy", "faulted"}

(* A return or a jump leaves it typed.                                     *)
LEMMA ReturnTypes == ASSUME NEW r \in ActivationResult, ReturnResult(r) PROVE ProcOK'
<1>1. op' = "none" /\ at' = "idle" /\ result' = r /\ spared' = "no"
  BY DEF ReturnResult
<1>2. fresh' = FALSE /\ half' = FALSE /\ expired' = FALSE
  BY DEF ReturnResult
<1>3. previous' \in Block /\ called' \in Block
  BY DEF ReturnResult, Off, Block
<1>4. fresh' \in BOOLEAN /\ half' \in BOOLEAN /\ expired' \in BOOLEAN
  BY <1>2
<1>5. at' \in Point
  BY <1>1 DEF Point
<1> QED
  BY <1>1, <1>3, <1>4, <1>5 DEF ProcOK

LEMMA ContinueTypes == ASSUME TypeOK, NEW n \in Point, Continue(n) PROVE ProcOK'
  BY DEF TypeOK, ProcOK, Continue, timeVars

LEMMA TypeStep == TypeOK /\ Sound /\ [Next]_vars => TypeOK'
<1> SUFFICES ASSUME TypeOK, Sound, [Next]_vars PROVE TypeOK'
  OBVIOUS
<1> USE DEF imageVars, linkVars, procVars, timeVars, histVars
<1>1. CASE Gripper
  <2>1. dev.act \in BOOLEAN /\ dev.gto \in BOOLEAN /\ dev.edge \in BOOLEAN
          /\ dev.sta \in ActivationState /\ dev.flt \in FaultSeverity
    BY DEF TypeOK, Device
  <2>2. dev' \in Device
    <3>1. CASE SweepEnds
      BY <3>1 DEF TypeOK, SweepEnds, Device, ActivationState
    <3>2. CASE FaultArises
      <4>1. PICK f \in {"Minor", "Major"} : dev' = [dev EXCEPT !.flt = f]
        BY <3>2 DEF FaultArises
      <4> QED
        BY <4>1 DEF TypeOK, Device, FaultSeverity
    <3>3. CASE MinorClears
      BY <3>3 DEF TypeOK, MinorClears, Device, FaultSeverity
    <3>4. CASE PowerCycles
      <4>1. PICK e \in BOOLEAN : dev' = [act |-> FALSE, gto |-> FALSE, edge |-> e,
                                        sta |-> "Reset", flt |-> "None"]
        BY <3>4 DEF PowerCycles
      <4> QED
        BY <4>1 DEF Device, ActivationState, FaultSeverity
    <3> QED
      BY <1>1, <3>1, <3>2, <3>3, <3>4 DEF Gripper
  <2>3. trail' \in {"none", "reset", "rising", "swept"}
    BY <1>1, <2>2, FollowFacts DEF TypeOK, Gripper, SweepEnds, FaultArises, MinorClears,
                 PowerCycles
  <2> QED
    BY <1>1, <2>2, <2>3 DEF TypeOK, Gripper, SweepEnds, FaultArises, MinorClears,
                 PowerCycles
<1>2. CASE Latch \/ Publish \/ Fail
  <2>1. Off \in Block
    BY DEF Off, Block
  <2>2. NoStatus \in Status
    BY DEF NoStatus, Status, ActivationState, FaultSeverity
  <2>3. fresh' \in BOOLEAN
    <3>1. CASE Publish
      <4>1. fresh' = (at \in Waiting)
        BY <3>1 DEF Publish
      <4>2. (at \in Waiting) \in BOOLEAN
        OBVIOUS
      <4> QED
        BY <4>1, <4>2, Zenon
    <3> QED
      BY <1>2, <3>1 DEF TypeOK, Latch, Fail
  <2>4. copy' \in Block /\ sample' \in Status /\ record' \in Status
          /\ link' \in {"idle", "wire", "applied"}
    BY <1>2, <2>1, <2>2 DEF TypeOK, Latch, Publish, Fail, CycleEnds
  <2> QED
    BY <1>2, <2>3, <2>4 DEF TypeOK, Latch, Publish, Fail
<1>3. CASE Apply
  <2>1. trail' \in {"none", "reset", "rising", "swept"}
    BY <1>3, ApplyFacts, FollowFacts DEF TypeOK, Apply
  <2> QED
    BY <1>3, <2>1, ApplyFacts DEF TypeOK, Apply
<1>4. CASE \E b \in Block : SetCommand(b)
  BY <1>4 DEF TypeOK, SetCommand
<1>5. CASE \E o \in Procedure : Call(o)
  BY <1>5 DEF TypeOK, Call, SparedBy, Point, WaitStart
<1>6. CASE StartWait \/ WaitAgain
  BY <1>6 DEF TypeOK, StartWait, WaitAgain, Point, WaitStart, Waiting
<1>7. CASE WaitTimesOut \/ HandshakeTooLate \/ Deactivated \/ Completed
  <2>1. ProcOK'
    BY <1>7, ReturnTypes, ContinueTypes DEF WaitTimesOut, HandshakeTooLate, Deactivated,
         Completed, ActivationResult, Point
  <2> QED
    BY <1>7, <2>1 DEF TypeOK, ProcOK, WaitTimesOut, HandshakeTooLate, Deactivated,
         Completed
<1>8. CASE Operational
  <2>1. op \in Procedure
    BY <1>8 DEF TypeOK, Sound, Operational
  <2>2. record.sta \in ActivationState /\ record.flt \in FaultSeverity
    BY DEF TypeOK, Status
  <2>3. Verdict(record) \in ActivationResult \cup {"handshake", "startComplete"}
    BY <2>1, <2>2 DEF Verdict, Procedure, ActivationState, FaultSeverity,
         ActivationResult
  <2>4. ProcOK'
    BY <1>8, <2>3, ReturnTypes, ContinueTypes DEF Operational, Point, WaitStart
  <2> QED
    BY <1>8, <2>4 DEF TypeOK, ProcOK, Operational
<1>9. CASE HandshakeDeactivates \/ HandshakeRestores \/ HandshakeActivates
  <2>1. command' \in Block
    <3>1. DeactivateBlock \in Block /\ ActivateBlock \in Block
      BY DEF DeactivateBlock, ActivateBlock, Block
    <3> QED
      BY <1>9, <3>1 DEF TypeOK, HandshakeDeactivates, HandshakeRestores,
         HandshakeActivates, Restored
  <2>2. ProcOK'
    <3>1. CASE HandshakeDeactivates
      BY <3>1 DEF TypeOK, ProcOK, HandshakeDeactivates, Point, WaitStart, AfterDeactivate
    <3> QED
      BY <1>9, <3>1, ReturnTypes, ContinueTypes DEF HandshakeRestores,
         HandshakeActivates, ActivationResult, Point, WaitStart
  <2> QED
    BY <1>9, <2>1, <2>2 DEF TypeOK, ProcOK, HandshakeDeactivates, HandshakeRestores,
         HandshakeActivates
<1>10. CASE Time
  BY <1>10 DEF TypeOK, Time, HalfPasses, DeadlinePasses
<1>11. CASE UNCHANGED vars
  BY <1>11 DEF TypeOK, vars
<1> QED
  BY <1>1, <1>2, <1>3, <1>4, <1>5, <1>6, <1>7, <1>8, <1>9, <1>10, <1>11
     DEF Next, Cycle, Step

-----------------------------------------------------------------------------
(* Each part of the invariant, over every step.                            *)

(* Which way a procedure may go from the first record it sees.             *)
LEMMA VerdictFacts ==
  ASSUME TypeOK, Sound, Operational
  PROVE  /\ op = "recoverFromFault" => Continue("handshake")
         /\ op = "activate" /\ record.flt = "Major" => ReturnResult("FaultLatched")
         /\ op = "activate" /\ record.flt # "Major" /\ record.sta = "Complete" =>
              ReturnResult("AlreadyActive")
         /\ op = "activate" /\ record.flt # "Major" /\ record.sta = "InProgress" =>
              Continue("startComplete")
         /\ op = "activate" /\ record.flt # "Major" /\ record.sta = "Reset" =>
              Continue("handshake")
         /\ op \in Procedure
         /\ record.sta \in ActivationState
<1>1. op \in Procedure
  BY DEF TypeOK, Sound, Operational
<1>2. record.sta \in ActivationState /\ record.flt \in FaultSeverity
  BY DEF TypeOK, Status
<1> QED
  BY <1>1, <1>2 DEF Operational, Verdict, ActivationResult, ActivationState

(* The steps that leave the procedure where it is, or return, or go on:    *)
(* every step, by what it changes.                                         *)
LEMMA SoundStep == TypeOK /\ Sound /\ [Next]_vars => Sound'
<1> SUFFICES ASSUME TypeOK, Sound, [Next]_vars PROVE Sound'
  OBVIOUS
<1> USE DEF Sound, imageVars, linkVars, procVars, timeVars, histVars
<1>1. CASE Gripper
  BY <1>1, GripperFacts DEF SweepFacts, FaultFacts, MinorFacts, PowerFacts
<1>2. CASE Latch \/ Publish \/ Fail
  BY <1>2 DEF Latch, Publish, Fail
<1>3. CASE Apply
  <2>1. UNCHANGED <<op, at, result>>
    BY <1>3 DEF Apply
  <2>2. copy.act \in BOOLEAN /\ dev.edge \in BOOLEAN
    BY DEF TypeOK, Block, Device
  <2> QED
    BY <1>3, <2>1, <2>2, ApplyFacts
<1>4. CASE \E b \in Block : SetCommand(b)
  BY <1>4 DEF SetCommand
<1>5. CASE \E o \in Procedure : Call(o)
  BY <1>5 DEF Call, Procedure
<1>6. CASE StartWait \/ WaitAgain
  BY <1>6 DEF StartWait, WaitAgain, WaitStart
<1>7. CASE WaitTimesOut \/ HandshakeTooLate \/ Deactivated \/ Completed
  BY <1>7 DEF WaitTimesOut, HandshakeTooLate, Deactivated, Completed, ReturnResult,
              Continue, Waiting
<1>8. CASE Operational
  <2>1. UNCHANGED dev
    BY <1>8 DEF Operational
  <2>2. op # "none"
    BY <1>8 DEF Operational
  <2> QED
    BY <1>8, <2>1, <2>2, VerdictFacts DEF ReturnResult, Continue, Procedure,
       ActivationState
<1>9. CASE HandshakeDeactivates \/ HandshakeRestores \/ HandshakeActivates
  BY <1>9 DEF HandshakeDeactivates, HandshakeRestores, HandshakeActivates,
              AfterDeactivate, ReturnResult, Continue
<1>10. CASE Time
  BY <1>10 DEF Time, HalfPasses, DeadlinePasses
<1>11. CASE UNCHANGED vars
  BY <1>11 DEF vars
<1> QED
  BY <1>1, <1>2, <1>3, <1>4, <1>5, <1>6, <1>7, <1>8, <1>9, <1>10, <1>11
     DEF Next, Cycle, Step

(* The commander's own steps touch neither the wire nor the gripper.       *)
LEMMA CommanderFrame ==
  ASSUME \/ \E b \in Block : SetCommand(b)
         \/ \E o \in Procedure : Call(o)
         \/ Step \/ Time
  PROVE  UNCHANGED <<link, copy, sample, dev, record>>
  BY DEF SetCommand, Call, Step, Time, StartWait, WaitAgain, WaitTimesOut, Operational,
         HandshakeTooLate, HandshakeDeactivates, Deactivated, HandshakeRestores,
         HandshakeActivates, Completed, HalfPasses, DeadlinePasses, imageVars, linkVars

(* The cycle's and the gripper's own steps leave the procedure alone.      *)
LEMMA CycleFrame ==
  ASSUME TypeOK, Cycle \/ Gripper
  PROVE  UNCHANGED <<op, at, previous, result, called, command>>
  BY GripperFacts DEF Cycle, Latch, Apply, Publish, Fail, imageVars, procVars, histVars

(* What an answer on its way says about the gripper.                       *)
LEMMA AnswerStep == TypeOK /\ Sound /\ AnswerSound /\ [Next]_vars => AnswerSound'
<1> SUFFICES ASSUME TypeOK, Sound, AnswerSound, [Next]_vars PROVE AnswerSound'
  OBVIOUS
<1> USE DEF AnswerSound
<1>1. CASE Gripper
  BY <1>1, GripperFacts DEF SweepFacts, FaultFacts, MinorFacts, PowerFacts
<1>2. CASE Latch \/ Publish \/ Fail
  BY <1>2 DEF Latch, Publish, Fail, CycleEnds
<1>3. CASE Apply
  <2>1. UNCHANGED copy /\ copy.act \in BOOLEAN
    BY <1>3 DEF TypeOK, Block, Apply
  <2> QED
    BY <1>3, <2>1, ApplyFacts
<1>4. CASE UNCHANGED vars
  BY <1>4 DEF vars, linkVars
<1> QED
  BY <1>1, <1>2, <1>3, <1>4, CommanderFrame DEF Next, Cycle

(* A gripper that was healthy at the call stays activated.                 *)
LEMMA HealthyStep ==
  TypeOK /\ Sound /\ AnswerSound /\ HealthyKept /\ [Next]_vars => HealthyKept'
<1> SUFFICES ASSUME TypeOK, Sound, AnswerSound, HealthyKept, [Next]_vars
             PROVE  HealthyKept'
  OBVIOUS
<1> USE DEF HealthyKept, KeepsAct, imageVars, linkVars, procVars, timeVars, histVars
<1>1. CASE Gripper
  BY <1>1, GripperFacts DEF Sound, SweepFacts, FaultFacts, MinorFacts, PowerFacts
<1>2. CASE Latch \/ Publish \/ Fail
  BY <1>2 DEF AnswerSound, Latch, Publish, Fail, CycleEnds
<1>3. CASE Apply
  <2>1. UNCHANGED <<op, spared, at, command, copy, fresh, record>> /\ link = "wire"
    BY <1>3 DEF Apply
  <2>2. copy.act /\ dev.sta # "Reset" => dev'.sta # "Reset" /\ dev'.flt = dev.flt
    BY <1>3, ApplyFacts DEF Sound
  <2> QED
    BY <2>1, <2>2
<1>4. CASE \E b \in Block : SetCommand(b)
  BY <1>4 DEF SetCommand
<1>5. CASE \E o \in Procedure : Call(o)
  <2>1. PICK o \in Procedure : Call(o)
    BY <1>5
  <2>2. op' = o /\ spared' = SparedBy(o) /\ at' = "startOperational"
          /\ UNCHANGED <<command, link, copy, dev>>
    BY <2>1 DEF Call
  <2> QED
    BY <2>2 DEF SparedBy
<1>6. CASE StartWait \/ WaitAgain \/ WaitTimesOut \/ Completed \/ Time
  BY <1>6 DEF StartWait, WaitAgain, WaitTimesOut, Completed, Time, HalfPasses,
              DeadlinePasses, ReturnResult, Continue, WaitStart
<1>7. CASE Operational
  <2>1. UNCHANGED <<command, link, copy, dev>> /\ at = "awaitOperational" /\ fresh
    BY <1>7 DEF Operational
  <2> QED
    BY <1>7, <2>1, VerdictFacts DEF ReturnResult, Continue, Procedure, ActivationState
<1>8. CASE HandshakeTooLate \/ HandshakeDeactivates \/ Deactivated
             \/ HandshakeRestores \/ HandshakeActivates
  BY <1>8 DEF HandshakeTooLate, HandshakeDeactivates, Deactivated, HandshakeRestores,
              HandshakeActivates, ReturnResult, Continue
<1>9. CASE UNCHANGED vars
  BY <1>9 DEF vars
<1> QED
  BY <1>1, <1>2, <1>3, <1>4, <1>5, <1>6, <1>7, <1>8, <1>9 DEF Next, Cycle, Step

(* A fault that was latched at the call stays latched.                     *)
LEMMA FaultStep == TypeOK /\ Sound /\ FaultKept /\ [Next]_vars => FaultKept'
<1> SUFFICES ASSUME TypeOK, Sound, FaultKept, [Next]_vars PROVE FaultKept'
  OBVIOUS
<1> USE DEF FaultKept, KeepsAct, imageVars, linkVars, procVars, timeVars, histVars
<1>1. CASE Gripper
  BY <1>1, GripperFacts DEF SweepFacts, FaultFacts, MinorFacts, PowerFacts
<1>2. CASE Latch \/ Publish \/ Fail
  BY <1>2 DEF Latch, Publish, Fail, CycleEnds
<1>3. CASE Apply
  <2>1. UNCHANGED <<op, spared, at, command, copy, fresh, record>> /\ link = "wire"
    BY <1>3 DEF Apply
  <2>2. copy.act => dev'.flt = dev.flt /\ sample'.flt = dev.flt
    BY <1>3, ApplyFacts
  <2> QED
    BY <2>1, <2>2
<1>4. CASE \E b \in Block : SetCommand(b)
  BY <1>4 DEF SetCommand
<1>5. CASE \E o \in Procedure : Call(o)
  <2>1. PICK o \in Procedure : Call(o)
    BY <1>5
  <2>2. op' = o /\ spared' = SparedBy(o) /\ at' = "startOperational"
          /\ UNCHANGED <<command, link, copy, dev>>
    BY <2>1 DEF Call
  <2> QED
    BY <2>2 DEF SparedBy
<1>6. CASE StartWait \/ WaitAgain \/ WaitTimesOut \/ Completed \/ Time
  BY <1>6 DEF StartWait, WaitAgain, WaitTimesOut, Completed, Time, HalfPasses,
              DeadlinePasses, ReturnResult, Continue, WaitStart
<1>7. CASE Operational
  <2>1. at = "awaitOperational" /\ fresh
    BY <1>7 DEF Operational
  <2> QED
    BY <1>7, <2>1, VerdictFacts DEF ReturnResult, Continue, Procedure, ActivationState
<1>8. CASE HandshakeTooLate \/ HandshakeDeactivates \/ Deactivated
             \/ HandshakeRestores \/ HandshakeActivates
  BY <1>8 DEF HandshakeTooLate, HandshakeDeactivates, Deactivated, HandshakeRestores,
              HandshakeActivates, ReturnResult, Continue
<1>9. CASE UNCHANGED vars
  BY <1>9 DEF vars
<1> QED
  BY <1>1, <1>2, <1>3, <1>4, <1>5, <1>6, <1>7, <1>8, <1>9 DEF Next, Cycle, Step

(* The caller's command is in the image, or kept to be put back, or a      *)
(* whole activation has replaced it.                                       *)
LEMMA CommandStep == TypeOK /\ Sound /\ CommandKept /\ [Next]_vars => CommandKept'
<1> SUFFICES ASSUME TypeOK, Sound, CommandKept, [Next]_vars PROVE CommandKept'
  OBVIOUS
<1> USE DEF CommandKept, imageVars, linkVars, procVars, timeVars, histVars
<1>1. CASE Cycle \/ Gripper
  BY <1>1, CycleFrame
<1>2. CASE \E b \in Block : SetCommand(b)
  BY <1>2 DEF SetCommand, Sound
<1>3. CASE \E o \in Procedure : Call(o)
  BY <1>3 DEF Call
<1>4. CASE StartWait \/ WaitAgain \/ Time
  BY <1>4 DEF StartWait, WaitAgain, Time, HalfPasses, DeadlinePasses, WaitStart
<1>5. CASE WaitTimesOut \/ HandshakeTooLate \/ Deactivated \/ Completed
  BY <1>5 DEF WaitTimesOut, HandshakeTooLate, Deactivated, Completed, ReturnResult,
              Continue
<1>6. CASE Operational
  <2>1. UNCHANGED command /\ at = "awaitOperational"
    BY <1>6 DEF Operational
  <2> QED
    BY <1>6, <2>1, VerdictFacts DEF ReturnResult, Continue, Procedure, ActivationState
<1>7. CASE HandshakeDeactivates \/ HandshakeRestores \/ HandshakeActivates
  BY <1>7 DEF HandshakeDeactivates, HandshakeRestores, HandshakeActivates,
              AfterDeactivate, ReturnResult, Continue
<1>8. CASE UNCHANGED vars
  BY <1>8 DEF vars
<1> QED
  BY <1>1, <1>2, <1>3, <1>4, <1>5, <1>6, <1>7, <1>8 DEF Next, Step

(* A record without rACT that the handshake sees is of a reset.            *)
LEMMA ResetStep ==
  TypeOK /\ Sound /\ AnswerSound /\ ResetSeen /\ [Next]_vars => ResetSeen'
<1> SUFFICES ASSUME TypeOK, Sound, AnswerSound, ResetSeen, [Next]_vars
             PROVE  ResetSeen'
  OBVIOUS
<1> USE DEF ResetSeen, Synced, Emptied, imageVars, linkVars, procVars, timeVars, histVars
<1>1. CASE Gripper
  BY <1>1, GripperFacts DEF Sound, SweepFacts, FaultFacts, MinorFacts, PowerFacts
<1>2. CASE Latch \/ Fail
  BY <1>2 DEF Latch, Fail, CycleEnds
<1>3. CASE Publish
  BY <1>3 DEF AnswerSound, Publish, CycleEnds, Waiting
<1>4. CASE Apply
  <2>1. UNCHANGED <<op, at, command, copy, fresh, record>> /\ link = "wire"
    BY <1>4 DEF Apply
  <2>2. ~copy.act => Emptied'
    <3>1. dev' \in Device /\ dev \in Device /\ dev'.act = copy.act
            /\ (~copy.act => dev'.sta = "Reset")
      BY <1>4, ApplyFacts DEF TypeOK
    <3>2. trail' = Follow(dev, dev')
      BY <1>4 DEF Apply
    <3> QED
      BY <3>1, <3>2, FollowFacts
  <2> QED
    BY <2>1, <2>2
<1>5. CASE \E b \in Block : SetCommand(b)
  BY <1>5 DEF SetCommand
<1>6. CASE \E o \in Procedure : Call(o)
  BY <1>6 DEF Call
<1>7. CASE StartWait \/ WaitAgain \/ Time
  BY <1>7 DEF StartWait, WaitAgain, Time, HalfPasses, DeadlinePasses, WaitStart
<1>8. CASE WaitTimesOut \/ HandshakeTooLate \/ Completed
  BY <1>8 DEF WaitTimesOut, HandshakeTooLate, Completed, ReturnResult, Continue
<1>9. CASE Deactivated
  BY <1>9 DEF Deactivated, Met, Continue
<1>10. CASE Operational
  <2>1. /\ UNCHANGED <<command, record, link, copy, dev, trail>>
        /\ at = "awaitOperational" /\ fresh
    BY <1>10 DEF Operational
  <2> QED
    BY <1>10, <2>1, VerdictFacts DEF ReturnResult, Continue, Procedure, ActivationState
<1>11. CASE HandshakeDeactivates
  BY <1>11 DEF HandshakeDeactivates, AfterDeactivate, DeactivateBlock
<1>12. CASE HandshakeRestores \/ HandshakeActivates
  BY <1>12 DEF HandshakeRestores, HandshakeActivates, ReturnResult, Continue
<1>13. CASE UNCHANGED vars
  BY <1>13 DEF vars
<1> QED
  BY <1>1, <1>2, <1>3, <1>4, <1>5, <1>6, <1>7, <1>8, <1>9, <1>10, <1>11, <1>12, <1>13
     DEF Next, Cycle, Step

(* A complete activation that the handshake sees is its own.               *)
LEMMA SweepStep ==
  TypeOK /\ Sound /\ AnswerSound /\ ResetSeen /\ SweepSeen /\ [Next]_vars => SweepSeen'
<1> SUFFICES ASSUME TypeOK, Sound, AnswerSound, ResetSeen, SweepSeen, [Next]_vars
             PROVE  SweepSeen'
  OBVIOUS
<1> USE DEF SweepSeen, imageVars, linkVars, procVars, timeVars, histVars
<1>1. CASE Gripper
  <2>1. CASE SweepFacts
    <3>1. dev \in Device /\ dev' \in Device
      BY TypeStep DEF TypeOK
    <3>2. trail \in {"rising", "swept"} => trail' = "swept"
      BY <2>1, <3>1, FollowFacts DEF SweepFacts, Sound
    <3> QED
      BY <1>1, <2>1, <3>2, GripperFacts DEF SweepFacts
  <2> QED
    BY <1>1, <2>1, GripperFacts DEF FaultFacts, MinorFacts, PowerFacts
<1>2. CASE Latch \/ Fail
  BY <1>2 DEF Latch, Fail, CycleEnds
<1>3. CASE Publish
  BY <1>3 DEF AnswerSound, Publish, CycleEnds
<1>4. CASE Apply
  <2>1. UNCHANGED <<op, at, command, copy, fresh, record>> /\ link = "wire"
    BY <1>4 DEF Apply
  <2>2. /\ dev \in Device /\ dev' \in Device /\ trail' = Follow(dev, dev')
        /\ dev'.act = copy.act /\ copy.act \in BOOLEAN /\ dev.edge \in BOOLEAN
    BY <1>4, ApplyFacts DEF TypeOK, Apply, Block, Device
  <2>3. CASE ~copy.act
    <3>1. dev'.sta = "Reset" /\ sample'.sta = "Reset" /\ trail' = "reset"
      BY <1>4, <2>2, <2>3, ApplyFacts, FollowFacts
    <3> QED
      BY <2>1, <2>3, <3>1
  <2>4. CASE copy.act
    <3>1. dev'.sta = sample'.sta
      BY <1>4, ApplyFacts
    <3>2. trail = "swept" => trail' = "swept"
      BY <2>2, <2>4, FollowFacts
    <3>3. CASE dev.edge
      <4>1. dev'.sta = dev.sta
        BY <1>4, <2>4, <3>3, ApplyFacts
      <4>2. trail \in {"none", "reset"} => trail' = trail
        BY <2>2, <2>4, <3>3, FollowFacts
      <4>3. trail = "rising" => trail' \in {"rising", "swept"}
        BY <2>2, <2>4, FollowFacts
      <4> QED
        BY <2>1, <2>4, <3>1, <3>2, <4>1, <4>2, <4>3 DEF TypeOK
    <3>4. CASE ~dev.edge
      <4>1. trail \in {"reset", "rising"} =>
              trail' = (IF dev'.sta = "Complete" THEN "swept" ELSE "rising")
        BY <2>2, <2>4, <3>4, FollowFacts
      <4> QED
        BY <2>1, <2>4, <3>1, <3>2, <4>1 DEF TypeOK
    <3> QED
      BY <3>3, <3>4
  <2> QED
    BY <2>3, <2>4
<1>5. CASE \E b \in Block : SetCommand(b)
  BY <1>5 DEF SetCommand
<1>6. CASE \E o \in Procedure : Call(o)
  BY <1>6 DEF Call
<1>7. CASE StartWait \/ WaitAgain \/ Time
  BY <1>7 DEF StartWait, WaitAgain, Time, HalfPasses, DeadlinePasses, WaitStart
<1>8. CASE WaitTimesOut \/ HandshakeTooLate \/ Completed \/ Deactivated
  BY <1>8 DEF WaitTimesOut, HandshakeTooLate, Completed, Deactivated, ReturnResult,
              Continue
<1>9. CASE Operational
  BY <1>9, VerdictFacts DEF ReturnResult, Continue, Procedure, ActivationState
<1>10. CASE HandshakeDeactivates \/ HandshakeRestores
  BY <1>10 DEF HandshakeDeactivates, HandshakeRestores, AfterDeactivate, ReturnResult
<1>11. CASE HandshakeActivates
  BY <1>11 DEF HandshakeActivates, Continue, ActivateBlock, ResetSeen, Emptied,
               AnswerSound
<1>12. CASE UNCHANGED vars
  BY <1>12 DEF vars
<1> QED
  BY <1>1, <1>2, <1>3, <1>4, <1>5, <1>6, <1>7, <1>8, <1>9, <1>10, <1>11, <1>12
     DEF Next, Cycle, Step

-----------------------------------------------------------------------------
(* The invariant holds throughout.                                         *)
LEMMA Invariant == Spec => []IInv
<1>1. Init => IInv
  <2> SUFFICES ASSUME Init PROVE IInv
    OBVIOUS
  <2>1. dev \in Device /\ dev.edge = dev.act /\ (dev.act => dev.sta # "Reset")
          /\ (~dev.act => dev.sta = "Reset" /\ dev.flt = "None")
    BY DEF Init
  <2>2. dev.act \in BOOLEAN /\ dev.gto \in BOOLEAN /\ dev.sta \in ActivationState
          /\ dev.flt \in FaultSeverity
    BY <2>1 DEF Device
  <2>3. /\ command \in Block /\ copy \in Block /\ previous \in Block /\ called \in Block
        /\ sample \in Status /\ record \in Status
    BY <2>2 DEF Init, Block, Status, Reported, Off, NoStatus, ActivationState,
         FaultSeverity
  <2>4. fresh \in BOOLEAN /\ half \in BOOLEAN /\ expired \in BOOLEAN
    BY DEF Init
  <2>5. /\ link = "idle" /\ op = "none" /\ at = "idle" /\ result = "none"
        /\ spared = "no" /\ trail = "none" /\ shaken = "no"
    BY DEF Init
  <2>6. TypeOK
    BY <2>1, <2>3, <2>4, <2>5 DEF TypeOK, Point
  <2>7. Sound
    BY <2>1, <2>2, <2>5 DEF Sound
  <2> QED
    BY <2>5, <2>6, <2>7 DEF IInv, AnswerSound, HealthyKept, FaultKept, CommandKept,
         ResetSeen, SweepSeen, Synced
<1>2. IInv /\ [Next]_vars => IInv'
  BY TypeStep, SoundStep, AnswerStep, HealthyStep, FaultStep, CommandStep, ResetStep,
     SweepStep DEF IInv
<1> QED
  BY <1>1, <1>2, PTL DEF Spec

(* TypeOK holds: in particular no procedure is at a wait it does not have. *)
THEOREM TypeCorrect == Spec => []TypeOK
<1>1. IInv => TypeOK
  BY DEF IInv
<1> QED
  BY <1>1, Invariant, PTL

(* activate resets no gripper that was activated, or activating, when it   *)
(* was called, whatever exchange was under way then.                       *)
THEOREM HealthyUndisturbed == Spec => []HealthyIsUndisturbed
<1>1. IInv => HealthyIsUndisturbed
  BY DEF IInv, HealthyKept, HealthyIsUndisturbed
<1> QED
  BY <1>1, Invariant, PTL

(* activate clears no major fault that was latched when it was called.     *)
THEOREM FaultStays == Spec => []LatchedFaultStays
<1>1. IInv => LatchedFaultStays
  BY DEF IInv, FaultKept, LatchedFaultStays
<1> QED
  BY <1>1, Invariant, PTL

(* recoverFromFault says Activated only of a gripper that was reset and    *)
(* went through a whole activation since the call.                         *)
THEOREM RecoveryIsReal == Spec => RecoveredMeansReset
<1>1. IInv /\ [Next]_vars =>
        [op = "recoverFromFault" /\ result' = "Activated" => trail = "swept"]_vars
  <2> SUFFICES ASSUME IInv, [Next]_vars, op = "recoverFromFault", result' = "Activated"
               PROVE  trail = "swept"
    OBVIOUS
  <2>1. CASE Completed
    BY <2>1 DEF Completed, Met, IInv, SweepSeen
  <2>2. CASE ~Completed
    <3>1. result = "none" /\ TypeOK /\ Sound
      BY DEF IInv, Sound
    <3>2. CASE Cycle \/ Gripper
      BY <3>1, <3>2, CycleFrame
    <3>3. CASE Operational
      BY <3>1, <3>3, VerdictFacts DEF Continue
    <3>4. CASE StartWait \/ WaitAgain \/ WaitTimesOut \/ HandshakeTooLate
                 \/ HandshakeDeactivates \/ Deactivated \/ HandshakeRestores
                 \/ HandshakeActivates \/ Time
      BY <3>1, <3>4 DEF StartWait, WaitAgain, WaitTimesOut, HandshakeTooLate,
           HandshakeDeactivates, Deactivated, HandshakeRestores, HandshakeActivates,
           Time, HalfPasses, DeadlinePasses, ReturnResult, Continue, procVars
    <3>5. CASE (\E b \in Block : SetCommand(b)) \/ (\E o \in Procedure : Call(o))
      BY <3>5 DEF SetCommand, Call
    <3>6. CASE UNCHANGED vars
      BY <3>1, <3>6 DEF vars, procVars
    <3> QED
      BY <2>2, <3>2, <3>3, <3>4, <3>5, <3>6 DEF Next, Step
  <2> QED
    BY <2>1, <2>2
<1> QED
  BY <1>1, Invariant, PTL DEF Spec, RecoveredMeansReset

(* However a procedure ends, the image asks for no reset that its caller   *)
(* did not ask for, and one that says it sent nothing sent nothing.        *)
THEOREM CallersCommandKept == Spec => NoResetLeftBehind
<1>1. IInv /\ [Next]_vars =>
        [op # "none" /\ op' = "none" =>
           /\ called.act => command'.act
           /\ result' \in {"AlreadyActive", "FaultLatched"} => command' = called]_vars
  <2> SUFFICES ASSUME IInv, [Next]_vars, op # "none", op' = "none"
               PROVE  /\ called.act => command'.act
                      /\ result' \in {"AlreadyActive", "FaultLatched"} =>
                           command' = called
    OBVIOUS
  <2>1. CommandKept /\ TypeOK /\ Sound
    BY DEF IInv
  <2>2. CASE WaitTimesOut \/ HandshakeTooLate \/ HandshakeRestores \/ Completed
    BY <2>1, <2>2 DEF CommandKept, WaitTimesOut, HandshakeTooLate, HandshakeRestores,
         Completed, ReturnResult, Continue, Restored, ActivateBlock, Waiting
  <2>3. CASE Operational
    BY <2>1, <2>3 DEF CommandKept, Operational
  <2>4. CASE Cycle \/ Gripper
    BY <2>1, <2>4, CycleFrame
  <2>5. CASE StartWait \/ WaitAgain \/ HandshakeDeactivates \/ Deactivated
               \/ HandshakeActivates \/ Time
    BY <2>5 DEF StartWait, WaitAgain, HandshakeDeactivates, Deactivated,
         HandshakeActivates, Time, HalfPasses, DeadlinePasses, Continue, procVars
  <2>6. CASE (\E b \in Block : SetCommand(b)) \/ (\E o \in Procedure : Call(o))
    BY <2>6 DEF SetCommand, Call
  <2>7. CASE UNCHANGED vars
    BY <2>7 DEF vars, procVars
  <2> QED
    BY <2>2, <2>3, <2>4, <2>5, <2>6, <2>7 DEF Next, Step
<1> QED
  BY <1>1, Invariant, PTL DEF Spec, NoResetLeftBehind
=============================================================================
