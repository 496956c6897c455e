----------------------------- MODULE Activation -----------------------------
(***************************************************************************)
(* The blocking procedures activate and recoverFromFault, run by the one   *)
(* commander thread, over the exchange cycle and against a gripper.        *)
(*                                                                         *)
(* The waits of ExchangeCycle compare exchange counts; what matters of     *)
(* them here is whether a record came out since the wait last looked:      *)
(* fresh.  The gripper is modelled from how the SDK and its fake use it:   *)
(* clearing rACT resets it and clears its fault, a rising edge of rACT     *)
(* starts the calibration sweep, which takes any time.                     *)
(***************************************************************************)
CONSTANT
    PowerMayFail   \* whether the gripper may lose its power

ASSUME PowerAssumption == PowerMayFail \in BOOLEAN

VARIABLES
    command,   \* ProcessImage::_command: rACT and rGTO
    link,      \* the exchange cycle: "idle", "wire" or "applied"
    copy,      \* the block on the wire
    sample,    \* the status the gripper answers it with
    record,    \* the status of the newest record
    fresh,     \* a record came out since the current wait last looked
    dev,       \* the gripper
    op,        \* the procedure running, or "none"
    at,        \* where it stands
    previous,  \* runActivationHandshake's previousCommand
    half,      \* less than half of the timeout is left
    expired,   \* the deadline has passed
    result,    \* the ActivationResult of the last call
    called,    \* history: the command when the procedure was called
    spared,    \* history: why the procedure must leave the gripper alone
    trail,     \* history: how far a reset got since the call
    shaken     \* history: the handshake ran since the call, and reset it

imageVars == <<command, record, fresh>>
linkVars  == <<link, copy, sample>>
procVars  == <<op, at, previous, result>>
timeVars  == <<half, expired>>
histVars  == <<called, spared, trail, shaken>>
vars == <<imageVars, linkVars, dev, procVars, timeVars, histVars>>

Block == [act : BOOLEAN, gto : BOOLEAN]
ActivationState == {"Reset", "InProgress", "Complete"}
(* gFLT as severity() classifies it: activate asks only whether it is      *)
(* Major.                                                                  *)
FaultSeverity == {"None", "Minor", "Major"}
Status == [act : BOOLEAN, sta : ActivationState, flt : FaultSeverity]
(* The gripper: the block it holds, gSTA, gFLT, and the rACT that the next *)
(* one is compared with to find an edge.                                   *)
Device == [act : BOOLEAN, gto : BOOLEAN, edge : BOOLEAN,
           sta : ActivationState, flt : FaultSeverity]
Procedure == {"activate", "recoverFromFault"}
ActivationResult == {"Activated", "AlreadyActive", "FaultLatched", "Timeout"}
(* Where a wait takes its baseline, and where it then waits.               *)
WaitStart == {"startOperational", "startDeactivated", "startComplete"}
Waiting == {"awaitOperational", "awaitDeactivated", "awaitComplete"}
Point == {"idle", "handshake", "restore", "reactivate"}
           \cup WaitStart \cup Waiting

(* Types: the SDK, the cycle and the gripper stay in the states the code   *)
(* knows; gSTA's Reserved value, in particular, never arises.              *)
TypeOK ==
    /\ command \in Block
    /\ link \in {"idle", "wire", "applied"}
    /\ copy \in Block
    /\ sample \in Status
    /\ record \in Status
    /\ fresh \in BOOLEAN
    /\ dev \in Device
    /\ op \in Procedure \cup {"none"}
    /\ at \in Point
    /\ previous \in Block
    /\ half \in BOOLEAN
    /\ expired \in BOOLEAN
    /\ result \in ActivationResult \cup {"none"}
    /\ called \in Block
    /\ spared \in {"no", "healthy", "faulted"}
    /\ trail \in {"none", "reset", "rising", "swept"}
    /\ shaken \in {"no", "ran", "reset"}

(* Values of locals that are not in scope.                                 *)
Off == [act |-> FALSE, gto |-> FALSE]
NoStatus == [act |-> FALSE, sta |-> "Reset", flt |-> "None"]

Reported(d) == [act |-> d.act, sta |-> d.sta, flt |-> d.flt]

(* A gripper that was just powered, or that an earlier program left        *)
(* activated; the image is seeded from it.                                 *)
Init ==
    /\ dev \in {d \in Device : /\ d.edge = d.act
                               /\ d.gto => d.act
                               /\ d.act => d.sta # "Reset"
                               /\ ~d.act => d.sta = "Reset" /\ d.flt = "None"}
    /\ command = [act |-> dev.act, gto |-> dev.gto]
    /\ record = Reported(dev)
    /\ link = "idle"
    /\ copy = Off
    /\ sample = NoStatus
    /\ fresh = FALSE
    /\ op = "none"
    /\ at = "idle"
    /\ previous = Off
    /\ half = FALSE
    /\ expired = FALSE
    /\ result = "none"
    /\ called = Off
    /\ spared = "no"
    /\ trail = "none"
    /\ shaken = "no"

-----------------------------------------------------------------------------
(* The gripper.                                                            *)

(* The states a gripper may be in after it applied block b: the fake       *)
(* completes the sweep at once, a gripper takes its time.                  *)
Applied(d, b) ==
    {[act |-> b.act, gto |-> b.gto, edge |-> b.act,
      sta |-> s, flt |-> IF b.act THEN d.flt ELSE "None"] :
        s \in IF ~b.act THEN {"Reset"}
              ELSE IF ~d.edge THEN {"InProgress", "Complete"}
              ELSE {d.sta}}

(* How far a reset got, after the gripper went from d to e.                *)
Follow(d, e) ==
    LET s == IF ~e.act THEN "reset"
             ELSE IF trail = "reset" /\ ~d.edge THEN "rising" ELSE trail
    IN  IF s = "rising" /\ e.sta = "Complete" THEN "swept" ELSE s

SweepEnds ==
    /\ dev.sta = "InProgress"
    /\ dev' = [dev EXCEPT !.sta = "Complete"]
    /\ trail' = Follow(dev, dev')
    /\ UNCHANGED <<imageVars, linkVars, procVars, timeVars, called, spared,
                   shaken>>

FaultArises ==
    /\ dev.act /\ dev.flt = "None"
    /\ \E f \in {"Minor", "Major"} : dev' = [dev EXCEPT !.flt = f]
    /\ spared' = "no"
    /\ UNCHANGED <<imageVars, linkVars, procVars, timeVars, called, trail,
                   shaken>>

MinorClears ==
    /\ dev.flt = "Minor"
    /\ dev' = [dev EXCEPT !.flt = "None"]
    /\ UNCHANGED <<imageVars, linkVars, procVars, timeVars, histVars>>

(* Power is lost and comes back.  Whether the rACT the next exchange       *)
(* repeats counts as an edge depends on the gripper.                       *)
PowerCycles ==
    /\ PowerMayFail
    /\ \E e \in BOOLEAN :
         dev' = [act |-> FALSE, gto |-> FALSE, edge |-> e, sta |-> "Reset",
                 flt |-> "None"]
    /\ spared' = "no"
    /\ UNCHANGED <<imageVars, linkVars, procVars, timeVars, called, trail,
                   shaken>>

-----------------------------------------------------------------------------
(* The exchange cycle.                                                     *)

Latch ==
    /\ link = "idle"
    /\ copy' = command
    /\ link' = "wire"
    /\ UNCHANGED <<imageVars, sample, dev, procVars, timeVars, histVars>>

(* The gripper applies the block, then samples the status it answers with. *)
Apply ==
    /\ link = "wire"
    /\ dev' \in Applied(dev, copy)
    /\ sample' = Reported(dev')
    /\ trail' = Follow(dev, dev')
    /\ shaken' = IF shaken = "ran" /\ ~copy.act THEN "reset" ELSE shaken
    /\ link' = "applied"
    /\ UNCHANGED <<imageVars, copy, procVars, timeVars, called, spared>>

(* exchangeOnce ends, and its locals are gone.                             *)
CycleEnds ==
    /\ link' = "idle"
    /\ copy' = Off
    /\ sample' = NoStatus

Publish ==
    /\ link = "applied"
    /\ record' = sample
    /\ fresh' = (at \in Waiting)
    /\ CycleEnds
    /\ UNCHANGED <<command, dev, procVars, timeVars, histVars>>

(* The exchange fails, before or after the gripper applied the block.      *)
Fail ==
    /\ link # "idle"
    /\ CycleEnds
    /\ UNCHANGED <<imageVars, dev, procVars, timeVars, histVars>>

-----------------------------------------------------------------------------
(* The application, between procedures.                                    *)

SetCommand(b) ==
    /\ op = "none"
    /\ command' = b
    /\ result' = "none"
    /\ trail' = "none"
    /\ shaken' = "no"
    /\ UNCHANGED <<record, fresh, linkVars, dev, op, at, previous, timeVars,
                   called, spared>>

(* A call that finds the gripper activated, or activating, with nothing    *)
(* else asked of it, must leave it so; activate must also leave a major    *)
(* fault, once every exchange reports it.                                  *)
SparedBy(o) ==
    IF o = "activate" /\ command.act /\ (link # "idle" => copy.act) /\ dev.edge
      THEN IF dev.flt = "Major" /\ link = "idle" THEN "faulted"
           ELSE IF dev.flt # "Major" /\ dev.sta # "Reset" THEN "healthy"
           ELSE "no"
      ELSE "no"

Call(o) ==
    /\ op = "none"
    /\ op' = o
    /\ at' = "startOperational"
    /\ result' = "none"
    /\ called' = command
    /\ spared' = SparedBy(o)
    /\ trail' = "none"
    /\ shaken' = "no"
    /\ UNCHANGED <<imageVars, linkVars, dev, previous, timeVars>>

-----------------------------------------------------------------------------
(* The procedures.                                                         *)

(* A procedure returns r, and its locals are gone.                         *)
ReturnResult(r) ==
    /\ op' = "none"
    /\ at' = "idle"
    /\ result' = r
    /\ fresh' = FALSE
    /\ previous' = Off
    /\ half' = FALSE
    /\ expired' = FALSE
    /\ called' = Off
    /\ spared' = "no"

Continue(next) ==
    /\ at' = next
    /\ UNCHANGED <<op, result, fresh, previous, timeVars, called, spared>>

(* waitFor counts from the record that is newest when it is called.        *)
StartWait ==
    /\ at \in WaitStart
    /\ fresh' = FALSE
    /\ at' = CASE at = "startOperational" -> "awaitOperational"
               [] at = "startDeactivated" -> "awaitDeactivated"
               [] at = "startComplete"    -> "awaitComplete"
    /\ UNCHANGED <<command, record, linkVars, dev, op, previous, result,
                   timeVars, histVars>>

(* What each wait waits for.                                               *)
Met(s) ==
    CASE at = "awaitOperational" -> TRUE
      [] at = "awaitDeactivated" -> ~s.act
      [] at = "awaitComplete"    -> s.sta = "Complete"

(* The newest record does not satisfy the wait: wait for the next.         *)
WaitAgain ==
    /\ at \in Waiting
    /\ fresh
    /\ ~Met(record)
    /\ fresh' = FALSE
    /\ UNCHANGED <<command, record, linkVars, dev, procVars, timeVars, histVars>>

(* Mutant: only the first wait is given the deadline.                      *)
TimesOutOperational == at = "awaitOperational" /\ ~fresh /\ expired

TimesOut == ~fresh /\ expired

(* A wait that finds nothing new at its deadline ends the procedure; the   *)
(* handshake's first one takes its block back before it does.              *)
WaitTimesOut ==
    /\ at \in Waiting
    /\ TimesOut
    /\ IF at = "awaitDeactivated"
         THEN Continue("restore")
         ELSE ReturnResult("Timeout")
    /\ UNCHANGED <<command, record, linkVars, dev, trail, shaken>>

(* Mutant: activate looks at the fault only when it must run a handshake.  *)
VerdictStateFirst(s) ==
    CASE op = "recoverFromFault" -> "handshake"
      [] s.sta = "Complete" -> "AlreadyActive"
      [] s.sta = "InProgress" -> "startComplete"
      [] OTHER -> "handshake"

(* Mutant: activate does not recognise an activation under way.            *)
VerdictRestarts(s) ==
    CASE op = "recoverFromFault" -> "handshake"
      [] s.flt = "Major" -> "FaultLatched"
      [] s.sta = "Complete" -> "AlreadyActive"
      [] OTHER -> "handshake"

(* What a procedure does about the status of the first record it sees.     *)
Verdict(s) ==
    CASE op = "recoverFromFault" -> "handshake"
      [] op = "activate" /\ s.flt = "Major" -> "FaultLatched"
      [] op = "activate" /\ s.flt # "Major" /\ s.sta = "Complete" ->
           "AlreadyActive"
      [] op = "activate" /\ s.flt # "Major" /\ s.sta = "InProgress" ->
           "startComplete"
      [] op = "activate" /\ s.flt # "Major" /\ s.sta = "Reset" -> "handshake"

Operational ==
    /\ at = "awaitOperational"
    /\ fresh
    /\ LET v == Verdict(record)
       IN  IF v \in ActivationResult
             THEN ReturnResult(v)
             ELSE Continue(v)
    /\ UNCHANGED <<command, record, linkVars, dev, trail, shaken>>

(* isActivationHandshakeAllowed: too little of the timeout is left.        *)
HandshakeTooLate ==
    /\ at = "handshake"
    /\ half
    /\ ReturnResult("Timeout")
    /\ UNCHANGED <<command, record, linkVars, dev, trail, shaken>>

ActivateBlock == [act |-> TRUE, gto |-> FALSE]
DeactivateBlock == [act |-> FALSE, gto |-> FALSE]

(* Mutant: the handshake does not wait for the gripper to report the reset *)
AfterDeactivateHurried == "reactivate"

AfterDeactivate == "startDeactivated"

HandshakeDeactivates ==
    /\ at = "handshake"
    /\ ~half
    /\ previous' = command
    /\ command' = DeactivateBlock
    /\ at' = AfterDeactivate
    /\ shaken' = "ran"
    /\ UNCHANGED <<record, fresh, linkVars, dev, op, result, timeVars, called,
                   spared, trail>>

Deactivated ==
    /\ at = "awaitDeactivated"
    /\ fresh
    /\ Met(record)
    /\ Continue("reactivate")
    /\ UNCHANGED <<command, record, linkVars, dev, trail, shaken>>

(* Mutant: a handshake that times out leaves its own block behind.         *)
RestoredNothing == command

Restored == previous

HandshakeRestores ==
    /\ at = "restore"
    /\ command' = Restored
    /\ ReturnResult("Timeout")
    /\ UNCHANGED <<record, linkVars, dev, trail, shaken>>

HandshakeActivates ==
    /\ at = "reactivate"
    /\ command' = ActivateBlock
    /\ Continue("startComplete")
    /\ UNCHANGED <<record, linkVars, dev, trail, shaken>>

Completed ==
    /\ at = "awaitComplete"
    /\ fresh
    /\ Met(record)
    /\ ReturnResult("Activated")
    /\ UNCHANGED <<command, record, linkVars, dev, trail, shaken>>

HalfPasses ==
    /\ op # "none" /\ ~half
    /\ half' = TRUE
    /\ UNCHANGED <<imageVars, linkVars, dev, procVars, expired, histVars>>

DeadlinePasses ==
    /\ op # "none" /\ half /\ ~expired
    /\ expired' = TRUE
    /\ UNCHANGED <<imageVars, linkVars, dev, procVars, half, histVars>>

-----------------------------------------------------------------------------
Gripper == SweepEnds \/ FaultArises \/ MinorClears \/ PowerCycles
Cycle == Latch \/ Apply \/ Publish \/ Fail
Step == \/ StartWait \/ WaitAgain \/ WaitTimesOut \/ Operational
        \/ HandshakeTooLate \/ HandshakeDeactivates \/ Deactivated
        \/ HandshakeRestores \/ HandshakeActivates \/ Completed
Time == HalfPasses \/ DeadlinePasses

Next ==
    \/ Gripper
    \/ Cycle
    \/ \E b \in Block : SetCommand(b)
    \/ \E o \in Procedure : Call(o)
    \/ Step
    \/ Time

Spec == Init /\ [][Next]_vars

(* Time passes and threads run.  The commander looks at a record in far    *)
(* less than an exchange takes, so it is not overtaken by a new record     *)
(* each time it looks: its timeout is strongly fair.                       *)
FairSpec ==
    /\ Spec
    /\ WF_vars(Cycle)
    /\ WF_vars(Step)
    /\ SF_vars(WaitTimesOut)
    /\ WF_vars(Time)

-----------------------------------------------------------------------------
(* PROPERTIES                                                              *)

(* recoverFromFault returns Activated only if, since it was called, the    *)
(* gripper was reset and then went through a whole activation: no record   *)
(* of an exchange latched earlier is taken for that.  The order of sets    *)
(* and waits in runActivationHandshake.                                    *)
RecoveredMeansReset ==
    [][op = "recoverFromFault" /\ result' = "Activated" => trail = "swept"]_vars

(* activate leaves alone a gripper that is activated or activating when it *)
(* is called: it never resets it.  The early returns of activate.          *)
HealthyIsUndisturbed ==
    op = "activate" /\ spared = "healthy" => dev.sta # "Reset"

(* activate never resets, and so never clears, a major fault that was      *)
(* latched before the call; that takes recoverFromFault.                   *)
LatchedFaultStays ==
    op = "activate" /\ spared = "faulted" => dev.flt = "Major"

(* No procedure returns leaving the image asking for a reset its caller    *)
(* did not ask for, and one that says it sent nothing sent nothing.  The   *)
(* restore in runActivationHandshake.                                      *)
NoResetLeftBehind ==
    [][op # "none" /\ op' = "none" =>
         /\ called.act => command'.act
         /\ result' \in {"AlreadyActive", "FaultLatched"} => command' = called]_vars

(* Every procedure returns.                                                *)
ProcedureReturns == op # "none" ~> op = "none"

(* Once a handshake has reset the gripper, the rising edge that activates  *)
(* it again has rGTO clear, so that the end of the activation starts no    *)
(* motion.                                                                 *)
HandshakeClearsGoTo ==
    [][shaken = "reset" /\ ~dev.edge /\ dev'.edge => ~dev'.gto]_vars

=============================================================================
