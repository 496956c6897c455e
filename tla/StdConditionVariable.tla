------------------------ MODULE StdConditionVariable ------------------------
(***************************************************************************)
(* The hosted platform's condition variable: a generation number that      *)
(* notifyAll advances, and a std::condition_variable_any that is entered   *)
(* again while the generation is the one the wait began with.  The std     *)
(* wait may end for no reason (external).                                  *)
(***************************************************************************)
EXTENDS ImageSync

VARIABLES
    generation,  \* _generation
    began        \* the generation each wait began with

stdVars == <<generation, began>>

(* In waitUntil: the generation is loaded and the wait has not returned.   *)
InStdWait == {"test", "park", "asleep", "relock"}

StdInit ==
    /\ generation = 0
    /\ began = [t \in Waiter |-> 0]

-----------------------------------------------------------------------------
(* notifyAll: ++_generation ...                                            *)
Bump(n) ==
    /\ notifier[n] = "owed"
    /\ generation' = generation + 1
    /\ notifier' = [notifier EXCEPT ![n] = "notifying"]
    /\ UNCHANGED <<imageVars, callVars, holder, began, at>>

(* Mutant: notifyAll only advances the generation.                         *)
WokenNone == {}

Woken == {t \in Waiter : at[t] = "asleep"}

(* ... then notify_all on the std condition variable.                      *)
NotifyAll(n) ==
    /\ notifier[n] = "notifying"
    /\ at' = [t \in Waiter |-> IF t \in Woken THEN "relock" ELSE at[t]]
    /\ notifier' = [notifier EXCEPT ![n] = "idle"]
    /\ UNCHANGED <<imageVars, callVars, holder, stdVars>>

-----------------------------------------------------------------------------
(* sync calls waitUntil, which loads the generation.                       *)
Block(t) ==
    /\ at[t] = "check"
    /\ MustWait(t)
    /\ began' = [began EXCEPT ![t] = generation]
    /\ at' = [at EXCEPT ![t] = "test"]
    /\ UNCHANGED <<imageVars, callVars, holder, notifier, generation>>

(* Mutant: only a notification ends waitUntil's loop.                      *)
WaitOverNotified(t) == generation # began[t]

WaitOver(t) == generation # began[t] \/ expired[t]

(* waitUntil's loop goes on: enter the std wait.                           *)
TestHolds(t) ==
    /\ at[t] = "test"
    /\ ~WaitOver(t)
    /\ at' = [at EXCEPT ![t] = "park"]
    /\ UNCHANGED <<imageVars, callVars, holder, notifier, stdVars>>

(* It is over: waitUntil returns to sync's loop.                           *)
TestFails(t) ==
    /\ at[t] = "test"
    /\ WaitOver(t)
    /\ at' = [at EXCEPT ![t] = "check"]
    /\ began' = [began EXCEPT ![t] = 0]
    /\ UNCHANGED <<imageVars, callVars, holder, notifier, generation>>

(* std wait_until releases the mutex and blocks in one step.               *)
Park(t) ==
    /\ at[t] = "park"
    /\ at' = [at EXCEPT ![t] = "asleep"]
    /\ holder' = "nobody"
    /\ UNCHANGED <<imageVars, callVars, notifier, stdVars>>

(* The std wait ends at the deadline, or for no reason.                    *)
Rouse(t) ==
    /\ at[t] = "asleep"
    /\ at' = [at EXCEPT ![t] = "relock"]
    /\ UNCHANGED <<imageVars, callVars, holder, notifier, stdVars>>
RouseAtDeadline(t) == expired[t] /\ Rouse(t)
RouseSpuriously(t) == Rouse(t)

StdRelock(t) == Takes(t, "relock", "test") /\ UNCHANGED stdVars

StdNotifying(n) == Bump(n) \/ NotifyAll(n)
StdRunning(t) == \/ Block(t) \/ TestHolds(t) \/ TestFails(t) \/ Park(t)
                 \/ RouseAtDeadline(t)

StdNext ==
    \/ \E n \in Notifier : StdNotifying(n)
    \/ \E t \in Waiter : StdRunning(t) \/ StdRelock(t) \/ RouseSpuriously(t)
=============================================================================
