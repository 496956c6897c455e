------------------------------ MODULE ImageSync ------------------------------
(***************************************************************************)
(* ProcessImage's publish, close and sync, down to the platform's mutex    *)
(* and up to the calls of its condition variable, which each platform's    *)
(* module adds: what a notifyAll does, and what happens in a waitUntil.    *)
(*                                                                         *)
(* notifyAll runs after the image's mutex is released, so its steps fall   *)
(* anywhere between the steps of a wait.                                   *)
(***************************************************************************)
EXTENDS Naturals

CONSTANTS
    Waiter,      \* threads that call sync
    MaxCount     \* bound: records published in one behaviour

ASSUME WaiterAssumption == "nobody" \notin Waiter
ASSUME BoundAssumption == MaxCount \in Nat

VARIABLES
    count, closed, desired, expired,   \* as in ImageWait
    holder,      \* the thread that holds the image's mutex, or "nobody"
    notifier,    \* where publish and close stand: no notifyAll, about to
                 \* call it, or in it
    at           \* where each thread stands

imageVars == <<count, closed>>
callVars == <<desired, expired>>
syncVars == <<imageVars, callVars, holder, notifier, at>>

Notifier == {"publish", "close"}

SyncInit ==
    /\ count = 0
    /\ closed = FALSE
    /\ desired = [t \in Waiter |-> 0]
    /\ expired = [t \in Waiter |-> FALSE]
    /\ holder = "nobody"
    /\ notifier = [n \in Notifier |-> "idle"]
    /\ at = [t \in Waiter |-> "out"]

-----------------------------------------------------------------------------
(* ProcessImage::publish and close, up to the unlock.                      *)
Publish ==
    /\ notifier["publish"] = "idle"
    /\ holder = "nobody"
    /\ count < MaxCount
    /\ count' = count + 1
    /\ notifier' = [notifier EXCEPT !["publish"] = "owed"]
    /\ UNCHANGED <<closed, callVars, holder, at>>

Close ==
    /\ ~closed
    /\ holder = "nobody"
    /\ closed' = TRUE
    /\ notifier' = [notifier EXCEPT !["close"] = "owed"]
    /\ UNCHANGED <<count, callVars, holder, at>>

(* A thread asks for the next record; after close nobody calls any more.   *)
Call(t) ==
    /\ at[t] = "out"
    /\ ~closed
    /\ desired' = [desired EXCEPT ![t] = count + 1]
    /\ at' = [at EXCEPT ![t] = "lock"]
    /\ UNCHANGED <<imageVars, expired, holder, notifier>>

(* The mutex is taken at one point and the thread goes on at another.      *)
Takes(t, here, there) ==
    /\ at[t] = here
    /\ holder = "nobody"
    /\ holder' = t
    /\ at' = [at EXCEPT ![t] = there]
    /\ UNCHANGED <<imageVars, callVars, notifier>>

Lock(t) == Takes(t, "lock", "check")

(* Mutant: sync also waits at the count it was given.                      *)
MustWaitLonger(t) == count <= desired[t] /\ ~closed /\ ~expired[t]

(* Mutant: sync waits on for its record after the image is closed.         *)
MustWaitForRecord(t) == count < desired[t] /\ ~expired[t]

(* The condition of sync's loop.                                           *)
MustWait(t) == count < desired[t] /\ ~closed /\ ~expired[t]

(* sync returns, and its locals are gone.                                  *)
Leave(t) ==
    /\ at[t] = "check"
    /\ ~MustWait(t)
    /\ holder' = "nobody"
    /\ at' = [at EXCEPT ![t] = "out"]
    /\ desired' = [desired EXCEPT ![t] = 0]
    /\ expired' = [expired EXCEPT ![t] = FALSE]
    /\ UNCHANGED <<imageVars, notifier>>

Expire(t) ==
    /\ at[t] # "out"
    /\ ~expired[t]
    /\ expired' = [expired EXCEPT ![t] = TRUE]
    /\ UNCHANGED <<imageVars, desired, holder, notifier, at>>

SyncNext ==
    \/ Publish \/ Close
    \/ \E t \in Waiter : Call(t) \/ Lock(t) \/ Leave(t) \/ Expire(t)
=============================================================================
