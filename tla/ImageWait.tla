------------------------------ MODULE ImageWait ------------------------------
(***************************************************************************)
(* What the process image promises the threads that wait on it.  sync      *)
(* returns when the count it is given is reached, the image is closed or   *)
(* its deadline has passed.  Every publish and close is followed by a      *)
(* notification, which makes every thread check again that has been asleep *)
(* since before the change.  It may miss a thread that is on its way to    *)
(* sleep, also one that was woken for nothing and goes back to sleep.      *)
(*                                                                         *)
(* ExchangeCycle is shown to implement it, and so are the platforms'       *)
(* condition variables under the image's own code.                         *)
(***************************************************************************)
EXTENDS Naturals

CONSTANT Waiter

VARIABLES
    count,    \* ProcessImage::_stamped.metadata.exchangeCount
    closed,   \* ProcessImage::_closed
    owed,     \* the changes whose notification is not over
    due,      \* the sleepers each of those is going to reach
    at,       \* where each thread stands
    desired,  \* the count each thread waits for
    expired   \* whether each deadline has passed

vars == <<count, closed, owed, due, at, desired, expired>>

Change == {"publish", "close"}
(* Not in sync; about to check the image; in waitUntil and not asleep;     *)
(* asleep.                                                                 *)
Place == {"out", "check", "entering", "asleep"}

Init ==
    /\ count = 0
    /\ closed = FALSE
    /\ owed = {}
    /\ due = [n \in Change |-> {}]
    /\ at = [t \in Waiter |-> "out"]
    /\ desired = [t \in Waiter |-> 0]
    /\ expired = [t \in Waiter |-> FALSE]

Publish ==
    /\ "publish" \notin owed
    /\ count' = count + 1
    /\ owed' = owed \cup {"publish"}
    /\ UNCHANGED <<closed, at, desired, expired>>

Close ==
    /\ ~closed
    /\ closed' = TRUE
    /\ owed' = owed \cup {"close"}
    /\ UNCHANGED <<count, at, desired, expired>>

(* Threads in waitUntil return to the check, or stir and stay in it.       *)
Stirs ==
    /\ at' \in [Waiter -> Place]
    /\ \A t \in Waiter :
         \/ at'[t] = at[t]
         \/ at[t] \in {"entering", "asleep"} /\ at'[t] = "check"
         \/ at[t] = "asleep" /\ at'[t] = "entering"
    /\ UNCHANGED <<count, closed, desired, expired>>

(* A notification is over once it has reached all it had to.               *)
Notify(n) ==
    /\ n \in owed
    /\ owed' = owed \ {n}
    /\ Stirs
    /\ \A t \in due[n] : at'[t] = "check"

(* A thread may also wake for no reason.                                   *)
Wake == Stirs /\ UNCHANGED owed

(* A thread calls sync for any count, with any deadline.                   *)
Call(t) ==
    /\ at[t] = "out"
    /\ at' = [at EXCEPT ![t] = "check"]
    /\ desired'[t] \in Nat
    /\ desired' = [desired EXCEPT ![t] = desired'[t]]
    /\ expired'[t] \in BOOLEAN
    /\ expired' = [expired EXCEPT ![t] = expired'[t]]
    /\ UNCHANGED <<count, closed, owed>>

Reached(t) == count >= desired[t]

Block(t) ==
    /\ at[t] = "check"
    /\ ~Reached(t) /\ ~closed /\ ~expired[t]
    /\ at' = [at EXCEPT ![t] = "entering"]
    /\ UNCHANGED <<count, closed, owed, desired, expired>>

Sleep(t) ==
    /\ at[t] = "entering"
    /\ at' = [at EXCEPT ![t] = "asleep"]
    /\ UNCHANGED <<count, closed, owed, desired, expired>>

Leave(t) ==
    /\ at[t] = "check"
    /\ Reached(t) \/ closed \/ expired[t]
    /\ at' = [at EXCEPT ![t] = "out"]
    /\ desired' = [desired EXCEPT ![t] = 0]
    /\ expired' = [expired EXCEPT ![t] = FALSE]
    /\ UNCHANGED <<count, closed, owed>>

(* sync returned a record its caller does not want, who calls it for the   *)
(* next one with the same deadline.                                        *)
Again(t) ==
    /\ at[t] = "check"
    /\ Reached(t)
    /\ desired' = [desired EXCEPT ![t] = count + 1]
    /\ UNCHANGED <<count, closed, owed, at, expired>>

Expire(t) ==
    /\ at[t] # "out"
    /\ expired' = [expired EXCEPT ![t] = TRUE]
    /\ UNCHANGED <<count, closed, owed, at, desired>>

(* Whoever sleeps when a change is made is due for its notification and    *)
(* stays so until it stirs; later sleepers may come to be due as well.     *)
Due ==
    /\ due' \in [Change -> SUBSET Waiter]
    /\ \A n \in Change : \A t \in Waiter :
         /\ t \in due'[n] => n \in owed' /\ at'[t] = "asleep"
         /\ /\ t \in due[n] \/ n \notin owed
            /\ n \in owed' /\ at[t] = "asleep" /\ at'[t] = "asleep"
            => t \in due'[n]

Next ==
    /\ \/ Publish
       \/ Close
       \/ \E n \in Change : Notify(n)
       \/ Wake
       \/ \E t \in Waiter : \/ Call(t) \/ Block(t) \/ Sleep(t) \/ Leave(t)
                            \/ Again(t) \/ Expire(t)
    /\ Due

Spec == Init /\ [][Next]_vars
=============================================================================
