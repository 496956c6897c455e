---------------------- MODULE ThreadXConditionVariable ----------------------
(***************************************************************************)
(* The ThreadX port's condition variable: a count of the registered        *)
(* waiters and a counting semaphore, into which notifyAll puts one token   *)
(* per registered waiter.                                                  *)
(*                                                                         *)
(* The semaphore is ThreadX's (external): a put hands its token to the     *)
(* thread that has been suspended longest and is kept only when none is.   *)
(***************************************************************************)
EXTENDS ImageSync, SequencesExt, FiniteSets

ASSUME FiniteAssumption == IsFiniteSet(Waiter)

VARIABLES
    pending,     \* the tokens each notifyAll still has to put
    waiters,     \* _waiters
    tokens,      \* the count of _semaphore
    queue,       \* the threads suspended on it
    due          \* history: the suspended threads each notifyAll found

semVars == <<waiters, tokens, queue>>
threadxVars == <<pending, semVars, due>>

(* Between _waiters.fetch_add and fetch_sub.                               *)
Registered == {"get", "suspended", "woken"}

ThreadXInit ==
    /\ pending = [n \in Notifier |-> 0]
    /\ waiters = 0
    /\ tokens = 0
    /\ queue = <<>>
    /\ due = [n \in Notifier |-> {}]

Suspended == {queue[i] : i \in DOMAIN queue}
(* t is suspended no more.                                                 *)
Found(t) == [n \in Notifier |-> due[n] \ {t}]

-----------------------------------------------------------------------------
(* Mutant: the loop stops one token short.                                 *)
OweFewer == IF waiters > 0 THEN waiters - 1 ELSE 0

Owe == waiters

(* notifyAll: a token is owed to every registered waiter ...               *)
Load(n) ==
    /\ notifier[n] = "owed"
    /\ pending' = [pending EXCEPT ![n] = Owe]
    /\ notifier' = [notifier EXCEPT ![n] = "notifying"]
    /\ due' = [due EXCEPT ![n] = Suspended]
    /\ UNCHANGED <<imageVars, callVars, semVars, holder, at>>

(* ... put one after the other: tx_semaphore_put.                          *)
PutResumes(n) ==
    /\ notifier[n] = "notifying"
    /\ pending[n] > 0
    /\ queue # <<>>
    /\ pending' = [pending EXCEPT ![n] = @ - 1]
    /\ queue' = Tail(queue)
    /\ at' = [at EXCEPT ![Head(queue)] = "woken"]
    /\ due' = Found(Head(queue))
    /\ UNCHANGED <<imageVars, callVars, waiters, tokens, notifier, holder>>

PutKeeps(n) ==
    /\ notifier[n] = "notifying"
    /\ pending[n] > 0
    /\ queue = <<>>
    /\ pending' = [pending EXCEPT ![n] = @ - 1]
    /\ tokens' = tokens + 1
    /\ UNCHANGED <<syncVars, waiters, queue, due>>

Done(n) ==
    /\ notifier[n] = "notifying"
    /\ pending[n] = 0
    /\ notifier' = [notifier EXCEPT ![n] = "idle"]
    /\ UNCHANGED <<imageVars, callVars, threadxVars, holder, at>>

-----------------------------------------------------------------------------
(* waitUntil: registered with the mutex held, which is then released.      *)
Register(t) ==
    /\ at[t] = "check"
    /\ MustWait(t)
    /\ waiters' = waiters + 1
    /\ holder' = "nobody"
    /\ at' = [at EXCEPT ![t] = "get"]
    /\ UNCHANGED <<imageVars, callVars, notifier, pending, tokens, queue, due>>

(* tx_semaphore_get: a token is there, the time is up, or the thread is    *)
(* suspended.                                                              *)
GetTakes(t) ==
    /\ at[t] = "get"
    /\ tokens > 0
    /\ tokens' = tokens - 1
    /\ at' = [at EXCEPT ![t] = "woken"]
    /\ UNCHANGED <<imageVars, callVars, holder, notifier, pending, waiters,
                   queue, due>>

GetRefuses(t) ==
    /\ at[t] = "get"
    /\ tokens = 0
    /\ expired[t]
    /\ at' = [at EXCEPT ![t] = "woken"]
    /\ UNCHANGED <<imageVars, callVars, holder, notifier, threadxVars>>

GetSuspends(t) ==
    /\ at[t] = "get"
    /\ tokens = 0
    /\ ~expired[t]
    /\ at' = [at EXCEPT ![t] = "suspended"]
    /\ queue' = Append(queue, t)
    /\ UNCHANGED <<imageVars, callVars, holder, notifier, pending, waiters,
                   tokens, due>>

(* The suspension ends at its tick, which may come a part of one before    *)
(* the deadline.                                                           *)
GetEnds(t) ==
    /\ at[t] = "suspended"
    /\ at' = [at EXCEPT ![t] = "woken"]
    /\ \E i \in DOMAIN queue : queue[i] = t /\ queue' = RemoveAt(queue, i)
    /\ due' = Found(t)
    /\ UNCHANGED <<imageVars, callVars, holder, notifier, pending, waiters,
                   tokens>>

GetTimesOut(t) == expired[t] /\ GetEnds(t)
GetEndsEarly(t) == GetEnds(t)

(* Mutant: waitUntil forgets to deregister.                                *)
DeregisteredNot == waiters

Deregistered == waiters - 1

Deregister(t) ==
    /\ at[t] = "woken"
    /\ waiters' = Deregistered
    /\ at' = [at EXCEPT ![t] = "relock"]
    /\ UNCHANGED <<imageVars, callVars, holder, notifier, pending, tokens,
                   queue, due>>

(* waitUntil takes the mutex again and returns to sync's loop.             *)
ThreadXRelock(t) == Takes(t, "relock", "check") /\ UNCHANGED threadxVars

ThreadXNotifying(n) == Load(n) \/ PutResumes(n) \/ PutKeeps(n) \/ Done(n)
ThreadXRunning(t) == \/ Register(t) \/ GetTakes(t) \/ GetRefuses(t)
                     \/ GetSuspends(t) \/ GetTimesOut(t) \/ Deregister(t)

ThreadXNext ==
    \/ \E n \in Notifier : ThreadXNotifying(n)
    \/ \E t \in Waiter : ThreadXRunning(t) \/ ThreadXRelock(t) \/ GetEndsEarly(t)

-----------------------------------------------------------------------------
(* PROPERTIES                                                              *)

(* _waiters (threadx_platform.hpp), changed outside the mutex, is at every *)
(* moment the number of the threads between their registration and their   *)
(* deregistration, and no notifyAll owes more tokens than there are        *)
(* threads.                                                                *)
WaitersAreCounted ==
    /\ waiters = Cardinality({t \in Waiter : at[t] \in Registered})
    /\ \A n \in Notifier : pending[n] <= Cardinality(Waiter)

(* notifyAll wakes every thread that is suspended when it counts the       *)
(* waiters, although others may register, take tokens and time out before  *)
(* the last token is put.                                                  *)
SuspendedAreWoken ==
    \A n \in Notifier : notifier[n] = "idle" => due[n] = {}
=============================================================================
