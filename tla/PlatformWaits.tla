---------------------------- MODULE PlatformWaits ----------------------------
(***************************************************************************)
(* ProcessImage's waits on each platform: the image's code over the hosted *)
(* condition variable or over the ThreadX port's, in every interleaving    *)
(* with publish and close, both shown to keep the image's promise.         *)
(***************************************************************************)
EXTENDS StdConditionVariable, ThreadXConditionVariable

VARIABLE platform    \* the Platform the driver was given

vars == <<syncVars, stdVars, threadxVars, platform>>

Init ==
    /\ platform \in {"std", "threadx"}
    /\ SyncInit /\ StdInit /\ ThreadXInit

(* The image is closed and everyone has left.                              *)
Terminated ==
    /\ closed
    /\ \A t \in Waiter : at[t] = "out"
    /\ UNCHANGED vars

Next ==
    \/ SyncNext /\ UNCHANGED <<stdVars, threadxVars, platform>>
    \/ platform = "std" /\ StdNext /\ UNCHANGED <<threadxVars, platform>>
    \/ platform = "threadx" /\ ThreadXNext /\ UNCHANGED <<stdVars, platform>>
    \/ Terminated

Spec == Init /\ [][Next]_vars

Std(A) == platform = "std" /\ A /\ UNCHANGED <<threadxVars, platform>>
ThreadX(A) == platform = "threadx" /\ A /\ UNCHANGED <<stdVars, platform>>
Sync(A) == A /\ UNCHANGED <<stdVars, threadxVars, platform>>

(* Threads that can run do, a wait of the system ends by its deadline, and *)
(* a mutex that becomes free again and again is obtained in the end.       *)
FairSpec ==
    /\ Spec
    /\ \A n \in Notifier :
         WF_vars(Std(StdNotifying(n)) \/ ThreadX(ThreadXNotifying(n)))
    /\ \A t \in Waiter :
         /\ WF_vars(Sync(Leave(t)) \/ Std(StdRunning(t)) \/ ThreadX(ThreadXRunning(t)))
         /\ SF_vars(Sync(Lock(t)) \/ Std(StdRelock(t)) \/ ThreadX(ThreadXRelock(t)))

-----------------------------------------------------------------------------
(* PROPERTIES                                                              *)

(* In waitUntil and awake, with nothing that sends the thread back to the  *)
(* check: on the hosted platform about to block, or about to find the      *)
(* generation it began with; on ThreadX before the semaphore.              *)
Entering(t) ==
    IF platform = "std"
      THEN at[t] = "park" \/ (at[t] \in {"test", "relock"} /\ began[t] = generation)
      ELSE at[t] = "get"
Asleep(t) == at[t] \in {"asleep", "suspended"}

(* The sleepers that n's notification, owed or under way, will wake up and *)
(* send back to the check.                                                 *)
WillReach(n, t) ==
    CASE notifier[n] = "owed"      -> Asleep(t)
      [] notifier[n] = "notifying" -> IF platform = "std"
                                        THEN Asleep(t) /\ began[t] # generation
                                        ELSE t \in due[n]
      [] notifier[n] = "idle"      -> FALSE

(* What the image sees of a thread and of a notification.                  *)
InSync(t) == at[t] \notin {"out", "lock"}
ImageOwed == {n \in Notifier : notifier[n] # "idle"}
ImageDue == [n \in Notifier |-> {t \in Waiter : WillReach(n, t)}]
ImageAt == [t \in Waiter |-> IF ~InSync(t) THEN "out"
                            ELSE IF Asleep(t) THEN "asleep"
                            ELSE IF Entering(t) THEN "entering" ELSE "check"]
ImageDesired == [t \in Waiter |-> IF InSync(t) THEN desired[t] ELSE 0]
ImageExpired == [t \in Waiter |-> InSync(t) /\ expired[t]]

Contract == INSTANCE ImageWait WITH
    owed <- ImageOwed, due <- ImageDue, at <- ImageAt,
    desired <- ImageDesired, expired <- ImageExpired

(* Whatever wakes a wait and whenever notifyAll's steps fall, on either    *)
(* platform: sync returns only for the reasons the image promises, and a   *)
(* notification is over only when every thread that has been asleep since  *)
(* before the change was woken and sent back to check the image.  A thread *)
(* counts as asleep until it is really awake; one on its way to sleep may  *)
(* miss the notification.                                                  *)
ImplementsImageWait == Contract!Spec

(* On the hosted platform a notification can pass a thread that was just   *)
(* woken for nothing and goes to sleep again, but only one: the next       *)
(* record finds the thread, so that none sleeps on, with no notification   *)
(* under way, past the record after the one it waits for.  waitUntil       *)
(* testing the generation again.                                           *)
MissesAtMostOneRecord ==
    \A t \in Waiter :
      platform = "std" /\ at[t] = "asleep" /\ notifier["publish"] = "idle" =>
        count <= desired[t]

(* On ThreadX closing the image releases every waiter without the help of  *)
(* a deadline, also the ones that have registered and not reached the      *)
(* semaphore.                                                              *)
CloseReleasesWaiters ==
    platform = "threadx" /\ closed ~> \A t \in Waiter : at[t] = "out"

(* A wait ends once its deadline has passed, however often it was woken    *)
(* for nothing or its notification was missed, on either platform.         *)
DeadlineEndsWait == \A t \in Waiter : expired[t] ~> at[t] = "out"

(* Every waiter returns at once when the image is closed, without the help *)
(* of its deadline: one still asleep has a notification under way.         *)
CloseWakesSleepers ==
    \A t \in Waiter :
      at[t] \in {"asleep", "suspended"} /\ closed =>
        \E n \in Notifier : notifier[n] # "idle"
=============================================================================
