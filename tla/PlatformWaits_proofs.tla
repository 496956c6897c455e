----------------------- MODULE PlatformWaits_proofs -----------------------
(***************************************************************************)
(* Both platforms' condition variables keep the process image's promise to *)
(* any number of waiting threads, and their own books.                     *)
(***************************************************************************)
EXTENDS PlatformWaits, FiniteSetTheorems, SequenceTheorems, TLAPS

-----------------------------------------------------------------------------
(* The inductive invariant.                                                *)

(* Where a thread may stand on each platform.                              *)
StdPoint == {"out", "lock", "check"} \cup InStdWait
ThreadXPoint == {"out", "lock", "check", "relock"} \cup Registered

TypeOK ==
    /\ count \in Nat /\ closed \in BOOLEAN
    /\ desired \in [Waiter -> Nat] /\ expired \in [Waiter -> BOOLEAN]
    /\ notifier \in [Notifier -> {"idle", "owed", "notifying"}]
    /\ generation \in Nat /\ began \in [Waiter -> Nat]
    /\ pending \in [Notifier -> Nat] /\ waiters \in Nat /\ tokens \in Nat
    /\ queue \in Seq(Waiter)
    /\ due \in [Notifier -> SUBSET Waiter]
    /\ platform \in {"std", "threadx"}
    /\ at \in [Waiter -> IF platform = "std" THEN StdPoint ELSE ThreadXPoint]

(* The thread that runs with the image's mutex is its holder.              *)
Exclusive == \A t \in Waiter : at[t] \in {"check", "test", "park"} => holder = t

(* The generation a hosted wait began with tells it the records since: one *)
(* that missed a notification is still found by the next.                  *)
Generations ==
    platform = "std" =>
      \A t \in Waiter : at[t] \in InStdWait =>
        /\ began[t] <= generation
        /\ at[t] = "park" => count <= desired[t]
        /\ at[t] = "asleep" => count <= desired[t] \/ notifier["publish"] # "idle"
        /\ count = desired[t] => notifier["publish"] = "owed" \/ began[t] # generation
        /\ count > desired[t] => began[t] # generation

(* The queue of the semaphore holds the suspended threads, each once.      *)
QueueSound ==
    /\ \A i \in 1..Len(queue) : at[queue[i]] = "suspended"
    /\ \A t \in Waiter : at[t] = "suspended" => \E i \in 1..Len(queue) : queue[i] = t
    /\ \A i, j \in 1..Len(queue) : queue[i] = queue[j] => i = j

(* The threads a notifyAll found are at the head of the queue, and it has  *)
(* a token left for each.                                                  *)
DueFirst ==
    \A n \in Notifier :
      /\ due[n] \subseteq Suspended
      /\ \A i, j \in 1..Len(queue) : i < j /\ queue[j] \in due[n] => queue[i] \in due[n]
      /\ notifier[n] # "notifying" => due[n] = {}
      /\ Cardinality(due[n]) <= pending[n]

(* The image is closed once.                                               *)
ClosedOnce == ~closed => notifier["close"] = "idle"

IInv == /\ TypeOK /\ Exclusive /\ Generations /\ WaitersAreCounted
        /\ QueueSound /\ DueFirst /\ ClosedOnce

-----------------------------------------------------------------------------
(* The step of each part of the system.                                    *)
SyncStep == SyncNext /\ UNCHANGED <<stdVars, threadxVars, platform>>
StdStep == platform = "std" /\ StdNext /\ UNCHANGED <<threadxVars, platform>>
ThreadXStep == platform = "threadx" /\ ThreadXNext /\ UNCHANGED <<stdVars, platform>>

(* There are no others.                                                    *)
LEMMA StepKinds == [Next]_vars <=> SyncStep \/ StdStep \/ ThreadXStep \/ UNCHANGED vars
  BY DEF Next, Terminated, SyncStep, StdStep, ThreadXStep

(* A queue that loses one of its threads.                                  *)
LEMMA RemoveAtFacts ==
  ASSUME NEW S, NEW q \in Seq(S), NEW k \in 1..Len(q)
  PROVE  /\ RemoveAt(q, k) \in Seq(S)
         /\ Len(RemoveAt(q, k)) = Len(q) - 1
         /\ \A i \in 1..(Len(q) - 1) :
              RemoveAt(q, k)[i] = IF i < k THEN q[i] ELSE q[i + 1]
<1> DEFINE a == SubSeq(q, 1, k - 1)
           b == SubSeq(q, k + 1, Len(q))
<1>0. Len(q) \in Nat /\ \A i \in 1..Len(q) : q[i] \in S
  BY LenProperties, ElementOfSeq
<1>1. a \in Seq(S) /\ Len(a) = k - 1 /\ \A i \in 1..(k - 1) : a[i] = q[i]
  <2>1. \A i \in 1..(k - 1) : q[i] \in S
    BY <1>0
  <2>2. 1 \in Int /\ k - 1 \in Int
    BY <1>0
  <2>3. /\ a \in Seq(S) /\ Len(a) = (IF 1 <= k - 1 THEN (k - 1) - 1 + 1 ELSE 0)
        /\ \A i \in 1..((k - 1) - 1 + 1) : a[i] = q[1 + i - 1]
    BY <2>1, <2>2, SubSeqProperties
  <2> QED
    BY <1>0, <2>3
<1>2. b \in Seq(S) /\ Len(b) = Len(q) - k /\ \A i \in 1..(Len(q) - k) : b[i] = q[k + i]
  <2>1. \A i \in (k + 1)..Len(q) : q[i] \in S
    BY <1>0
  <2>2. k + 1 \in Int /\ Len(q) \in Int
    BY <1>0
  <2>3. /\ b \in Seq(S)
        /\ Len(b) = (IF k + 1 <= Len(q) THEN Len(q) - (k + 1) + 1 ELSE 0)
        /\ \A i \in 1..(Len(q) - (k + 1) + 1) : b[i] = q[(k + 1) + i - 1]
    BY <2>1, <2>2, SubSeqProperties
  <2> QED
    BY <1>0, <2>3
<1>3. RemoveAt(q, k) = a \o b
  BY DEF RemoveAt
<1> HIDE DEF a, b
<1>4. /\ a \o b \in Seq(S) /\ Len(a \o b) = Len(a) + Len(b)
      /\ \A i \in 1..(Len(a) + Len(b)) :
           (a \o b)[i] = IF i <= Len(a) THEN a[i] ELSE b[i - Len(a)]
  BY <1>1, <1>2, ConcatProperties
<1>5. Len(a) + Len(b) = Len(q) - 1
  BY <1>0, <1>1, <1>2
<1>6. ASSUME NEW i \in 1..(Len(q) - 1)
      PROVE  (a \o b)[i] = IF i < k THEN q[i] ELSE q[i + 1]
  <2>1. CASE i < k
    BY <1>0, <1>1, <1>4, <1>5, <2>1
  <2>2. CASE ~(i < k)
    <3>1. i - Len(a) \in 1..(Len(q) - k) /\ k + (i - Len(a)) = i + 1 /\ ~(i <= Len(a))
      BY <1>0, <1>1, <2>2
    <3>2. (a \o b)[i] = b[i - Len(a)]
      BY <1>4, <1>5, <3>1
    <3> QED
      BY <1>2, <2>2, <3>1, <3>2
  <2> QED
    BY <2>1, <2>2
<1> QED
  BY <1>3, <1>4, <1>5, <1>6

-----------------------------------------------------------------------------
(* Types.                                                                  *)
LEMMA TypeStep == TypeOK /\ WaitersAreCounted /\ [Next]_vars => TypeOK'
<1> SUFFICES ASSUME TypeOK, WaitersAreCounted, [Next]_vars PROVE TypeOK'
  OBVIOUS
<1> USE DEF TypeOK, StdPoint, ThreadXPoint, InStdWait, Registered, Notifier, syncVars,
            imageVars, callVars, stdVars, threadxVars, semVars
<1>1. CASE SyncStep
  <2>0. UNCHANGED <<generation, began, pending, waiters, tokens, queue, due, platform>>
    BY <1>1 DEF SyncStep
  <2>1. CASE Publish \/ Close
    <3>0. closed' = closed \/ closed' = TRUE
      BY <2>1 DEF Publish, Close
    <3>1. count' \in Nat /\ closed' \in BOOLEAN
      <4>1. count' \in Nat
        BY <2>1 DEF Publish, Close
      <4> QED
        BY <3>0, <4>1
    <3>2. notifier' \in [Notifier -> {"idle", "owed", "notifying"}]
      BY <2>1 DEF Publish, Close
    <3>3. UNCHANGED <<desired, expired, at>>
      BY <2>1 DEF Publish, Close
    <3> QED
      BY <2>0, <3>1, <3>2, <3>3
  <2>2. ASSUME NEW t \in Waiter, Call(t) \/ Lock(t) \/ Leave(t) \/ Expire(t)
        PROVE  TypeOK'
    <3>0. UNCHANGED <<count, closed, notifier>>
      BY <2>2 DEF Call, Lock, Takes, Leave, Expire
    <3>1. desired' \in [Waiter -> Nat]
      <4>1. desired' = desired \/ \E d \in Nat : desired' = [desired EXCEPT ![t] = d]
        BY <2>2 DEF Call, Lock, Takes, Leave, Expire
      <4> QED
        BY <4>1
    <3>2. expired' \in [Waiter -> BOOLEAN]
      BY <2>2 DEF Call, Lock, Takes, Leave, Expire
    <3>3. at' = at \/ \E a \in {"out", "lock", "check"} : at' = [at EXCEPT ![t] = a]
      BY <2>2 DEF Call, Lock, Takes, Leave, Expire
    <3>4. at' \in [Waiter -> IF platform = "std" THEN StdPoint ELSE ThreadXPoint]
      BY <3>3
    <3> QED
      BY <2>0, <3>0, <3>1, <3>2, <3>4
  <2> QED
    BY <1>1, <2>1, <2>2 DEF SyncStep, SyncNext
<1>2. CASE StdStep
  <2>0. /\ UNCHANGED <<pending, waiters, tokens, queue, due, platform>>
        /\ platform = "std"
    BY <1>2 DEF StdStep
  <2>1. ASSUME NEW n \in Notifier, StdNotifying(n) PROVE TypeOK'
    <3>1. notifier' \in [Notifier -> {"idle", "owed", "notifying"}]
      BY <2>1 DEF StdNotifying, Bump, NotifyAll
    <3>2. at' \in [Waiter -> StdPoint]
      BY <2>0, <2>1 DEF StdNotifying, Bump, NotifyAll
    <3>3. UNCHANGED <<count, closed, desired, expired, began>> /\ generation' \in Nat
      BY <2>1 DEF StdNotifying, Bump, NotifyAll
    <3> QED
      BY <2>0, <3>1, <3>2, <3>3
  <2>2. ASSUME NEW t \in Waiter, StdRunning(t) \/ StdRelock(t) \/ RouseSpuriously(t)
        PROVE  TypeOK'
    <3> USE DEF StdRunning, Block, TestHolds, TestFails, Park, RouseAtDeadline,
                RouseSpuriously, Rouse, StdRelock, Takes
    <3>1. \E a \in StdPoint : at' = [at EXCEPT ![t] = a]
      BY <2>2
    <3>2. UNCHANGED <<count, closed, desired, expired, notifier, generation>>
      BY <2>2
    <3>3. began' \in [Waiter -> Nat]
      BY <2>2
    <3>4. at' \in [Waiter -> StdPoint]
      BY <2>0, <3>1
    <3> QED
      BY <2>0, <3>2, <3>3, <3>4
  <2> QED
    BY <1>2, <2>1, <2>2 DEF StdStep, StdNext
<1>3. CASE ThreadXStep
  <2>1. ASSUME NEW n \in Notifier, Load(n) PROVE TypeOK'
    <3>1. Suspended \in SUBSET Waiter
      BY LenProperties DEF Suspended
    <3> QED
      BY <1>3, <2>1, <3>1 DEF ThreadXStep, Load, Owe
  <2>2. ASSUME NEW n \in Notifier, PutResumes(n) PROVE TypeOK'
    <3>1. Head(queue) \in Waiter /\ Tail(queue) \in Seq(Waiter)
      BY <2>2, HeadTailProperties DEF PutResumes
    <3>2. pending' \in [Notifier -> Nat]
      BY <2>2 DEF PutResumes
    <3>3. due' \in [Notifier -> SUBSET Waiter]
      BY <2>2 DEF PutResumes, Found
    <3> QED
      BY <1>3, <2>2, <3>1, <3>2, <3>3 DEF ThreadXStep, PutResumes
  <2>3. ASSUME NEW n \in Notifier, PutKeeps(n) \/ Done(n) PROVE TypeOK'
    <3>1. CASE PutKeeps(n)
      BY <1>3, <3>1 DEF ThreadXStep, PutKeeps
    <3>2. CASE Done(n)
      BY <1>3, <3>2 DEF ThreadXStep, Done
    <3> QED
      BY <2>3, <3>1, <3>2
  <2>4. ASSUME NEW t \in Waiter, Register(t) \/ GetTakes(t) \/ GetRefuses(t)
                                  \/ ThreadXRelock(t)
        PROVE  TypeOK'
    <3> USE DEF Register, GetTakes, GetRefuses, ThreadXRelock, Takes
    <3>1. \E a \in ThreadXPoint : at' = [at EXCEPT ![t] = a]
      BY <2>4
    <3>2. waiters' \in Nat /\ tokens' \in Nat
      BY <2>4
    <3>3. UNCHANGED <<count, closed, desired, expired, notifier, pending, queue, due>>
      BY <2>4
    <3>4. at' \in [Waiter -> ThreadXPoint]
      BY <1>3, <3>1 DEF ThreadXStep
    <3> QED
      BY <1>3, <3>2, <3>3, <3>4 DEF ThreadXStep
  <2>5. ASSUME NEW t \in Waiter, GetSuspends(t) PROVE TypeOK'
    <3>1. queue' \in Seq(Waiter)
      BY <2>5, AppendProperties DEF GetSuspends
    <3> QED
      BY <1>3, <2>5, <3>1 DEF ThreadXStep, GetSuspends
  <2>6. ASSUME NEW t \in Waiter, GetEnds(t) PROVE TypeOK'
    <3>1. PICK i \in DOMAIN queue : queue' = RemoveAt(queue, i)
      BY <2>6 DEF GetEnds
    <3>2. queue' \in Seq(Waiter)
      <4>1. queue \in Seq(Waiter) /\ i \in 1..Len(queue)
        BY LenProperties
      <4> QED
        BY <3>1, <4>1, RemoveAtFacts
    <3>3. due' \in [Notifier -> SUBSET Waiter]
      BY <2>6 DEF GetEnds, Found
    <3> QED
      BY <1>3, <2>6, <3>2, <3>3 DEF ThreadXStep, GetEnds
  <2>7. ASSUME NEW t \in Waiter, Deregister(t) PROVE TypeOK'
    <3> DEFINE R == {u \in Waiter : at[u] \in {"get", "suspended", "woken"}}
    <3>1. waiters # 0
      <4>1. t \in R /\ R \subseteq Waiter
        BY <2>7 DEF Deregister
      <4>2. IsFiniteSet(R)
        BY <4>1, FiniteAssumption, FS_Subset
      <4>3. Cardinality(R) # 0
        BY <4>1, <4>2, FS_EmptySet
      <4> QED
        BY <4>3 DEF WaitersAreCounted
    <3> QED
      BY <1>3, <2>7, <3>1 DEF ThreadXStep, Deregister, Deregistered
  <2> QED
    BY <1>3, <2>1, <2>2, <2>3, <2>4, <2>5, <2>6, <2>7 DEF ThreadXStep, ThreadXNext,
       ThreadXNotifying, ThreadXRunning, GetTimesOut, GetEndsEarly
<1>4. CASE UNCHANGED vars
  BY <1>4 DEF vars
<1> QED
  BY <1>1, <1>2, <1>3, <1>4, StepKinds

-----------------------------------------------------------------------------
(* Each part of the invariant, over every step.                            *)

(* The mutex.                                                              *)
LEMMA ExclusiveStep == TypeOK /\ Exclusive /\ QueueSound /\ [Next]_vars => Exclusive'
<1> SUFFICES ASSUME TypeOK, Exclusive, QueueSound, [Next]_vars PROVE Exclusive'
  OBVIOUS
<1> USE WaiterAssumption DEF Exclusive
<1>0. at \in [Waiter -> StdPoint \cup ThreadXPoint]
  BY DEF TypeOK
<1>1. CASE SyncStep
  BY <1>0, <1>1 DEF SyncStep, SyncNext, Publish, Close, Call, Lock, Takes, Leave, Expire
<1>2. CASE StdStep
  <2>1. CASE \E n \in Notifier : StdNotifying(n)
    BY <1>0, <2>1 DEF StdNotifying, Bump, NotifyAll, Woken
  <2>2. CASE \E t \in Waiter : StdRunning(t) \/ StdRelock(t) \/ RouseSpuriously(t)
    BY <1>0, <2>2 DEF StdRunning, Block, TestHolds, TestFails, Park, RouseAtDeadline,
         RouseSpuriously, Rouse, StdRelock, Takes
  <2> QED
    BY <1>2, <2>1, <2>2 DEF StdStep, StdNext
<1>3. CASE ThreadXStep
  <2>1. CASE \E n \in Notifier : ThreadXNotifying(n)
    BY <1>0, <2>1 DEF ThreadXNotifying, Load, PutResumes, PutKeeps, Done, syncVars
  <2>2. CASE \E t \in Waiter : ThreadXRunning(t) \/ ThreadXRelock(t) \/ GetEndsEarly(t)
    BY <1>0, <2>2 DEF ThreadXRunning, Register, GetTakes, GetRefuses, GetSuspends,
         GetTimesOut, GetEndsEarly, GetEnds, Deregister, ThreadXRelock, Takes
  <2> QED
    BY <1>3, <2>1, <2>2 DEF ThreadXStep, ThreadXNext
<1>4. CASE UNCHANGED vars
  BY <1>4 DEF vars, syncVars
<1> QED
  BY <1>1, <1>2, <1>3, <1>4, StepKinds

(* The generations.                                                        *)
LEMMA GenerationStep ==
  TypeOK /\ Exclusive /\ Generations /\ [Next]_vars => Generations'
<1> SUFFICES ASSUME TypeOK, Exclusive, Generations, [Next]_vars, platform' = "std",
                    NEW t \in Waiter, at'[t] \in InStdWait
             PROVE  /\ began'[t] <= generation'
                    /\ at'[t] = "park" => count' <= desired'[t]
                    /\ at'[t] = "asleep" =>
                         count' <= desired'[t] \/ notifier'["publish"] # "idle"
                    /\ count' = desired'[t] =>
                         notifier'["publish"] = "owed" \/ began'[t] # generation'
                    /\ count' > desired'[t] => began'[t] # generation'
  BY DEF Generations
<1> USE DEF InStdWait
<1>0. /\ count \in Nat /\ desired[t] \in Nat /\ generation \in Nat /\ began[t] \in Nat
      /\ at \in [Waiter -> StdPoint \cup ThreadXPoint]
      /\ notifier \in [{"publish", "close"} -> {"idle", "owed", "notifying"}]
      /\ desired \in [Waiter -> Nat] /\ began \in [Waiter -> Nat]
  BY DEF TypeOK, Notifier
<1>1. CASE SyncStep
  <2>0. UNCHANGED <<generation, began, platform>>
    BY <1>1 DEF SyncStep, stdVars
  <2>1. CASE Publish
    <3>1. UNCHANGED <<at, desired>> /\ count' = count + 1 /\ notifier'["publish"] = "owed"
            /\ notifier["publish"] = "idle" /\ holder = "nobody"
      BY <1>0, <2>1 DEF Publish, callVars
    <3>2. at[t] # "park"
      BY <3>1, WaiterAssumption DEF Exclusive
    <3> QED
      BY <1>0, <2>0, <3>1, <3>2 DEF Generations
  <2>2. CASE Close
    <3>1. UNCHANGED <<at, desired, count>> /\ notifier'["publish"] = notifier["publish"]
      BY <1>0, <2>2 DEF Close, callVars
    <3> QED
      BY <1>0, <2>0, <3>1 DEF Generations
  <2>3. ASSUME NEW u \in Waiter, Call(u) \/ Lock(u) \/ Leave(u) \/ Expire(u)
        PROVE  UNCHANGED <<at[t], desired[t], count, notifier>>
    BY <1>0, <2>3 DEF Call, Lock, Takes, Leave, Expire, imageVars, callVars
  <2>4. CASE \E u \in Waiter : Call(u) \/ Lock(u) \/ Leave(u) \/ Expire(u)
    BY <2>0, <2>3, <2>4 DEF Generations
  <2> QED
    BY <1>1, <2>1, <2>2, <2>4 DEF SyncStep, SyncNext
<1>2. CASE StdStep
  <2>0. platform = "std"
    BY <1>2 DEF StdStep
  <2>1. ASSUME NEW n \in Notifier, Bump(n)
        PROVE  /\ UNCHANGED <<at, desired, count, began>> /\ generation' = generation + 1
               /\ notifier'["publish"] = notifier["publish"]
                    \/ notifier'["publish"] = "notifying"
    BY <1>0, <2>1 DEF Bump, imageVars, callVars, Notifier
  <2>2. CASE \E n \in Notifier : Bump(n)
    BY <1>0, <2>0, <2>1, <2>2 DEF Generations
  <2>3. ASSUME NEW n \in Notifier, NotifyAll(n)
        PROVE  /\ UNCHANGED <<desired, count, began, generation>>
               /\ at'[t] # "asleep" /\ at[t] \in InStdWait
               /\ at'[t] = "park" => at[t] = "park"
               /\ notifier'["publish"] = "owed" <=> notifier["publish"] = "owed"
    BY <1>0, <2>3 DEF NotifyAll, Woken, imageVars, callVars, stdVars, Notifier
  <2>4. CASE \E n \in Notifier : NotifyAll(n)
    BY <1>0, <2>0, <2>3, <2>4 DEF Generations
  <2>5. ASSUME NEW u \in Waiter, Block(u)
        PROVE  /\ UNCHANGED <<desired, count, notifier, generation>>
               /\ u # t => UNCHANGED <<at[t], began[t]>>
               /\ u = t => at'[t] = "test" /\ began'[t] = generation /\ count < desired[t]
    BY <1>0, <2>5 DEF Block, MustWait, imageVars, callVars
  <2>6. CASE \E u \in Waiter : Block(u)
    <3>1. PICK u \in Waiter : Block(u)
      BY <2>6
    <3>2. CASE u = t
      BY <1>0, <2>5, <3>1, <3>2
    <3>3. CASE u # t
      BY <1>0, <2>0, <2>5, <3>1, <3>3 DEF Generations
    <3> QED
      BY <3>2, <3>3
  <2>7. ASSUME NEW u \in Waiter, \/ TestHolds(u) \/ TestFails(u) \/ Park(u)
                                 \/ RouseAtDeadline(u) \/ RouseSpuriously(u)
                                 \/ StdRelock(u)
        PROVE  /\ UNCHANGED <<desired, count, notifier, generation>>
               /\ began'[t] = began[t] /\ at[t] \in InStdWait
               /\ at'[t] = "park" => at[t] = "park" \/ began[t] = generation
               /\ at'[t] = "asleep" => at[t] \in {"park", "asleep"}
    BY <1>0, <2>7 DEF TestHolds, TestFails, WaitOver, Park, RouseAtDeadline,
         RouseSpuriously, Rouse, StdRelock, Takes, imageVars, callVars, stdVars
  <2>8. CASE \E u \in Waiter : \/ TestHolds(u) \/ TestFails(u) \/ Park(u)
                               \/ RouseAtDeadline(u) \/ RouseSpuriously(u)
                               \/ StdRelock(u)
    BY <1>0, <2>0, <2>7, <2>8 DEF Generations
  <2> QED
    BY <1>2, <2>2, <2>4, <2>6, <2>8 DEF StdStep, StdNext, StdNotifying, StdRunning
<1>3. CASE ThreadXStep
  BY <1>3 DEF ThreadXStep
<1>4. CASE UNCHANGED vars
  BY <1>4 DEF vars, syncVars, imageVars, callVars, stdVars, Generations
<1> QED
  BY <1>1, <1>2, <1>3, <1>4, StepKinds

-----------------------------------------------------------------------------
(* The ThreadX semaphore.                                                  *)

(* The queue by its positions.                                             *)
LEMMA QueueType ==
  ASSUME TypeOK
  PROVE  /\ Len(queue) \in Nat /\ DOMAIN queue = 1..Len(queue)
         /\ \A i \in 1..Len(queue) : queue[i] \in Waiter
  BY LenProperties, ElementOfSeq DEF TypeOK

(* The steps that wake a suspended thread, the one at position k.          *)
Drops(k) ==
    /\ Len(queue') = Len(queue) - 1
    /\ \A i \in 1..(Len(queue) - 1) :
         queue'[i] = IF i < k THEN queue[i] ELSE queue[i + 1]
    /\ at' = [at EXCEPT ![queue[k]] = "woken"]
    /\ due' = [n \in Notifier |-> due[n] \ {queue[k]}]

(* A put wakes the first ...                                               *)
LEMMA PutDrops ==
  ASSUME TypeOK, NEW n \in Notifier, PutResumes(n)
  PROVE  1 \in 1..Len(queue) /\ Drops(1) /\ Head(queue) = queue[1]
<1>1. queue \in Seq(Waiter) /\ queue # <<>>
  BY DEF TypeOK, PutResumes
<1>2. Len(queue) \in Nat \ {0} /\ Head(queue) = queue[1]
  BY <1>1, EmptySeq
<1>3. Len(queue') = Len(queue) - 1 /\ \A i \in 1..Len(queue') : queue'[i] = queue[i + 1]
  <2>1. /\ Len(Tail(queue)) = Len(queue) - 1
        /\ \A i \in 1..Len(Tail(queue)) : Tail(queue)[i] = queue[i + 1]
    BY <1>1, HeadTailProperties
  <2> QED
    BY <2>1 DEF PutResumes
<1>4. at' = [at EXCEPT ![queue[1]] = "woken"]
        /\ due' = [m \in Notifier |-> due[m] \ {queue[1]}]
  BY <1>2 DEF PutResumes, Found
<1> QED
  BY <1>2, <1>3, <1>4 DEF Drops

(* ... and the end of a suspension any of them.                            *)
LEMMA EndDrops ==
  ASSUME TypeOK, NEW t \in Waiter, GetEnds(t)
  PROVE  \E k \in 1..Len(queue) : Drops(k) /\ queue[k] = t
<1>1. PICK k \in 1..Len(queue) : queue[k] = t /\ queue' = RemoveAt(queue, k)
  BY QueueType DEF GetEnds
<1>2. queue \in Seq(Waiter)
  BY DEF TypeOK
<1>3. /\ Len(queue') = Len(queue) - 1
      /\ \A i \in 1..(Len(queue) - 1) :
           queue'[i] = IF i < k THEN queue[i] ELSE queue[i + 1]
  BY <1>1, <1>2, RemoveAtFacts
<1>4. at' = [at EXCEPT ![queue[k]] = "woken"]
        /\ due' = [m \in Notifier |-> due[m] \ {queue[k]}]
  BY <1>1 DEF GetEnds, Found
<1> QED
  BY <1>1, <1>3, <1>4 DEF Drops

(* The first part of DueFirst: what notifyAll found is still suspended,    *)
(* ahead of what came later.                                               *)
DueAhead ==
    \A n \in Notifier :
      /\ due[n] \subseteq Suspended
      /\ \A i, j \in 1..Len(queue) : i < j /\ queue[j] \in due[n] => queue[i] \in due[n]

(* A wake-up keeps the queue sound, and the due threads ahead in it.       *)
LEMMA DropStep ==
  ASSUME TypeOK, TypeOK', QueueSound, DueAhead, NEW k \in 1..Len(queue), Drops(k)
  PROVE  QueueSound' /\ DueAhead'
<1>0. /\ Len(queue) \in Nat /\ \A i \in 1..Len(queue) : queue[i] \in Waiter
      /\ DOMAIN queue = 1..Len(queue) /\ DOMAIN queue' = 1..Len(queue')
      /\ Len(queue') = Len(queue) - 1
      /\ at \in [Waiter -> StdPoint \cup ThreadXPoint]
  <2>1. DOMAIN queue' = 1..Len(queue')
    BY LenProperties DEF TypeOK
  <2> QED
    BY <2>1, QueueType DEF TypeOK, Drops
<1> DEFINE old(i) == IF i < k THEN i ELSE i + 1
<1>1. \A i \in 1..Len(queue') :
        old(i) \in 1..Len(queue) /\ old(i) # k /\ queue'[i] = queue[old(i)]
  BY <1>0 DEF Drops
<1>2. \A i, j \in 1..Len(queue') : i < j => old(i) < old(j)
  BY <1>0
<1>3. \A i, j \in 1..Len(queue') : old(i) = old(j) => i = j
  BY <1>0
<1>4. \A j \in 1..Len(queue) : j # k => \E i \in 1..Len(queue') : old(i) = j
  <2> SUFFICES ASSUME NEW j \in 1..Len(queue), j # k
               PROVE  \E i \in 1..Len(queue') : old(i) = j
    OBVIOUS
  <2>1. CASE j < k
    BY <1>0, <2>1
  <2>2. CASE ~(j < k)
    <3>1. j - 1 \in 1..Len(queue') /\ old(j - 1) = j
      BY <1>0, <2>2
    <3> QED
      BY <3>1
  <2> QED
    BY <2>1, <2>2
<1> HIDE DEF old
<1>5. \A i \in 1..Len(queue) : i # k => queue[i] # queue[k]
  BY DEF QueueSound
<1>6. QueueSound'
  <2>1. \A i \in 1..Len(queue') : at'[queue'[i]] = "suspended"
    BY <1>0, <1>1, <1>5 DEF QueueSound, Drops
  <2>2. \A i, j \in 1..Len(queue') : queue'[i] = queue'[j] => i = j
    BY <1>1, <1>3 DEF QueueSound
  <2>3. ASSUME NEW t \in Waiter, at'[t] = "suspended"
        PROVE  \E i \in 1..Len(queue') : queue'[i] = t
    <3>1. t # queue[k] /\ at[t] = "suspended"
      BY <1>0, <2>3 DEF Drops
    <3>2. PICK j \in 1..Len(queue) : queue[j] = t
      BY <3>1 DEF QueueSound
    <3> QED
      BY <1>1, <1>4, <3>1, <3>2
  <2> QED
    BY <2>1, <2>2, <2>3 DEF QueueSound
<1>7. DueAhead'
  <2> SUFFICES ASSUME NEW n \in Notifier
               PROVE  /\ due'[n] \subseteq Suspended'
                      /\ \A i, j \in 1..Len(queue') :
                           i < j /\ queue'[j] \in due'[n] => queue'[i] \in due'[n]
    BY DEF DueAhead, Notifier
  <2>1. due'[n] = due[n] \ {queue[k]}
    BY DEF Drops
  <2>2. ASSUME NEW t \in due'[n] PROVE t \in Suspended'
    <3>1. PICK j \in 1..Len(queue) : queue[j] = t
      BY <1>0, <2>1 DEF DueAhead, Suspended
    <3>2. PICK i \in 1..Len(queue') : queue'[i] = t
      BY <1>1, <1>4, <2>1, <3>1
    <3> QED
      BY <1>0, <3>2 DEF Suspended
  <2>3. ASSUME NEW i \in 1..Len(queue'), NEW j \in 1..Len(queue'), i < j,
               queue'[j] \in due'[n]
        PROVE  queue'[i] \in due'[n]
    <3>1. old(i) < old(j) /\ queue[old(j)] \in due[n]
      BY <1>1, <1>2, <2>1, <2>3
    <3>2. queue[old(i)] \in due[n] /\ queue[old(i)] # queue[k]
      BY <1>1, <1>5, <3>1 DEF DueAhead
    <3> QED
      BY <1>1, <2>1, <3>2
  <2> QED
    BY <2>2, <2>3
<1> QED
  BY <1>6, <1>7

(* Steps that leave the queue, the due threads and who is suspended alone. *)
LEMMA QueueFrame ==
  ASSUME QueueSound, DueAhead, UNCHANGED <<queue, due>>,
         \A t \in Waiter : at[t] = "suspended" <=> at'[t] = "suspended",
         \A i \in 1..Len(queue) : queue[i] \in Waiter
  PROVE  QueueSound' /\ DueAhead'
<1>1. QueueSound'
  BY DEF QueueSound
<1>2. DueAhead'
  BY DEF DueAhead, Suspended
<1> QED
  BY <1>1, <1>2

(* The queue.                                                              *)
LEMMA QueueStep ==
  TypeOK /\ WaitersAreCounted /\ QueueSound /\ DueAhead /\ [Next]_vars =>
    QueueSound' /\ DueAhead'
<1> SUFFICES ASSUME TypeOK, WaitersAreCounted, QueueSound, DueAhead, [Next]_vars
             PROVE  QueueSound' /\ DueAhead'
  OBVIOUS
<1>0. /\ Len(queue) \in Nat /\ \A i \in 1..Len(queue) : queue[i] \in Waiter
      /\ at \in [Waiter -> StdPoint \cup ThreadXPoint]
      /\ DOMAIN queue = 1..Len(queue)
  BY QueueType DEF TypeOK
<1>1. CASE SyncStep
  <2>1. UNCHANGED <<queue, due>>
    BY <1>1 DEF SyncStep, threadxVars, semVars
  <2>2. \A t \in Waiter : at[t] = "suspended" <=> at'[t] = "suspended"
    BY <1>0, <1>1 DEF SyncStep, SyncNext, Publish, Close, Call, Lock, Takes, Leave, Expire
  <2> QED
    BY <1>0, <2>1, <2>2, QueueFrame
<1>2. CASE StdStep
  <2>1. UNCHANGED <<queue, due>> /\ platform = "std" /\ platform' = "std"
    BY <1>2 DEF StdStep, threadxVars, semVars
  <2>2. TypeOK'
    BY TypeStep
  <2>3. \A t \in Waiter : at[t] \in StdPoint /\ at'[t] \in StdPoint
    BY <2>1, <2>2 DEF TypeOK
  <2>4. \A t \in Waiter : at[t] = "suspended" <=> at'[t] = "suspended"
    BY <2>3 DEF StdPoint, InStdWait
  <2> QED
    BY <1>0, <2>1, <2>4, QueueFrame
<1>3. CASE ThreadXStep
  <2>0. TypeOK'
    BY TypeStep
  <2>1. ASSUME NEW n \in Notifier, Load(n) PROVE QueueSound' /\ DueAhead'
    <3>1. UNCHANGED <<queue, at>>
      BY <2>1 DEF Load, semVars
    <3>2. \A m \in Notifier : due'[m] = due[m] \/ due'[m] = Suspended
      BY <2>1 DEF Load, TypeOK
    <3>3. QueueSound'
      BY <3>1 DEF QueueSound
    <3>4. \A i \in 1..Len(queue) : queue[i] \in Suspended
      BY <1>0 DEF Suspended
    <3>5. Suspended' = Suspended
      BY <3>1 DEF Suspended
    <3>6. ASSUME NEW m \in Notifier
          PROVE  /\ due'[m] \subseteq Suspended
                 /\ \A i, j \in 1..Len(queue) :
                      i < j /\ queue[j] \in due'[m] => queue[i] \in due'[m]
      BY <3>2, <3>4 DEF DueAhead
    <3> QED
      BY <3>1, <3>3, <3>5, <3>6 DEF DueAhead
  <2>2. ASSUME NEW n \in Notifier, PutResumes(n) PROVE QueueSound' /\ DueAhead'
    BY <2>0, <2>2, PutDrops, DropStep
  <2>3. ASSUME NEW n \in Notifier, PutKeeps(n) \/ Done(n) PROVE QueueSound' /\ DueAhead'
    <3>1. UNCHANGED <<queue, due, at>>
      BY <2>3 DEF PutKeeps, Done, threadxVars, semVars, syncVars
    <3> QED
      BY <1>0, <3>1, QueueFrame
  <2>4. ASSUME NEW t \in Waiter, \/ Register(t) \/ GetTakes(t) \/ GetRefuses(t)
                                 \/ Deregister(t) \/ ThreadXRelock(t)
        PROVE  QueueSound' /\ DueAhead'
    <3>1. UNCHANGED <<queue, due>>
      BY <2>4 DEF Register, GetTakes, GetRefuses, Deregister, ThreadXRelock, threadxVars,
           semVars
    <3>2. \A u \in Waiter : at[u] = "suspended" <=> at'[u] = "suspended"
      BY <1>0, <2>4 DEF Register, GetTakes, GetRefuses, Deregister, ThreadXRelock, Takes
    <3> QED
      BY <1>0, <3>1, <3>2, QueueFrame
  <2>5. ASSUME NEW t \in Waiter, GetSuspends(t) PROVE QueueSound' /\ DueAhead'
    <3>1. /\ at[t] = "get" /\ at' = [at EXCEPT ![t] = "suspended"]
          /\ queue' = Append(queue, t) /\ due' = due
      BY <2>5 DEF GetSuspends
    <3>2. queue \in Seq(Waiter)
      BY DEF TypeOK
    <3>3. /\ Len(queue') = Len(queue) + 1 /\ queue'[Len(queue) + 1] = t
          /\ \A i \in 1..Len(queue) : queue'[i] = queue[i]
      BY <3>1, <3>2, AppendProperties
    <3>4. \A i \in 1..Len(queue) : queue[i] # t
      BY <3>1 DEF QueueSound
    <3>5. \A i \in 1..Len(queue') : i \in 1..Len(queue) \/ i = Len(queue) + 1
      BY <1>0, <3>3
    <3>6. QueueSound'
      <4>1. \A i \in 1..Len(queue') : at'[queue'[i]] = "suspended"
        BY <1>0, <3>1, <3>3, <3>4, <3>5 DEF QueueSound
      <4>2. \A u \in Waiter : at'[u] = "suspended" =>
              \E i \in 1..Len(queue') : queue'[i] = u
        BY <1>0, <3>1, <3>3 DEF QueueSound
      <4>3. \A i, j \in 1..Len(queue') : queue'[i] = queue'[j] => i = j
        BY <3>3, <3>4, <3>5 DEF QueueSound
      <4> QED
        BY <4>1, <4>2, <4>3 DEF QueueSound
    <3>7. DueAhead'
      <4> SUFFICES ASSUME NEW n \in Notifier
                   PROVE  /\ due'[n] \subseteq Suspended'
                          /\ \A i, j \in 1..Len(queue') :
                               i < j /\ queue'[j] \in due'[n] => queue'[i] \in due'[n]
        BY DEF DueAhead, Notifier
      <4>1. t \notin due[n]
        BY <1>0, <3>4 DEF DueAhead, Suspended
      <4>2. DOMAIN queue' = 1..Len(queue')
        BY <2>0, LenProperties DEF TypeOK
      <4>3. Suspended \subseteq Suspended'
        BY <1>0, <3>3, <4>2 DEF Suspended
      <4>4. ASSUME NEW i \in 1..Len(queue'), NEW j \in 1..Len(queue'), i < j,
                   queue'[j] \in due[n]
            PROVE  queue'[i] \in due[n]
        <5>1. j \in 1..Len(queue)
          BY <3>3, <3>5, <4>1, <4>4
        <5>2. i \in 1..Len(queue)
          BY <1>0, <4>4, <5>1
        <5> QED
          BY <3>3, <4>4, <5>1, <5>2 DEF DueAhead
      <4> QED
        BY <3>1, <4>3, <4>4 DEF DueAhead
    <3> QED
      BY <3>6, <3>7
  <2>6. ASSUME NEW t \in Waiter, GetEnds(t) PROVE QueueSound' /\ DueAhead'
    BY <2>0, <2>6, EndDrops, DropStep
  <2> QED
    BY <1>3, <2>1, <2>2, <2>3, <2>4, <2>5, <2>6 DEF ThreadXStep, ThreadXNext,
       ThreadXNotifying, ThreadXRunning, GetTimesOut, GetEndsEarly
<1>4. CASE UNCHANGED vars
  BY <1>0, <1>4, QueueFrame DEF vars, threadxVars, semVars, syncVars
<1> QED
  BY <1>1, <1>2, <1>3, <1>4, StepKinds

(* The registered threads are a finite set, counted by waiters.            *)
RegisteredNow == {t \in Waiter : at[t] \in Registered}

LEMMA RegisteredFinite ==
  IsFiniteSet(RegisteredNow) /\ Cardinality(RegisteredNow) <= Cardinality(Waiter)
  BY FiniteAssumption, FS_Subset DEF RegisteredNow

(* Who is registered changes with waiters only.                            *)
LEMMA CountedStep ==
  TypeOK /\ QueueSound /\ WaitersAreCounted /\ [Next]_vars => WaitersAreCounted'
<1> SUFFICES ASSUME TypeOK, QueueSound, WaitersAreCounted, [Next]_vars
             PROVE  WaitersAreCounted'
  OBVIOUS
<1>0. /\ at \in [Waiter -> StdPoint \cup ThreadXPoint]
      /\ pending \in [Notifier -> Nat] /\ waiters \in Nat
      /\ Cardinality(Waiter) \in Nat
      /\ waiters = Cardinality(RegisteredNow)
      /\ \A n \in Notifier : pending[n] <= Cardinality(Waiter)
  BY FiniteAssumption, FS_CardinalityType DEF TypeOK, WaitersAreCounted, RegisteredNow
<1> DEFINE Counted == /\ waiters' = Cardinality(RegisteredNow')
                      /\ \A n \in Notifier : pending'[n] <= Cardinality(Waiter)
<1>1. SUFFICES Counted
  BY DEF WaitersAreCounted, RegisteredNow, Notifier
<1>2. ASSUME \A t \in Waiter : at[t] \in Registered <=> at'[t] \in Registered,
             UNCHANGED waiters
      PROVE  waiters' = Cardinality(RegisteredNow')
  <2>1. RegisteredNow' = RegisteredNow
    BY <1>2 DEF RegisteredNow
  <2> QED
    BY <1>0, <1>2, <2>1
<1>3. CASE SyncStep
  <2>1. UNCHANGED <<waiters, pending>>
    BY <1>3 DEF SyncStep, threadxVars, semVars
  <2>2. \A t \in Waiter : at[t] \in Registered <=> at'[t] \in Registered
    BY <1>0, <1>3 DEF SyncStep, SyncNext, Publish, Close, Call, Lock, Takes, Leave,
         Expire, Registered
  <2> QED
    BY <1>0, <1>2, <2>1, <2>2
<1>4. CASE StdStep
  <2>1. UNCHANGED <<waiters, pending>> /\ platform = "std" /\ platform' = "std"
    BY <1>4 DEF StdStep, threadxVars, semVars
  <2>2. \A t \in Waiter : at[t] \in StdPoint /\ at'[t] \in StdPoint
    BY <2>1, TypeStep DEF TypeOK
  <2>3. \A t \in Waiter : at[t] \in Registered <=> at'[t] \in Registered
    BY <2>2 DEF StdPoint, InStdWait, Registered
  <2> QED
    BY <1>0, <1>2, <2>1, <2>3
<1>5. CASE ThreadXStep
  <2>1. ASSUME NEW n \in Notifier, Load(n) PROVE Counted
    <3>1. UNCHANGED <<waiters, at>> /\ pending' = [pending EXCEPT ![n] = waiters]
      BY <2>1 DEF Load, Owe, semVars
    <3>2. waiters <= Cardinality(Waiter)
      BY <1>0, RegisteredFinite
    <3> QED
      BY <1>0, <1>2, <3>1, <3>2
  <2>2. ASSUME NEW n \in Notifier, PutResumes(n) \/ PutKeeps(n) \/ Done(n)
        PROVE  Counted
    <3>1. UNCHANGED waiters
            /\ (pending' = pending \/ pending' = [pending EXCEPT ![n] = @ - 1])
      BY <2>2 DEF PutResumes, PutKeeps, Done, threadxVars, semVars
    <3>2. at' = at \/ (PutResumes(n) /\ at' = [at EXCEPT ![Head(queue)] = "woken"])
      BY <2>2 DEF PutResumes, PutKeeps, Done, syncVars
    <3>3. PutResumes(n) => Head(queue) \in Waiter /\ at[Head(queue)] = "suspended"
      BY PutDrops, QueueType DEF QueueSound
    <3>4. \A t \in Waiter : at[t] \in Registered <=> at'[t] \in Registered
      BY <1>0, <3>2, <3>3 DEF Registered
    <3> QED
      BY <1>0, <1>2, <3>1, <3>4
  <2>3. ASSUME NEW t \in Waiter, Register(t) PROVE Counted
    <3>1. /\ waiters' = waiters + 1 /\ UNCHANGED pending
          /\ at[t] = "check" /\ at' = [at EXCEPT ![t] = "get"]
      BY <2>3 DEF Register
    <3>2. RegisteredNow' = RegisteredNow \cup {t} /\ t \notin RegisteredNow
      BY <1>0, <3>1 DEF RegisteredNow, Registered
    <3>3. Cardinality(RegisteredNow') = Cardinality(RegisteredNow) + 1
      BY <3>2, RegisteredFinite, FS_AddElement
    <3> QED
      BY <1>0, <3>1, <3>3
  <2>4. ASSUME NEW t \in Waiter, Deregister(t) PROVE Counted
    <3>1. /\ waiters' = waiters - 1 /\ UNCHANGED pending
          /\ at[t] = "woken" /\ at' = [at EXCEPT ![t] = "relock"]
      BY <2>4 DEF Deregister, Deregistered
    <3>2. RegisteredNow' = RegisteredNow \ {t} /\ t \in RegisteredNow
      BY <1>0, <3>1 DEF RegisteredNow, Registered
    <3>3. Cardinality(RegisteredNow') = Cardinality(RegisteredNow) - 1
      BY <3>2, RegisteredFinite, FS_RemoveElement
    <3> QED
      BY <1>0, <3>1, <3>3
  <2>5. ASSUME NEW t \in Waiter, \/ GetTakes(t) \/ GetRefuses(t) \/ GetSuspends(t)
                                 \/ GetEnds(t) \/ ThreadXRelock(t)
        PROVE  Counted
    <3>1. UNCHANGED <<waiters, pending>>
      BY <2>5 DEF GetTakes, GetRefuses, GetSuspends, GetEnds, ThreadXRelock, threadxVars,
           semVars
    <3>2. \A u \in Waiter : at[u] \in Registered <=> at'[u] \in Registered
      BY <1>0, <2>5 DEF GetTakes, GetRefuses, GetSuspends, GetEnds, ThreadXRelock, Takes,
           Registered
    <3> QED
      BY <1>0, <1>2, <3>1, <3>2
  <2> QED
    BY <1>5, <2>1, <2>2, <2>3, <2>4, <2>5 DEF ThreadXStep, ThreadXNext,
       ThreadXNotifying, ThreadXRunning, GetTimesOut, GetEndsEarly
<1>6. CASE UNCHANGED vars
  BY <1>0, <1>2, <1>6 DEF vars, threadxVars, semVars, syncVars
<1> QED
  BY <1>3, <1>4, <1>5, <1>6, StepKinds

(* The second part of DueFirst: each notifyAll has a token left for every  *)
(* thread it found.                                                        *)
TokensSuffice ==
    \A n \in Notifier :
      /\ notifier[n] # "notifying" => due[n] = {}
      /\ Cardinality(due[n]) <= pending[n]

(* It stays so where the due threads get fewer and no token is put.        *)
LEMMA FewerDue ==
  ASSUME TypeOK, NEW n \in Notifier, NEW D \in SUBSET due[n]
  PROVE  IsFiniteSet(D) /\ Cardinality(D) \in Nat /\ Cardinality(D) <= Cardinality(due[n])
<1>1. due[n] \in SUBSET Waiter
  BY DEF TypeOK
<1>2. IsFiniteSet(due[n])
  BY <1>1, FiniteAssumption, FS_Subset
<1>3. IsFiniteSet(D) /\ Cardinality(D) <= Cardinality(due[n])
  BY <1>2, FS_Subset
<1> QED
  BY <1>3, FS_CardinalityType

(* Every step of a notifyAll, and every wake-up, keeps enough tokens.      *)
LEMMA TokenStep ==
  /\ TypeOK /\ WaitersAreCounted /\ QueueSound /\ DueAhead /\ TokensSuffice /\ ClosedOnce
  /\ [Next]_vars
  => TokensSuffice' /\ ClosedOnce'
<1> SUFFICES ASSUME TypeOK, WaitersAreCounted, QueueSound, DueAhead, TokensSuffice,
                    ClosedOnce, [Next]_vars
             PROVE  TokensSuffice' /\ ClosedOnce'
  OBVIOUS
<1>0. /\ notifier \in [Notifier -> {"idle", "owed", "notifying"}]
      /\ pending \in [Notifier -> Nat] /\ due \in [Notifier -> SUBSET Waiter]
      /\ Notifier = {"publish", "close"}
  BY DEF TypeOK, Notifier
<1>1. CASE SyncStep
  <2>1. UNCHANGED <<due, pending>>
    BY <1>1 DEF SyncStep, threadxVars
  <2>2. /\ \A n \in Notifier : notifier'[n] = notifier[n] \/ notifier[n] = "idle"
        /\ ~closed' => ~closed /\ notifier'["close"] = notifier["close"]
    BY <1>0, <1>1 DEF SyncStep, SyncNext, Publish, Close, Call, Lock, Takes, Leave,
         Expire, imageVars, ClosedOnce
  <2> QED
    BY <1>0, <2>1, <2>2 DEF TokensSuffice, ClosedOnce
<1>2. CASE StdStep
  <2>1. UNCHANGED <<due, pending, closed>>
    BY <1>2 DEF StdStep, StdNext, StdNotifying, Bump, NotifyAll, StdRunning, Block,
         TestHolds, TestFails, Park, RouseAtDeadline, RouseSpuriously, Rouse, StdRelock,
         Takes, imageVars, threadxVars
  <2>2. \A n \in Notifier : due[n] = {}
    <3>1. \A t \in Waiter : at[t] # "suspended"
      BY <1>2 DEF StdStep, TypeOK, StdPoint, InStdWait
    <3>2. Suspended = {}
      BY <3>1, QueueType DEF QueueSound, Suspended
    <3> QED
      BY <3>2 DEF DueAhead
  <2>3. notifier'["close"] = notifier["close"] \/ notifier["close"] # "idle"
    BY <1>0, <1>2 DEF StdStep, StdNext, StdNotifying, Bump, NotifyAll, StdRunning, Block,
         TestHolds, TestFails, Park, RouseAtDeadline, RouseSpuriously, Rouse, StdRelock,
         Takes
  <2> QED
    BY <2>1, <2>2, <2>3 DEF TokensSuffice, ClosedOnce
<1>3. CASE ThreadXStep
  <2>0. ASSUME NEW n \in Notifier, Load(n) \/ PutResumes(n) \/ PutKeeps(n) \/ Done(n)
        PROVE  ClosedOnce'
    <3>1. UNCHANGED closed /\ notifier[n] # "idle"
            /\ (notifier' = notifier \/ \E x \in {"idle", "notifying"} :
                                          notifier' = [notifier EXCEPT ![n] = x])
      BY <2>0 DEF Load, PutResumes, PutKeeps, Done, syncVars, imageVars
    <3> QED
      BY <1>0, <3>1 DEF ClosedOnce
  <2>1. ASSUME NEW n \in Notifier, Load(n) PROVE TokensSuffice'
    <3>1. /\ pending' = [pending EXCEPT ![n] = waiters]
          /\ notifier' = [notifier EXCEPT ![n] = "notifying"]
          /\ due' = [due EXCEPT ![n] = Suspended]
      BY <2>1 DEF Load, Owe
    <3>2. Suspended \in SUBSET RegisteredNow
      BY QueueType DEF QueueSound, Suspended, RegisteredNow, Registered
    <3>3. Cardinality(Suspended) <= waiters
      <4>1. Cardinality(Suspended) <= Cardinality(RegisteredNow)
        BY <3>2, RegisteredFinite, FS_Subset
      <4> QED
        BY <4>1 DEF WaitersAreCounted, RegisteredNow
    <3> QED
      BY <1>0, <3>1, <3>3 DEF TokensSuffice
  <2>2. ASSUME NEW n \in Notifier, PutResumes(n) PROVE TokensSuffice'
    <3> DEFINE h == queue[1]
    <3>1. /\ pending' = [pending EXCEPT ![n] = @ - 1] /\ pending[n] > 0
          /\ UNCHANGED notifier
      BY <2>2 DEF PutResumes
    <3>2. 1 \in 1..Len(queue) /\ due' = [m \in Notifier |-> due[m] \ {h}]
      BY <2>2, PutDrops DEF Drops
    <3> HIDE DEF h
    <3>3. ASSUME NEW m \in Notifier, m # n
          PROVE  /\ notifier'[m] # "notifying" => due'[m] = {}
                 /\ Cardinality(due'[m]) <= pending'[m]
      <4>1. due'[m] \in SUBSET due[m] /\ pending'[m] = pending[m]
        BY <1>0, <3>1, <3>2, <3>3
      <4>2. Cardinality(due'[m]) <= Cardinality(due[m]) /\ Cardinality(due'[m]) \in Nat
              /\ Cardinality(due[m]) \in Nat
        BY <4>1, FewerDue
      <4> QED
        BY <1>0, <3>1, <4>1, <4>2 DEF TokensSuffice
    <3>4. notifier'[n] # "notifying" => due'[n] = {}
      BY <2>2 DEF PutResumes
    <3>5. Cardinality(due'[n]) <= pending'[n]
      <4>0. pending'[n] = pending[n] - 1 /\ pending[n] \in Nat
        BY <1>0, <3>1
      <4>1. CASE due[n] = {}
        <5>1. due'[n] = {}
          BY <3>2, <4>1
        <5> QED
          BY <3>1, <4>0, <5>1, FS_EmptySet
      <4>2. CASE due[n] # {}
        <5>1. h \in due[n]
          <6>1. PICK j \in 1..Len(queue) : queue[j] \in due[n]
            BY <4>2, QueueType DEF DueAhead, Suspended
          <6> QED
            BY <3>2, <6>1, QueueType DEF DueAhead, h
        <5>2. IsFiniteSet(due[n]) /\ Cardinality(due[n]) \in Nat
          BY FewerDue
        <5>3. Cardinality(due[n] \ {h}) = Cardinality(due[n]) - 1
          BY <5>1, <5>2, FS_RemoveElement
        <5>4. Cardinality(due[n]) <= pending[n]
          BY DEF TokensSuffice
        <5>5. due'[n] = due[n] \ {h}
          BY <3>2
        <5> QED
          BY <4>0, <5>2, <5>3, <5>4, <5>5
      <4> QED
        BY <4>1, <4>2
    <3> QED
      BY <1>0, <3>3, <3>4, <3>5 DEF TokensSuffice
  <2>3. ASSUME NEW n \in Notifier, PutKeeps(n) PROVE TokensSuffice'
    <3>1. /\ pending' = [pending EXCEPT ![n] = @ - 1] /\ pending[n] > 0
          /\ queue = <<>> /\ UNCHANGED <<due, notifier>>
      BY <2>3 DEF PutKeeps, syncVars
    <3>2. \A m \in Notifier : due[m] = {}
      <4>1. Suspended = {}
        BY <3>1 DEF Suspended
      <4> QED
        BY <4>1 DEF DueAhead
    <3>3. \A m \in Notifier : pending'[m] \in Nat
      BY <1>0, <3>1
    <3>4. Cardinality({}) = 0
      BY FS_EmptySet
    <3>5. ASSUME NEW m \in Notifier PROVE due'[m] = {} /\ Cardinality(due'[m]) <= pending'[m]
      <4>1. due'[m] = {}
        BY <3>1, <3>2
      <4>2. Cardinality(due'[m]) = 0
        BY <3>4, <4>1
      <4> QED
        BY <3>3, <4>1, <4>2
    <3> QED
      BY <1>0, <3>5 DEF TokensSuffice
  <2>4. ASSUME NEW n \in Notifier, Done(n) PROVE TokensSuffice'
    <3>1. /\ UNCHANGED <<pending, due>> /\ pending[n] = 0
          /\ notifier' = [notifier EXCEPT ![n] = "idle"]
      BY <2>4 DEF Done, threadxVars
    <3>2. due[n] = {}
      <4>1. IsFiniteSet(due[n]) /\ Cardinality(due[n]) \in Nat
        BY FewerDue
      <4>2. Cardinality(due[n]) = 0
        BY <3>1, <4>1 DEF TokensSuffice
      <4> QED
        BY <4>1, <4>2, FS_EmptySet
    <3> QED
      BY <1>0, <3>1, <3>2 DEF TokensSuffice
  <2>5. ASSUME NEW t \in Waiter, \/ Register(t) \/ GetTakes(t) \/ GetRefuses(t)
                                 \/ GetSuspends(t) \/ Deregister(t) \/ ThreadXRelock(t)
        PROVE  TokensSuffice' /\ ClosedOnce'
    <3>1. UNCHANGED <<pending, due, notifier, closed>>
      BY <2>5 DEF Register, GetTakes, GetRefuses, GetSuspends, Deregister, ThreadXRelock,
           Takes, threadxVars, imageVars
    <3> QED
      BY <3>1 DEF TokensSuffice, ClosedOnce
  <2>6. ASSUME NEW t \in Waiter, GetEnds(t) PROVE TokensSuffice' /\ ClosedOnce'
    <3>1. UNCHANGED <<pending, notifier, closed>>
            /\ due' = [m \in Notifier |-> due[m] \ {t}]
      BY <2>6 DEF GetEnds, Found, imageVars
    <3>2. ASSUME NEW m \in Notifier
          PROVE  /\ notifier'[m] # "notifying" => due'[m] = {}
                 /\ Cardinality(due'[m]) <= pending'[m]
      <4>1. due'[m] \in SUBSET due[m]
        BY <3>1
      <4>2. Cardinality(due'[m]) <= Cardinality(due[m]) /\ Cardinality(due'[m]) \in Nat
              /\ Cardinality(due[m]) \in Nat
        BY <4>1, FewerDue
      <4> QED
        BY <1>0, <3>1, <4>1, <4>2 DEF TokensSuffice
    <3> QED
      BY <1>0, <3>1, <3>2 DEF TokensSuffice, ClosedOnce
  <2> QED
    BY <1>3, <2>0, <2>1, <2>2, <2>3, <2>4, <2>5, <2>6 DEF ThreadXStep, ThreadXNext,
       ThreadXNotifying, ThreadXRunning, GetTimesOut, GetEndsEarly
<1>4. CASE UNCHANGED vars
  BY <1>4 DEF vars, threadxVars, syncVars, imageVars, TokensSuffice, ClosedOnce
<1> QED
  BY <1>1, <1>2, <1>3, <1>4, StepKinds

-----------------------------------------------------------------------------
(* The invariant holds throughout.                                         *)
LEMMA Invariant == Spec => []IInv
<1>0. DueFirst <=> DueAhead /\ TokensSuffice
  BY DEF DueFirst, DueAhead, TokensSuffice
<1>1. Init => IInv
  <2> SUFFICES ASSUME Init PROVE IInv
    OBVIOUS
  <2>1. /\ count = 0 /\ closed = FALSE /\ holder = "nobody"
        /\ desired = [t \in Waiter |-> 0] /\ expired = [t \in Waiter |-> FALSE]
        /\ notifier = [n \in Notifier |-> "idle"] /\ at = [t \in Waiter |-> "out"]
        /\ generation = 0 /\ began = [t \in Waiter |-> 0]
        /\ platform \in {"std", "threadx"}
    BY DEF Init, SyncInit, StdInit
  <2>2. /\ pending = [n \in Notifier |-> 0] /\ waiters = 0 /\ tokens = 0
        /\ queue = <<>> /\ due = [n \in Notifier |-> {}]
    BY DEF Init, ThreadXInit
  <2>3. TypeOK
    <3>1. closed \in BOOLEAN /\ expired \in [Waiter -> BOOLEAN]
      BY <2>1
    <3>2. queue \in Seq(Waiter)
      BY <2>2, EmptySeq
    <3> QED
      BY <2>1, <2>2, <3>1, <3>2 DEF TypeOK, StdPoint, ThreadXPoint
  <2>4. Exclusive /\ Generations
    BY <2>1 DEF Exclusive, Generations, InStdWait
  <2>5. Cardinality({}) = 0 /\ Cardinality(Waiter) \in Nat
    BY FiniteAssumption, FS_EmptySet, FS_CardinalityType
  <2>6. WaitersAreCounted
    <3>1. RegisteredNow = {}
      BY <2>1 DEF RegisteredNow, Registered
    <3>2. waiters = Cardinality(RegisteredNow)
      BY <2>2, <2>5, <3>1
    <3>3. \A n \in Notifier : pending[n] <= Cardinality(Waiter)
      BY <2>2, <2>5
    <3> QED
      BY <3>2, <3>3 DEF WaitersAreCounted, RegisteredNow
  <2>7. Len(queue) = 0 /\ Suspended = {}
    BY <2>2 DEF Suspended
  <2>8. QueueSound /\ DueAhead
    BY <2>1, <2>2, <2>7 DEF QueueSound, DueAhead
  <2>9. TokensSuffice /\ ClosedOnce
    BY <2>1, <2>2, <2>5 DEF TokensSuffice, ClosedOnce, Notifier
  <2> QED
    BY <1>0, <2>3, <2>4, <2>6, <2>8, <2>9 DEF IInv
<1>2. IInv /\ [Next]_vars => IInv'
  <2> SUFFICES ASSUME IInv, [Next]_vars PROVE IInv'
    OBVIOUS
  <2>1. /\ TypeOK /\ Exclusive /\ Generations /\ WaitersAreCounted /\ QueueSound
        /\ DueAhead /\ TokensSuffice /\ ClosedOnce
    BY <1>0 DEF IInv
  <2>2. TypeOK' /\ Exclusive' /\ Generations' /\ WaitersAreCounted'
    BY <2>1, TypeStep, ExclusiveStep, GenerationStep, CountedStep
  <2>3. QueueSound' /\ DueAhead' /\ TokensSuffice' /\ ClosedOnce'
    BY <2>1, QueueStep, TokenStep
  <2>4. DueFirst'
    BY <2>3 DEF DueFirst, DueAhead, TokensSuffice
  <2> QED
    BY <2>2, <2>3, <2>4 DEF IInv
<1> QED
  BY <1>1, <1>2, PTL DEF Spec

(* _waiters counts the registered threads, although it is changed outside  *)
(* the mutex, and bounds the tokens a notifyAll owes.                      *)
THEOREM CountIsRight == Spec => []WaitersAreCounted
<1>1. IInv => WaitersAreCounted
  BY DEF IInv
<1> QED
  BY <1>1, Invariant, PTL

(* A ThreadX notifyAll reaches every thread it found suspended, whoever    *)
(* registers, takes a token or times out while it puts them.               *)
THEOREM NotifyReachesAll == Spec => []SuspendedAreWoken
<1>1. IInv => SuspendedAreWoken
  BY DEF IInv, DueFirst, SuspendedAreWoken
<1> QED
  BY <1>1, Invariant, PTL

(* On the hosted platform a thread woken for nothing misses at most one    *)
(* notification: the next record's finds it.                               *)
THEOREM AtMostOneMissed == Spec => []MissesAtMostOneRecord
<1>1. IInv => MissesAtMostOneRecord
  BY DEF IInv, Generations, InStdWait, MissesAtMostOneRecord
<1> QED
  BY <1>1, Invariant, PTL

-----------------------------------------------------------------------------
(* The refinement: every step is one the image promises, or none.          *)

(* What the image sees besides where the threads stand.                    *)
SharedView == <<count, closed, ImageOwed>>
CallView == <<ImageDesired, ImageExpired>>

(* A thread stays where the image sees it, returns to the check or stirs.  *)
StirsAt(t) ==
    \/ ImageAt'[t] = ImageAt[t]
    \/ ImageAt[t] \in {"entering", "asleep"} /\ ImageAt'[t] = "check"
    \/ ImageAt[t] = "asleep" /\ ImageAt'[t] = "entering"

(* What is owed changes with the notifiers only.                           *)
LEMMA SharedFrame == UNCHANGED <<count, closed, notifier>> => UNCHANGED SharedView
  BY DEF SharedView, ImageOwed

(* A notifyAll is owed until it is over.                                   *)
LEMMA OwedFrame ==
  ASSUME TypeOK, NEW n \in Notifier, notifier[n] = "owed",
         notifier' = [notifier EXCEPT ![n] = "notifying"]
  PROVE  UNCHANGED ImageOwed
  BY DEF TypeOK, ImageOwed

(* The calls look the same while the same threads are in sync.             *)
LEMMA CallFrame ==
  (\A t \in Waiter : InSync(t)' <=> InSync(t)) /\ UNCHANGED <<desired, expired>> =>
    UNCHANGED CallView
  BY DEF CallView, ImageDesired, ImageExpired

(* A step that only stirs threads in their waits, if any.                  *)
LEMMA WakeMaps ==
  ASSUME UNCHANGED SharedView, UNCHANGED CallView, \A t \in Waiter : StirsAt(t)
  PROVE  Contract!Wake
<1>1. ImageAt' \in [Waiter -> Contract!Place]
  BY DEF ImageAt, Contract!Place
<1> QED
  BY <1>1 DEF SharedView, CallView, StirsAt, Contract!Wake, Contract!Stirs

(* The others, while one thread moves.                                     *)
Apart(t) ==
    /\ UNCHANGED <<generation, platform>>
    /\ \A u \in Waiter \ {t} : UNCHANGED <<at[u], desired[u], expired[u], began[u]>>

(* They look as before.                                                    *)
LEMMA OneMoves ==
  ASSUME NEW t \in Waiter, Apart(t)
  PROVE  /\ ImageAt' = [ImageAt EXCEPT ![t] = ImageAt'[t]]
         /\ ImageDesired' = [ImageDesired EXCEPT ![t] = ImageDesired'[t]]
         /\ ImageExpired' = [ImageExpired EXCEPT ![t] = ImageExpired'[t]]
<1>1. \A u \in Waiter \ {t} : /\ InSync(u)' <=> InSync(u)
                              /\ Asleep(u)' <=> Asleep(u)
                              /\ Entering(u)' <=> Entering(u)
  BY DEF Apart, InSync, Asleep, Entering
<1>2. \A u \in Waiter \ {t} : /\ ImageAt'[u] = ImageAt[u]
                              /\ ImageDesired'[u] = ImageDesired[u]
                              /\ ImageExpired'[u] = ImageExpired[u]
  BY <1>1 DEF Apart, ImageAt, ImageDesired, ImageExpired
<1>3. /\ ImageAt' = [u \in Waiter |-> ImageAt'[u]]
      /\ ImageDesired' = [u \in Waiter |-> ImageDesired'[u]]
      /\ ImageExpired' = [u \in Waiter |-> ImageExpired'[u]]
  BY DEF ImageAt, ImageDesired, ImageExpired
<1>4. /\ ImageAt = [u \in Waiter |-> ImageAt[u]]
      /\ ImageDesired = [u \in Waiter |-> ImageDesired[u]]
      /\ ImageExpired = [u \in Waiter |-> ImageExpired[u]]
  BY DEF ImageAt, ImageDesired, ImageExpired
<1> QED
  BY <1>2, <1>3, <1>4

(* One thread stirs, if it does.                                           *)
LEMMA OneStirs ==
  ASSUME NEW t \in Waiter, Apart(t), UNCHANGED SharedView, UNCHANGED CallView,
         StirsAt(t)
  PROVE  Contract!Wake
<1>1. \A u \in Waiter \ {t} : ImageAt'[u] = ImageAt[u]
  <2>1. ImageAt = [u \in Waiter |-> ImageAt[u]]
    BY DEF ImageAt
  <2> QED
    BY <2>1, OneMoves
<1> QED
  BY <1>1, WakeMaps DEF StirsAt

(* A thread that must wait enters the wait.                                *)
LEMMA BlockMaps ==
  ASSUME TypeOK, NEW t \in Waiter, Apart(t), UNCHANGED SharedView,
         UNCHANGED CallView, at[t] = "check", MustWait(t),
         InSync(t)', ~Asleep(t)', Entering(t)'
  PROVE  Contract!Block(t)
<1>1. InSync(t) /\ ~Asleep(t) /\ ~Entering(t)
  BY DEF InSync, Asleep, Entering
<1>2. /\ ImageAt[t] = "check" /\ ImageAt'[t] = "entering"
      /\ ImageDesired[t] = desired[t] /\ (ImageExpired[t] <=> expired[t])
  BY <1>1 DEF ImageAt, ImageDesired, ImageExpired
<1>3. ~(count >= desired[t]) /\ ~closed /\ ~expired[t]
  BY DEF MustWait, TypeOK
<1> QED
  BY <1>2, <1>3, OneMoves
     DEF Contract!Block, Contract!Reached, SharedView, CallView

(* A thread that has entered it goes to sleep.                             *)
LEMMA SleepMaps ==
  ASSUME NEW t \in Waiter, Apart(t), UNCHANGED SharedView, UNCHANGED CallView,
         InSync(t), ~Asleep(t), Entering(t), InSync(t)', Asleep(t)'
  PROVE  Contract!Sleep(t)
<1>1. ImageAt[t] = "entering" /\ ImageAt'[t] = "asleep"
  BY DEF ImageAt
<1> QED
  BY <1>1, OneMoves DEF Contract!Sleep, SharedView, CallView

(* What a notification reaches it is owed to, and sleeps.                  *)
OwedSleepers ==
    \A n \in Notifier : \A t \in Waiter :
      WillReach(n, t) => n \in ImageOwed /\ ImageAt[t] = "asleep"

(* It does, by the invariant.                                              *)
LEMMA ReachedSleep == IInv => OwedSleepers
<1> SUFFICES ASSUME TypeOK, QueueSound, DueFirst, NEW n \in Notifier,
                    NEW t \in Waiter, WillReach(n, t)
             PROVE  n \in ImageOwed /\ ImageAt[t] = "asleep"
  BY DEF IInv, OwedSleepers
<1>1. notifier[n] \in {"owed", "notifying"}
  BY DEF TypeOK, WillReach
<1>2. Asleep(t)
  <2>1. CASE notifier[n] = "owed" \/ platform = "std"
    BY <1>1, <2>1 DEF WillReach
  <2>2. CASE notifier[n] = "notifying" /\ platform # "std"
    <3>1. t \in Suspended
      BY <2>2 DEF WillReach, DueFirst
    <3>2. at[t] = "suspended"
      BY <3>1, QueueType DEF Suspended, QueueSound
    <3> QED
      BY <3>2 DEF Asleep
  <2> QED
    BY <1>1, <2>1, <2>2
<1>3. n \in ImageOwed
  BY <1>1 DEF ImageOwed
<1>4. ImageAt[t] = "asleep"
  BY <1>2 DEF ImageAt, Asleep, InSync
<1> QED
  BY <1>3, <1>4

(* Nobody waits at first.                                                  *)
LEMMA InitMaps == Init => Contract!Init
<1> SUFFICES ASSUME Init PROVE Contract!Init
  OBVIOUS
<1>1. count = 0 /\ closed = FALSE /\ ImageOwed = {}
  BY DEF Init, SyncInit, ImageOwed
<1>2. \A t \in Waiter : ~InSync(t)
  BY DEF Init, SyncInit, InSync
<1>3. /\ ImageAt = [t \in Waiter |-> "out"] /\ ImageDesired = [t \in Waiter |-> 0]
      /\ ImageExpired = [t \in Waiter |-> FALSE]
  BY <1>2 DEF ImageAt, ImageDesired, ImageExpired
<1>4. \A n \in Notifier : \A t \in Waiter : ~WillReach(n, t)
  BY DEF Init, SyncInit, WillReach
<1>5. ImageDue = [n \in Contract!Change |-> {}]
  BY <1>4 DEF ImageDue, Contract!Change, Notifier
<1> QED
  BY <1>1, <1>3, <1>5 DEF Contract!Init

-----------------------------------------------------------------------------
(* Who is due.                                                             *)

(* A sleeper that is due stays so until it stirs.                          *)
StaysDue(n, t) ==
    /\ WillReach(n, t) \/ notifier[n] = "idle"
    /\ notifier'[n] # "idle" /\ Asleep(t) /\ Asleep(t)'
    => WillReach(n, t)'

(* publish and close begin, and nothing else of the image matters here.    *)
LEMMA SyncDue ==
  ASSUME TypeOK, ClosedOnce, SyncStep, NEW n \in Notifier, NEW t \in Waiter
  PROVE  StaysDue(n, t)
<1>1. UNCHANGED <<generation, began, due, platform>>
  BY DEF SyncStep, stdVars, threadxVars
<1>2. \/ UNCHANGED notifier[n]
      \/ notifier[n] = "idle" /\ notifier'[n] = "owed"
  BY DEF SyncStep, SyncNext, Publish, Close, Call, Lock, Takes, Leave, Expire,
         TypeOK, ClosedOnce, Notifier
<1> QED
  BY <1>1, <1>2 DEF StaysDue, WillReach

(* Nobody asleep began with the generation that a notifyAll makes.         *)
LEMMA StdDue ==
  ASSUME TypeOK, Generations, StdStep, NEW n \in Notifier, NEW t \in Waiter
  PROVE  StaysDue(n, t)
<1> SUFFICES ASSUME WillReach(n, t) \/ notifier[n] = "idle",
                    notifier'[n] # "idle", Asleep(t), Asleep(t)'
             PROVE  WillReach(n, t)'
  BY DEF StaysDue
<1>1. platform = "std" /\ platform' = "std" /\ at[t] = "asleep"
  BY DEF StdStep, Asleep, TypeOK, StdPoint, InStdWait
<1>2. began[t] \in Nat /\ generation \in Nat /\ began[t] <= generation
  BY <1>1 DEF TypeOK, Generations, InStdWait
<1>3. began'[t] = began[t]
  BY <1>1 DEF StdStep, StdNext, StdNotifying, Bump, NotifyAll, StdRunning, Block,
         TestHolds, TestFails, Park, RouseAtDeadline, Rouse, RouseSpuriously,
         StdRelock, stdVars, TypeOK
<1>4. CASE \E m \in Notifier : Bump(m)
  <2>1. PICK m \in Notifier : Bump(m)
    BY <1>4
  <2>2. generation' = generation + 1 /\ began'[t] # generation'
    BY <1>2, <1>3, <2>1 DEF Bump
  <2>3. notifier'[n] \in {"owed", "notifying"}
    BY <2>1 DEF Bump, TypeOK
  <2> QED
    BY <1>1, <2>2, <2>3 DEF WillReach
<1>5. CASE ~\E m \in Notifier : Bump(m)
  <2>1. generation' = generation /\ notifier'[n] = notifier[n]
    BY <1>5 DEF StdStep, StdNext, StdNotifying, NotifyAll, StdRunning, Block,
           TestHolds, TestFails, Park, RouseAtDeadline, Rouse, RouseSpuriously,
           StdRelock, Takes, stdVars, TypeOK
  <2> QED
    BY <1>1, <1>3, <2>1 DEF WillReach
<1> QED
  BY <1>4, <1>5

(* Who is suspended when the waiters are counted is due until it wakes up. *)
LEMMA ThreadXDue ==
  ASSUME TypeOK, QueueSound, ThreadXStep, NEW n \in Notifier, NEW t \in Waiter
  PROVE  StaysDue(n, t)
<1> SUFFICES ASSUME WillReach(n, t) \/ notifier[n] = "idle",
                    notifier'[n] # "idle", Asleep(t), Asleep(t)'
             PROVE  WillReach(n, t)'
  BY DEF StaysDue
<1>1. platform # "std" /\ platform' # "std" /\ at[t] = "suspended"
  BY DEF ThreadXStep, Asleep, TypeOK, ThreadXPoint, Registered
<1>2. ASSUME NEW m \in Notifier, Load(m) PROVE WillReach(n, t)'
  <2>1. t \in Suspended
    BY <1>1, QueueType DEF QueueSound, Suspended
  <2>2. CASE m = n
    BY <1>1, <1>2, <2>1, <2>2 DEF Load, WillReach, TypeOK
  <2>3. CASE m # n
    <3>1. notifier'[n] = notifier[n] /\ due'[n] = due[n]
      BY <1>2, <2>3 DEF Load, TypeOK
    <3> QED
      BY <1>1, <3>1 DEF WillReach
  <2> QED
    BY <2>2, <2>3
<1>3. ASSUME NEW k \in 1..Len(queue), Drops(k), UNCHANGED notifier
      PROVE  WillReach(n, t)'
  <2>1. at'[queue[k]] = "woken"
    BY <1>3, QueueType DEF Drops, TypeOK
  <2>2. t # queue[k]
    BY <2>1 DEF Asleep
  <2>3. t \in due[n] => t \in due'[n]
    BY <1>3, <2>2 DEF Drops
  <2>4. notifier[n] \in {"idle", "owed", "notifying"} /\ notifier'[n] = notifier[n]
    BY <1>3 DEF TypeOK
  <2> QED
    BY <1>1, <2>3, <2>4 DEF WillReach
<1>4. ASSUME NEW m \in Notifier, PutResumes(m) PROVE WillReach(n, t)'
  BY <1>3, <1>4, PutDrops DEF PutResumes
<1>5. ASSUME NEW u \in Waiter, GetEnds(u) PROVE WillReach(n, t)'
  BY <1>3, <1>5, EndDrops DEF GetEnds
<1>6. ASSUME UNCHANGED due, notifier'[n] = notifier[n] PROVE WillReach(n, t)'
  BY <1>1, <1>6 DEF WillReach
<1>7. ASSUME NEW m \in Notifier, PutKeeps(m) \/ Done(m) PROVE WillReach(n, t)'
  <2>1. UNCHANGED due /\ notifier'[n] = notifier[n]
    BY <1>7 DEF PutKeeps, Done, TypeOK, syncVars, threadxVars
  <2> QED
    BY <1>6, <2>1
<1>8. ASSUME NEW u \in Waiter, \/ Register(u) \/ GetTakes(u) \/ GetRefuses(u)
                               \/ GetSuspends(u) \/ Deregister(u) \/ ThreadXRelock(u)
      PROVE  WillReach(n, t)'
  <2>1. UNCHANGED <<due, notifier>>
    BY <1>8 DEF Register, GetTakes, GetRefuses, GetSuspends, Deregister,
           ThreadXRelock, Takes, threadxVars
  <2> QED
    BY <1>6, <2>1
<1> QED
  BY <1>2, <1>4, <1>5, <1>7, <1>8 DEF ThreadXStep, ThreadXNext, ThreadXNotifying,
     ThreadXRunning, GetTimesOut, GetEndsEarly

(* Every step keeps who is due as the image has it.                        *)
LEMMA DueMaps == IInv /\ IInv' /\ (SyncStep \/ StdStep \/ ThreadXStep) => Contract!Due
<1> SUFFICES ASSUME IInv, IInv', SyncStep \/ StdStep \/ ThreadXStep PROVE Contract!Due
  OBVIOUS
<1>1. ImageDue' \in [Contract!Change -> SUBSET Waiter]
  BY DEF ImageDue, Contract!Change, Notifier
<1>2. ASSUME NEW n \in Notifier, NEW t \in Waiter
      PROVE  /\ t \in ImageDue[n] <=> WillReach(n, t)
             /\ t \in ImageDue'[n] <=> WillReach(n, t)'
  BY DEF ImageDue
<1>3. ASSUME NEW n \in Notifier, NEW t \in Waiter, WillReach(n, t)'
      PROVE  n \in ImageOwed' /\ ImageAt'[t] = "asleep"
  <2>1. OwedSleepers'
    BY ReachedSleep, PTL
  <2> QED
    BY <1>3, <2>1 DEF OwedSleepers
<1>4. ASSUME NEW n \in Notifier, NEW t \in Waiter PROVE StaysDue(n, t)
  <2>1. TypeOK /\ ClosedOnce /\ Generations /\ QueueSound
    BY DEF IInv
  <2> QED
    BY <2>1, SyncDue, StdDue, ThreadXDue
<1>5. ASSUME NEW n \in Notifier, NEW t \in Waiter
      PROVE  /\ (n \notin ImageOwed) <=> (notifier[n] = "idle")
             /\ (n \in ImageOwed') <=> (notifier'[n] # "idle")
             /\ (ImageAt[t] = "asleep") => Asleep(t)
             /\ (ImageAt'[t] = "asleep") => Asleep(t)'
  BY DEF ImageOwed, ImageAt
<1>6. ASSUME NEW n \in Notifier, NEW t \in Waiter,
             t \in ImageDue[n] \/ n \notin ImageOwed, n \in ImageOwed',
             ImageAt[t] = "asleep", ImageAt'[t] = "asleep"
      PROVE  t \in ImageDue'[n]
  <2>1. WillReach(n, t) \/ notifier[n] = "idle"
    BY <1>2, <1>5, <1>6
  <2>2. notifier'[n] # "idle" /\ Asleep(t) /\ Asleep(t)'
    BY <1>5, <1>6
  <2>3. WillReach(n, t)'
    BY <1>4, <2>1, <2>2 DEF StaysDue
  <2> QED
    BY <1>2, <2>3
<1>7. Contract!Change = Notifier
  BY DEF Contract!Change, Notifier
<1> QED
  BY <1>1, <1>2, <1>3, <1>6, <1>7 DEF Contract!Due

-----------------------------------------------------------------------------
(* The image's own steps.                                                  *)

(* What the image may do, apart from keeping count of who is due.          *)
Image ==
    \/ Contract!Publish \/ Contract!Close
    \/ \E n \in Notifier : Contract!Notify(n)
    \/ Contract!Wake
    \/ \E t \in Waiter : \/ Contract!Call(t) \/ Contract!Block(t) \/ Contract!Sleep(t)
                         \/ Contract!Leave(t) \/ Contract!Again(t) \/ Contract!Expire(t)

(* publish and close, each as the image has it.                            *)
LEMMA ChangeMaps ==
  ASSUME TypeOK, Publish \/ Close, UNCHANGED <<stdVars, threadxVars, platform>>
  PROVE  Contract!Publish \/ Contract!Close
<1>1. UNCHANGED <<ImageAt, ImageDesired, ImageExpired>>
  <2>1. UNCHANGED <<at, desired, expired, generation, began, platform>>
    BY DEF Publish, Close, callVars, stdVars
  <2>2. \A t \in Waiter : /\ InSync(t)' <=> InSync(t)
                          /\ Asleep(t)' <=> Asleep(t)
                          /\ Entering(t)' <=> Entering(t)
    BY <2>1 DEF InSync, Asleep, Entering
  <2> QED
    BY <2>1, <2>2 DEF ImageAt, ImageDesired, ImageExpired
<1>2. CASE Publish
  <2>1. "publish" \notin ImageOwed /\ ImageOwed' = ImageOwed \cup {"publish"}
    BY <1>2 DEF Publish, TypeOK, ImageOwed, Notifier
  <2> QED
    BY <1>1, <1>2, <2>1 DEF Publish, Contract!Publish
<1>3. CASE Close
  <2>1. ImageOwed' = ImageOwed \cup {"close"}
    BY <1>3 DEF Close, TypeOK, ImageOwed, Notifier
  <2> QED
    BY <1>1, <1>3, <2>1 DEF Close, Contract!Close
<1> QED
  BY <1>2, <1>3

(* A thread that asks for the mutex is not seen yet; it calls sync, to the *)
(* image, once it has the mutex.                                           *)
LEMMA CallMaps ==
  ASSUME TypeOK, NEW t \in Waiter, Call(t), UNCHANGED <<stdVars, threadxVars, platform>>
  PROVE  Contract!Wake
<1>1. UNCHANGED SharedView
  BY SharedFrame DEF Call, imageVars
<1>2. Apart(t)
  BY DEF Apart, Call, TypeOK, stdVars
<1>3. ~InSync(t) /\ ~InSync(t)'
  BY DEF Call, InSync, TypeOK
<1>4. /\ ImageAt'[t] = ImageAt[t] /\ ImageDesired'[t] = ImageDesired[t]
      /\ ImageExpired'[t] = ImageExpired[t]
  BY <1>3 DEF ImageAt, ImageDesired, ImageExpired
<1>5. /\ ImageDesired = [ImageDesired EXCEPT ![t] = ImageDesired[t]]
      /\ ImageExpired = [ImageExpired EXCEPT ![t] = ImageExpired[t]]
  BY DEF ImageDesired, ImageExpired
<1>6. UNCHANGED CallView
  BY <1>2, <1>4, <1>5, OneMoves DEF CallView
<1> QED
  BY <1>1, <1>2, <1>4, <1>6, OneStirs DEF StirsAt

(* The mutex is obtained: the image sees a call of sync.                   *)
LEMMA LockMaps ==
  ASSUME TypeOK, NEW t \in Waiter, Lock(t), UNCHANGED <<stdVars, threadxVars, platform>>
  PROVE  Contract!Call(t)
<1>1. UNCHANGED SharedView
  BY SharedFrame DEF Lock, Takes, imageVars
<1>2. Apart(t)
  BY DEF Apart, Lock, Takes, TypeOK, stdVars, callVars
<1>3. ~InSync(t) /\ InSync(t)' /\ ~Asleep(t)' /\ ~Entering(t)'
  BY DEF Lock, Takes, InSync, Asleep, Entering, TypeOK
<1>4. ImageAt[t] = "out" /\ ImageAt'[t] = "check"
  BY <1>3 DEF ImageAt
<1>5. ImageDesired'[t] = desired[t] /\ (ImageExpired'[t] <=> expired[t])
  BY <1>3 DEF ImageDesired, ImageExpired, Lock, Takes, callVars, TypeOK
<1>6. ImageDesired'[t] \in Nat /\ ImageExpired'[t] \in BOOLEAN
  BY <1>5 DEF TypeOK, ImageExpired
<1> QED
  BY <1>1, <1>2, <1>4, <1>6, OneMoves DEF Contract!Call, SharedView

(* sync returns, for a reason the image allows.                            *)
LEMMA LeaveMaps ==
  ASSUME TypeOK, NEW t \in Waiter, Leave(t), UNCHANGED <<stdVars, threadxVars, platform>>
  PROVE  Contract!Leave(t)
<1>1. UNCHANGED SharedView
  BY SharedFrame DEF Leave, imageVars
<1>2. Apart(t)
  BY DEF Apart, Leave, TypeOK, stdVars
<1>3. InSync(t) /\ ~InSync(t)' /\ ~Asleep(t) /\ ~Entering(t)
  BY DEF Leave, InSync, Asleep, Entering, TypeOK
<1>4. /\ ImageAt[t] = "check" /\ ImageAt'[t] = "out" /\ ImageDesired[t] = desired[t]
      /\ ImageExpired[t] <=> expired[t]
  BY <1>3 DEF ImageAt, ImageDesired, ImageExpired
<1>5. ImageDesired'[t] = 0 /\ ImageExpired'[t] = FALSE
  BY <1>3 DEF ImageDesired, ImageExpired
<1>6. count >= ImageDesired[t] \/ closed \/ ImageExpired[t]
  BY <1>4 DEF Leave, MustWait, TypeOK
<1> QED
  BY <1>1, <1>2, <1>4, <1>5, <1>6, OneMoves
     DEF Contract!Leave, Contract!Reached, SharedView

(* A deadline counts once its thread is in sync.                           *)
LEMMA ExpireMaps ==
  ASSUME TypeOK, NEW t \in Waiter, Expire(t), UNCHANGED <<stdVars, threadxVars, platform>>
  PROVE  Contract!Expire(t) \/ Contract!Wake
<1>1. UNCHANGED SharedView
  BY SharedFrame DEF Expire, imageVars
<1>2. Apart(t)
  BY DEF Apart, Expire, TypeOK, stdVars
<1>3. UNCHANGED <<ImageAt, ImageDesired>>
  <2>1. \A u \in Waiter : /\ InSync(u)' <=> InSync(u)
                          /\ Asleep(u)' <=> Asleep(u)
                          /\ Entering(u)' <=> Entering(u)
    BY DEF Expire, InSync, Asleep, Entering, stdVars
  <2> QED
    BY <2>1 DEF Expire, ImageAt, ImageDesired
<1>4. CASE InSync(t)
  <2>1. ImageAt[t] # "out"
    BY <1>4 DEF ImageAt
  <2>2. InSync(t)' /\ expired'[t] = TRUE
    BY <1>4 DEF Expire, InSync, TypeOK
  <2>3. ImageExpired'[t] = TRUE
    BY <2>2 DEF ImageExpired
  <2> QED
    BY <1>1, <1>2, <1>3, <2>1, <2>3, OneMoves DEF Contract!Expire, SharedView
<1>5. CASE ~InSync(t)
  <2>1. ~InSync(t)'
    BY <1>5 DEF Expire, InSync
  <2>2. ImageExpired'[t] = ImageExpired[t]
    BY <1>5, <2>1 DEF ImageExpired
  <2>3. ImageExpired = [ImageExpired EXCEPT ![t] = ImageExpired[t]]
    BY DEF ImageExpired
  <2>4. UNCHANGED ImageExpired
    BY <1>2, <2>2, <2>3, OneMoves
  <2> QED
    BY <1>1, <1>3, <2>4, WakeMaps DEF CallView, StirsAt
<1> QED
  BY <1>4, <1>5

(* All of them.                                                            *)
LEMMA SyncMaps == TypeOK /\ SyncStep => Image
<1> SUFFICES ASSUME TypeOK, SyncStep PROVE Image
  OBVIOUS
<1>1. SyncNext /\ UNCHANGED <<stdVars, threadxVars, platform>>
  BY DEF SyncStep
<1>2. CASE Publish \/ Close
  BY <1>1, <1>2, ChangeMaps DEF Image
<1>3. ASSUME NEW t \in Waiter, Call(t) \/ Lock(t) \/ Leave(t) \/ Expire(t)
      PROVE  Image
  <2>1. Contract!Call(t) \/ Contract!Leave(t) \/ Contract!Expire(t) \/ Contract!Wake
    BY <1>1, <1>3, CallMaps, LockMaps, LeaveMaps, ExpireMaps
  <2> QED
    BY <2>1 DEF Image
<1> QED
  BY <1>1, <1>2, <1>3 DEF SyncNext

-----------------------------------------------------------------------------
(* The hosted platform.                                                    *)

(* The generation sends back to the check whoever is in waitUntil and will *)
(* look at it; a sleeper is sent there by the notify_all to come.          *)
LEMMA BumpMaps ==
  ASSUME TypeOK, Generations, NEW n \in Notifier, Bump(n), platform = "std",
         UNCHANGED <<threadxVars, platform>>
  PROVE  Contract!Wake
<1>1. UNCHANGED SharedView
  BY OwedFrame DEF Bump, imageVars, SharedView
<1>2. UNCHANGED <<at, desired, expired, began, platform>> /\ generation' = generation + 1
  BY DEF Bump, callVars
<1>3. UNCHANGED CallView
  BY <1>2, CallFrame DEF InSync
<1>4. ASSUME NEW t \in Waiter PROVE StirsAt(t)
  <2>1. (InSync(t)' <=> InSync(t)) /\ (Asleep(t)' <=> Asleep(t))
    BY <1>2 DEF InSync, Asleep
  <2>2. Entering(t)' => Entering(t)
    <3>1. at[t] \in InStdWait => began[t] <= generation
      BY DEF Generations
    <3> QED
      BY <1>2, <3>1 DEF Entering, InStdWait, TypeOK
  <2> QED
    BY <2>1, <2>2 DEF StirsAt, ImageAt
<1> QED
  BY <1>1, <1>3, <1>4, WakeMaps

(* notify_all wakes every sleeper; the ones due find another generation.   *)
LEMMA NotifyAllMaps ==
  ASSUME TypeOK, NEW n \in Notifier, NotifyAll(n), platform = "std",
         UNCHANGED <<threadxVars, platform>>
  PROVE  Contract!Notify(n)
<1>1. n \in ImageOwed /\ ImageOwed' = ImageOwed \ {n}
  BY DEF NotifyAll, TypeOK, ImageOwed
<1>2. UNCHANGED <<count, closed, desired, expired, began, generation>>
  BY DEF NotifyAll, imageVars, callVars, stdVars
<1>3. \A t \in Waiter : at'[t] = IF at[t] = "asleep" THEN "relock" ELSE at[t]
  BY DEF NotifyAll, Woken
<1>4. \A t \in Waiter : at[t] # "suspended"
  BY DEF TypeOK, StdPoint, InStdWait
<1>5. ASSUME NEW t \in Waiter
      PROVE  /\ InSync(t)' <=> InSync(t)
             /\ ~Asleep(t)'
             /\ ~Asleep(t) => (Entering(t)' <=> Entering(t))
             /\ Asleep(t) /\ began[t] # generation => ~Entering(t)'
  BY <1>2, <1>3, <1>4 DEF InSync, Asleep, Entering
<1>6. UNCHANGED CallView
  BY <1>2, <1>5, CallFrame
<1>7. ImageAt' \in [Waiter -> Contract!Place]
  BY DEF ImageAt, Contract!Place
<1>8. \A t \in Waiter : StirsAt(t)
  BY <1>5 DEF StirsAt, ImageAt
<1>9. \A t \in ImageDue[n] : ImageAt'[t] = "check"
  <2>1. \A t \in ImageDue[n] : t \in Waiter /\ Asleep(t) /\ began[t] # generation
    BY DEF ImageDue, WillReach, NotifyAll
  <2>2. \A t \in ImageDue[n] : InSync(t)
    BY <2>1 DEF Asleep, InSync
  <2> QED
    BY <1>5, <2>1, <2>2 DEF ImageAt
<1> QED
  BY <1>1, <1>2, <1>6, <1>7, <1>8, <1>9
     DEF Contract!Notify, Contract!Stirs, StirsAt, CallView

(* The steps of a hosted wait.                                             *)
LEMMA StdWaitMaps ==
  ASSUME TypeOK, NEW t \in Waiter, StdRunning(t) \/ StdRelock(t) \/ RouseSpuriously(t),
         platform = "std", UNCHANGED <<threadxVars, platform>>
  PROVE  Contract!Block(t) \/ Contract!Sleep(t) \/ Contract!Wake
<1>1. UNCHANGED <<count, closed, desired, expired, notifier, generation, platform>>
  BY DEF StdRunning, Block, TestHolds, TestFails, Park, RouseAtDeadline, Rouse,
         RouseSpuriously, StdRelock, Takes, imageVars, callVars, stdVars
<1>2. UNCHANGED SharedView
  BY <1>1, SharedFrame
<1>3. \A u \in Waiter \ {t} : at'[u] = at[u] /\ began'[u] = began[u]
  BY DEF StdRunning, Block, TestHolds, TestFails, Park, RouseAtDeadline, Rouse,
         RouseSpuriously, StdRelock, Takes, stdVars, TypeOK
<1>4. Apart(t)
  BY <1>1, <1>3 DEF Apart
<1>5. InSync(t) /\ InSync(t)'
  BY DEF StdRunning, Block, TestHolds, TestFails, Park, RouseAtDeadline, Rouse,
         RouseSpuriously, StdRelock, Takes, TypeOK, InSync
<1>6. UNCHANGED CallView
  BY <1>1, <1>3, <1>5, CallFrame DEF InSync
<1>7. CASE Block(t)
  <2>1. ~Asleep(t)' /\ Entering(t)' /\ at[t] = "check" /\ MustWait(t)
    BY <1>1, <1>7 DEF Block, Asleep, Entering, TypeOK
  <2> QED
    BY <1>2, <1>4, <1>5, <1>6, <2>1, BlockMaps
<1>8. CASE Park(t)
  <2>1. ~Asleep(t) /\ Entering(t) /\ Asleep(t)'
    BY <1>8 DEF Park, Asleep, Entering, TypeOK
  <2> QED
    BY <1>2, <1>4, <1>5, <1>6, <2>1, SleepMaps
<1>9. CASE TestHolds(t) \/ TestFails(t) \/ Rouse(t) \/ StdRelock(t)
  <2>1. ~Asleep(t)' /\ (Entering(t)' => Entering(t) \/ Asleep(t))
    BY <1>1, <1>9 DEF TestHolds, WaitOver, TestFails, Rouse, StdRelock, Takes, Asleep,
           Entering, stdVars, TypeOK
  <2>2. StirsAt(t)
    BY <1>5, <2>1 DEF StirsAt, ImageAt
  <2> QED
    BY <1>2, <1>4, <1>6, <2>2, OneStirs
<1> QED
  BY <1>7, <1>8, <1>9 DEF StdRunning, RouseAtDeadline, RouseSpuriously

(* The hosted platform's steps.                                            *)
LEMMA StdMaps == TypeOK /\ Generations /\ StdStep => Image
<1> SUFFICES ASSUME TypeOK, Generations, StdStep PROVE Image
  OBVIOUS
<1>1. platform = "std" /\ StdNext /\ UNCHANGED <<threadxVars, platform>>
  BY DEF StdStep
<1>2. ASSUME NEW n \in Notifier, StdNotifying(n) PROVE Image
  <2>1. Contract!Notify(n) \/ Contract!Wake
    BY <1>1, <1>2, BumpMaps, NotifyAllMaps DEF StdNotifying
  <2> QED
    BY <2>1 DEF Image
<1>3. ASSUME NEW t \in Waiter, StdRunning(t) \/ StdRelock(t) \/ RouseSpuriously(t)
      PROVE  Image
  <2>1. Contract!Block(t) \/ Contract!Sleep(t) \/ Contract!Wake
    BY <1>1, <1>3, StdWaitMaps
  <2> QED
    BY <2>1 DEF Image
<1> QED
  BY <1>1, <1>2, <1>3 DEF StdNext

-----------------------------------------------------------------------------
(* The ThreadX port.                                                       *)

(* The count and the tokens that are kept change nothing the image sees.   *)
LEMMA LoadMaps ==
  ASSUME TypeOK, NEW n \in Notifier, Load(n) \/ PutKeeps(n),
         UNCHANGED <<stdVars, platform>>
  PROVE  Contract!Wake
<1>1. UNCHANGED <<at, count, closed, desired, expired, generation, began>>
  BY DEF Load, PutKeeps, syncVars, imageVars, callVars, stdVars
<1>2. UNCHANGED SharedView
  BY <1>1, OwedFrame, SharedFrame DEF Load, PutKeeps, syncVars, SharedView
<1>3. \A t \in Waiter : /\ InSync(t)' <=> InSync(t)
                        /\ Asleep(t)' <=> Asleep(t)
                        /\ Entering(t)' <=> Entering(t)
  BY <1>1 DEF InSync, Asleep, Entering
<1>4. UNCHANGED CallView
  BY <1>1, <1>3, CallFrame
<1>5. \A t \in Waiter : StirsAt(t)
  BY <1>3 DEF StirsAt, ImageAt
<1> QED
  BY <1>2, <1>4, <1>5, WakeMaps

(* A token wakes the longest suspended.                                    *)
LEMMA PutMaps ==
  ASSUME TypeOK, QueueSound, NEW n \in Notifier, PutResumes(n), platform = "threadx",
         UNCHANGED <<stdVars, platform>>
  PROVE  Contract!Wake
<1>1. 1 \in 1..Len(queue) /\ Drops(1)
  BY PutDrops
<1>2. PICK t \in Waiter : t = queue[1]
  BY <1>1, QueueType
<1>3. at' = [at EXCEPT ![t] = "woken"] /\ at[t] = "suspended"
  BY <1>1, <1>2 DEF Drops, QueueSound
<1>4. UNCHANGED <<count, closed, desired, expired, notifier, generation, began>>
  BY DEF PutResumes, imageVars, callVars, stdVars
<1>5. UNCHANGED SharedView
  BY <1>4, SharedFrame
<1>6. Apart(t)
  BY <1>3, <1>4 DEF Apart, TypeOK
<1>7. /\ \A u \in Waiter : InSync(u)' <=> InSync(u)
      /\ InSync(t) /\ Asleep(t) /\ ~Asleep(t)' /\ ~Entering(t)'
  BY <1>3 DEF InSync, Asleep, Entering, TypeOK
<1>8. UNCHANGED CallView
  BY <1>4, <1>7, CallFrame
<1>9. StirsAt(t)
  BY <1>7 DEF StirsAt, ImageAt
<1> QED
  BY <1>5, <1>6, <1>8, <1>9, OneStirs

(* A notifyAll is over when no thread it found is suspended any more.      *)
LEMMA DoneMaps ==
  ASSUME TypeOK, DueFirst', NEW n \in Notifier, Done(n), platform = "threadx",
         UNCHANGED <<stdVars, platform>>
  PROVE  Contract!Notify(n)
<1>1. n \in ImageOwed /\ ImageOwed' = ImageOwed \ {n}
  BY DEF Done, TypeOK, ImageOwed
<1>2. UNCHANGED <<at, count, closed, desired, expired, generation, began, due>>
  BY DEF Done, imageVars, callVars, threadxVars, stdVars
<1>3. \A t \in Waiter : /\ InSync(t)' <=> InSync(t)
                        /\ Asleep(t)' <=> Asleep(t)
                        /\ Entering(t)' <=> Entering(t)
  BY <1>2 DEF InSync, Asleep, Entering
<1>4. UNCHANGED CallView
  BY <1>2, <1>3, CallFrame
<1>5. ImageAt' \in [Waiter -> Contract!Place] /\ \A t \in Waiter : ImageAt'[t] = ImageAt[t]
  BY <1>3 DEF ImageAt, Contract!Place
<1>6. ImageDue[n] = {}
  <2>1. notifier'[n] = "idle"
    BY DEF Done, TypeOK
  <2>2. due[n] = {}
    BY <1>2, <2>1 DEF DueFirst
  <2> QED
    BY <2>2 DEF ImageDue, WillReach, Done
<1> QED
  BY <1>1, <1>2, <1>4, <1>5, <1>6 DEF Contract!Notify, Contract!Stirs, CallView

(* The steps of a ThreadX wait.                                            *)
LEMMA ThreadXWaitMaps ==
  ASSUME TypeOK, NEW t \in Waiter,
         ThreadXRunning(t) \/ ThreadXRelock(t) \/ GetEndsEarly(t),
         platform = "threadx", UNCHANGED <<stdVars, platform>>
  PROVE  Contract!Block(t) \/ Contract!Sleep(t) \/ Contract!Wake
<1>1. UNCHANGED <<count, closed, desired, expired, notifier, generation, began>>
  BY DEF ThreadXRunning, Register, GetTakes, GetRefuses, GetSuspends, GetTimesOut,
         GetEnds, GetEndsEarly, Deregister, ThreadXRelock, Takes, imageVars, callVars,
         stdVars
<1>2. UNCHANGED SharedView
  BY <1>1, SharedFrame
<1>3. \A u \in Waiter \ {t} : at'[u] = at[u]
  BY DEF ThreadXRunning, Register, GetTakes, GetRefuses, GetSuspends, GetTimesOut,
         GetEnds, GetEndsEarly, Deregister, ThreadXRelock, Takes, TypeOK
<1>4. Apart(t)
  BY <1>1, <1>3 DEF Apart
<1>5. /\ at[t] \in {"check", "get", "suspended", "woken", "relock"}
      /\ at'[t] \in {"get", "suspended", "woken", "relock", "check"}
  BY DEF ThreadXRunning, Register, GetTakes, GetRefuses, GetSuspends, GetTimesOut,
         GetEnds, GetEndsEarly, Deregister, ThreadXRelock, Takes, TypeOK
<1>6. InSync(t) /\ InSync(t)' /\ UNCHANGED CallView
  BY <1>1, <1>3, <1>5, CallFrame DEF InSync
<1>7. CASE Register(t)
  <2>1. ~Asleep(t)' /\ Entering(t)' /\ at[t] = "check" /\ MustWait(t)
    BY <1>7 DEF Register, Asleep, Entering, TypeOK
  <2> QED
    BY <1>2, <1>4, <1>6, <2>1, BlockMaps
<1>8. CASE GetSuspends(t)
  <2>1. ~Asleep(t) /\ Entering(t) /\ Asleep(t)'
    BY <1>8 DEF GetSuspends, Asleep, Entering, TypeOK
  <2> QED
    BY <1>2, <1>4, <1>6, <2>1, SleepMaps
<1>9. CASE GetTakes(t) \/ GetRefuses(t) \/ GetEnds(t) \/ Deregister(t) \/ ThreadXRelock(t)
  <2>1. at'[t] \in {"woken", "relock", "check"}
    BY <1>9 DEF GetTakes, GetRefuses, GetEnds, Deregister, ThreadXRelock, Takes, TypeOK
  <2>2. ~Asleep(t)' /\ ~Entering(t)'
    BY <2>1 DEF Asleep, Entering
  <2>3. StirsAt(t)
    BY <1>6, <2>2 DEF StirsAt, ImageAt
  <2> QED
    BY <1>2, <1>4, <1>6, <2>3, OneStirs
<1> QED
  BY <1>7, <1>8, <1>9 DEF ThreadXRunning, GetTimesOut, GetEndsEarly

(* The ThreadX port's steps.                                               *)
LEMMA ThreadXMaps == TypeOK /\ QueueSound /\ DueFirst' /\ ThreadXStep => Image
<1> SUFFICES ASSUME TypeOK, QueueSound, DueFirst', ThreadXStep PROVE Image
  OBVIOUS
<1>1. platform = "threadx" /\ ThreadXNext /\ UNCHANGED <<stdVars, platform>>
  BY DEF ThreadXStep
<1>2. ASSUME NEW n \in Notifier, ThreadXNotifying(n) PROVE Image
  <2>1. Contract!Notify(n) \/ Contract!Wake
    BY <1>1, <1>2, LoadMaps, PutMaps, DoneMaps DEF ThreadXNotifying
  <2> QED
    BY <2>1 DEF Image
<1>3. ASSUME NEW t \in Waiter, ThreadXRunning(t) \/ ThreadXRelock(t) \/ GetEndsEarly(t)
      PROVE  Image
  <2>1. Contract!Block(t) \/ Contract!Sleep(t) \/ Contract!Wake
    BY <1>1, <1>3, ThreadXWaitMaps
  <2> QED
    BY <2>1 DEF Image
<1> QED
  BY <1>1, <1>2, <1>3 DEF ThreadXNext

(* Every step maps to a step of the image, or to none.                     *)
LEMMA NextMaps == IInv /\ IInv' /\ [Next]_vars => [Contract!Next]_(Contract!vars)
<1> SUFFICES ASSUME IInv, IInv', [Next]_vars
             PROVE  Contract!Next \/ UNCHANGED Contract!vars
  OBVIOUS
<1>1. TypeOK /\ Generations /\ QueueSound /\ DueFirst'
  BY DEF IInv
<1>2. CASE UNCHANGED vars
  <2>1. UNCHANGED <<count, closed, desired, expired, notifier, at, generation, began,
                    due, platform>>
    BY <1>2 DEF vars, syncVars, imageVars, callVars, stdVars, threadxVars
  <2>2. UNCHANGED <<ImageOwed, ImageDue, ImageAt, ImageDesired, ImageExpired>>
    BY <2>1 DEF ImageOwed, ImageDue, ImageAt, ImageDesired, ImageExpired, InSync,
           Asleep, Entering, WillReach
  <2> QED
    BY <2>1, <2>2 DEF Contract!vars
<1>3. CASE SyncStep \/ StdStep \/ ThreadXStep
  <2>1. Image
    BY <1>1, <1>3, SyncMaps, StdMaps, ThreadXMaps
  <2>2. Contract!Due
    BY <1>3, DueMaps
  <2> QED
    BY <2>1, <2>2 DEF Image, Contract!Next, Contract!Change, Notifier
<1> QED
  BY <1>2, <1>3, StepKinds

(* Either platform's condition variable, under the image's own code, keeps *)
(* the image's promise to any number of threads: sync returns only for its *)
(* record, the close or the deadline, and a notification is over only when *)
(* every thread asleep since before the change has been woken and sent     *)
(* back to the check, wherever the steps of notifyAll fall.                *)
THEOREM ImageWaitImplemented == Spec => ImplementsImageWait
  BY InitMaps, NextMaps, Invariant, PTL DEF Spec, ImplementsImageWait, Contract!Spec
=============================================================================
