-------------------------- MODULE SchedulerProofs --------------------------
(***************************************************************************)
(* Theorems about Scheduler, for every set of requests and every setting.  *)
(***************************************************************************)
EXTENDS Scheduler, FiniteSetTheorems, SequenceTheorems, TLAPS

-----------------------------------------------------------------------------
(* What popping a waiter does to the queue.                                *)

\* RemoveAt drops position i and moves the later elements up by one.
LEMMA RemoveAtFacts ==
    ASSUME NEW S, NEW s \in Seq(S), NEW i \in 1..Len(s)
    PROVE  /\ RemoveAt(s, i) \in Seq(S)
           /\ Len(RemoveAt(s, i)) = Len(s) - 1
           /\ \A j \in 1..(Len(s) - 1) :
                 RemoveAt(s, i)[j] = IF j < i THEN s[j] ELSE s[j + 1]
<1> DEFINE a == SubSeq(s, 1, i - 1)
           b == SubSeq(s, i + 1, Len(s))
<1>0. Len(s) \in Nat /\ \A j \in 1..Len(s) : s[j] \in S
  OBVIOUS
<1>1. a \in Seq(S) /\ Len(a) = i - 1 /\ \A j \in 1..(i - 1) : a[j] = s[j]
  <2>1. \A j \in 1..(i - 1) : s[j] \in S
    BY <1>0
  <2> QED
    BY <2>1, SubSeqProperties, <1>0
<1>2. b \in Seq(S) /\ Len(b) = Len(s) - i
      /\ \A j \in 1..(Len(s) - i) : b[j] = s[i + j]
  <2>1. \A j \in (i + 1)..Len(s) : s[j] \in S
    BY <1>0
  <2> QED
    BY <2>1, SubSeqProperties, <1>0
<1>3. RemoveAt(s, i) = a \o b
  BY DEF RemoveAt
<1> HIDE DEF a, b
<1>4. /\ a \o b \in Seq(S)
      /\ Len(a \o b) = Len(a) + Len(b)
      /\ \A j \in 1..(Len(a) + Len(b)) :
            (a \o b)[j] = IF j <= Len(a) THEN a[j] ELSE b[j - Len(a)]
  BY <1>1, <1>2, ConcatProperties
<1>5. ASSUME NEW j \in 1..(Len(s) - 1)
      PROVE  (a \o b)[j] = IF j < i THEN s[j] ELSE s[j + 1]
  <2>1. (a \o b)[j] = IF j <= i - 1 THEN a[j] ELSE b[j - (i - 1)]
    <3>1. Len(a) = i - 1 /\ Len(a) + Len(b) = Len(s) - 1
      BY <1>0, <1>1, <1>2
    <3> QED
      BY <1>4, <3>1
  <2>2. CASE j < i
    BY <2>1, <2>2, <1>0, <1>1
  <2>3. CASE ~(j < i)
    <3>1. j - (i - 1) \in 1..(Len(s) - i) /\ i + (j - (i - 1)) = j + 1
      BY <2>3, <1>0
    <3>2. b[j - (i - 1)] = s[i + (j - (i - 1))]
      BY <3>1, <1>2
    <3> QED
      BY <2>1, <2>3, <3>1, <3>2, <1>0
  <2> QED
    BY <2>2, <2>3
<1> QED
  BY <1>0, <1>1, <1>2, <1>3, <1>4, <1>5

-----------------------------------------------------------------------------
(* Types, and where a waiter can be.                                       *)

\* A waiter exists exactly while its task is queued, reaping or abandoned;
\* an idle task has no cancelled token; only prefills are isolated.
TaskShape ==
    /\ \A r \in Requests : future[r] = "none" <=> pc[r] \in {"idle", "holding"}
    /\ \A r \in Requests : pc[r] = "idle" => ~cancelled[r]
    /\ \A r \in Requests : isolated[r] => lane[r] = "prefill" /\ MaxConcurrent > 0

\* The queue holds the pending tasks, each once (the first half of QueueAccounting).
QueueMembers ==
    /\ \A i, j \in 1..Len(waiters) : waiters[i] = waiters[j] => i = j
    /\ \A i \in 1..Len(waiters) : future[waiters[i]] = "pending"
    /\ \A r \in Requests : future[r] = "pending" => \E i \in 1..Len(waiters) : waiters[i] = r

BaseInv == TypeOK /\ TaskShape /\ QueueMembers

\* FreeSlot and GrantSlot keep the counters natural numbers.
LEMMA CounterTypes ==
    ASSUME TypeOK, NEW l \in Lanes
    PROVE  /\ GrantSlot(l) => active' \in Nat /\ activeDecode' \in Nat /\ activePrefill' \in Nat
           /\ FreeSlot(l) => active' \in Nat /\ activeDecode' \in Nat /\ activePrefill' \in Nat
BY DEF TypeOK, GrantSlot, FreeSlot, LargerOf, Lanes

\* Joining the queue: r is appended and its future becomes pending.
LEMMA EnterQueueFacts ==
    ASSUME TypeOK, QueueMembers, NEW r \in Requests, NEW l \in Lanes,
           EnterQueue(r, l), future[r] = "none",
           future' = [future EXCEPT ![r] = "pending"]
    PROVE  /\ waiters' \in Seq(Requests)
           /\ queued' \in Nat /\ queuedDecode' \in Nat /\ queuedPrefill' \in Nat
           /\ QueueMembers'
<1>1. /\ waiters' \in Seq(Requests) /\ Len(waiters') = Len(waiters) + 1
      /\ \A i \in 1..Len(waiters) : waiters'[i] = waiters[i]
      /\ waiters'[Len(waiters) + 1] = r
  BY AppendProperties DEF TypeOK, EnterQueue
<1>2. queued' \in Nat /\ queuedDecode' \in Nat /\ queuedPrefill' \in Nat
  BY DEF TypeOK, EnterQueue
<1>3. Len(waiters) \in Nat /\ \A i \in 1..Len(waiters) : waiters[i] \in Requests /\ waiters[i] # r
  BY DEF TypeOK, QueueMembers
<1>4. \A i, j \in 1..Len(waiters') : waiters'[i] = waiters'[j] => i = j
  BY <1>1, <1>3 DEF QueueMembers
<1>5. \A i \in 1..Len(waiters') : future'[waiters'[i]] = "pending"
  BY <1>1, <1>3 DEF QueueMembers, TypeOK
<1>6. \A q \in Requests : future'[q] = "pending" => \E i \in 1..Len(waiters') : waiters'[i] = q
  <2> SUFFICES ASSUME NEW q \in Requests, future'[q] = "pending"
               PROVE  \E i \in 1..Len(waiters') : waiters'[i] = q
    OBVIOUS
  <2>1. CASE q = r
    BY <2>1, <1>1, <1>3
  <2>2. CASE q # r
    <3>1. PICK i \in 1..Len(waiters) : waiters[i] = q
      BY <2>2 DEF QueueMembers, TypeOK
    <3> QED
      BY <3>1, <1>1, <1>3
  <2> QED
    BY <2>1, <2>2
<1> QED
  BY <1>1, <1>2, <1>4, <1>5, <1>6 DEF QueueMembers

\* Leaving the queue: the popped task's future stops being pending.
LEMMA LeaveQueueFacts ==
    ASSUME TypeOK, QueueMembers, NEW i \in 1..Len(waiters), NEW f \in {"none", "granted"},
           LeaveQueueAt(i), future' = [future EXCEPT ![waiters[i]] = f]
    PROVE  /\ waiters' \in Seq(Requests)
           /\ queued' \in Nat /\ queuedDecode' \in Nat /\ queuedPrefill' \in Nat
           /\ QueueMembers'
<1> DEFINE n == Len(waiters)
<1>1. /\ waiters' \in Seq(Requests) /\ Len(waiters') = n - 1
      /\ \A j \in 1..(n - 1) : waiters'[j] = IF j < i THEN waiters[j] ELSE waiters[j + 1]
  BY RemoveAtFacts DEF TypeOK, LeaveQueueAt
<1>2. queued' \in Nat /\ queuedDecode' \in Nat /\ queuedPrefill' \in Nat
  BY DEF TypeOK, LeaveQueueAt, LargerOf
<1>3. n \in Nat /\ \A j \in 1..n : waiters[j] \in Requests
  BY DEF TypeOK
<1>4. \A j, k \in 1..Len(waiters') : waiters'[j] = waiters'[k] => j = k
  BY <1>1, <1>3 DEF QueueMembers
<1>5. ASSUME NEW j \in 1..Len(waiters')
      PROVE  future'[waiters'[j]] = "pending"
  <2>1. PICK k \in 1..n : k # i /\ waiters'[j] = waiters[k]
    BY <1>1, <1>3
  <2>2. waiters[k] # waiters[i] /\ future[waiters[k]] = "pending"
    BY <2>1 DEF QueueMembers
  <2> QED
    BY <2>1, <2>2, <1>3 DEF TypeOK
<1>6. ASSUME NEW q \in Requests, future'[q] = "pending"
      PROVE  \E j \in 1..Len(waiters') : waiters'[j] = q
  <2>1. q # waiters[i] /\ future[q] = "pending"
    BY <1>6, <1>3 DEF TypeOK
  <2>2. PICK k \in 1..n : waiters[k] = q
    BY <2>1 DEF QueueMembers
  <2>3. CASE k < i
    BY <2>2, <2>3, <1>1, <1>3
  <2>4. CASE k > i
    <3>1. k - 1 \in 1..(n - 1) /\ ~(k - 1 < i) /\ (k - 1) + 1 = k
      BY <2>4, <1>3
    <3> QED
      BY <3>1, <2>2, <1>1
  <2> QED
    BY <2>1, <2>2, <2>3, <2>4, <1>3
<1> QED
  BY <1>1, <1>2, <1>4, <1>5, <1>6 DEF QueueMembers

\* A step that leaves queue and futures alone, or moves a future that is not pending.
LEMMA QueueUntouched ==
    ASSUME TypeOK, QueueMembers, waiters' = waiters, NEW r \in Requests,
           \/ future' = future
           \/ future[r] # "pending" /\ future' = [future EXCEPT ![r] = "none"]
    PROVE  QueueMembers'
<1>1. \A q \in Requests : future'[q] = "pending" <=> future[q] = "pending"
  BY DEF TypeOK
<1>2. \A i \in 1..Len(waiters) : waiters[i] \in Requests
  BY DEF TypeOK
<1> QED
  BY <1>1, <1>2 DEF QueueMembers

\* Dropping a request, queued or granted, keeps the invariant.
LEMMA FinishBase ==
    ASSUME BaseInv, NEW r \in Requests, Finish(r)
    PROVE  BaseInv'
<1>1. lane[r] \in Lanes
  BY DEF BaseInv, TypeOK
<1>2. TypeOK' /\ QueueMembers'
  <2>1. CASE future[r] = "pending"
    <3>1. PICK i \in 1..Len(waiters) : waiters[i] = r /\ LeaveQueueAt(i)
      BY <2>1 DEF Finish
    <3>2. UNCHANGED <<counters, dispatching>> /\ future' = [future EXCEPT ![waiters[i]] = "none"]
      BY <2>1, <3>1 DEF Finish, Leave
    <3>3. /\ waiters' \in Seq(Requests)
          /\ queued' \in Nat /\ queuedDecode' \in Nat /\ queuedPrefill' \in Nat
          /\ QueueMembers'
      BY <3>1, <3>2, LeaveQueueFacts DEF BaseInv
    <3> QED
      BY <3>2, <3>3 DEF BaseInv, TypeOK, Finish, Leave, Goto, counters, Lanes
  <2>2. CASE future[r] = "granted"
    <3>1. FreeSlot(lane[r]) /\ dispatching' = TRUE /\ UNCHANGED <<waiters, depths>>
      BY <2>2 DEF Finish, GiveBack
    <3>2. QueueMembers'
      BY <2>2, <3>1, QueueUntouched DEF BaseInv, Finish, Leave
    <3> QED
      BY <3>1, <3>2, <1>1, CounterTypes DEF BaseInv, TypeOK, Finish, Leave, Goto, depths, Lanes
  <2> QED
    BY <2>1, <2>2 DEF Finish
<1>3. TaskShape'
  BY DEF BaseInv, TypeOK, TaskShape, Finish, Leave, Goto, Lanes
<1> QED
  BY <1>2, <1>3 DEF BaseInv

LEMMA TakeGrantBase ==
    ASSUME BaseInv, NEW r \in Requests, future[r] = "granted", TakeGrant(r)
    PROVE  BaseInv'
<1>1. CASE cancelled[r]
  BY <1>1, FinishBase DEF TakeGrant
<1>2. CASE ~cancelled[r]
  <2>1. /\ Goto(r, "holding") /\ future' = [future EXCEPT ![r] = "none"]
        /\ sawGrant' = [sawGrant EXCEPT ![r] = FALSE]
        /\ UNCHANGED <<waiters, depths, counters, dispatching, lane, isolated, tracked, cancelled>>
    BY <1>2 DEF TakeGrant
  <2>2. TypeOK'
    BY <2>1 DEF BaseInv, TypeOK, Goto, depths, counters, Lanes
  <2>3. TaskShape'
    BY <2>1 DEF BaseInv, TypeOK, TaskShape, Goto
  <2>4. QueueMembers'
    BY <2>1, QueueUntouched DEF BaseInv
  <2> QED
    BY <2>2, <2>3, <2>4 DEF BaseInv
<1> QED
  BY <1>1, <1>2

LEMMA SettleBase ==
    ASSUME BaseInv, NEW r \in Requests, NEW g, SettleWait(r, g)
    PROVE  BaseInv'
BY FinishBase, TakeGrantBase DEF SettleWait

\* Isolation only ever applies to a prefill under a concurrency limit.
LEMMA IsolationShape ==
    ASSUME NEW l, NEW w
    PROVE  /\ PrefillIsolationActive(l, w) => l = "prefill" /\ MaxConcurrent > 0
           /\ PrefillIsolationActive(l, w) \in BOOLEAN
BY SchedulerAssumption DEF PrefillIsolationActive

\* What acquire() records about a new request is well typed and well shaped.
LEMMA SubmitFacts ==
    ASSUME BaseInv, NEW r \in Requests, NEW l \in Lanes, NEW w \in BOOLEAN, NEW t \in BOOLEAN,
           Submit(r, l, w, t)
    PROVE  /\ lane' \in [Requests -> Lanes] /\ isolated' \in [Requests -> BOOLEAN]
           /\ tracked' \in [Requests -> BOOLEAN]
           /\ \A q \in Requests : isolated'[q] => lane'[q] = "prefill" /\ MaxConcurrent > 0
           /\ future[r] = "none" /\ ~cancelled[r]
<1> DEFINE iso == PrefillIsolationActive(l, w)
<1>1. iso \in BOOLEAN /\ (iso => l = "prefill" /\ MaxConcurrent > 0)
  BY IsolationShape
<1>2. isolated' = [isolated EXCEPT ![r] = iso] /\ lane' = [lane EXCEPT ![r] = l]
      /\ tracked' = [tracked EXCEPT ![r] = t] /\ pc[r] = "idle"
  BY DEF Submit
<1> HIDE DEF iso
<1>3. lane' \in [Requests -> Lanes] /\ tracked' \in [Requests -> BOOLEAN]
  BY <1>2 DEF BaseInv, TypeOK
<1>4. isolated' \in [Requests -> BOOLEAN]
  BY <1>1, <1>2 DEF BaseInv, TypeOK
<1>5. ASSUME NEW q \in Requests, isolated'[q]
      PROVE  lane'[q] = "prefill" /\ MaxConcurrent > 0
  BY <1>1, <1>2, <1>5 DEF BaseInv, TypeOK, TaskShape
<1>6. future[r] = "none" /\ ~cancelled[r]
  BY <1>2 DEF BaseInv, TaskShape
<1> QED
  BY <1>3, <1>4, <1>5, <1>6

\* Every step keeps the types, the shape of the tasks and the queue's members.
LEMMA BaseStep == BaseInv /\ [Next]_vars => BaseInv'
<1> SUFFICES ASSUME BaseInv, [Next]_vars PROVE BaseInv'
  OBVIOUS
<1> USE DEF BaseInv
<1>1. ASSUME NEW r \in Requests, NEW l \in Lanes, NEW w \in BOOLEAN, NEW t \in BOOLEAN,
             AcquireGranted(r, l, w, t)
      PROVE  BaseInv'
  <2>1. Submit(r, l, w, t) /\ GrantSlot(l) /\ Goto(r, "holding")
        /\ UNCHANGED <<waiters, depths, future>> /\ UNCHANGED <<dispatching, cancelled, sawGrant>>
    BY <1>1 DEF AcquireGranted, Submit
  <2>2. TypeOK'
    BY <2>1, SubmitFacts, CounterTypes DEF TypeOK, Goto, depths
  <2>3. TaskShape'
    BY <2>1, SubmitFacts DEF TypeOK, TaskShape, Goto
  <2>4. QueueMembers'
    BY <2>1, QueueUntouched
  <2> QED
    BY <2>2, <2>3, <2>4
<1>2. ASSUME NEW r \in Requests, NEW l \in Lanes, NEW w \in BOOLEAN, NEW t \in BOOLEAN,
             AcquireQueued(r, l, w, t)
      PROVE  BaseInv'
  <2>1. Submit(r, l, w, t) /\ EnterQueue(r, l) /\ Goto(r, "waiting")
        /\ future' = [future EXCEPT ![r] = "pending"]
        /\ UNCHANGED counters /\ UNCHANGED <<dispatching, cancelled, sawGrant>>
    BY <1>2 DEF AcquireQueued, Submit
  <2>2. /\ waiters' \in Seq(Requests)
        /\ queued' \in Nat /\ queuedDecode' \in Nat /\ queuedPrefill' \in Nat
        /\ QueueMembers'
    BY <2>1, SubmitFacts, EnterQueueFacts
  <2>3. TypeOK'
    BY <2>1, <2>2, SubmitFacts DEF TypeOK, Goto, counters
  <2>4. TaskShape'
    BY <2>1, SubmitFacts DEF TypeOK, TaskShape, Goto
  <2> QED
    BY <2>2, <2>3, <2>4
<1>3. ASSUME NEW r \in Requests, WakeOnCancellation(r) \/ TaskCancelledWaiting(r)
      PROVE  BaseInv'
  BY <1>3, FinishBase DEF WakeOnCancellation, TaskCancelledWaiting
<1>4. ASSUME NEW r \in Requests, WakeUntracked(r) \/ Reaped(r)
      PROVE  BaseInv'
  BY <1>4, SettleBase DEF WakeUntracked, Reaped
<1>5. ASSUME NEW r \in Requests, WakeTracked(r)
      PROVE  BaseInv'
  <2>1. TypeOK'
    BY <1>5 DEF TypeOK, WakeTracked, Goto, counters, depths
  <2>2. TaskShape'
    BY <1>5 DEF TypeOK, TaskShape, WakeTracked, Goto
  <2> QED
    BY <1>5, <2>1, <2>2, QueueUntouched DEF WakeTracked
<1>6. ASSUME NEW r \in Requests, TaskCancelledReaping(r)
      PROVE  BaseInv'
  <2>1. TypeOK'
    BY <1>6 DEF TypeOK, TaskCancelledReaping, Goto, counters, depths, locals
  <2>2. TaskShape'
    BY <1>6 DEF TypeOK, TaskShape, TaskCancelledReaping, Goto, locals
  <2> QED
    BY <1>6, <2>1, <2>2, QueueUntouched DEF TaskCancelledReaping
<1>7. ASSUME NEW r \in Requests, CancelToken(r)
      PROVE  BaseInv'
  <2>1. TypeOK'
    BY <1>7 DEF TypeOK, CancelToken, counters, depths
  <2>2. TaskShape'
    BY <1>7 DEF TypeOK, TaskShape, CancelToken
  <2> QED
    BY <1>7, <2>1, <2>2, QueueUntouched DEF CancelToken
<1>8. ASSUME NEW r \in Requests, Release(r)
      PROVE  BaseInv'
  <2>1. lane[r] \in Lanes /\ future[r] = "none"
    BY <1>8 DEF TypeOK, TaskShape, Release
  <2>2. TypeOK'
    BY <1>8, <2>1, CounterTypes DEF TypeOK, Release, GiveBack, Leave, Goto, depths, Lanes
  <2>3. TaskShape'
    BY <1>8 DEF TypeOK, TaskShape, Release, Leave, Goto
  <2> QED
    BY <1>8, <2>1, <2>2, <2>3, QueueUntouched DEF Release, GiveBack, Leave
<1>9. ASSUME DispatchGrant
      PROVE  BaseInv'
  <2>1. PICK i \in 1..Len(waiters) :
           /\ LeaveQueueAt(i) /\ GrantSlot(lane[waiters[i]])
           /\ future' = [future EXCEPT ![waiters[i]] = "granted"]
    BY <1>9 DEF DispatchGrant
  <2>2. waiters[i] \in Requests /\ lane[waiters[i]] \in Lanes /\ future[waiters[i]] = "pending"
    BY DEF TypeOK, QueueMembers
  <2>3. /\ waiters' \in Seq(Requests)
        /\ queued' \in Nat /\ queuedDecode' \in Nat /\ queuedPrefill' \in Nat
        /\ QueueMembers'
    BY <2>1, LeaveQueueFacts
  <2>4. TypeOK'
    BY <1>9, <2>1, <2>2, <2>3, CounterTypes DEF TypeOK, DispatchGrant, locals
  <2>5. TaskShape'
    BY <1>9, <2>1, <2>2 DEF TypeOK, TaskShape, DispatchGrant, locals
  <2> QED
    BY <2>3, <2>4, <2>5
<1>10. ASSUME DispatchDone \/ UNCHANGED vars
       PROVE  BaseInv'
  <2>1. UNCHANGED <<waiters, depths, counters, pc, future, locals>> /\ dispatching' \in BOOLEAN
    BY <1>10 DEF DispatchDone, vars, TypeOK
  <2> QED
    BY <2>1 DEF TypeOK, TaskShape, QueueMembers, counters, depths, locals
<1> QED
  BY <1>1, <1>2, <1>3, <1>4, <1>5, <1>6, <1>7, <1>8, <1>9, <1>10
  DEF Next, TaskStep, Environment, Acquire, AcquireRejected

\* The initial state satisfies the invariant.
LEMMA BaseInit == Init => BaseInv
<1> SUFFICES ASSUME Init PROVE BaseInv
  OBVIOUS
<1>1. waiters \in Seq(Requests) /\ Len(waiters) = 0 /\ 1..Len(waiters) = {}
  BY DEF Init
<1>2. TypeOK
  BY <1>1 DEF Init, TypeOK, Lanes
<1>3. TaskShape
  BY DEF Init, TaskShape
<1>4. QueueMembers
  BY <1>1 DEF Init, QueueMembers
<1> QED
  BY <1>2, <1>3, <1>4 DEF BaseInv

(* Types hold in every reachable state of the scheduler.                   *)
THEOREM TypeCorrect == Spec => []TypeOK
<1>1. BaseInv => TypeOK
  BY DEF BaseInv
<1> QED
  BY BaseInit, BaseStep, <1>1, PTL DEF Spec

-----------------------------------------------------------------------------
(* The books.                                                              *)

\* Cardinalities of a finite set that gains or loses one element.
LEMMA CardFacts ==
    ASSUME NEW S, IsFiniteSet(S), NEW x
    PROVE  /\ x \notin S => Cardinality(S \cup {x}) = Cardinality(S) + 1
           /\ x \in S => Cardinality(S \ {x}) = Cardinality(S) - 1 /\ Cardinality(S) > 0
           /\ Cardinality(S) \in Nat
<1>1. Cardinality(S) \in Nat
  BY FS_CardinalityType
<1>2. x \notin S => Cardinality(S \cup {x}) = Cardinality(S) + 1
  BY FS_AddElement
<1>3. x \in S => Cardinality(S \ {x}) = Cardinality(S) - 1
  BY FS_RemoveElement
<1>4. x \in S => Cardinality(S \ {x}) \in Nat
  BY FS_RemoveElement, FS_CardinalityType
<1> QED
  BY <1>1, <1>2, <1>3, <1>4

\* Every set of tasks is finite.
LEMMA TasksFinite ==
    ASSUME NEW S \in SUBSET Requests
    PROVE  IsFiniteSet(S)
BY SchedulerAssumption, FS_Subset

LaneCount(S, ln, l) == Cardinality({q \in S : ln[q] = l})

\* T, with lanes lm, counts one task more than S with lanes ln: the task r.
OneMore(S, T, ln, lm, r) ==
    /\ Cardinality(T) = Cardinality(S) + 1
    /\ \A l \in Lanes : LaneCount(T, lm, l) = LaneCount(S, ln, l) + (IF lm[r] = l THEN 1 ELSE 0)

\* T counts one task less than S.
OneLess(S, T, ln, lm, r) ==
    /\ Cardinality(S) \in Nat /\ Cardinality(S) > 0 /\ Cardinality(T) = Cardinality(S) - 1
    /\ \A l \in Lanes :
          /\ LaneCount(S, ln, l) \in Nat
          /\ ln[r] = l => LaneCount(S, ln, l) > 0
          /\ LaneCount(T, lm, l) = LaneCount(S, ln, l) - (IF ln[r] = l THEN 1 ELSE 0)

\* Adding a task of lane l to a counted set: one more, in that lane.
LEMMA CountUp ==
    ASSUME NEW S \in SUBSET Requests, NEW T \in SUBSET Requests, NEW r \in Requests,
           NEW ln \in [Requests -> Lanes], NEW lm \in [Requests -> Lanes],
           r \notin S, T = S \cup {r}, \A q \in S : lm[q] = ln[q]
    PROVE  OneMore(S, T, ln, lm, r)
<1>1. Cardinality(T) = Cardinality(S) + 1
  BY TasksFinite, CardFacts
<1>2. ASSUME NEW l \in Lanes
      PROVE  Cardinality({q \in T : lm[q] = l}) =
                Cardinality({q \in S : ln[q] = l}) + (IF lm[r] = l THEN 1 ELSE 0)
  <2> DEFINE A == {q \in S : ln[q] = l}
  <2>1. IsFiniteSet(A) /\ r \notin A /\ Cardinality(A) \in Nat
    BY TasksFinite, CardFacts
  <2>2. CASE lm[r] = l
    <3>1. {q \in T : lm[q] = l} = A \cup {r}
      BY <2>2
    <3> HIDE DEF A
    <3>2. Cardinality(A \cup {r}) = Cardinality(A) + 1
      BY <2>1, CardFacts
    <3>3. Cardinality({q \in T : lm[q] = l}) = Cardinality(A) + 1
      BY <3>1, <3>2
    <3> QED
      BY <3>3, <2>2 DEF A
  <2>3. CASE lm[r] # l
    <3>1. {q \in T : lm[q] = l} = A
      BY <2>3
    <3> HIDE DEF A
    <3>2. Cardinality({q \in T : lm[q] = l}) = Cardinality(A) + 0
      BY <3>1, <2>1
    <3> QED
      BY <3>2, <2>3 DEF A
  <2> QED
    BY <2>2, <2>3
<1> QED
  BY <1>1, <1>2 DEF OneMore, LaneCount

\* Taking a task of lane l out of a counted set: one less, in that lane.
LEMMA CountDown ==
    ASSUME NEW S \in SUBSET Requests, NEW T \in SUBSET Requests, NEW r \in Requests,
           NEW ln \in [Requests -> Lanes], NEW lm \in [Requests -> Lanes],
           r \in S, T = S \ {r}, \A q \in T : lm[q] = ln[q]
    PROVE  OneLess(S, T, ln, lm, r)
<1>1. Cardinality(S) \in Nat /\ Cardinality(S) > 0 /\ Cardinality(T) = Cardinality(S) - 1
  <2>1. IsFiniteSet(S)
    BY TasksFinite
  <2>2. Cardinality(S) \in Nat /\ Cardinality(S) > 0
    BY <2>1, CardFacts
  <2>3. Cardinality(S \ {r}) = Cardinality(S) - 1
    BY <2>1, CardFacts
  <2> QED
    BY <2>2, <2>3
<1>2. ASSUME NEW l \in Lanes
      PROVE  /\ Cardinality({q \in S : ln[q] = l}) \in Nat
             /\ ln[r] = l => Cardinality({q \in S : ln[q] = l}) > 0
             /\ Cardinality({q \in T : lm[q] = l}) =
                   Cardinality({q \in S : ln[q] = l}) - (IF ln[r] = l THEN 1 ELSE 0)
  <2> DEFINE A == {q \in S : ln[q] = l}
  <2>1. IsFiniteSet(A) /\ Cardinality(A) \in Nat
    BY TasksFinite, CardFacts
  <2>2. CASE ln[r] = l
    <3>1. {q \in T : lm[q] = l} = A \ {r} /\ r \in A
      BY <2>2
    <3> HIDE DEF A
    <3>2. Cardinality(A \ {r}) = Cardinality(A) - 1 /\ Cardinality(A) > 0
      BY <3>1, <2>1, CardFacts
    <3> QED
      BY <3>1, <3>2, <2>1, <2>2 DEF A
  <2>3. CASE ln[r] # l
    <3>1. {q \in T : lm[q] = l} = A
      BY <2>3
    <3> QED
      BY <3>1, <2>1, <2>3
  <2> QED
    BY <2>2, <2>3
<1> QED
  BY <1>1, <1>2 DEF OneLess, LaneCount

\* A task that gains a slot, through _grant_slot_locked.
LEMMA GainSlot ==
    ASSUME BaseInv, SlotAccounting, BaseInv', NEW r \in Requests, NEW l \in Lanes,
           r \notin SlotOwners, SlotOwners' = SlotOwners \cup {r}, lane'[r] = l,
           \A q \in SlotOwners : lane'[q] = lane[q], GrantSlot(l)
    PROVE  SlotAccounting'
<1>1. /\ SlotOwners \in SUBSET Requests /\ SlotOwners' \in SUBSET Requests
      /\ lane \in [Requests -> Lanes] /\ lane' \in [Requests -> Lanes]
  BY DEF SlotOwners, BaseInv, TypeOK
<1>2. OneMore(SlotOwners, SlotOwners', lane, lane', r)
  BY <1>1, CountUp
<1> HIDE DEF SlotOwners
<1>3. active' = Cardinality(SlotOwners')
  BY <1>2 DEF OneMore, LaneCount, SlotAccounting, GrantSlot
<1>4. activeDecode' = Cardinality({q \in SlotOwners' : lane'[q] = "decode"})
  BY <1>2 DEF OneMore, LaneCount, SlotAccounting, GrantSlot, InLane, Lanes
<1>5. activePrefill' = Cardinality({q \in SlotOwners' : lane'[q] = "prefill"})
  BY <1>2 DEF OneMore, LaneCount, SlotAccounting, GrantSlot, InLane, Lanes
<1> QED
  BY <1>3, <1>4, <1>5 DEF SlotAccounting, InLane

\* A task that gives its slot back, through release().
LEMMA LoseSlot ==
    ASSUME BaseInv, SlotAccounting, BaseInv', NEW r \in Requests,
           r \in SlotOwners, SlotOwners' = SlotOwners \ {r},
           \A q \in SlotOwners' : lane'[q] = lane[q], FreeSlot(lane[r])
    PROVE  SlotAccounting'
<1>1. /\ SlotOwners \in SUBSET Requests /\ SlotOwners' \in SUBSET Requests
      /\ lane \in [Requests -> Lanes] /\ lane' \in [Requests -> Lanes]
  BY DEF SlotOwners, BaseInv, TypeOK
<1>2. OneLess(SlotOwners, SlotOwners', lane, lane', r)
  BY <1>1, CountDown
<1> HIDE DEF SlotOwners
<1>3. active' = Cardinality(SlotOwners')
  BY <1>2 DEF OneLess, LaneCount, SlotAccounting, FreeSlot, LargerOf
<1>4. activeDecode' = Cardinality({q \in SlotOwners' : lane'[q] = "decode"})
  BY <1>2 DEF OneLess, LaneCount, SlotAccounting, FreeSlot, LargerOf, InLane, Lanes
<1>5. activePrefill' = Cardinality({q \in SlotOwners' : lane'[q] = "prefill"})
  BY <1>2 DEF OneLess, LaneCount, SlotAccounting, FreeSlot, LargerOf, InLane, Lanes
<1> QED
  BY <1>3, <1>4, <1>5 DEF SlotAccounting, InLane

\* A step that moves no slot.
LEMMA KeepSlots ==
    ASSUME SlotAccounting, SlotOwners' = SlotOwners, UNCHANGED counters,
           \A q \in SlotOwners : lane'[q] = lane[q]
    PROVE  SlotAccounting'
<1>1. \A l : {q \in SlotOwners' : lane'[q] = l} = {q \in SlotOwners : lane[q] = l}
  OBVIOUS
<1> HIDE DEF SlotOwners
<1>2. active' = Cardinality(SlotOwners')
  BY DEF SlotAccounting, counters
<1>3. activeDecode' = Cardinality({q \in SlotOwners' : lane'[q] = "decode"})
  BY <1>1 DEF SlotAccounting, counters, InLane
<1>4. activePrefill' = Cardinality({q \in SlotOwners' : lane'[q] = "prefill"})
  BY <1>1 DEF SlotAccounting, counters, InLane
<1> QED
  BY <1>2, <1>3, <1>4 DEF SlotAccounting, InLane

\* The depth half of QueueAccounting; the other half is QueueMembers.
DepthAccounting ==
    /\ queued = Cardinality(Queued)
    /\ queuedDecode = Cardinality(InLane(Queued, "decode"))
    /\ queuedPrefill = Cardinality(InLane(Queued, "prefill"))

LEMMA QueueAccountingParts == BaseInv /\ DepthAccounting => QueueAccounting
<1> SUFFICES ASSUME BaseInv, DepthAccounting PROVE QueueAccounting
  OBVIOUS
<1>1. \A r \in Requests : r \in Queued <=> \E i \in 1..Len(waiters) : waiters[i] = r
  BY DEF BaseInv, QueueMembers, Queued
<1>2. \A i, j \in 1..Len(waiters) : waiters[i] = waiters[j] => i = j
  BY DEF BaseInv, QueueMembers
<1> QED
  BY <1>1, <1>2 DEF QueueAccounting, DepthAccounting

\* A task that joins the queue.
LEMMA JoinQueue ==
    ASSUME BaseInv, DepthAccounting, BaseInv', NEW r \in Requests, NEW l \in Lanes,
           r \notin Queued, Queued' = Queued \cup {r}, lane'[r] = l,
           \A q \in Queued : lane'[q] = lane[q], EnterQueue(r, l)
    PROVE  DepthAccounting'
<1>1. /\ Queued \in SUBSET Requests /\ Queued' \in SUBSET Requests
      /\ lane \in [Requests -> Lanes] /\ lane' \in [Requests -> Lanes]
  BY DEF Queued, BaseInv, TypeOK
<1>2. OneMore(Queued, Queued', lane, lane', r)
  BY <1>1, CountUp
<1> HIDE DEF Queued
<1>3. queued' = Cardinality(Queued')
  BY <1>2 DEF OneMore, LaneCount, DepthAccounting, EnterQueue
<1>4. queuedDecode' = Cardinality({q \in Queued' : lane'[q] = "decode"})
  BY <1>2 DEF OneMore, LaneCount, DepthAccounting, EnterQueue, InLane, Lanes
<1>5. queuedPrefill' = Cardinality({q \in Queued' : lane'[q] = "prefill"})
  BY <1>2 DEF OneMore, LaneCount, DepthAccounting, EnterQueue, InLane, Lanes
<1> QED
  BY <1>3, <1>4, <1>5 DEF DepthAccounting, InLane

\* A task that is taken out of the queue, withdrawn or dispatched.
LEMMA QuitQueue ==
    ASSUME BaseInv, DepthAccounting, BaseInv', NEW i \in 1..Len(waiters),
           NEW r \in Requests, r = waiters[i], r \in Queued, Queued' = Queued \ {r},
           \A q \in Queued' : lane'[q] = lane[q], LeaveQueueAt(i)
    PROVE  DepthAccounting'
<1>1. /\ Queued \in SUBSET Requests /\ Queued' \in SUBSET Requests
      /\ lane \in [Requests -> Lanes] /\ lane' \in [Requests -> Lanes]
  BY DEF Queued, BaseInv, TypeOK
<1>2. OneLess(Queued, Queued', lane, lane', r)
  BY <1>1, CountDown
<1> HIDE DEF Queued
<1>3. queued' = Cardinality(Queued')
  BY <1>2 DEF OneLess, LaneCount, DepthAccounting, LeaveQueueAt, LargerOf
<1>4. queuedDecode' = Cardinality({q \in Queued' : lane'[q] = "decode"})
  BY <1>2 DEF OneLess, LaneCount, DepthAccounting, LeaveQueueAt, LargerOf, InLane, Lanes
<1>5. queuedPrefill' = Cardinality({q \in Queued' : lane'[q] = "prefill"})
  BY <1>2 DEF OneLess, LaneCount, DepthAccounting, LeaveQueueAt, LargerOf, InLane, Lanes
<1> QED
  BY <1>3, <1>4, <1>5 DEF DepthAccounting, InLane

\* A step that leaves the queue alone.
LEMMA KeepQueue ==
    ASSUME DepthAccounting, Queued' = Queued, UNCHANGED depths,
           \A q \in Queued : lane'[q] = lane[q]
    PROVE  DepthAccounting'
<1>1. \A l : {q \in Queued' : lane'[q] = l} = {q \in Queued : lane[q] = l}
  OBVIOUS
<1> HIDE DEF Queued
<1>2. queued' = Cardinality(Queued')
  BY DEF DepthAccounting, depths
<1>3. queuedDecode' = Cardinality({q \in Queued' : lane'[q] = "decode"})
  BY <1>1 DEF DepthAccounting, depths, InLane
<1>4. queuedPrefill' = Cardinality({q \in Queued' : lane'[q] = "prefill"})
  BY <1>1 DEF DepthAccounting, depths, InLane
<1> QED
  BY <1>2, <1>3, <1>4 DEF DepthAccounting, InLane

Books == SlotAccounting /\ DepthAccounting

\* Dropping a request keeps the books, whichever side of the race it lost.
LEMMA FinishBooks ==
    ASSUME BaseInv, BaseInv', Books, NEW r \in Requests, Finish(r)
    PROVE  Books'
<1>0. /\ \A q \in Requests \ {r} : lane'[q] = lane[q] /\ pc'[q] = pc[q] /\ future'[q] = future[q]
      /\ pc'[r] = "idle" /\ future'[r] = "none"
  BY DEF BaseInv, TypeOK, Finish, Leave, Goto
<1>1. CASE future[r] = "pending"
  <2>1. PICK i \in 1..Len(waiters) : waiters[i] = r /\ LeaveQueueAt(i)
    BY <1>1 DEF Finish
  <2>2. UNCHANGED counters
    BY <1>1 DEF Finish
  <2>3. pc[r] # "holding"
    BY <1>1 DEF BaseInv, TaskShape
  <2>4. r \in Queued /\ Queued' = Queued \ {r}
    BY <1>0, <1>1 DEF Queued
  <2>5. SlotOwners' = SlotOwners /\ r \notin SlotOwners
    BY <1>0, <1>1, <2>3 DEF SlotOwners
  <2>6. DepthAccounting'
    BY <1>0, <2>1, <2>4, QuitQueue DEF Books, Queued
  <2>7. SlotAccounting'
    BY <1>0, <2>2, <2>5, KeepSlots DEF Books, SlotOwners
  <2> QED
    BY <2>6, <2>7 DEF Books
<1>2. CASE future[r] = "granted"
  <2>1. FreeSlot(lane[r]) /\ UNCHANGED depths
    BY <1>2 DEF Finish, GiveBack
  <2>2. Queued' = Queued /\ r \notin Queued
    BY <1>0, <1>2 DEF Queued
  <2>3. r \in SlotOwners /\ SlotOwners' = SlotOwners \ {r}
    BY <1>0, <1>2 DEF SlotOwners
  <2>4. DepthAccounting'
    BY <1>0, <2>1, <2>2, KeepQueue DEF Books, Queued
  <2>5. SlotAccounting'
    BY <1>0, <2>1, <2>3, LoseSlot DEF Books, SlotOwners
  <2> QED
    BY <2>4, <2>5 DEF Books
<1> QED
  BY <1>1, <1>2 DEF Finish

\* A granted task that starts to hold keeps the slot it was granted.
LEMMA TakeGrantBooks ==
    ASSUME BaseInv, BaseInv', Books, NEW r \in Requests, future[r] = "granted", TakeGrant(r)
    PROVE  Books'
<1>1. CASE cancelled[r]
  BY <1>1, FinishBooks DEF TakeGrant
<1>2. CASE ~cancelled[r]
  <2>1. /\ Goto(r, "holding") /\ future' = [future EXCEPT ![r] = "none"]
        /\ UNCHANGED <<depths, counters, lane>>
    BY <1>2 DEF TakeGrant
  <2>2. SlotOwners' = SlotOwners /\ Queued' = Queued
    BY <2>1 DEF BaseInv, TypeOK, Goto, SlotOwners, Queued
  <2> QED
    BY <2>1, <2>2, KeepSlots, KeepQueue DEF Books
<1> QED
  BY <1>1, <1>2

LEMMA SettleBooks ==
    ASSUME BaseInv, BaseInv', Books, NEW r \in Requests, NEW g, SettleWait(r, g)
    PROVE  Books'
BY FinishBooks, TakeGrantBooks DEF SettleWait

\* Every step keeps the books.
LEMMA BooksStep == BaseInv /\ BaseInv' /\ Books /\ [Next]_vars => Books'
<1> SUFFICES ASSUME BaseInv, BaseInv', Books, [Next]_vars PROVE Books'
  OBVIOUS
<1>1. ASSUME NEW r \in Requests, NEW l \in Lanes, NEW w \in BOOLEAN, NEW t \in BOOLEAN,
             AcquireGranted(r, l, w, t)
      PROVE  Books'
  <2>1. /\ lane' = [lane EXCEPT ![r] = l] /\ GrantSlot(l) /\ Goto(r, "holding") /\ pc[r] = "idle"
        /\ UNCHANGED <<depths, future>>
    BY <1>1 DEF AcquireGranted, Submit
  <2>2. future[r] = "none"
    BY <2>1 DEF BaseInv, TaskShape
  <2>3. r \notin SlotOwners /\ SlotOwners' = SlotOwners \cup {r} /\ Queued' = Queued /\ r \notin Queued
    BY <2>1, <2>2 DEF BaseInv, TypeOK, Goto, SlotOwners, Queued
  <2>4. lane'[r] = l /\ \A q \in Requests \ {r} : lane'[q] = lane[q]
    BY <2>1 DEF BaseInv, TypeOK
  <2>5. SlotAccounting'
    BY <2>1, <2>3, <2>4, GainSlot DEF Books, SlotOwners
  <2>6. DepthAccounting'
    BY <2>1, <2>3, <2>4, KeepQueue DEF Books, Queued
  <2> QED
    BY <2>5, <2>6 DEF Books
<1>2. ASSUME NEW r \in Requests, NEW l \in Lanes, NEW w \in BOOLEAN, NEW t \in BOOLEAN,
             AcquireQueued(r, l, w, t)
      PROVE  Books'
  <2>1. /\ lane' = [lane EXCEPT ![r] = l] /\ EnterQueue(r, l) /\ Goto(r, "waiting") /\ pc[r] = "idle"
        /\ future' = [future EXCEPT ![r] = "pending"] /\ UNCHANGED counters
    BY <1>2 DEF AcquireQueued, Submit
  <2>2. future[r] = "none"
    BY <2>1 DEF BaseInv, TaskShape
  <2>3. r \notin Queued /\ Queued' = Queued \cup {r} /\ SlotOwners' = SlotOwners /\ r \notin SlotOwners
    BY <2>1, <2>2 DEF BaseInv, TypeOK, Goto, SlotOwners, Queued
  <2>4. lane'[r] = l /\ \A q \in Requests \ {r} : lane'[q] = lane[q]
    BY <2>1 DEF BaseInv, TypeOK
  <2>5. DepthAccounting'
    BY <2>1, <2>3, <2>4, JoinQueue DEF Books, Queued
  <2>6. SlotAccounting'
    BY <2>1, <2>3, <2>4, KeepSlots DEF Books, SlotOwners
  <2> QED
    BY <2>5, <2>6 DEF Books
<1>3. ASSUME NEW r \in Requests, WakeOnCancellation(r) \/ TaskCancelledWaiting(r)
      PROVE  Books'
  BY <1>3, FinishBooks DEF WakeOnCancellation, TaskCancelledWaiting
<1>4. ASSUME NEW r \in Requests, WakeUntracked(r) \/ Reaped(r)
      PROVE  Books'
  BY <1>4, SettleBooks DEF WakeUntracked, Reaped
<1>5. ASSUME NEW r \in Requests, WakeTracked(r) \/ TaskCancelledReaping(r) \/ CancelToken(r)
      PROVE  Books'
  <2>1. UNCHANGED <<depths, counters, future, lane>>
    BY <1>5 DEF WakeTracked, TaskCancelledReaping, CancelToken, locals
  <2>2. \A q \in Requests : pc[q] = "holding" <=> pc'[q] = "holding"
    BY <1>5 DEF WakeTracked, TaskCancelledReaping, CancelToken, Goto, BaseInv, TypeOK
  <2>3. SlotOwners' = SlotOwners /\ Queued' = Queued
    BY <2>1, <2>2 DEF SlotOwners, Queued
  <2> QED
    BY <2>1, <2>3, KeepSlots, KeepQueue DEF Books
<1>6. ASSUME NEW r \in Requests, Release(r)
      PROVE  Books'
  <2>1. FreeSlot(lane[r]) /\ UNCHANGED depths /\ pc[r] = "holding" /\ Leave(r)
    BY <1>6 DEF Release, GiveBack
  <2>2. future[r] = "none"
    BY <2>1 DEF BaseInv, TaskShape
  <2>3. /\ \A q \in Requests \ {r} : lane'[q] = lane[q] /\ pc'[q] = pc[q] /\ future'[q] = future[q]
        /\ pc'[r] = "idle" /\ future'[r] = "none"
    BY <2>1 DEF BaseInv, TypeOK, Leave, Goto
  <2>4. r \in SlotOwners /\ SlotOwners' = SlotOwners \ {r} /\ Queued' = Queued /\ r \notin Queued
    BY <2>1, <2>2, <2>3 DEF SlotOwners, Queued
  <2>5. SlotAccounting'
    BY <2>1, <2>3, <2>4, LoseSlot DEF Books, SlotOwners
  <2>6. DepthAccounting'
    BY <2>1, <2>3, <2>4, KeepQueue DEF Books, Queued
  <2> QED
    BY <2>5, <2>6 DEF Books
<1>7. ASSUME DispatchGrant
      PROVE  Books'
  <2>1. PICK i \in 1..Len(waiters) :
           /\ LeaveQueueAt(i) /\ GrantSlot(lane[waiters[i]])
           /\ future' = [future EXCEPT ![waiters[i]] = "granted"]
    BY <1>7 DEF DispatchGrant
  <2> DEFINE r == waiters[i]
  <2>2. r \in Requests /\ lane[r] \in Lanes /\ future[r] = "pending"
    BY DEF BaseInv, TypeOK, QueueMembers
  <2>3. pc[r] # "holding" /\ UNCHANGED <<pc, lane>>
    BY <1>7, <2>2 DEF BaseInv, TaskShape, DispatchGrant, locals
  <2>4. /\ r \in Queued /\ Queued' = Queued \ {r}
        /\ r \notin SlotOwners /\ SlotOwners' = SlotOwners \cup {r}
    BY <2>1, <2>2, <2>3 DEF BaseInv, TypeOK, SlotOwners, Queued
  <2>5. SlotAccounting'
    BY <2>1, <2>2, <2>3, <2>4, GainSlot DEF Books
  <2>6. DepthAccounting'
    BY <2>1, <2>2, <2>3, <2>4, QuitQueue DEF Books
  <2> QED
    BY <2>5, <2>6 DEF Books
<1>8. ASSUME DispatchDone \/ UNCHANGED vars
      PROVE  Books'
  <2>1. UNCHANGED <<depths, counters, pc, future, lane>>
    BY <1>8 DEF DispatchDone, vars, locals
  <2>2. SlotOwners' = SlotOwners /\ Queued' = Queued
    BY <2>1 DEF SlotOwners, Queued
  <2> QED
    BY <2>1, <2>2, KeepSlots, KeepQueue DEF Books
<1> QED
  BY <1>1, <1>2, <1>3, <1>4, <1>5, <1>6, <1>7, <1>8
  DEF Next, TaskStep, Environment, Acquire, AcquireRejected

LEMMA BooksInit == Init => Books
<1> SUFFICES ASSUME Init PROVE Books
  OBVIOUS
<1>1. SlotOwners = {} /\ Queued = {}
  BY DEF Init, SlotOwners, Queued
<1>2. Cardinality({}) = 0
  BY FS_EmptySet
<1>3. \A l : InLane(SlotOwners, l) = {} /\ InLane(Queued, l) = {}
  BY <1>1 DEF InLane
<1> QED
  BY <1>1, <1>2, <1>3 DEF Init, Books, SlotAccounting, DepthAccounting

(* The admission counters are the cardinalities of the sets of slot owners *)
(* and of queued tasks, per lane, in every reachable state: no race of     *)
(* acquire() with release(), timeouts or cancellation miscounts.           *)
THEOREM BooksCorrect == Spec => []Accounting
<1>1. BaseInv /\ Books => Accounting
  BY QueueAccountingParts DEF Books, Accounting
<1> QED
  BY BaseInit, BaseStep, BooksInit, BooksStep, <1>1, PTL DEF Spec

-----------------------------------------------------------------------------
(* Service.                                                                *)

\* WorkConserving, said of the pending tasks instead of queue positions.
NoServableWaiter ==
    /\ ~dispatching => \A q \in Requests :
                          future[q] = "pending" => ~CanGrant(lane[q], isolated[q])
    /\ \A q \in Requests : future[q] = "pending" => MaxConcurrent > 0

\* Raising the counters never makes a request grantable.
LEMMA GrantMonotone ==
    ASSUME TypeOK, active' \in Nat, activePrefill' \in Nat,
           active' >= active, activePrefill' >= activePrefill, NEW l, NEW iso,
           CanGrant(l, iso)'
    PROVE  CanGrant(l, iso)
<1>1. MaxConcurrent \in Nat /\ UnreservedSlots \in Int
  BY SchedulerAssumption DEF UnreservedSlots, SmallerOf, LargerOf
<1>2. AvailablePrefillSlots \in Int /\ MaxActiveForPrefill \in Int
  BY <1>1, SchedulerAssumption DEF AvailablePrefillSlots, MaxActiveForPrefill, SmallerOf, LargerOf
<1> QED
  BY <1>1, <1>2 DEF CanGrant, TypeOK

\* A step that keeps the counters and makes no task pending.
LEMMA ServiceKept ==
    ASSUME BaseInv, NoServableWaiter, UNCHANGED counters, ~dispatching,
           \A q \in Requests : future'[q] = "pending" =>
              future[q] = "pending" /\ lane'[q] = lane[q] /\ isolated'[q] = isolated[q]
    PROVE  NoServableWaiter'
<1>1. \A l, iso : CanGrant(l, iso)' => CanGrant(l, iso)
  BY GrantMonotone DEF BaseInv, TypeOK, counters
<1> QED
  BY <1>1 DEF NoServableWaiter, CanGrant, counters

LEMMA FinishService ==
    ASSUME BaseInv, NoServableWaiter, ~dispatching, NEW r \in Requests, Finish(r)
    PROVE  NoServableWaiter'
<1>1. \A q \in Requests : future'[q] = "pending" =>
         future[q] = "pending" /\ lane'[q] = lane[q] /\ isolated'[q] = isolated[q]
  BY DEF Finish, Leave, BaseInv, TypeOK
<1>2. CASE future[r] = "pending"
  BY <1>1, <1>2, ServiceKept DEF Finish
<1>3. CASE future[r] = "granted"
  BY <1>1, <1>3 DEF Finish, GiveBack, NoServableWaiter
<1> QED
  BY <1>2, <1>3 DEF Finish

LEMMA SettleService ==
    ASSUME BaseInv, NoServableWaiter, ~dispatching, NEW r \in Requests, NEW g, SettleWait(r, g)
    PROVE  NoServableWaiter'
<1>1. CASE Finish(r)
  BY <1>1, FinishService
<1>2. CASE ~Finish(r)
  <2>1. TakeGrant(r) /\ ~cancelled[r] /\ future[r] = "granted"
    BY <1>2 DEF SettleWait, TakeGrant
  <2>2. /\ UNCHANGED <<counters, dispatching, lane, isolated>>
        /\ future' = [future EXCEPT ![r] = "none"]
    BY <2>1, <1>2 DEF TakeGrant
  <2>3. \A q \in Requests : future'[q] = "pending" =>
           future[q] = "pending" /\ lane'[q] = lane[q] /\ isolated'[q] = isolated[q]
    BY <2>2 DEF BaseInv, TypeOK
  <2> QED
    BY <2>2, <2>3, ServiceKept
<1> QED
  BY <1>1, <1>2

\* Every step keeps free slots away from servable waiters.
LEMMA ServiceStep == BaseInv /\ NoServableWaiter /\ [Next]_vars => NoServableWaiter'
<1> SUFFICES ASSUME BaseInv, NoServableWaiter, [Next]_vars PROVE NoServableWaiter'
  OBVIOUS
<1>1. ASSUME NEW r \in Requests, NEW l \in Lanes, NEW w \in BOOLEAN, NEW t \in BOOLEAN,
             AcquireGranted(r, l, w, t)
      PROVE  NoServableWaiter'
  <2>1. /\ ~dispatching /\ ~dispatching' /\ pc[r] = "idle" /\ GrantSlot(l) /\ future' = future
        /\ lane' = [lane EXCEPT ![r] = l]
        /\ isolated' = [isolated EXCEPT ![r] = PrefillIsolationActive(l, w)]
    BY <1>1 DEF AcquireGranted, Submit
  <2>2. future[r] = "none"
    BY <2>1 DEF BaseInv, TaskShape
  <2>3. \A k, iso : CanGrant(k, iso)' => CanGrant(k, iso)
    <3>1. /\ active' \in Nat /\ activePrefill' \in Nat
          /\ active' >= active /\ activePrefill' >= activePrefill
      BY <2>1 DEF BaseInv, TypeOK, GrantSlot
    <3> QED
      BY <3>1, GrantMonotone DEF BaseInv
  <2>4. \A q \in Requests : future'[q] = "pending" =>
           future[q] = "pending" /\ lane'[q] = lane[q] /\ isolated'[q] = isolated[q]
    BY <2>1, <2>2 DEF BaseInv, TypeOK
  <2> QED
    BY <2>1, <2>3, <2>4 DEF NoServableWaiter, CanGrant
<1>2. ASSUME NEW r \in Requests, NEW l \in Lanes, NEW w \in BOOLEAN, NEW t \in BOOLEAN,
             AcquireQueued(r, l, w, t)
      PROVE  NoServableWaiter'
  <2> DEFINE iso == PrefillIsolationActive(l, w)
  <2>1. /\ ~dispatching /\ ~dispatching' /\ pc[r] = "idle" /\ ~GrantNow(l, iso) /\ UNCHANGED counters
        /\ future' = [future EXCEPT ![r] = "pending"]
        /\ lane' = [lane EXCEPT ![r] = l]
        /\ isolated' = [isolated EXCEPT ![r] = iso]
    BY <1>2 DEF AcquireQueued, Submit
  <2>2. iso \in BOOLEAN
    BY IsolationShape
  <2> HIDE DEF iso
  <2>3. MaxConcurrent > 0
    BY <2>1, SchedulerAssumption DEF GrantNow
  <2>4. ~CanGrant(l, iso)
    <3>1. CASE HigherPriorityWaiterExists(l)
      <4>1. PICK i \in 1..Len(waiters) : lane[waiters[i]] = "decode"
        BY <3>1 DEF HigherPriorityWaiterExists
      <4>2. waiters[i] \in Requests /\ future[waiters[i]] = "pending"
        BY DEF BaseInv, TypeOK, QueueMembers
      <4>3. ~CanGrant("decode", isolated[waiters[i]])
        BY <2>1, <4>1, <4>2 DEF NoServableWaiter
      <4> QED
        BY <4>3 DEF CanGrant
    <3>2. CASE ~HigherPriorityWaiterExists(l)
      BY <2>1, <3>2 DEF GrantNow
    <3> QED
      BY <3>1, <3>2
  <2>5. \A k, i : CanGrant(k, i)' <=> CanGrant(k, i)
    BY <2>1 DEF CanGrant, counters
  <2>6. ASSUME NEW q \in Requests, future'[q] = "pending"
        PROVE  ~CanGrant(lane'[q], isolated'[q])
    <3>1. CASE q = r
      <4>1. lane'[q] = l /\ isolated'[q] = iso
        BY <2>1, <3>1 DEF BaseInv, TypeOK
      <4> QED
        BY <4>1, <2>4
    <3>2. CASE q # r
      <4>1. future[q] = "pending" /\ lane'[q] = lane[q] /\ isolated'[q] = isolated[q]
        BY <2>1, <2>6, <3>2 DEF BaseInv, TypeOK
      <4> QED
        BY <4>1, <2>1 DEF NoServableWaiter
    <3> QED
      BY <3>1, <3>2
  <2> QED
    BY <2>1, <2>3, <2>5, <2>6 DEF NoServableWaiter, CanGrant, counters
<1>3. ASSUME NEW r \in Requests, WakeOnCancellation(r) \/ TaskCancelledWaiting(r)
      PROVE  NoServableWaiter'
  BY <1>3, FinishService DEF WakeOnCancellation, TaskCancelledWaiting
<1>4. ASSUME NEW r \in Requests, WakeUntracked(r) \/ Reaped(r)
      PROVE  NoServableWaiter'
  BY <1>4, SettleService DEF WakeUntracked, Reaped
<1>5. ASSUME NEW r \in Requests, WakeTracked(r) \/ TaskCancelledReaping(r) \/ CancelToken(r)
      PROVE  NoServableWaiter'
  BY <1>5, ServiceKept DEF WakeTracked, TaskCancelledReaping, CancelToken, locals
<1>6. ASSUME NEW r \in Requests, Release(r)
      PROVE  NoServableWaiter'
  BY <1>6 DEF Release, GiveBack, Leave, NoServableWaiter, BaseInv, TypeOK
<1>7. ASSUME DispatchGrant
      PROVE  NoServableWaiter'
  <2>1. PICK i \in 1..Len(waiters) : future' = [future EXCEPT ![waiters[i]] = "granted"]
    BY <1>7 DEF DispatchGrant
  <2>2. dispatching' /\ MaxConcurrent > 0
    BY <1>7 DEF DispatchGrant
  <2> QED
    BY <2>2 DEF NoServableWaiter
<1>8. ASSUME DispatchDone
      PROVE  NoServableWaiter'
  <2>1. /\ MaxConcurrent = 0 \/ \A i \in 1..Len(waiters) : ~Eligible(i)
        /\ UNCHANGED <<counters, future, lane, isolated>>
    BY <1>8 DEF DispatchDone, locals
  <2>2. ASSUME NEW q \in Requests, future[q] = "pending"
        PROVE  ~CanGrant(lane[q], isolated[q])
    <3>1. PICK i \in 1..Len(waiters) : waiters[i] = q
      BY <2>2 DEF BaseInv, QueueMembers
    <3>2. MaxConcurrent # 0
      BY <2>2 DEF NoServableWaiter
    <3> QED
      BY <2>1, <3>1, <3>2 DEF Eligible
  <2> QED
    BY <2>1, <2>2 DEF NoServableWaiter, CanGrant, counters
<1>9. ASSUME UNCHANGED vars
      PROVE  NoServableWaiter'
  BY <1>9 DEF vars, counters, locals, NoServableWaiter, CanGrant
<1> QED
  BY <1>1, <1>2, <1>3, <1>4, <1>5, <1>6, <1>7, <1>8, <1>9
  DEF Next, TaskStep, Environment, Acquire, AcquireRejected

LEMMA ServiceInit == Init => NoServableWaiter
BY DEF Init, NoServableWaiter

(* A free slot never faces a waiter it could serve, although withdrawing a *)
(* waiter does not dispatch.                                               *)
THEOREM WorkConservingHolds == Spec => []WorkConserving
<1>1. BaseInv /\ NoServableWaiter => WorkConserving
  BY DEF BaseInv, TypeOK, QueueMembers, NoServableWaiter, WorkConserving, Eligible
<1> QED
  BY BaseInit, BaseStep, ServiceInit, ServiceStep, <1>1, PTL DEF Spec

\* The steps that hand out a slot: an immediate grant and a dispatched one.
LEMMA NewOwners ==
    ASSUME BaseInv, [Next]_vars, NEW r \in SlotOwners' \ SlotOwners
    PROVE  \/ DispatchGrant
           \/ \E l \in Lanes, w, t \in BOOLEAN : AcquireGranted(r, l, w, t)
<1> USE DEF BaseInv
<1>0. r \in Requests /\ pc[r] # "holding" /\ future[r] # "granted"
      /\ (pc'[r] = "holding" \/ future'[r] = "granted")
  BY DEF SlotOwners
<1>1. ASSUME NEW q \in Requests, NEW l \in Lanes, NEW w \in BOOLEAN, NEW t \in BOOLEAN,
             AcquireGranted(q, l, w, t)
      PROVE  q = r
  BY <1>0, <1>1 DEF AcquireGranted, Goto, TypeOK
<1>2. ASSUME NEW q \in Requests, NEW l \in Lanes, NEW w \in BOOLEAN, NEW t \in BOOLEAN,
             AcquireQueued(q, l, w, t)
      PROVE  FALSE
  BY <1>0, <1>2 DEF AcquireQueued, Goto, TypeOK
<1>3. ASSUME NEW q \in Requests, Finish(q) PROVE FALSE
  BY <1>0, <1>3 DEF Finish, Leave, Goto, TypeOK
<1>4. ASSUME NEW q \in Requests, future[q] = "granted", TakeGrant(q) PROVE FALSE
  <2>1. CASE cancelled[q]
    BY <2>1, <1>3, <1>4 DEF TakeGrant
  <2>2. CASE ~cancelled[q]
    BY <2>2, <1>0, <1>4 DEF TakeGrant, Goto, TypeOK
  <2> QED
    BY <2>1, <2>2
<1>5. ASSUME NEW q \in Requests, NEW g, SettleWait(q, g) PROVE FALSE
  BY <1>3, <1>4, <1>5 DEF SettleWait
<1>6. ASSUME NEW q \in Requests,
             WakeTracked(q) \/ TaskCancelledReaping(q) \/ CancelToken(q) \/ Release(q)
      PROVE  FALSE
  BY <1>0, <1>6 DEF WakeTracked, TaskCancelledReaping, CancelToken, Release, Leave, Goto, TypeOK
<1>7. ASSUME DispatchDone \/ UNCHANGED vars PROVE FALSE
  BY <1>0, <1>7 DEF DispatchDone, vars
<1> QED
  BY <1>1, <1>2, <1>3, <1>5, <1>6, <1>7
  DEF Next, TaskStep, Environment, Acquire, AcquireRejected, WakeOnCancellation,
      WakeUntracked, Reaped, TaskCancelledWaiting

\* No step lets a request pass an older one of its class.
LEMMA NoOvertakingStep ==
    ASSUME BaseInv, NoServableWaiter, [Next]_vars,
           NEW r \in SlotOwners' \ SlotOwners, NEW q \in Requests, WaitsBefore(q, r)
    PROVE  ~SameClass(q, r)'
<1>0. r \in Requests /\ Len(waiters) \in Nat /\ \A i \in 1..Len(waiters) : waiters[i] \in Requests
  BY DEF SlotOwners, BaseInv, TypeOK
<1>1. PICK j \in 1..Len(waiters) : waiters[j] = q /\ \A i \in 1..j : waiters[i] # r
  BY DEF WaitsBefore
<1>2. q # r /\ future[q] = "pending" /\ MaxConcurrent > 0
  BY <1>0, <1>1 DEF BaseInv, QueueMembers, NoServableWaiter
<1>3. ASSUME NEW l \in Lanes, NEW w \in BOOLEAN, NEW t \in BOOLEAN, AcquireGranted(r, l, w, t)
      PROVE  ~SameClass(q, r)'
  <2> DEFINE iso == PrefillIsolationActive(l, w)
  <2>1. ~dispatching /\ CanGrant(l, iso) /\ lane' = [lane EXCEPT ![r] = l]
        /\ isolated' = [isolated EXCEPT ![r] = iso]
    BY <1>2, <1>3 DEF AcquireGranted, Submit, GrantNow
  <2> HIDE DEF iso
  <2>2. ~CanGrant(lane[q], isolated[q])
    BY <1>2, <2>1 DEF NoServableWaiter
  <2>3. /\ lane'[q] = lane[q] /\ lane'[r] = l
        /\ isolated'[q] = isolated[q] /\ isolated'[r] = iso
    BY <1>0, <1>2, <2>1 DEF BaseInv, TypeOK
  <2> QED
    BY <2>1, <2>2, <2>3 DEF SameClass
<1>4. ASSUME DispatchGrant
      PROVE  ~SameClass(q, r)'
  <2>1. PICK i \in 1..Len(waiters) :
           /\ IsNextWaiter(i)
           /\ future' = [future EXCEPT ![waiters[i]] = "granted"]
    BY <1>4 DEF DispatchGrant
  <2>2. UNCHANGED <<pc, lane, isolated>>
    BY <1>4 DEF DispatchGrant, locals
  <2>3. waiters[i] = r
    BY <1>0, <2>1, <2>2 DEF SlotOwners, BaseInv, TypeOK
  <2>4. j < i
    BY <1>1, <2>3, <1>0
  <2>5. SUFFICES ASSUME lane[q] = lane[r], isolated[q] = isolated[r] PROVE FALSE
    BY <2>2 DEF SameClass
  <2>6. Eligible(i) /\ Eligible(j)
    BY <1>1, <2>1, <2>3, <2>5 DEF IsNextWaiter, FirstEligible, FirstEligibleDecode, Eligible
  <2>7. j \in 1..(i - 1)
    BY <1>0, <2>4
  <2> QED
    BY <2>1, <2>3, <2>5, <2>6, <2>7, <1>1
    DEF IsNextWaiter, FirstEligible, FirstEligibleDecode
<1> QED
  BY <1>3, <1>4, NewOwners

(* First come, first served within a class, for every mix of lanes.        *)
THEOREM NoOvertakingHolds == Spec => NoOvertaking
<1>1. BaseInv /\ NoServableWaiter /\ [Next]_vars =>
         [\A r \in SlotOwners' \ SlotOwners : \A q \in Requests :
             WaitsBefore(q, r) => ~SameClass(q, r)']_vars
  BY NoOvertakingStep
<1> QED
  BY BaseInit, BaseStep, ServiceInit, ServiceStep, <1>1, PTL DEF Spec, NoOvertaking

\* Only an uncancelled task starts to hold an admission.
LEMMA AdmissionStep ==
    ASSUME BaseInv, [Next]_vars, NEW r \in Requests, pc[r] # "holding", pc'[r] = "holding"
    PROVE  ~cancelled[r]
<1> USE DEF BaseInv
<1>1. ASSUME NEW q \in Requests, NEW l \in Lanes, NEW w \in BOOLEAN, NEW t \in BOOLEAN,
             AcquireGranted(q, l, w, t)
      PROVE  ~cancelled[r]
  BY <1>1 DEF AcquireGranted, Submit, Goto, TypeOK, TaskShape
<1>2. ASSUME NEW q \in Requests, NEW l \in Lanes, NEW w \in BOOLEAN, NEW t \in BOOLEAN,
             AcquireQueued(q, l, w, t)
      PROVE  FALSE
  BY <1>2 DEF AcquireQueued, Goto, TypeOK
<1>3. ASSUME NEW q \in Requests, Finish(q) PROVE FALSE
  BY <1>3 DEF Finish, Leave, Goto, TypeOK
<1>4. ASSUME NEW q \in Requests, NEW g, SettleWait(q, g) PROVE ~cancelled[r]
  BY <1>3, <1>4 DEF SettleWait, TakeGrant, Goto, TypeOK
<1>5. ASSUME NEW q \in Requests,
             WakeTracked(q) \/ TaskCancelledReaping(q) \/ CancelToken(q) \/ Release(q)
      PROVE  FALSE
  BY <1>5 DEF WakeTracked, TaskCancelledReaping, CancelToken, Release, Leave, Goto, TypeOK
<1>6. ASSUME DispatchGrant \/ DispatchDone \/ UNCHANGED vars PROVE FALSE
  BY <1>6 DEF DispatchGrant, DispatchDone, vars
<1> QED
  BY <1>1, <1>2, <1>3, <1>4, <1>5, <1>6
  DEF Next, TaskStep, Environment, Acquire, AcquireRejected, WakeOnCancellation,
      WakeUntracked, Reaped, TaskCancelledWaiting

(* A request whose token is cancelled never reaches a model.               *)
THEOREM CancelledNeverAdmittedHolds == Spec => CancelledNeverAdmitted
<1>1. BaseInv /\ [Next]_vars =>
         [\A r \in Requests : (pc[r] # "holding" /\ pc'[r] = "holding") => ~cancelled[r]]_vars
  BY AdmissionStep
<1> QED
  BY BaseInit, BaseStep, <1>1, PTL DEF Spec, CancelledNeverAdmitted

-----------------------------------------------------------------------------
(* Limits.                                                                 *)

IsolatedOwners == {r \in SlotOwners : isolated[r]}

LEMMA LimitTypes == /\ AvailablePrefillSlots \in Nat \ {0}
                    /\ MaxConcurrent \in Nat /\ QueueLimit \in Nat
<1>1. MaxConcurrent \in Nat /\ UnreservedSlots \in Int
  BY SchedulerAssumption DEF UnreservedSlots, SmallerOf, LargerOf
<1> QED
  BY <1>1, SchedulerAssumption DEF AvailablePrefillSlots, SmallerOf, LargerOf

\* The set of isolated owners grows by at most the task that is granted.
LEMMA IsolatedBound ==
    ASSUME BaseInv, SlotAccounting, WithinLimits, NEW r \in Requests, NEW l, NEW iso,
           (l = "prefill" /\ iso) => activePrefill < AvailablePrefillSlots,
           IsolatedOwners' \subseteq IsolatedOwners \cup (IF l = "prefill" /\ iso THEN {r} ELSE {})
    PROVE  Cardinality(IsolatedOwners') <= AvailablePrefillSlots
<1>1. IsolatedOwners \in SUBSET Requests /\ IsFiniteSet(IsolatedOwners)
  BY TasksFinite DEF IsolatedOwners, SlotOwners
<1>2. Cardinality(IsolatedOwners) <= AvailablePrefillSlots /\ Cardinality(IsolatedOwners) \in Nat
  BY <1>1, FS_CardinalityType DEF WithinLimits, IsolatedOwners
<1>3. CASE l = "prefill" /\ iso
  <2>1. IsolatedOwners \subseteq InLane(SlotOwners, "prefill")
    BY DEF IsolatedOwners, InLane, SlotOwners, BaseInv, TaskShape
  <2>2. IsFiniteSet(InLane(SlotOwners, "prefill"))
    BY TasksFinite DEF InLane, SlotOwners
  <2>3. Cardinality(IsolatedOwners) <= activePrefill
    BY <2>1, <2>2, FS_Subset DEF SlotAccounting
  <2>4. /\ IsFiniteSet(IsolatedOwners \cup {r})
        /\ Cardinality(IsolatedOwners \cup {r}) \in Nat
        /\ Cardinality(IsolatedOwners \cup {r}) <= Cardinality(IsolatedOwners) + 1
    <3>1. /\ IsFiniteSet(IsolatedOwners \cup {r})
          /\ Cardinality(IsolatedOwners \cup {r}) =
                IF r \in IsolatedOwners THEN Cardinality(IsolatedOwners)
                ELSE Cardinality(IsolatedOwners) + 1
      BY <1>1, FS_AddElement
    <3> HIDE DEF IsolatedOwners
    <3> QED
      BY <3>1, <1>2
  <2>5. IsolatedOwners' \subseteq IsolatedOwners \cup {r}
    BY <1>3
  <2>6. Cardinality(IsolatedOwners') \in Nat /\
        Cardinality(IsolatedOwners') <= Cardinality(IsolatedOwners \cup {r})
    BY <2>4, <2>5, FS_Subset, FS_CardinalityType
  <2>7. activePrefill < AvailablePrefillSlots /\ activePrefill \in Nat
    BY <1>3 DEF BaseInv, TypeOK
  <2> QED
    BY <1>2, <2>3, <2>4, <2>6, <2>7, LimitTypes
<1>4. CASE ~(l = "prefill" /\ iso)
  <2>1. IsolatedOwners' \subseteq IsolatedOwners
    BY <1>4
  <2>2. Cardinality(IsolatedOwners') \in Nat /\ Cardinality(IsolatedOwners') <= Cardinality(IsolatedOwners)
    BY <1>1, <2>1, FS_Subset, FS_CardinalityType
  <2> QED
    BY <1>2, <2>2, LimitTypes
<1> QED
  BY <1>3, <1>4

\* A step that hands out nothing keeps the limits.
LEMMA LimitsKept ==
    ASSUME BaseInv, SlotAccounting, WithinLimits, BaseInv',
           active' <= active, queued' <= queued, IsolatedOwners' \subseteq IsolatedOwners,
           NEW r \in Requests
    PROVE  WithinLimits'
<1>1. active \in Nat /\ active' \in Nat /\ queued \in Nat /\ queued' \in Nat
  BY DEF BaseInv, TypeOK
<1>2. Cardinality(IsolatedOwners') <= AvailablePrefillSlots
  BY IsolatedBound
<1> QED
  BY <1>1, <1>2, LimitTypes DEF WithinLimits, IsolatedOwners

LEMMA FinishLimits ==
    ASSUME BaseInv, SlotAccounting, WithinLimits, BaseInv', NEW r \in Requests, Finish(r)
    PROVE  WithinLimits'
<1>1. IsolatedOwners' \subseteq IsolatedOwners
  BY DEF IsolatedOwners, SlotOwners, Finish, Leave, Goto, BaseInv, TypeOK
<1>2. active' <= active /\ queued' <= queued
  <2>1. CASE future[r] = "pending"
    BY <2>1 DEF Finish, LeaveQueueAt, LargerOf, counters, BaseInv, TypeOK
  <2>2. CASE future[r] = "granted"
    BY <2>2 DEF Finish, GiveBack, FreeSlot, LargerOf, depths, BaseInv, TypeOK
  <2> QED
    BY <2>1, <2>2 DEF Finish
<1> QED
  BY <1>1, <1>2, LimitsKept

LEMMA SettleLimits ==
    ASSUME BaseInv, SlotAccounting, WithinLimits, BaseInv', NEW r \in Requests, NEW g, SettleWait(r, g)
    PROVE  WithinLimits'
<1>1. CASE Finish(r)
  BY <1>1, FinishLimits
<1>2. CASE ~Finish(r)
  <2>1. future[r] = "granted" /\ UNCHANGED <<depths, counters, isolated>>
        /\ Goto(r, "holding") /\ future' = [future EXCEPT ![r] = "none"]
    BY <1>2 DEF SettleWait, TakeGrant
  <2>2. IsolatedOwners' \subseteq IsolatedOwners
    BY <2>1 DEF IsolatedOwners, SlotOwners, Goto, BaseInv, TypeOK
  <2> QED
    BY <2>1, <2>2, LimitsKept DEF depths, counters, BaseInv, TypeOK
<1> QED
  BY <1>1, <1>2

\* Every step respects the limits.
LEMMA LimitsStep ==
    BaseInv /\ BaseInv' /\ SlotAccounting /\ WithinLimits /\ [Next]_vars => WithinLimits'
<1> SUFFICES ASSUME BaseInv, BaseInv', SlotAccounting, WithinLimits, [Next]_vars
             PROVE  WithinLimits'
  OBVIOUS
<1>0. active \in Nat /\ active' \in Nat /\ queued \in Nat /\ queued' \in Nat
  BY DEF BaseInv, TypeOK
<1>1. ASSUME NEW r \in Requests, NEW l \in Lanes, NEW w \in BOOLEAN, NEW t \in BOOLEAN,
             AcquireGranted(r, l, w, t)
      PROVE  WithinLimits'
  <2> DEFINE iso == PrefillIsolationActive(l, w)
  <2>1. /\ GrantNow(l, iso) /\ active' = active + 1 /\ UNCHANGED <<depths, future>>
        /\ Goto(r, "holding") /\ isolated' = [isolated EXCEPT ![r] = iso]
    BY <1>1 DEF AcquireGranted, Submit, GrantSlot
  <2>2. iso => l = "prefill" /\ MaxConcurrent > 0
    BY IsolationShape
  <2> HIDE DEF iso
  <2>3. MaxConcurrent > 0 => CanGrant(l, iso)
    BY <2>1, LimitTypes DEF GrantNow
  <2>4. (l = "prefill" /\ iso) => activePrefill < AvailablePrefillSlots
    BY <2>2, <2>3 DEF CanGrant
  <2>5. IsolatedOwners' \subseteq IsolatedOwners \cup (IF l = "prefill" /\ iso THEN {r} ELSE {})
    BY <2>1, <2>2 DEF IsolatedOwners, SlotOwners, Goto, BaseInv, TypeOK
  <2>6. Cardinality(IsolatedOwners') <= AvailablePrefillSlots
    BY <2>4, <2>5, IsolatedBound
  <2>7. MaxConcurrent > 0 => active' <= MaxConcurrent
    BY <1>0, <2>1, <2>3, LimitTypes DEF CanGrant
  <2>8. queued' <= QueueLimit
    BY <2>1 DEF depths, WithinLimits
  <2> QED
    BY <2>6, <2>7, <2>8 DEF WithinLimits, IsolatedOwners
<1>2. ASSUME NEW r \in Requests, NEW l \in Lanes, NEW w \in BOOLEAN, NEW t \in BOOLEAN,
             AcquireQueued(r, l, w, t)
      PROVE  WithinLimits'
  <2>1. /\ queued < QueueLimit /\ queued' = queued + 1 /\ UNCHANGED counters
        /\ pc[r] = "idle" /\ Goto(r, "waiting") /\ future' = [future EXCEPT ![r] = "pending"]
        /\ isolated' = [isolated EXCEPT ![r] = PrefillIsolationActive(l, w)]
    BY <1>2 DEF AcquireQueued, Submit, EnterQueue
  <2>2. IsolatedOwners' \subseteq IsolatedOwners
    BY <2>1 DEF IsolatedOwners, SlotOwners, Goto, BaseInv, TypeOK
  <2>3. Cardinality(IsolatedOwners') <= AvailablePrefillSlots
    BY <2>2, IsolatedBound
  <2>4. queued' <= QueueLimit /\ active' = active
    BY <1>0, <2>1, LimitTypes DEF counters
  <2> QED
    BY <2>3, <2>4 DEF WithinLimits, IsolatedOwners
<1>3. ASSUME NEW r \in Requests, WakeOnCancellation(r) \/ TaskCancelledWaiting(r)
      PROVE  WithinLimits'
  BY <1>3, FinishLimits DEF WakeOnCancellation, TaskCancelledWaiting
<1>4. ASSUME NEW r \in Requests, WakeUntracked(r) \/ Reaped(r)
      PROVE  WithinLimits'
  BY <1>4, SettleLimits DEF WakeUntracked, Reaped
<1>5. ASSUME NEW r \in Requests, WakeTracked(r) \/ TaskCancelledReaping(r) \/ CancelToken(r)
      PROVE  WithinLimits'
  <2>1. UNCHANGED <<depths, counters, future, isolated>>
    BY <1>5 DEF WakeTracked, TaskCancelledReaping, CancelToken, locals
  <2>2. \A q \in Requests : pc[q] = "holding" <=> pc'[q] = "holding"
    BY <1>5 DEF WakeTracked, TaskCancelledReaping, CancelToken, Goto, BaseInv, TypeOK
  <2>3. IsolatedOwners' \subseteq IsolatedOwners
    BY <2>1, <2>2 DEF IsolatedOwners, SlotOwners
  <2> QED
    BY <1>0, <2>1, <2>3, LimitsKept DEF depths, counters
<1>6. ASSUME NEW r \in Requests, Release(r)
      PROVE  WithinLimits'
  <2>1. IsolatedOwners' \subseteq IsolatedOwners
    BY <1>6 DEF Release, Leave, Goto, IsolatedOwners, SlotOwners, BaseInv, TypeOK
  <2>2. active' <= active /\ queued' <= queued
    BY <1>0, <1>6 DEF Release, GiveBack, FreeSlot, LargerOf, depths
  <2> QED
    BY <2>1, <2>2, LimitsKept
<1>7. ASSUME DispatchGrant
      PROVE  WithinLimits'
  <2>1. PICK i \in 1..Len(waiters) :
           /\ IsNextWaiter(i) /\ LeaveQueueAt(i) /\ GrantSlot(lane[waiters[i]])
           /\ future' = [future EXCEPT ![waiters[i]] = "granted"]
    BY <1>7 DEF DispatchGrant
  <2> DEFINE r == waiters[i]
  <2>2. r \in Requests /\ UNCHANGED <<pc, isolated>>
    BY <1>7 DEF BaseInv, TypeOK, DispatchGrant, locals
  <2>3. CanGrant(lane[r], isolated[r])
    BY <2>1 DEF IsNextWaiter, FirstEligible, FirstEligibleDecode, Eligible
  <2>4. isolated[r] => lane[r] = "prefill"
    BY <2>2 DEF BaseInv, TaskShape
  <2>5. IsolatedOwners' \subseteq
           IsolatedOwners \cup (IF lane[r] = "prefill" /\ isolated[r] THEN {r} ELSE {})
    BY <2>1, <2>2, <2>4 DEF IsolatedOwners, SlotOwners, BaseInv, TypeOK
  <2>6. (lane[r] = "prefill" /\ isolated[r]) => activePrefill < AvailablePrefillSlots
    BY <2>3 DEF CanGrant
  <2>7. Cardinality(IsolatedOwners') <= AvailablePrefillSlots
    BY <2>2, <2>5, <2>6, IsolatedBound
  <2>8. active' <= MaxConcurrent
    BY <1>0, <2>1, <2>3, LimitTypes DEF CanGrant, GrantSlot
  <2>9. queued' <= QueueLimit
    BY <1>0, <2>1, LimitTypes DEF LeaveQueueAt, LargerOf, WithinLimits
  <2> QED
    BY <2>7, <2>8, <2>9 DEF WithinLimits, IsolatedOwners
<1>8. ASSUME DispatchDone \/ UNCHANGED vars
      PROVE  WithinLimits'
  BY <1>8 DEF DispatchDone, vars, counters, depths, locals, WithinLimits, SlotOwners
<1> QED
  BY <1>1, <1>2, <1>3, <1>4, <1>5, <1>6, <1>7, <1>8
  DEF Next, TaskStep, Environment, Acquire, AcquireRejected

LEMMA LimitsInit == Init => WithinLimits
<1> SUFFICES ASSUME Init PROVE WithinLimits
  OBVIOUS
<1>1. {r \in SlotOwners : isolated[r]} = {}
  BY DEF Init, SlotOwners
<1>2. Cardinality({}) = 0
  BY FS_EmptySet
<1>3. Cardinality({r \in SlotOwners : isolated[r]}) <= AvailablePrefillSlots
  BY <1>1, <1>2, LimitTypes
<1>4. active = 0 /\ queued = 0
  BY DEF Init
<1> QED
  BY <1>3, <1>4, LimitTypes DEF WithinLimits

(* Slots, queue and isolated prefills stay within their configured limits. *)
THEOREM LimitsHold == Spec => []WithinLimits
<1>1. Books => SlotAccounting
  BY DEF Books
<1> QED
  BY BaseInit, BaseStep, BooksInit, BooksStep, LimitsInit, LimitsStep, <1>1, PTL DEF Spec

=============================================================================
