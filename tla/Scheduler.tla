----------------------------- MODULE Scheduler -----------------------------
(***************************************************************************)
(* The admission controller every runtime-backed request passes:           *)
(* RuntimeRequestScheduler (runtime/scheduler.py).                         *)
(*                                                                         *)
(* A member of Requests is a client task that calls acquire(), works while *)
(* it holds the admission, calls release() and may come back.  Tasks run   *)
(* on one event loop, so the code between two awaits is one action.  The   *)
(* only awaits of acquire() are asyncio.wait on the queued waiter (pc      *)
(* "waiting") and the asyncio.gather of its finally block (pc "reaping").  *)
(* release() runs the dispatch loop under the lock; each iteration of that *)
(* loop is one step and nothing else moves while the lock is held          *)
(* (dispatching).  Statistics that no branch reads are left out.           *)
(***************************************************************************)
EXTENDS Integers, Sequences, FiniteSets, SequencesExt

CONSTANTS
    Requests,                  \* client tasks
    MaxConcurrent,             \* max_concurrent_requests, 0 is "no limit"
    QueueLimit,                \* queue_limit
    DecodePriorityEnabled,     \* decode_priority_enabled
    PrefillIsolationEnabled,   \* prefill_isolation_enabled
    PrefillIsolationMax,       \* prefill_isolation_max_concurrent_requests
    DecodeReserve,             \* prefill_isolation_decode_reserve
    MaxAbandoned               \* bound: tasks that may die in the finally block

ASSUME SchedulerAssumption ==
    /\ IsFiniteSet(Requests)
    /\ MaxConcurrent \in Nat
    /\ QueueLimit \in Nat
    /\ DecodePriorityEnabled \in BOOLEAN
    /\ PrefillIsolationEnabled \in BOOLEAN
    /\ PrefillIsolationMax \in Nat \ {0}
    /\ DecodeReserve \in Nat
    /\ MaxAbandoned \in Nat

VARIABLES
    waiters,        \* _waiters: queued requests, oldest first
    active,         \* _active_requests
    activeDecode,   \* _active_decode_requests
    activePrefill,  \* _active_prefill_requests
    queued,         \* _queued_requests
    queuedDecode,   \* _queued_decode_requests
    queuedPrefill,  \* _queued_prefill_requests
    dispatching,    \* release() is inside _dispatch_waiters_locked
    pc,             \* where each task is in acquire()
    future,         \* waiter.future of each queued task
    lane,           \* scheduling_lane of the task's current request
    isolated,       \* prefill_isolated of the task's current request
    tracked,        \* the request has a cancellation token
    cancelled,      \* the token is cancelled
    sawGrant        \* waiter.future in done, remembered across the gather

counters == <<active, activeDecode, activePrefill>>
depths   == <<queued, queuedDecode, queuedPrefill>>
locals   == <<lane, isolated, tracked, cancelled, sawGrant>>
vars == <<waiters, counters, depths, dispatching, pc, future, locals>>

Lanes == {"decode", "prefill"}

-----------------------------------------------------------------------------
(* Grant rules.                                                            *)

SmallerOf(a, b) == IF a <= b THEN a ELSE b
LargerOf(a, b)  == IF a >= b THEN a ELSE b

\* Slots a prefill may use once the decode reserve is taken off.
UnreservedSlots ==
    MaxConcurrent - SmallerOf(DecodeReserve, LargerOf(MaxConcurrent - 1, 0))

PrefillIsolationActive(l, wanted) ==
    /\ l = "prefill" /\ wanted /\ PrefillIsolationEnabled
    /\ MaxConcurrent > 1
    /\ UnreservedSlots > 0

AvailablePrefillSlots == LargerOf(1, SmallerOf(PrefillIsolationMax, UnreservedSlots))
MaxActiveForPrefill   == LargerOf(1, UnreservedSlots)

\* Mutant: the concurrency limit is off by one.
CanGrantOneTooMany(l, iso) ==
    /\ active <= MaxConcurrent
    /\ (l = "prefill" /\ iso) => /\ activePrefill < AvailablePrefillSlots
                                 /\ active < MaxActiveForPrefill

\* Mutant: an isolated prefill leaves one slot more than the reserve.
CanGrantOneTooFew(l, iso) ==
    /\ active < MaxConcurrent
    /\ (l = "prefill" /\ iso) => /\ activePrefill < AvailablePrefillSlots
                                 /\ active + 1 < MaxActiveForPrefill

CanGrant(l, iso) ==
    /\ active < MaxConcurrent
    /\ (l = "prefill" /\ iso) => /\ activePrefill < AvailablePrefillSlots
                                 /\ active < MaxActiveForPrefill

HigherPriorityWaiterExists(l) ==
    /\ DecodePriorityEnabled
    /\ l = "prefill"
    /\ \E i \in 1..Len(waiters) : lane[waiters[i]] = "decode"

\* _next_waiter_index_locked: the positions the dispatch loop may pop.
Eligible(i) == i \in 1..Len(waiters) /\ CanGrant(lane[waiters[i]], isolated[waiters[i]])
FirstEligible(i) == Eligible(i) /\ \A j \in 1..(i - 1) : ~Eligible(j)
FirstEligibleDecode(i) ==
    /\ Eligible(i) /\ lane[waiters[i]] = "decode"
    /\ \A j \in 1..(i - 1) : ~(Eligible(j) /\ lane[waiters[j]] = "decode")

\* Mutant: the newest eligible waiter is popped.
IsNewestWaiter(i) == Eligible(i) /\ \A j \in (i + 1)..Len(waiters) : ~Eligible(j)

IsNextWaiter(i) ==
    IF DecodePriorityEnabled /\ \E j \in 1..Len(waiters) : FirstEligibleDecode(j)
    THEN FirstEligibleDecode(i)
    ELSE FirstEligible(i)

\* The counter updates of _grant_slot_locked and of release().
GrantSlot(l) ==
    /\ active' = active + 1
    /\ activePrefill' = activePrefill + (IF l = "prefill" THEN 1 ELSE 0)
    /\ activeDecode' = activeDecode + (IF l = "decode" THEN 1 ELSE 0)

FreeSlot(l) ==
    /\ active' = LargerOf(0, active - 1)
    /\ activePrefill' = LargerOf(0, activePrefill - (IF l = "prefill" THEN 1 ELSE 0))
    /\ activeDecode' = LargerOf(0, activeDecode - (IF l = "decode" THEN 1 ELSE 0))

\* The queue updates of an append, and of a removal at position i.
EnterQueue(r, l) ==
    /\ waiters' = Append(waiters, r)
    /\ queued' = queued + 1
    /\ queuedDecode' = queuedDecode + (IF l = "decode" THEN 1 ELSE 0)
    /\ queuedPrefill' = queuedPrefill + (IF l = "prefill" THEN 1 ELSE 0)

LeaveQueueAt(i) ==
    /\ waiters' = RemoveAt(waiters, i)
    /\ queued' = LargerOf(0, queued - 1)
    /\ queuedDecode' =
          LargerOf(0, queuedDecode - (IF lane[waiters[i]] = "decode" THEN 1 ELSE 0))
    /\ queuedPrefill' =
          LargerOf(0, queuedPrefill - (IF lane[waiters[i]] = "prefill" THEN 1 ELSE 0))

-----------------------------------------------------------------------------
Init ==
    /\ waiters = <<>>
    /\ active = 0 /\ activeDecode = 0 /\ activePrefill = 0
    /\ queued = 0 /\ queuedDecode = 0 /\ queuedPrefill = 0
    /\ dispatching = FALSE
    /\ pc = [r \in Requests |-> "idle"]
    /\ future = [r \in Requests |-> "none"]
    /\ lane = [r \in Requests |-> "decode"]
    /\ isolated = [r \in Requests |-> FALSE]
    /\ tracked = [r \in Requests |-> FALSE]
    /\ cancelled = [r \in Requests |-> FALSE]
    /\ sawGrant = [r \in Requests |-> FALSE]

Goto(r, where) == pc' = [pc EXCEPT ![r] = where]

\* The task leaves the scheduler and its locals are gone.
Leave(r) ==
    /\ Goto(r, "idle")
    /\ future' = [future EXCEPT ![r] = "none"]
    /\ lane' = [lane EXCEPT ![r] = "decode"]
    /\ isolated' = [isolated EXCEPT ![r] = FALSE]
    /\ tracked' = [tracked EXCEPT ![r] = FALSE]
    /\ cancelled' = [cancelled EXCEPT ![r] = FALSE]
    /\ sawGrant' = [sawGrant EXCEPT ![r] = FALSE]

(* acquire() up to its first await.  A request whose token is already      *)
(* cancelled raises before it touches the scheduler: that call is no step. *)
Submit(r, l, wanted, hasToken) ==
    /\ ~dispatching /\ pc[r] = "idle"
    /\ lane' = [lane EXCEPT ![r] = l]
    /\ isolated' = [isolated EXCEPT ![r] = PrefillIsolationActive(l, wanted)]
    /\ tracked' = [tracked EXCEPT ![r] = hasToken]
    /\ UNCHANGED <<dispatching, cancelled, sawGrant>>

GrantNow(l, iso) ==
    \/ MaxConcurrent = 0
    \/ CanGrant(l, iso) /\ ~HigherPriorityWaiterExists(l)

AcquireGranted(r, l, wanted, hasToken) ==
    /\ Submit(r, l, wanted, hasToken)
    /\ GrantNow(l, PrefillIsolationActive(l, wanted))
    /\ GrantSlot(l)
    /\ Goto(r, "holding")
    /\ UNCHANGED <<waiters, depths, future>>

AcquireQueued(r, l, wanted, hasToken) ==
    /\ Submit(r, l, wanted, hasToken)
    /\ ~GrantNow(l, PrefillIsolationActive(l, wanted))
    /\ queued < QueueLimit
    /\ EnterQueue(r, l)
    /\ future' = [future EXCEPT ![r] = "pending"]
    /\ Goto(r, "waiting")
    /\ UNCHANGED counters

\* BackpressureError: the caller gets an error and nothing is left behind.
AcquireRejected(r, l, wanted) ==
    /\ ~dispatching /\ pc[r] = "idle"
    /\ ~GrantNow(l, PrefillIsolationActive(l, wanted))
    /\ queued >= QueueLimit
    /\ UNCHANGED vars

\* Mutant: the freed slot is not offered to the queue.
GiveBackNoDispatch(l) ==
    /\ FreeSlot(l)
    /\ UNCHANGED <<dispatching, waiters, depths>>

\* release(): the slot is given back and the dispatch loop starts.
GiveBack(l) ==
    /\ FreeSlot(l)
    /\ dispatching' = TRUE
    /\ UNCHANGED <<waiters, depths>>

\* Mutant: a grant that raced the withdrawal is dropped without release().
FinishDropsGrant(r) ==
    /\ Leave(r)
    /\ \/ /\ future[r] = "pending"
          /\ \E i \in 1..Len(waiters) : waiters[i] = r /\ LeaveQueueAt(i)
       \/ future[r] = "granted" /\ UNCHANGED <<waiters, depths>>
    /\ UNCHANGED <<counters, dispatching>>

(* The request ends without an admission: out of the queue if it is still  *)
(* there, through release() if it won a slot in the meantime               *)
(* (_withdraw_waiter and _release_withdrawn_grant, or admission.release()). *)
Finish(r) ==
    /\ Leave(r)
    /\ \/ /\ future[r] = "pending"
          /\ \E i \in 1..Len(waiters) : waiters[i] = r /\ LeaveQueueAt(i)
          /\ UNCHANGED <<counters, dispatching>>
       \/ future[r] = "granted" /\ GiveBack(lane[r])

\* Mutant: the token is not asked again after the wait.
TakeGrantUnchecked(r) ==
    /\ Goto(r, "holding")
    /\ future' = [future EXCEPT ![r] = "none"]
    /\ sawGrant' = [sawGrant EXCEPT ![r] = FALSE]
    /\ UNCHANGED <<waiters, depths, counters, dispatching, lane, isolated,
                   tracked, cancelled>>

\* The end of acquire(): the token is asked once more, then the task holds.
TakeGrant(r) ==
    \/ /\ ~cancelled[r]
       /\ Goto(r, "holding")
       /\ future' = [future EXCEPT ![r] = "none"]
       /\ sawGrant' = [sawGrant EXCEPT ![r] = FALSE]
       /\ UNCHANGED <<waiters, depths, counters, dispatching, lane, isolated,
                      tracked, cancelled>>
    \/ cancelled[r] /\ Finish(r)

\* No grant in `done` is a timeout, unless a grant raced it.
SettleWait(r, grantInDone) ==
    \/ ~grantInDone /\ future[r] = "pending" /\ Finish(r)
    \/ future[r] = "granted" /\ TakeGrant(r)

(* asyncio.wait returns: the slot was granted, the token was cancelled, or *)
(* the timeout fired.  `done` is computed when the task resumes.  The      *)
(* cancellation waiter is a task of its own, so a cancelled token may not  *)
(* have reached it yet; if it is not done it is cancelled and gathered,    *)
(* which suspends the request with `done` in hand.                         *)
WakeOnCancellation(r) ==
    /\ ~dispatching /\ pc[r] = "waiting"
    /\ tracked[r] /\ cancelled[r]
    /\ Finish(r)

WakeUntracked(r) ==
    /\ ~dispatching /\ pc[r] = "waiting"
    /\ ~tracked[r]
    /\ SettleWait(r, future[r] = "granted")

WakeTracked(r) ==
    /\ ~dispatching /\ pc[r] = "waiting"
    /\ tracked[r]
    /\ Goto(r, "reaping")
    /\ sawGrant' = [sawGrant EXCEPT ![r] = (future[r] = "granted")]
    /\ UNCHANGED <<waiters, depths, counters, dispatching, future, lane,
                   isolated, tracked, cancelled>>

\* The gather returns and acquire() carries on with the `done` it had.
Reaped(r) ==
    /\ ~dispatching /\ pc[r] = "reaping"
    /\ SettleWait(r, sawGrant[r])

(* The task itself is cancelled (client disconnect, shutdown).  In         *)
(* asyncio.wait the except branch withdraws the waiter.  In the gather of  *)
(* the finally block no handler is left: acquire() ends and the waiter     *)
(* stays as it is, queued or granted.                                      *)
TaskCancelledWaiting(r) ==
    /\ ~dispatching /\ pc[r] = "waiting"
    /\ Finish(r)

TaskCancelledReaping(r) ==
    /\ ~dispatching /\ pc[r] = "reaping"
    /\ Cardinality({q \in Requests : pc[q] = "abandoned"}) < MaxAbandoned
    /\ Goto(r, "abandoned")
    /\ UNCHANGED <<waiters, depths, counters, dispatching, future, locals>>

\* CancellationToken.cancel() from another task.
CancelToken(r) ==
    /\ ~dispatching /\ tracked[r] /\ ~cancelled[r]
    /\ pc[r] \in {"waiting", "reaping", "holding"}
    /\ cancelled' = [cancelled EXCEPT ![r] = TRUE]
    /\ UNCHANGED <<waiters, depths, counters, dispatching, pc, future, lane,
                   isolated, tracked, sawGrant>>

\* RuntimeRequestAdmission.release() by the holder; later calls do nothing.
Release(r) ==
    /\ ~dispatching /\ pc[r] = "holding"
    /\ GiveBack(lane[r])
    /\ Leave(r)

\* One iteration of the loop of _dispatch_waiters_locked.
DispatchGrant ==
    /\ dispatching /\ MaxConcurrent > 0
    /\ \E i \in 1..Len(waiters) :
          /\ IsNextWaiter(i)
          /\ LeaveQueueAt(i)
          /\ GrantSlot(lane[waiters[i]])
          /\ future' = [future EXCEPT ![waiters[i]] = "granted"]
    /\ UNCHANGED <<dispatching, pc, locals>>

\* The loop condition is false or no waiter is eligible: the lock is dropped.
DispatchDone ==
    /\ dispatching
    /\ MaxConcurrent = 0 \/ \A i \in 1..Len(waiters) : ~Eligible(i)
    /\ dispatching' = FALSE
    /\ UNCHANGED <<waiters, depths, counters, pc, future, locals>>

Acquire(r) ==
    \E l \in Lanes, wanted, hasToken \in BOOLEAN :
        \/ AcquireGranted(r, l, wanted, hasToken)
        \/ AcquireQueued(r, l, wanted, hasToken)
        \/ AcquireRejected(r, l, wanted)

TaskStep(r) ==
    \/ WakeOnCancellation(r) \/ WakeUntracked(r) \/ WakeTracked(r) \/ Reaped(r)
    \/ Release(r)

Environment(r) ==
    \/ Acquire(r) \/ CancelToken(r)
    \/ TaskCancelledWaiting(r) \/ TaskCancelledReaping(r)

Next ==
    \/ \E r \in Requests : TaskStep(r) \/ Environment(r)
    \/ DispatchGrant \/ DispatchDone

Spec == Init /\ [][Next]_vars

(* The loop runs what is ready: a granted task resumes, a gather returns,  *)
(* a holder finishes its work and releases, the lock holder goes on.  Once *)
(* ready, those steps stay ready but for the moments another task is       *)
(* inside the dispatch loop, hence strong fairness.  The queue timeout and *)
(* cancellations are not assumed to happen.                                *)
Progress(r) ==
    \/ Release(r) \/ Reaped(r)
    \/ future[r] = "granted" /\ (WakeUntracked(r) \/ WakeTracked(r))

FairSpec ==
    /\ Spec
    /\ WF_vars(DispatchGrant \/ DispatchDone)
    /\ \A r \in Requests : SF_vars(Progress(r))

-----------------------------------------------------------------------------
(* Properties.                                                             *)

\* Tasks a slot was granted to and not given back for.
SlotOwners == {r \in Requests : pc[r] = "holding" \/ future[r] = "granted"}
Queued     == {r \in Requests : future[r] = "pending"}
InLane(S, l) == {r \in S : lane[r] = l}

TypeOK ==
    /\ waiters \in Seq(Requests)
    /\ active \in Nat /\ activeDecode \in Nat /\ activePrefill \in Nat
    /\ queued \in Nat /\ queuedDecode \in Nat /\ queuedPrefill \in Nat
    /\ dispatching \in BOOLEAN
    /\ pc \in [Requests -> {"idle", "waiting", "reaping", "holding", "abandoned"}]
    /\ future \in [Requests -> {"none", "pending", "granted"}]
    /\ lane \in [Requests -> Lanes]
    /\ isolated \in [Requests -> BOOLEAN]
    /\ tracked \in [Requests -> BOOLEAN]
    /\ cancelled \in [Requests -> BOOLEAN]
    /\ sawGrant \in [Requests -> BOOLEAN]

(* The three admission counters count exactly the tasks that own a slot,   *)
(* through every race of a grant with a timeout, a cancelled token or a    *)
(* cancelled task: no double release, no slot lost from the books.         *)
SlotAccounting ==
    /\ active = Cardinality(SlotOwners)
    /\ activeDecode = Cardinality(InLane(SlotOwners, "decode"))
    /\ activePrefill = Cardinality(InLane(SlotOwners, "prefill"))

(* The queue holds each task whose future is pending once and no other,    *)
(* and the three depth counters agree with it.                             *)
QueueAccounting ==
    /\ \A i, j \in 1..Len(waiters) : waiters[i] = waiters[j] => i = j
    /\ \A r \in Requests : r \in Queued <=> \E i \in 1..Len(waiters) : waiters[i] = r
    /\ queued = Cardinality(Queued)
    /\ queuedDecode = Cardinality(InLane(Queued, "decode"))
    /\ queuedPrefill = Cardinality(InLane(Queued, "prefill"))

(* The books: what admission decides by is true.                           *)
Accounting == SlotAccounting /\ QueueAccounting

(* Backpressure: never more slots out than max_concurrent_requests, never  *)
(* more waiters than queue_limit, and isolated prefills never take more    *)
(* than the slots left beside the decode reserve.                          *)
WithinLimits ==
    /\ MaxConcurrent > 0 => active <= MaxConcurrent
    /\ queued <= QueueLimit
    /\ Cardinality({r \in SlotOwners : isolated[r]}) <= AvailablePrefillSlots

(* No waiter is left in the queue that a free slot could serve: withdrawing *)
(* a waiter does not dispatch, so this rests on every slot passing through  *)
(* release() and on arrivals never being refused a slot they could have.    *)
WorkConserving ==
    (~dispatching /\ MaxConcurrent > 0) => \A i \in 1..Len(waiters) : ~Eligible(i)

\* Same lane and same isolation: the requests the scheduler may not reorder.
SameClass(q, r) == lane[q] = lane[r] /\ isolated[q] = isolated[r]

\* q waits in the queue and r does not wait before it.
WaitsBefore(q, r) ==
    \E j \in 1..Len(waiters) : /\ waiters[j] = q
                               /\ \A i \in 1..j : waiters[i] # r

(* First come, first served within a class: a slot never goes to a task    *)
(* while an older task of its class keeps waiting, whether the slot was    *)
(* taken on arrival or dispatched from the queue.                          *)
NoOvertaking ==
    [][\A r \in SlotOwners' \ SlotOwners : \A q \in Requests :
          WaitsBefore(q, r) => ~SameClass(q, r)']_vars

(* "a cancelled request never reaches a model - including one cancelled    *)
(* while it was still waiting behind the queue": no task starts holding an *)
(* admission with its token cancelled.                                     *)
CancelledNeverAdmitted ==
    [][\A r \in Requests :
          (pc[r] # "holding" /\ pc'[r] = "holding") => ~cancelled[r]]_vars

(* A granted slot is handed back when its request stops: the comment at    *)
(* the end of acquire() ("Hand it back to the next waiter instead of       *)
(* holding it for work that stopped").                                     *)
NoSlotForStoppedWork ==
    \A r \in Requests : pc[r] = "abandoned" => future[r] # "granted"

\* Others may be admitted past r; a rival is one that was.  An isolated prefill
\* needs the slots beside the reserve, so every owner of a slot is its rival.
Passable(r) == isolated[r] \/ (DecodePriorityEnabled /\ lane[r] = "prefill")
Rival(r) ==
    \E q \in SlotOwners \ {r} :
        isolated[r] \/ (Passable(r) /\ lane[q] = "decode" /\ pc[q] # "abandoned")

(* A waiter stops waiting without its timeout, as long as one slot is not  *)
(* lost to an abandoned task: a request no rule lets others pass does so   *)
(* whatever comes, and one that others may pass (a prefill under decode    *)
(* priority, an isolated prefill) unless rivals keep taking the slots for  *)
(* good, which the code does not prevent.                                  *)
EventuallyServed ==
    \A r \in Requests :
        /\ (pc[r] = "waiting" /\ ~Passable(r)) ~> (pc[r] # "waiting")
        /\ []<>(pc[r] # "waiting") \/ []<>Rival(r)

=============================================================================
