------------------------------ MODULE Residency ------------------------------
(***************************************************************************)
(* The residency manager of runtime/residency.py: one record per resident  *)
(* (runtime, model) key, single-flight loads, usage leases, lease-aware    *)
(* unload and drain, and the shutdown sweep.                               *)
(*                                                                         *)
(* The manager runs on one asyncio loop.  No section under its lock awaits *)
(* anything, so the lock is never contended and a task runs without        *)
(* interruption from one suspension point to the next: the shared load     *)
(* task, the idle event, the lifecycle event, a backend call or the lease  *)
(* body.  One action below is one such run.                                *)
(*                                                                         *)
(* Calls that end at once with an error or with nothing to do (a conflict  *)
(* reported to a fresh caller, a probe of a ready model) change no state   *)
(* and are stuttering steps.  warm() is ensure_loaded followed by acquire  *)
(* around the warm hook: two calls in a row of one caller.                 *)
(***************************************************************************)
EXTENDS Integers, FiniteSets

CONSTANTS
    Keys,               \* ModelResidencyKey values
    Users,              \* callers of ensure_loaded / acquire
    Admins,             \* callers of unload, of the policies' cleanup included
    Closer,             \* the task that runs shutdown()
    LoadsMayFail,       \* whether a backend load, or its admission, can fail
    MaxDirectUnloads,   \* backend unloads that bypass the manager
    MaxDirectLoads      \* backend loads that bypass the manager

ASSUME ResidencyAssumption ==
    /\ Closer \notin Admins
    /\ IsFiniteSet(Users)
    /\ LoadsMayFail \in BOOLEAN
    /\ MaxDirectUnloads \in Nat
    /\ MaxDirectLoads \in Nat

VARIABLES
    state,          \* state of the record under the key, or "absent"
    pending,        \* pending_lease_count
    active,         \* active_usage_count
    idle,           \* idle_event is set
    loads,          \* number of running _perform_load tasks of the key
    loaded,         \* the backend's is_model_loaded
    upc,            \* where each user is in ensure_loaded / acquire
    ukey,           \* the key a user works on
    hold,           \* hold_pending: the user takes a lease next
    apc,            \* where each caller of unload is
    akey,           \* the key it unloads
    drain,          \* its drain argument
    closing,        \* the manager refuses new use
    phase,          \* progress of shutdown()
    todo,           \* residencies shutdown() has still to unload
    directUnloads,  \* direct backend unloads so far
    directLoads     \* direct backend loads so far

record    == <<state, pending, active, idle>>
backend   == <<loads, loaded>>
userVars  == <<upc, ukey, hold>>
adminVars == <<apc, akey, drain>>
closeVars == <<closing, phase, todo>>
drift     == <<directUnloads, directLoads>>
vars      == <<record, backend, userVars, adminVars, closeVars, drift>>

Unloaders == Admins \cup {Closer}

RecordStates == {"absent", "loading", "ready", "draining", "unloading", "failed"}
UserStates   == {"out", "waiting", "loadDone", "loadFailed", "leased"}
AdminStates  == {"out", "joining", "joined", "draining", "unloading"}
Phases       == {"open", "awaitLoads", "sweep", "closed"}

Init ==
    /\ state = [k \in Keys |-> "absent"]
    /\ pending = [k \in Keys |-> 0]
    /\ active = [k \in Keys |-> 0]
    /\ idle = [k \in Keys |-> FALSE]
    /\ loads = [k \in Keys |-> 0]
    /\ loaded = [k \in Keys |-> FALSE]
    /\ upc = [u \in Users |-> "out"]
    /\ ukey \in [Users -> Keys]
    /\ hold = [u \in Users |-> FALSE]
    /\ apc = [a \in Unloaders |-> "out"]
    /\ akey \in [Unloaders -> Keys]
    /\ drain = [a \in Unloaders |-> FALSE]
    /\ closing = FALSE
    /\ phase = "open"
    /\ todo = {}
    /\ directUnloads = 0
    /\ directLoads = 0

-----------------------------------------------------------------------------
(* Bookkeeping shared by the operations.                                   *)

OneFewer(n) == IF n = 0 THEN 0 ELSE n - 1

Call(u, k, h, where) ==
    /\ upc' = [upc EXCEPT ![u] = where]
    /\ ukey' = [ukey EXCEPT ![u] = k]
    /\ hold' = [hold EXCEPT ![u] = h]

Return(u) ==
    /\ upc' = [upc EXCEPT ![u] = "out"]
    /\ UNCHANGED <<ukey, hold>>

\* Mutant: the last promise to go does not set the idle event.
DropPromiseSilently(k, mayIdle) ==
    IF state[k] = "absent"
    THEN UNCHANGED record
    ELSE /\ pending' = [pending EXCEPT ![k] = OneFewer(@)]
         /\ UNCHANGED <<state, active, idle>>

\* A promise kept through the load is given up.  The record is the one under
\* the key now, which need not be the one the promise was counted on.
DropPromise(k, mayIdle) ==
    IF state[k] = "absent"
    THEN UNCHANGED record
    ELSE /\ pending' = [pending EXCEPT ![k] = OneFewer(@)]
         /\ idle' = [idle EXCEPT ![k] =
                       @ \/ (mayIdle /\ OneFewer(pending[k]) = 0 /\ active[k] = 0)]
         /\ UNCHANGED <<state, active>>

\* A record leaves the table; the next one starts from the dataclass defaults.
PopRecord(k) ==
    /\ state' = [state EXCEPT ![k] = "absent"]
    /\ pending' = [pending EXCEPT ![k] = 0]
    /\ active' = [active EXCEPT ![k] = 0]
    /\ idle' = [idle EXCEPT ![k] = FALSE]

\* lifecycle_event.set(): every caller that joined the transition resumes.
Notified(k) ==
    [a \in Unloaders |-> IF apc[a] = "joining" /\ akey[a] = k THEN "joined" ELSE apc[a]]

-----------------------------------------------------------------------------
(* ensure_loaded and acquire.                                              *)

\* Mutant: only the backend is asked whether the model can be used.
AcquireReadyIfLoaded(u, k) ==
    /\ upc[u] = "out"
    /\ ~closing
    /\ state[k] \in {"ready", "draining"} /\ loaded[k]
    /\ active' = [active EXCEPT ![k] = @ + 1]
    /\ idle' = [idle EXCEPT ![k] = FALSE]
    /\ Call(u, k, TRUE, "leased")
    /\ UNCHANGED <<state, pending, backend, adminVars, closeVars, drift>>

\* A ready model is leased at once: the pending count is taken and turned into
\* usage without a suspension in between.
AcquireReady(u, k) ==
    /\ upc[u] = "out"
    /\ ~closing
    /\ state[k] = "ready" /\ loaded[k]
    /\ active' = [active EXCEPT ![k] = @ + 1]
    /\ idle' = [idle EXCEPT ![k] = FALSE]
    /\ Call(u, k, TRUE, "leased")
    /\ UNCHANGED <<state, pending, backend, adminVars, closeVars, drift>>

\* The backend already holds the model and no usable record says so.
AdoptAndAcquire(u, k) ==
    /\ upc[u] = "out"
    /\ ~closing
    /\ state[k] \in {"absent", "failed"} /\ loaded[k]
    /\ state' = [state EXCEPT ![k] = "ready"]
    /\ active' = [active EXCEPT ![k] = @ + 1]
    /\ idle' = [idle EXCEPT ![k] = FALSE]
    /\ Call(u, k, TRUE, "leased")
    /\ UNCHANGED <<pending, backend, adminVars, closeVars, drift>>

AdoptOnly(u, k) ==
    /\ upc[u] = "out"
    /\ ~closing
    /\ state[k] \in {"absent", "failed"} /\ loaded[k]
    /\ state' = [state EXCEPT ![k] = "ready"]
    /\ idle' = [idle EXCEPT ![k] = TRUE]
    /\ Call(u, k, FALSE, "out")
    /\ UNCHANGED <<pending, active, backend, adminVars, closeVars, drift>>

JoinLoad(u, k, h) ==
    /\ upc[u] = "out"
    /\ ~closing
    /\ state[k] = "loading"
    /\ pending' = [pending EXCEPT ![k] = @ + 1]
    /\ Call(u, k, h, "waiting")
    /\ UNCHANGED <<state, active, idle, backend, adminVars, closeVars, drift>>

\* Mutant: a load in flight is not joined.
NeedsLoadAgain(k) ==
    /\ state[k] \in {"absent", "failed", "ready", "loading"}
    /\ ~loaded[k]

\* A ready record the backend no longer confirms is failed on the spot and
\* reloaded in place, its counts kept.
NeedsLoad(k) ==
    /\ state[k] \in {"absent", "failed", "ready"}
    /\ ~loaded[k]

StartLoad(u, k, h) ==
    /\ upc[u] = "out"
    /\ ~closing
    /\ NeedsLoad(k)
    /\ state' = [state EXCEPT ![k] = "loading"]
    /\ pending' = [pending EXCEPT ![k] = @ + 1]
    /\ idle' = [idle EXCEPT ![k] = FALSE]
    /\ loads' = [loads EXCEPT ![k] = @ + 1]
    /\ Call(u, k, h, "waiting")
    /\ UNCHANGED <<active, loaded, adminVars, closeVars, drift>>

Waiters(k) == {u \in Users : upc[u] = "waiting" /\ ukey[u] = k}

\* _perform_load: the shared task ends and every shielded waiter can resume.
LoadSucceeds(k) ==
    /\ loads[k] > 0
    /\ loads' = [loads EXCEPT ![k] = @ - 1]
    /\ loaded' = [loaded EXCEPT ![k] = TRUE]
    /\ state' = [state EXCEPT ![k] = "ready"]
    /\ idle' = [idle EXCEPT ![k] = @ \/ pending[k] = 0]
    /\ upc' = [u \in Users |-> IF u \in Waiters(k) THEN "loadDone" ELSE upc[u]]
    /\ UNCHANGED <<pending, active, ukey, hold, adminVars, closeVars, drift>>

LoadFails(k) ==
    /\ LoadsMayFail
    /\ loads[k] > 0
    /\ loads' = [loads EXCEPT ![k] = @ - 1]
    /\ state' = [state EXCEPT ![k] = "failed"]
    /\ idle' = [idle EXCEPT ![k] = TRUE]
    /\ upc' = [u \in Users |-> IF u \in Waiters(k) THEN "loadFailed" ELSE upc[u]]
    /\ UNCHANGED <<pending, active, loaded, ukey, hold, adminVars, closeVars, drift>>

\* The load task was done and the record is still ready: the promise becomes
\* a lease.
ConvertPromise(u) ==
    LET k == ukey[u] IN
    /\ upc[u] = "loadDone" /\ hold[u]
    /\ state[k] = "ready"
    /\ pending' = [pending EXCEPT ![k] = OneFewer(@)]
    /\ active' = [active EXCEPT ![k] = @ + 1]
    /\ idle' = [idle EXCEPT ![k] = FALSE]
    /\ upc' = [upc EXCEPT ![u] = "leased"]
    /\ UNCHANGED <<state, ukey, hold, backend, adminVars, closeVars, drift>>

\* Otherwise the caller returns (no lease wanted) or raises (no ready record).
ReturnUnleased(u) ==
    /\ upc[u] = "loadDone"
    /\ ~hold[u] \/ state[ukey[u]] # "ready"
    /\ DropPromise(ukey[u], TRUE)
    /\ Return(u)
    /\ UNCHANGED <<backend, adminVars, closeVars, drift>>

\* Mutant: a cancelled waiter keeps its promise counted.
ReleasePendingLeaks(u) ==
    /\ Return(u)
    /\ UNCHANGED <<record, backend, adminVars, closeVars, drift>>

ReleasePending(u) ==
    /\ DropPromise(ukey[u], state[ukey[u]] # "loading")
    /\ Return(u)
    /\ UNCHANGED <<backend, adminVars, closeVars, drift>>

LoadErrorSeen(u) ==
    /\ upc[u] = "loadFailed"
    /\ ReleasePending(u)

\* The caller's own task is cancelled; the shielded load goes on.
WaitCancelled(u) ==
    /\ upc[u] \in {"waiting", "loadDone", "loadFailed"}
    /\ ReleasePending(u)

\* Mutant: the last lease to go does not set the idle event.
ReleaseLeaseSilently(u) ==
    LET k == ukey[u] IN
    /\ upc[u] = "leased"
    /\ active' = [active EXCEPT ![k] = IF state[k] = "absent" THEN @ ELSE OneFewer(@)]
    /\ Return(u)
    /\ UNCHANGED <<state, pending, idle, backend, adminVars, closeVars, drift>>

\* The finally clause of acquire(), after the body ended, failed or was
\* cancelled.
ReleaseLease(u) ==
    LET k == ukey[u] IN
    /\ upc[u] = "leased"
    /\ IF state[k] = "absent"
       THEN UNCHANGED <<active, idle>>
       ELSE /\ active' = [active EXCEPT ![k] = OneFewer(@)]
            /\ idle' = [idle EXCEPT ![k] =
                          @ \/ (OneFewer(active[k]) = 0 /\ pending[k] = 0)]
    /\ Return(u)
    /\ UNCHANGED <<state, pending, backend, adminVars, closeVars, drift>>

-----------------------------------------------------------------------------
(* unload.                                                                 *)

\* A call begins, or a caller that joined a transition runs the loop again.
Entering(a, k, d) ==
    \/ a \in Admins /\ apc[a] = "out"
    \/ apc[a] = "joined" /\ k = akey[a] /\ d = drain[a]

\* Mutants: only one of the two counts is looked at.
InUsePromised(k) == pending[k] > 0

InUseLeased(k) == active[k] > 0

InUse(k) == active[k] > 0 \/ pending[k] > 0

Enter(a, k, d, where) ==
    /\ apc' = [apc EXCEPT ![a] = where]
    /\ akey' = [akey EXCEPT ![a] = k]
    /\ drain' = [drain EXCEPT ![a] = d]

\* No record: one is made for a model the backend holds, already idle, and
\* the unload goes on at once.
UnloadUntracked(a, k, d) ==
    /\ state[k] = "absent" /\ loaded[k]
    /\ state' = [state EXCEPT ![k] = "unloading"]
    /\ idle' = [idle EXCEPT ![k] = TRUE]
    /\ Enter(a, k, d, "unloading")
    /\ UNCHANGED <<pending, active>>

JoinTransition(a, k, d) ==
    /\ state[k] \in {"draining", "unloading"}
    /\ Enter(a, k, d, "joining")
    /\ UNCHANGED record

\* The idle event of an unused record is already set: the drain does not wait.
BeginDrain(a, k) ==
    /\ state[k] \in {"ready", "failed"}
    /\ state' = [state EXCEPT ![k] = IF idle[k] THEN "unloading" ELSE "draining"]
    /\ Enter(a, k, TRUE, IF idle[k] THEN "unloading" ELSE "draining")
    /\ UNCHANGED <<pending, active, idle>>

UnloadUnused(a, k) ==
    /\ state[k] \in {"ready", "failed"} /\ ~InUse(k)
    /\ state' = [state EXCEPT ![k] = "unloading"]
    /\ Enter(a, k, FALSE, "unloading")
    /\ UNCHANGED <<pending, active, idle>>

\* Nothing to unload, a load in flight or usage in the way: the caller leaves.
LeaveUnload(a, k, d) ==
    /\ apc[a] = "joined"
    /\ \/ state[k] = "absent" /\ ~loaded[k]
       \/ state[k] = "loading"
       \/ state[k] \in {"ready", "failed"} /\ InUse(k) /\ ~d
    /\ Enter(a, k, d, "out")
    /\ UNCHANGED record

UnloadCall(a, k, d) ==
    \/ UnloadUntracked(a, k, d)
    \/ JoinTransition(a, k, d)
    \/ d /\ BeginDrain(a, k)
    \/ ~d /\ UnloadUnused(a, k)
    \/ LeaveUnload(a, k, d)

Unload(a, k, d) ==
    /\ Entering(a, k, d)
    /\ UnloadCall(a, k, d)
    /\ UNCHANGED <<backend, userVars, closeVars, drift>>

\* The idle event fired.  The counts and the state are not looked at again.
DrainIdle(a) ==
    LET k == akey[a] IN
    /\ apc[a] = "draining"
    /\ idle[k]
    /\ IF state[k] = "absent"
       THEN state' = state /\ apc' = [apc EXCEPT ![a] = "out"]
       ELSE /\ state' = [state EXCEPT ![k] = "unloading"]
            /\ apc' = [apc EXCEPT ![a] = "unloading"]
    /\ UNCHANGED <<pending, active, idle, akey, drain, backend, userVars,
                   closeVars, drift>>

\* The wait timed out, or the caller was cancelled.  shutdown() waits without
\* a limit.
DrainAbandoned(a) ==
    LET k == akey[a] IN
    /\ apc[a] = "draining" /\ a # Closer
    /\ IF state[k] = "draining"
       THEN /\ state' = [state EXCEPT ![k] = "ready"]
            /\ apc' = [Notified(k) EXCEPT ![a] = "out"]
       ELSE state' = state /\ apc' = [apc EXCEPT ![a] = "out"]
    /\ UNCHANGED <<pending, active, idle, akey, drain, backend, userVars,
                   closeVars, drift>>

\* The joined wait is only shielded: the caller itself can be cancelled.
JoinCancelled(a) ==
    /\ apc[a] \in {"joining", "joined"} /\ a # Closer
    /\ apc' = [apc EXCEPT ![a] = "out"]
    /\ UNCHANGED <<record, backend, userVars, akey, drain, closeVars, drift>>

UnloadSucceeds(a) ==
    LET k == akey[a] IN
    /\ apc[a] = "unloading"
    /\ loaded' = [loaded EXCEPT ![k] = FALSE]
    /\ PopRecord(k)
    /\ apc' = [Notified(k) EXCEPT ![a] = "out"]
    /\ UNCHANGED <<loads, akey, drain, userVars, closeVars, drift>>

\* The backend raised; it may or may not have let go of the model.
UnloadRaises(a) ==
    LET k == akey[a] IN
    /\ apc[a] = "unloading"
    /\ \E l \in BOOLEAN :
          loaded' = [loaded EXCEPT ![k] = l /\ loaded[k]]
    /\ state' = [state EXCEPT ![k] = IF @ = "absent" THEN @ ELSE "failed"]
    /\ apc' = [Notified(k) EXCEPT ![a] = "out"]
    /\ UNCHANGED <<pending, active, idle, loads, akey, drain, userVars,
                   closeVars, drift>>

UnloadCancelled(a) ==
    LET k == akey[a] IN
    /\ apc[a] = "unloading" /\ a # Closer
    /\ \/ /\ loaded[k]
          /\ state' = [state EXCEPT ![k] = IF @ = "absent" THEN @ ELSE "ready"]
          /\ UNCHANGED <<pending, active, idle, loaded>>
       \/ /\ loaded' = [loaded EXCEPT ![k] = FALSE]
          /\ PopRecord(k)
    /\ apc' = [Notified(k) EXCEPT ![a] = "out"]
    /\ UNCHANGED <<loads, akey, drain, userVars, closeVars, drift>>

-----------------------------------------------------------------------------
(* shutdown.                                                               *)

ShutdownBegin ==
    /\ phase = "open"
    /\ closing' = TRUE
    /\ phase' = "awaitLoads"
    /\ UNCHANGED <<record, backend, userVars, adminVars, todo, drift>>

\* Mutant: the sweep does not wait for the loads in flight.
ShutdownListEarly ==
    /\ phase = "awaitLoads"
    /\ phase' = "sweep"
    /\ todo' = {k \in Keys : state[k] # "absent"}
    /\ UNCHANGED <<record, backend, userVars, adminVars, closing, drift>>

\* No load starts once closing is set, so the tasks gathered at the beginning
\* are all there ever will be.
ShutdownList ==
    /\ phase = "awaitLoads"
    /\ \A k \in Keys : loads[k] = 0
    /\ phase' = "sweep"
    /\ todo' = {k \in Keys : state[k] # "absent"}
    /\ UNCHANGED <<record, backend, userVars, adminVars, closing, drift>>

\* Next listed residency.  A record gone in the meantime is passed over; an
\* error of the unload is swallowed and the sweep goes on.
ShutdownNext(k) ==
    /\ phase = "sweep" /\ apc[Closer] = "out"
    /\ k \in todo
    /\ todo' = todo \ {k}
    /\ IF state[k] \in {"absent", "loading"}
       THEN UNCHANGED <<record, adminVars>>
       ELSE JoinTransition(Closer, k, TRUE) \/ BeginDrain(Closer, k)
    /\ UNCHANGED <<backend, userVars, closing, phase, drift>>

ShutdownEnd ==
    /\ phase = "sweep" /\ apc[Closer] = "out"
    /\ todo = {}
    /\ phase' = "closed"
    /\ UNCHANGED <<record, backend, userVars, adminVars, closing, todo, drift>>

-----------------------------------------------------------------------------
(* Benchmarks, probes and the compatibility paths of the runtime catalog   *)
(* call the backend without the manager.                                   *)

DirectUnload(k) ==
    /\ directUnloads < MaxDirectUnloads
    /\ loaded[k]
    /\ loaded' = [loaded EXCEPT ![k] = FALSE]
    /\ directUnloads' = directUnloads + 1
    /\ UNCHANGED <<record, loads, userVars, adminVars, closeVars, directLoads>>

DirectLoad(k) ==
    /\ directLoads < MaxDirectLoads
    /\ ~loaded[k]
    /\ loaded' = [loaded EXCEPT ![k] = TRUE]
    /\ directLoads' = directLoads + 1
    /\ UNCHANGED <<record, loads, userVars, adminVars, closeVars, directUnloads>>

-----------------------------------------------------------------------------
EnsureLoaded(u) ==
    \E k \in Keys :
        \/ AcquireReady(u, k)
        \/ AdoptAndAcquire(u, k)
        \/ AdoptOnly(u, k)
        \/ \E h \in BOOLEAN : JoinLoad(u, k, h) \/ StartLoad(u, k, h)

LoadEnds(k) == LoadSucceeds(k) \/ LoadFails(k)

AfterLoad(u) == ConvertPromise(u) \/ ReturnUnleased(u) \/ LoadErrorSeen(u)

UserStep(u) ==
    EnsureLoaded(u) \/ AfterLoad(u) \/ WaitCancelled(u) \/ ReleaseLease(u)

BackendUnloadEnds(a) == UnloadSucceeds(a) \/ UnloadRaises(a)

AdminStep(a) ==
    \/ \E k \in Keys, d \in BOOLEAN : Unload(a, k, d)
    \/ DrainIdle(a)
    \/ DrainAbandoned(a)
    \/ JoinCancelled(a)
    \/ BackendUnloadEnds(a)
    \/ UnloadCancelled(a)

Shutdown ==
    ShutdownBegin \/ ShutdownList \/ (\E k \in Keys : ShutdownNext(k)) \/ ShutdownEnd

\* After shutdown, with every call returned, the manager rests.
AtRest ==
    /\ phase = "closed"
    /\ \A u \in Users : upc[u] = "out"
    /\ \A a \in Unloaders : apc[a] = "out"
    /\ UNCHANGED vars

Next ==
    \/ \E u \in Users : UserStep(u)
    \/ \E k \in Keys : LoadEnds(k) \/ DirectUnload(k) \/ DirectLoad(k)
    \/ \E a \in Unloaders : AdminStep(a)
    \/ Shutdown
    \/ AtRest

Spec == Init /\ [][Next]_vars

\* Backends finish their calls, resumed tasks run, and a lease body ends: a
\* request is bounded by its runtime.  Nothing is assumed of timeouts,
\* cancellations, fresh calls or direct backend calls.
Fairness ==
    /\ \A u \in Users : WF_vars(AfterLoad(u)) /\ WF_vars(ReleaseLease(u))
    /\ \A k \in Keys : WF_vars(LoadEnds(k))
    /\ \A a \in Unloaders :
          /\ WF_vars(DrainIdle(a))
          /\ WF_vars(BackendUnloadEnds(a))
          /\ WF_vars(apc[a] = "joined" /\ \E k \in Keys, d \in BOOLEAN : Unload(a, k, d))
    /\ WF_vars(phase # "open" /\ Shutdown)

FairSpec == Spec /\ Fairness

-----------------------------------------------------------------------------
(* Properties.                                                             *)

TypeOK ==
    /\ state \in [Keys -> RecordStates]
    /\ pending \in [Keys -> Nat]
    /\ active \in [Keys -> Nat]
    /\ idle \in [Keys -> BOOLEAN]
    /\ loads \in [Keys -> Nat]
    /\ loaded \in [Keys -> BOOLEAN]
    /\ upc \in [Users -> UserStates]
    /\ ukey \in [Users -> Keys]
    /\ hold \in [Users -> BOOLEAN]
    /\ apc \in [Unloaders -> AdminStates]
    /\ akey \in [Unloaders -> Keys]
    /\ drain \in [Unloaders -> BOOLEAN]
    /\ closing \in BOOLEAN
    /\ phase \in Phases
    /\ todo \in SUBSET Keys
    /\ directUnloads \in Nat
    /\ directLoads \in Nat

\* Callers whose promise may still be counted, and holders of a lease.
Promised(k) == {u \in Users : upc[u] \in {"waiting", "loadDone", "loadFailed"} /\ ukey[u] = k}
Holders(k)  == {u \in Users : upc[u] = "leased" /\ ukey[u] = k}

Working(a, k) == apc[a] \in {"draining", "unloading"} /\ akey[a] = k

Undisturbed == directUnloads = 0

\* One transition at a time: the state of a record names the one task that
\* may take it out of loading, draining or unloading, and that task exists.
\* Hence no model is loaded twice at once or loaded while it is unloaded, and
\* no record is left in a transition nobody will end.
OneTransition ==
    \A k \in Keys :
        /\ loads[k] = (IF state[k] = "loading" THEN 1 ELSE 0)
        /\ \A a \in Unloaders : Working(a, k) => state[k] = apc[a]
        /\ \A a, b \in Unloaders : Working(a, k) /\ Working(b, k) => a = b
        /\ state[k] \in {"draining", "unloading"} => \E a \in Unloaders : Working(a, k)

\* Unless somebody unloads behind the manager's back, a leased model is
\* resident and its record neither unloads nor reloads: leases keep the
\* promise of acquire() against unload, drain, cleanup and shutdown.
LeaseProtected ==
    Undisturbed =>
        \A k \in Keys : Holders(k) # {} => state[k] \in {"ready", "draining"} /\ loaded[k]

\* active_usage_count is the number of leases, so that a drain neither ends
\* early nor waits for a lease that is gone.
UsageCounted ==
    Undisturbed => \A k \in Keys : active[k] = Cardinality(Holders(k))

\* pending_lease_count never exceeds the callers that will still give theirs
\* back: a promise is not leaked, whichever way its caller leaves.
PromisesNotLeaked == \A k \in Keys : pending[k] <= Cardinality(Promised(k))

\* Of the two counts that drains, cleanup and shutdown decide by, the leases are
\* exact and the promises never too many, whatever order loads, leases, failures
\* and cancellations come in: no drain waits for a user that is gone.  Promises
\* may be too few, where one is given back on a later record.
CountsTrue == UsageCounted /\ PromisesNotLeaked

\* A drain whose counts are both zero has its idle event set: the wait of
\* unload(drain=True) cannot be missed by the last user to leave.
DrainNotStranded ==
    \A k \in Keys :
        state[k] = "draining" /\ active[k] = 0 /\ pending[k] = 0 => idle[k]

\* When shutdown() returns nobody holds a lease any more, and none is granted
\* later: what aclose() tears down next is not in use.
ShutdownDrained ==
    Undisturbed /\ phase = "closed" => \A k \in Keys : Holders(k) = {}

\* A draining or unloading model refuses new leases.
NoNewUseWhileLeaving ==
    [][\A k \in Keys : state[k] \in {"draining", "unloading"} =>
          {u \in Users : upc'[u] = "leased" /\ ukey'[u] = k} \subseteq Holders(k)]_vars

\* A drain ends without its timeout, once the users it waits for are gone.
DrainEnds == \A a \in Unloaders : apc[a] = "draining" ~> apc[a] # "draining"

\* A caller that joined another's unload is released when that one ends.
JoinEnds == \A a \in Unloaders : apc[a] = "joining" ~> apc[a] # "joining"

\* Once the other callers of unload() are done, shutdown() ends: neither a
\* load, a lease, a waiter that was cancelled nor a transition it joined keeps
\* it waiting.  (Callers that start one failing unload after another can, since
\* a joined caller that finds a new transition joins again.)
ShutdownEnds ==
    <>[](\A a \in Admins : apc[a] = "out") => (closing ~> phase = "closed")

\* Nobody who waits for a transition or for users waits for ever: drains, the
\* callers that join them, and shutdown().
WaitsEnd == DrainEnds /\ JoinEnds /\ ShutdownEnds

\* docs/architecture/adr-001: "Drain transitions the record to `draining`,
\* refuses new leases, waits for the count to reach zero, and unloads."
DrainWaitsForZero == \A k \in Keys : state[k] = "unloading" => active[k] = 0

\* A drain and a shutdown leave nothing in use, when they unload and when they
\* return.
DrainsComplete == DrainWaitsForZero /\ ShutdownDrained

\* Comment on pending_lease_count: "opportunistic cleanup ... cannot unload a
\* model in the instant between READY and its first lease."
CleanupSparesPromised ==
    \A a \in Unloaders : apc[a] = "unloading" /\ ~drain[a] =>
        \A u \in Users : ukey[u] = akey[a] /\ hold[u] => upc[u] # "loadDone"
=============================================================================
