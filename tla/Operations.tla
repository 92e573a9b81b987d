----------------------------- MODULE Operations -----------------------------
(***************************************************************************)
(* Recorded drain operations of runtime/operations.py on top of the        *)
(* residency manager: submission with idempotency keys, the background     *)
(* task of each operation, callers that wait for it or cancel it, and the  *)
(* order in which the service container shuts the two managers down.       *)
(*                                                                         *)
(* An operation is one of the residency manager's callers of unload().     *)
(* The lock of the operation manager is never held across a suspension     *)
(* and publishing never suspends, so a record is in _tasks exactly while   *)
(* its status is active, and the end of a drain, the terminal status and   *)
(* the end of the task are one step.  Submissions that replay a record or  *)
(* conflict with one, and polls, change no state.                          *)
(***************************************************************************)
EXTENDS Residency

CONSTANTS
    Ops,            \* operation ids; the other Admins call unload() directly
    Callers,        \* callers of cancel() and of submit_drain_and_wait()
    IdemKeys,       \* (application identity, idempotency key) pairs
    NoKey,          \* a submission without an idempotency key
    NoOp,           \* an idempotency key bound to nothing
    MayAbandon      \* whether callers in cancel() can be cancelled themselves

ASSUME OperationsAssumption ==
    /\ Ops \subseteq Admins
    /\ NoKey \notin IdemKeys
    /\ NoOp \notin Ops
    /\ MayAbandon \in BOOLEAN

VARIABLES
    status,     \* status of the record, or "none"
    model,      \* the model the operation drains
    okey,       \* its idempotency key
    bound,      \* _idempotency
    task,       \* the background task
    cancelReq,  \* the task was asked to cancel and has not run since
    cpc,        \* where each caller is
    cop,        \* the operation it is about
    seen,       \* what its last call returned
    opsPhase,   \* progress of the operation manager's shutdown()
    abandoned   \* some caller was cancelled inside cancel()

opVars  == <<status, model, okey, bound, task, cancelReq, cpc, cop, seen,
             opsPhase, abandoned>>
allVars == <<vars, opVars>>

Active   == {"pending", "running"}
Terminal == {"succeeded", "failed", "cancelled"}
TaskOver(o) == task[o] \in {"ended", "cancelled"}

OpsInit ==
    /\ Init
    /\ status = [o \in Ops |-> "none"]
    /\ model \in [Ops -> Keys]
    /\ okey = [o \in Ops |-> NoKey]
    /\ bound = [i \in IdemKeys |-> NoOp]
    /\ task = [o \in Ops |-> "none"]
    /\ cancelReq = [o \in Ops |-> FALSE]
    /\ cpc = [c \in Callers |-> "out"]
    /\ cop \in [Callers -> Ops]
    /\ seen = [c \in Callers |-> "none"]
    /\ opsPhase = "open"
    /\ abandoned = FALSE

-----------------------------------------------------------------------------
(* submit_drain, submit_drain_and_wait.                                    *)

\* The submission has no key, or one that no operation is bound to.
Fresh(i) == \A j \in IdemKeys : j = i => bound[j] = NoOp

\* A record, its idempotency binding and its task are made in one section.
Record(o, k, i) ==
    /\ opsPhase = "open"
    /\ status[o] = "none"
    /\ Fresh(i)
    /\ status' = [status EXCEPT ![o] = "pending"]
    /\ model' = [model EXCEPT ![o] = k]
    /\ okey' = [okey EXCEPT ![o] = i]
    /\ task' = [task EXCEPT ![o] = "new"]
    /\ bound' = [j \in IdemKeys |-> IF j = i THEN o ELSE bound[j]]

SubmitDrain(o, k, i) ==
    /\ Record(o, k, i)
    /\ UNCHANGED <<vars, cancelReq, cpc, cop, seen, opsPhase, abandoned>>

SubmitAndWait(c, o, k, i) ==
    /\ cpc[c] = "out"
    /\ Record(o, k, i)
    /\ cpc' = [cpc EXCEPT ![c] = "waiting"]
    /\ cop' = [cop EXCEPT ![c] = o]
    /\ UNCHANGED <<vars, cancelReq, seen, opsPhase, abandoned>>

\* A replayed submission waits for the original's task, if there is one.
ReplayAndWait(c, i) ==
    LET o == bound[i] IN
    /\ opsPhase = "open"
    /\ cpc[c] = "out"
    /\ o # NoOp
    /\ cop' = [cop EXCEPT ![c] = o]
    /\ IF status[o] \in Active
       THEN cpc' = [cpc EXCEPT ![c] = "waiting"] /\ UNCHANGED seen
       ELSE seen' = [seen EXCEPT ![c] = status[o]] /\ UNCHANGED cpc
    /\ UNCHANGED <<vars, status, model, okey, bound, task, cancelReq, opsPhase,
                   abandoned>>

\* The shielded task ended: its record is returned, or its cancellation is
\* raised in the waiter.
WaitReturns(c) ==
    LET o == cop[c] IN
    /\ cpc[c] = "waiting"
    /\ TaskOver(o)
    /\ cpc' = [cpc EXCEPT ![c] = "out"]
    /\ seen' = [seen EXCEPT ![c] = IF task[o] = "ended" THEN status[o] ELSE "raised"]
    /\ UNCHANGED <<vars, status, model, okey, bound, task, cancelReq, cop, opsPhase,
                   abandoned>>

\* The waiter is cancelled; the shield keeps the task running.
WaitCancelledByCaller(c) ==
    /\ cpc[c] = "waiting"
    /\ cpc' = [cpc EXCEPT ![c] = "out"]
    /\ UNCHANGED <<vars, status, model, okey, bound, task, cancelReq, cop, seen,
                   opsPhase, abandoned>>

-----------------------------------------------------------------------------
(* _run_drain.                                                             *)

Finish(o, s, t) ==
    /\ status' = [status EXCEPT ![o] = s]
    /\ task' = [task EXCEPT ![o] = t]

rest == <<model, okey, bound, cancelReq, cpc, cop, seen, opsPhase, abandoned>>

\* The first step: the record runs, and so does unload() up to its first
\* suspension.
RunDrain(o) ==
    LET k == model[o] IN
    /\ task[o] = "new" /\ ~cancelReq[o]
    /\ \/ Unload(o, k, TRUE) /\ Finish(o, "running", "running")
       \/ /\ state[k] = "absent" /\ ~loaded[k]
          /\ Finish(o, "succeeded", "ended")
          /\ UNCHANGED vars
       \/ /\ state[k] = "loading"
          /\ Finish(o, "failed", "ended")
          /\ UNCHANGED vars
    /\ UNCHANGED rest

\* Cancelled before its first step, the coroutine never runs: the record
\* stays pending until a canceller looks at it.
CancelledUnstarted(o) ==
    /\ task[o] = "new" /\ cancelReq[o]
    /\ task' = [task EXCEPT ![o] = "cancelled"]
    /\ UNCHANGED <<vars, status, rest>>

\* unload() goes on, and its outcome becomes the status.
OutOrOn(o, s) ==
    IF apc'[o] = "out" THEN Finish(o, s, "ended") ELSE UNCHANGED <<status, task>>

\* Mutant: the drain of an operation has no timeout.
DrainStepUnbounded(o) ==
    LET k == model[o] IN
    /\ task[o] = "running" /\ ~cancelReq[o]
    /\ \/ Unload(o, k, TRUE)
          /\ OutOrOn(o, IF state[k] = "absent" THEN "succeeded" ELSE "failed")
       \/ (DrainIdle(o) \/ UnloadSucceeds(o)) /\ OutOrOn(o, "succeeded")
       \/ UnloadRaises(o) /\ OutOrOn(o, "failed")
    /\ UNCHANGED rest

DrainStep(o) ==
    LET k == model[o] IN
    /\ task[o] = "running" /\ ~cancelReq[o]
    /\ \/ Unload(o, k, TRUE)
          /\ OutOrOn(o, IF state[k] = "absent" THEN "succeeded" ELSE "failed")
       \/ (DrainIdle(o) \/ UnloadSucceeds(o)) /\ OutOrOn(o, "succeeded")
       \/ (DrainAbandoned(o) \/ UnloadRaises(o)) /\ OutOrOn(o, "failed")
    /\ UNCHANGED rest

\* Mutant: the operation ends and its drain is left as it is.
CancelledInDrainForgets(o) ==
    /\ task[o] = "running" /\ cancelReq[o]
    /\ apc' = [apc EXCEPT ![o] = "out"]
    /\ Finish(o, "cancelled", "cancelled")
    /\ UNCHANGED <<record, backend, userVars, akey, drain, closeVars, drift, rest>>

\* The cancellation arrives in the wait, in the join or in the backend call.
CancelledInDrain(o) ==
    /\ task[o] = "running" /\ cancelReq[o]
    /\ DrainAbandoned(o) \/ JoinCancelled(o) \/ UnloadCancelled(o)
    /\ Finish(o, "cancelled", "cancelled")
    /\ UNCHANGED rest

-----------------------------------------------------------------------------
(* cancel, shutdown.                                                       *)

Cancel(c, o) ==
    /\ cpc[c] = "out"
    /\ status[o] \in Active
    /\ cancelReq' = [cancelReq EXCEPT ![o] = ~TaskOver(o)]
    /\ cpc' = [cpc EXCEPT ![c] = "cancelling"]
    /\ cop' = [cop EXCEPT ![c] = o]
    /\ UNCHANGED <<vars, status, model, okey, bound, task, seen, opsPhase, abandoned>>

\* Mutants: the status is overwritten whatever it is, or left alone.
FinishCancelledAlways(o) == "cancelled"

FinishCancelledNever(o) == status[o]

FinishCancelledIfActive(o) == IF status[o] \in Active THEN "cancelled" ELSE status[o]

\* The gathered task is over.
CancelReturns(c) ==
    LET o == cop[c] IN
    /\ cpc[c] = "cancelling"
    /\ TaskOver(o)
    /\ status' = [status EXCEPT ![o] = FinishCancelledIfActive(o)]
    /\ cpc' = [cpc EXCEPT ![c] = "out"]
    /\ seen' = [seen EXCEPT ![c] = FinishCancelledIfActive(o)]
    /\ UNCHANGED <<vars, model, okey, bound, task, cancelReq, cop, opsPhase, abandoned>>

\* The canceller is cancelled: gather passes it on to the task and raises
\* once the task is over, and nobody looks at the record.
CancelAbandoned(c) ==
    /\ MayAbandon
    /\ cpc[c] = "cancelling"
    /\ cpc' = [cpc EXCEPT ![c] = "leaving"]
    /\ abandoned' = TRUE
    /\ UNCHANGED <<vars, status, model, okey, bound, task, cancelReq, cop, seen, opsPhase>>

CancelLeaves(c) ==
    /\ cpc[c] = "leaving"
    /\ TaskOver(cop[c])
    /\ cpc' = [cpc EXCEPT ![c] = "out"]
    /\ seen' = [seen EXCEPT ![c] = "raised"]
    /\ UNCHANGED <<vars, status, model, okey, bound, task, cancelReq, cop, opsPhase,
                   abandoned>>

\* No submission is accepted from here on, so the tasks gathered are all.
OpsShutdown ==
    /\ opsPhase = "open"
    /\ opsPhase' = "gather"
    /\ cancelReq' = [o \in Ops |-> cancelReq[o] \/ (status[o] \in Active /\ ~TaskOver(o))]
    /\ UNCHANGED <<vars, status, model, okey, bound, task, cpc, cop, seen, abandoned>>

OpsShutdownEnd ==
    /\ opsPhase = "gather"
    /\ \A o \in Ops : status[o] \in Active => TaskOver(o)
    /\ status' = [o \in Ops |-> FinishCancelledIfActive(o)]
    /\ opsPhase' = "closed"
    /\ UNCHANGED <<vars, model, okey, bound, task, cancelReq, cpc, cop, seen, abandoned>>

-----------------------------------------------------------------------------
OpStep(o) == RunDrain(o) \/ CancelledUnstarted(o) \/ DrainStep(o) \/ CancelledInDrain(o)

CallerStep(c) ==
    \/ \E o \in Ops, k \in Keys, i \in IdemKeys \cup {NoKey} : SubmitAndWait(c, o, k, i)
    \/ \E i \in IdemKeys : ReplayAndWait(c, i)
    \/ \E o \in Ops : Cancel(c, o)
    \/ WaitReturns(c)
    \/ WaitCancelledByCaller(c)
    \/ CancelReturns(c)
    \/ CancelAbandoned(c)
    \/ CancelLeaves(c)

\* Steps of the residency manager that no operation takes part in.  aclose()
\* shuts the operation manager down first.
ResidencyStep ==
    /\ \/ \E u \in Users : UserStep(u)
       \/ \E k \in Keys : LoadEnds(k)
       \/ \E a \in Unloaders \ Ops : AdminStep(a)
       \/ opsPhase = "closed" /\ Shutdown
    /\ UNCHANGED opVars

OpsAtRest ==
    /\ AtRest
    /\ \A c \in Callers : cpc[c] = "out"
    /\ UNCHANGED opVars

OpsNext ==
    \/ \E o \in Ops, k \in Keys, i \in IdemKeys \cup {NoKey} : SubmitDrain(o, k, i)
    \/ \E o \in Ops : OpStep(o)
    \/ \E c \in Callers : CallerStep(c)
    \/ OpsShutdown
    \/ OpsShutdownEnd
    \/ ResidencyStep
    \/ OpsAtRest

OpsSpec == OpsInit /\ [][OpsNext]_allVars

\* Tasks that can run do, backends answer, and the drain of an operation has a
\* timeout (DrainAbandoned in DrainStep): no lease need ever end.
OpsFairness ==
    /\ \A o \in Ops : WF_allVars(OpStep(o))
    /\ \A c \in Callers : WF_allVars(WaitReturns(c) \/ CancelReturns(c))
    /\ \A k \in Keys : WF_allVars(LoadEnds(k) /\ UNCHANGED opVars)
    /\ \A a \in Admins \ Ops :
          WF_allVars((BackendUnloadEnds(a) \/ DrainIdle(a) \/ DrainAbandoned(a)) /\ UNCHANGED opVars)
    /\ WF_allVars(OpsShutdownEnd)

OpsFairSpec == OpsSpec /\ OpsFairness

-----------------------------------------------------------------------------
(* Properties.                                                             *)

OpsTypeOK ==
    /\ TypeOK
    /\ status \in [Ops -> {"none"} \cup Active \cup Terminal]
    /\ model \in [Ops -> Keys]
    /\ okey \in [Ops -> IdemKeys \cup {NoKey}]
    /\ bound \in [IdemKeys -> Ops \cup {NoOp}]
    /\ task \in [Ops -> {"none", "new", "running", "ended", "cancelled"}]
    /\ cancelReq \in [Ops -> BOOLEAN]
    /\ cpc \in [Callers -> {"out", "waiting", "cancelling", "leaving"}]
    /\ cop \in [Callers -> Ops]
    /\ seen \in [Callers -> {"none", "raised"} \cup Active \cup Terminal]
    /\ opsPhase \in {"open", "gather", "closed"}
    /\ abandoned \in BOOLEAN

\* Operations, their cancellation and the shutdown order are behaviours of the
\* residency manager with operations among its callers: what is shown of the
\* manager alone (leases, single transitions, counts) holds under them.
ImplementsResidency == Spec

\* A terminal status is final: a canceller that resumes after the drain ended
\* does not overwrite what the drain reported, and a second one adds nothing.
TerminalIsFinal ==
    [][\A o \in Ops : status[o] \in Terminal => status'[o] = status[o]]_allVars

\* An operation whose record is running is inside unload(), and no other is: a
\* record left draining by an ended or cancelled operation would have no owner.
RunningIffDraining ==
    \A o \in Ops : status[o] = "running" <=> apc[o] # "out"

\* docs/architecture/adr-001: "Cancelling a drain restores a still-loaded
\* residency to `ready` rather than leaving it stuck in `draining`."
CancelRestoresReady ==
    [][\A o \in Ops :
          /\ status[o] = "running" /\ status'[o] = "cancelled"
          /\ apc[o] \in {"draining", "unloading"}
          /\ loaded'[model[o]]
          => state'[model[o]] = "ready"]_allVars

\* An active record has a task that will end it, or somebody in cancel() or
\* shutdown() who will.  Only a canceller that is itself cancelled can leave
\* one behind, and then only an operation that never started.
ActiveIsOwned ==
    \A o \in Ops :
        status[o] \in Active /\ TaskOver(o) =>
            \/ \E c \in Callers : cpc[c] = "cancelling" /\ cop[c] = o
            \/ opsPhase = "gather"
            \/ abandoned /\ status[o] = "pending"

\* One operation per idempotency key, however submissions, waits and
\* cancellations interleave.
OneOperationPerKey ==
    \A o, p \in Ops : o # p /\ okey[o] = okey[p] => okey[o] = NoKey

\* cancel() and submit_drain_and_wait() return terminal records: "run a
\* recorded drain to a terminal state".
ReturnedIsTerminal ==
    \A c \in Callers : seen[c] \notin Active

\* When shutdown() returns no operation is active and none of its tasks is in
\* unload(), so that the residency manager closes without them.
OpsClosedClean ==
    opsPhase = "closed" =>
        \A o \in Ops : status[o] \notin Active /\ apc[o] = "out" /\ task[o] \notin {"new", "running"}

\* The bookkeeping of operations against the drains they stand for: records,
\* tasks, keys and unload() calls agree, and shutdown() leaves none behind.
OpsSound ==
    /\ OpsTypeOK
    /\ RunningIffDraining
    /\ ActiveIsOwned
    /\ OneOperationPerKey
    /\ OpsClosedClean

\* Every operation ends, whatever its model's users do, as long as nobody else
\* unloads (one failing unload after another could keep it joining) and no
\* canceller is cancelled.
EveryOperationEnds ==
    \A o \in Ops : status[o] \in Active ~> status[o] \in Terminal \/ abandoned

\* Every cancel() returns.
EveryCancelReturns ==
    \A c \in Callers : cpc[c] = "cancelling" ~> cpc[c] # "cancelling"

\* Neither a drain nor the cancellation of one lasts for ever.
OperationsEnd == EveryOperationEnds /\ EveryCancelReturns
=============================================================================
