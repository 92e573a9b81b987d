# LewLM in TLA+

LewLM is local-first AI middleware: one asyncio process, reached over HTTP, from
the command line or as a Python library, owns the models of a machine and serves
every application on it. What is hard about it is not inference, which native
libraries do, but sharing: requests compete for slots and cache pages, models are
loaded and unloaded under requests that use them, identical requests share an
execution, clients cancel, disconnect and come back.
This directory specifies that part in TLA+, checks it with TLC and proves its main
safety properties with TLAPS. Paths below are relative to `src/src/lewlm/`.

## 1. Inventory

### Parts that carry the core logic

| Part | State | Operations | What makes it hard |
|---|---|---|---|
| Admission scheduler, `runtime/scheduler.py` (`RuntimeRequestScheduler`) | queue of waiters with a future each, slot and depth counters per lane | `acquire`, `release` with its dispatch loop, withdrawal on timeout, cancelled token, cancelled task | a grant races the wake-up that withdraws it; the `finally` block of `acquire` awaits once more |
| Frontier batch scheduler, same file | a queue, a drain task and a wake event per batch key | `enqueue`, `_drain`, `_take_batch` | callers arrive while a drain ends; a failing batch; a caller that is gone |
| Cancellation handles, `runtime/cancellation.py` | active, pending and terminal tables; a flag and waiters per token | `track`, `cancel`, `_release`, `wait_cancelled`, checkpoints | called from threads and from the loop; a cancel may overtake its request; bounded tables, ownership |
| Residency manager, `runtime/residency.py` | a record per (runtime, model): state, lease and promise counts, idle and lifecycle events | `ensure_loaded`, `acquire`, `warm`, `unload` with and without drain, `shutdown`, the shared load task | every operation suspends; waiters, drains and the sweep can each be cancelled there; backends fail and are also called directly |
| Lifecycle operations, `runtime/operations.py` | a record and a task per drain, idempotency table | `submit_drain`, `submit_drain_and_wait`, `cancel`, `shutdown` | cancel races the end of the drain; a task cancelled before its first step; cancellers that are cancelled |
| Chat execution, `core/chat.py`, `core/chat_streams.py`, `core/serving_core.py`, `api/routes/chat.py` | admission, lease, producer task and a queue of one per stream; a sequence per request; the response that reads it | `complete`, `stream`, both in batches, opening, reading and closing a response | what is given back, in which order, on which exit; producer and reader wait for each other |
| Text runtime and paged KV, `runtime/mlx_text/runtime.py`, `runtime/paged_kv.py` | controllers with pending and active requests; pages with reference counts, reservations | `enqueue`, the controller's loop, native batches, direct calls, load and unload; `reserve`, `release`, `unregister_model`, eviction | shared pages, repeated chunks, a budget that may be exceeded; failures with requests in hand; unloading while decoding |
| Coalescer and routed execution, `runtime/request_coalescer.py`, `core/multimodal.py`, `runtime/response_cache.py` | a future per key in flight, cached answers, a queue and a drain task of embeddings | `claim`, `resolve`, `reject`; `embed`, `rerank`, `transcribe_audio`, `synthesize_speech` | owner or joiner cancelled; one backend call answers many requests |
| Conversion service, `conversion/service.py` with `storage/metadata.py` | job, artifact and idempotency rows; an output directory; an executor | `submit`, the worker, `close`, `clear_cache` | rows and files survive the process, workers do not; checks and writes of several threads |
| Event bus, `events/bus.py` and `api/routes/events.py` | sequence number, bounded replay buffer, a queue per subscriber | `publish`, `publish_threadsafe`, `subscribe` with a cursor, streams | a reconnect races publications and eviction; cursors of an earlier process |

The remaining parts are listed in `PROJECT.json` with the reason each is left out, and
in section 6.

### How they interact

A request enters through the HTTP middleware, which tracks its handle
(**Cancellation**) for as long as the response body lasts. A chat request
(**ChatExecution**) takes a slot from the **scheduler**, alone or as a batch, which waits
on the waiter's future and on the token's `wait_cancelled()` at once, then a lease from
the **residency manager**, which loads the model through a second instance of the same
scheduler, and then calls the runtime; the MLX text runtime (**TextBatching**) runs it in
a controller that several requests share and reserves cache pages for it (**PagedKV**).
Leases and slots are given back when the request ends. Embeddings, reranks, transcriptions
and speech (**RoutedExecution**) first claim their cache key, and only the owner of the
key executes. **Operations** call `unload(drain=True)` of the residency
manager from background tasks; the container shuts operations down first, then the
residency manager, then the runtimes. Cleanup policies call `unload(drain=False)`.
**Conversion** runs in threads beside the loop. Everything publishes on the **event bus**.

### Correctness, part by part

* Scheduler: the counters by which admission decides are true; limits are kept; no
  slot stays free beside a waiter that could use it; first come first served within a
  class; no cancelled request is admitted; a waiter that no rule lets others pass is served
  whatever comes, and one that decode priority or isolation lets others pass is served
  unless they keep taking the slots for good.
* Cancellation: a handle has one meaning; only its owner cancels it; a cancel that
  comes first is not lost; a waiter cannot sleep through the signal.
* Residency: one transition per model at a time; leased models stay loaded; the
  lease count is exact and a record never counts more promises than callers hold; drains
  and shutdown end.
* Operations: a record ends once, always has somebody to end it, and its drain leaves
  the model usable when cancelled; nothing is added to what the residency manager does.
* Chat: slots and leases are held exactly by jobs at work; the terminal event and the
  serving core agree and are not taken back (but see section 4, 6); every caller is
  answered and no producer stays blocked on a reader that left.
* Text runtime: the page books add up; a request that is decoded has its pages, and a
  reservation has somebody to release it; every caller is answered (but see section 4, 8).
* Routed execution: a key is executed once at a time and not again once answered, by
  one owner; everyone gets its own key's answer; a claim has somebody to settle it.
* Conversion: no job is reported completed on a missing or half-written output (what an
  interrupted removal leaves is another matter: section 4, 11); a retried request starts
  nothing; a job that has a worker ends.
* Events: each event reaches a client exactly once and in order, or the client is told.

`PROJECT.json` lists the hazards, each at its line with the properties that cover it.

## 2. Modules

| Module | Models | Actions |
|---|---|---|
| `Scheduler` | `RuntimeRequestScheduler` | one per run of code between two awaits of `acquire` (`AcquireGranted`, `AcquireQueued`, `AcquireRejected`, the wake-ups, `Reaped`, `TaskCancelled...`), `Release`, one `DispatchGrant` per iteration of the dispatch loop |
| `Residency` | `ModelResidencyManager` | one per run between suspension points: calls of users, the load task, callers of `unload`, the sweep, direct backend calls |
| `Operations` | the operation manager, EXTENDS `Residency` | submissions, the background task, waits, cancels, shutdown; an operation *is* one of the residency manager's callers of `unload` |
| `Cancellation` | registry and token | one per registry call; `cancel` is two steps, because the flag is set before the waiters are taken under another lock |
| `ChatExecution` | chat requests from the call to the HTTP response, with frontier batches | a *job* is one execution, of a request or of the batch its first member leads: `Acquire`, `EnterLease`, `Prepare`, `RunComplete`, `CompleteSome` (verdicts published one member at a time, with the rest still able to raise), the producer (`Delta`, `Finish`, `LastItem`, `Killed`), batched producers (`BatchSome` likewise), every failure; the response (`TakeItem`, `Opened`, `Begin`, `Forward`, `SeeCancel`, `Disconnect`) |
| `PagedKV` | `PagedKVResidencyManager` | no variables: each method is an operator from books to books (the manager's lock makes it one step) |
| `TextBatching` | the text runtime, EXTENDS `PagedKV` | callers; controllers, one per capability, model and temperature, and the stages of their tasks (`InsertPending`, `Sweep`, `Generate`, `GenerateFails`, `Fail`, `Finally`); direct calls and any number of native stream batches; `Load`, `Unload` |
| `SingleFlight` | abstract: what coalescing promises | `Ask`, `Launch`, `Land` with `End` |
| `RoutedExecution` | coalescer, response cache, executions and the embedding drain | claim or join, the stages of `_execute` and of a batch, failures, cancellations |
| `Conversion` | the conversion job service over its persisted rows and files | one per statement of the store, copy into place or part of a removal, in `submit`, in the worker and in `clear_cache` (`ClearStarts` to `ClearStops`, a process of its own); every error between them (`SubmitFails`, `StartFails`, `FailUnrecorded`); `Close`, `Restart` |
| `EventBus` | bus, replay and a reconnecting client | publish, hand-off from a thread, subscribe, resume, read, disconnect, process restart |
| `SequenceFilter` | dropping entries from an ordered table or buffer, used by `Cancellation`, `EventBus`, `PagedKV` and `TextBatching` | one operator |
| `SchedulerProofs`, `OperationsProofs` (with the residency manager), `ChatExecutionProofs`, `TextBatchingProofs` (with the page books), `RoutedExecutionProofs`, `ConversionProofs` | theorems about the module of that name | |
| `ServiceProofs` | theorems about `Cancellation` and `EventBus` | |
| `SequenceFacts` | induction, recursion, and the lemmas on sequences that those proofs share | |
| `MC...` | instances for TLC | |

The map in `PROJECT.json` gives the source lines of each definition; where one
definition stands for several alike paths (the four executions of a chat request, the
three non-batched routed requests, the two controllers) it names one of them. An
operator whose comment begins with "Mutant:" is never used by a specification. It is a
plausible bug in the operator after it, kept to show that a property would notice.

**Atomicity.** One event loop runs all tasks, so code between two awaits is one step.
The locks of the residency and operation managers are never held across an await, and an
`asyncio.Lock` that nobody holds across an await does not suspend. Tasks that are ready
to run are resumed in any order, an over-approximation of the
loop's queue. The dispatch loop of the scheduler runs in one piece in the code; it is
split into iterations in the model, with `dispatching` keeping everyone else out; `busy`
does the same for a controller of the text runtime.
Cancellation's registry calls may come from any thread and are atomic by its lock.
Conversion runs in threads, and `clear_cache` in the process of the command line: a step
is one statement of the store, one copy into place, or part of a removal, which may stop
anywhere. Where a call looks at the artifact row and at the path it names, it does so in
one step. The other way round, publishing the verdicts of a chat job does not suspend, but
is split (stage `concluding`): a raise between two of them is what section 4, 6 is about.

**What is abstracted.** Statistics and timestamps that no branch reads; the values of
timeouts (they may fire at any suspension); payloads; audit records. A model, handle,
credential, topic, cache key or idempotency key is a member of a set; a prompt is a
sequence of tokens, since pages are cut from it. Application ids are left out
of Cancellation because the code compares credentials only. Backends
(`load_model`, `unload_model`, `is_model_loaded`, generation, conversion) are external:
they answer, fail, or are interrupted. In ChatExecution and RoutedExecution the scheduler
is the number of its slots and the residency manager the set of leases, as the theorems
of the modules for them justify; an acquisition may fail or be cancelled.

**History variables.** Where the code leaves something behind, the model records it
(`stuck`, `stray`, `forgotten`, `unclosed`, `again` in ChatExecution; `lost`, `leaked`,
`twice` in TextBatching; `leaked`, `abandoned`, `leftover` in RoutedExecution;
`orphans`, `overlap` in Conversion), and the properties hold *except* for exactly that.
Each is set only where the code takes that path, and section 4 lists them:
the properties say that nothing else is left behind. Conversion has also outputs in the
state `torn`, what an interrupted removal leaves.

## 3. Runs

| Run | Question | Instance |
|---|---|---|
| `sched_safety` | books, limits, order, cancellation | 4 requests, 2 slots, queue of 2, decode priority and prefill isolation on |
| `sched_live` | is every waiter served, or passed for ever by rivals the rules prefer | 3 requests, the same limits, fairness |
| `sched_leak` (violated) | is a slot granted to stopped work handed back | 3 requests, 1 slot |
| `resid_safety` | transitions, leases, promises, drains | 1 model, 3 users, 2 callers of unload, the sweep, one direct load and unload, failing loads |
| `resid_live` | do drains, joins and shutdown end, and in which state | 2 models, 2 users, 1 caller of unload, the sweep |
| `ops` | records, cancels, shutdown order, refinement of `Residency`, termination | 1 model, 1 user, 2 operations, 1 caller, 1 idempotency key |
| `cancel` | meaning, ownership, intents, waiters | 2 handles, 2 requests, 3 owners and the host, tables of 1 |
| `chat` | what jobs hold, verdicts, ends of streams | 2 or 3 requests in five mixes, 2 slots, batches of 2, 1 delta, `aggressive_unload` |
| `text` | page books, reservations, answers | 3 requests in four mixes, one of them with two temperatures, prompts that share a page and one that repeats it, pages of 2 tokens, 4 pages, batches of 2, 2 loads |
| `routed` | one execution per key, claims, leases, refinement of `SingleFlight`, answers | 3 requests over a single key and embeddings of one and of two inputs in five mixes, 2 slots, `aggressive_unload` |
| `convert` | completed means whole, retries, ends | 3 calls of submit, 2 workers, one upset |
| `bus` | exactly once or told | 1 client, 2 topics, 5 events, buffer of 0 or 2, 2 processes |

**Why the bounds are enough to be interesting.** *Scheduler:* four requests on two slots
and a queue of two fill both, overflow the queue and leave a waiter of each lane, so
decode priority, isolation and overtaking all happen; `MaxAbandoned` bounds the tasks
that die in the `finally` block. *Residency:* records of different keys share nothing but
the closing flag and the sweep, so one model with many actors is where races are, and two
models exercise the sweep. `MaxDirectUnloads` and `MaxDirectLoads` bound the calls that
bypass the manager. *Operations:* two operations collide on one model, on one idempotency
key and on one canceller. *Cancellation:* tables of one make every second handle evict the
first; two requests make every reuse of a handle. *Chat:* requests meet through slots,
leases and batches only; pairs of each kind, and three complete requests over batches of
two for the respawned drain. `MaxDeltas` of one fills the queue of one with the end still
to come, and `aggressive_unload` is the policy under which finalisation can fail.
*Text:* three requests overfill four pages, so eviction, overflow and reuse all happen;
`MaxLoads` bounds the reloads and `Gens` lets a closing controller and its successor exist
together. *Routed:* three requests are an owner, a joiner and a stranger in one batch.
*Conversion:* two calls under one key and a forced one; `MaxUpsets` bounds the
upsets: a restart, a `close`, a `clear_cache` (which may stop anywhere), or an error in
`submit`, at the start or at the end of a worker. Conversions, removals and copies fail
without a bound. *Events:* five events over a buffer
of two pass every boundary of the eviction arithmetic, and clients do not affect each
other, so one is enough. Symmetry is used in runs without liveness only.

**Fairness.** *Scheduler:* tasks that can run do, and holders release. Strong fairness
is needed where a step is disabled and enabled again while another task holds the
dispatch lock; the loop's FIFO queue gives more than that. *Residency:* weak fairness of
resumed tasks, backend calls and lease bodies, since a request is bounded by its runtime.
None of timeouts, cancellations, fresh calls or direct calls. *Operations:* tasks,
backend calls and the drain's timeout; no lease need ever end. *Cancellation:* a `cancel`
in progress finishes, and a resolved future wakes its task. *Chat, text, routed:* ready
tasks run, backends go on or fail, and the server reads a stream while its client is
there; nobody has to call, cancel or disconnect, and the garbage collector never has to
run. *Conversion:* threads run and a conversion ends, since the sandbox gives its tool a
time limit. The bus has no liveness claim.

**Deadlock** is checked in the runs of the scheduler, residency, operations, cancellation
and the bus, where explicit `AtRest` actions stand for the states in which everything is
shut down. In `chat`, `text`, `routed` and `convert` each request comes once, and the
system really stops when all have ended; their liveness properties show that it stops
with everybody answered.

## 4. What was found

1. `sched_leak`: the `finally` block of `acquire()` awaits the cancellation waiter's end
   before the waiter has been withdrawn or its grant taken. A task cancelled at that await
   leaves with nothing withdrawn: the slot it has, or is given later, is never released.

The following are in the models, named there by a history variable or excluded by an
instance; no property claims the contrary.

2. `runtime/residency.py:685`: `_perform_load` sets the idle event without looking at
   `active_usage_count`. After a direct backend unload under a lease and a reload, a drain
   can unload while the lease is active. `resid_live` therefore has no direct unload.
3. `runtime/residency.py:284`: `_release_pending` finds the record by key. A waiter of a
   failed load that resumes after a new load has begun takes the new caller's promise, and
   cleanup may then unload the model between ready and its first lease. `resid_live`
   therefore assumes that loads succeed, and `CountsTrue` bounds promises from above only.
4. `core/chat.py:1900`: a stream whose set-up fails does not leave its lease (`stray`), and
   the clean-up awaited before `admission.release()` raises under `aggressive_unload` while
   anybody holds a lease: the slot is gone (`stuck`). In a batch (`:2422`) the members are
   then not concluded either (`forgotten`). A caller cancelled during set-up releases
   neither, and the sequence of a cancelled request stays active in the serving core.
5. `api/routes/chat.py:606`: a request cancelled, or a client gone, before the generator's
   first step leaves the source unclosed (`unclosed`), to the garbage collector; until then
   the producer keeps its slot and lease.
6. `core/chat.py:2649`, `:1685` and `:1352`: a batch, streamed or complete, or a single
   `complete()` that raises after it published some verdicts fails those members again
   (`again`).
7. `runtime/paged_kv.py:195`: a prompt that repeats a chunk puts its page in place with one
   reference and gives back two (`twice`); the page becomes evictable while others use it.
8. `runtime/mlx_text/runtime.py:270`: requests in hand when insertion fails are in neither
   collection and are never answered (`lost`); reservations made before preparation fails
   stay (`leaked`). `:206`: a finished request leaves `_active` before its tokens are
   decoded; if decoding raises, it is neither answered nor released (both). A native stream
   batch whose generator cannot be closed keeps its reservations. A stream whose controller
   is closed waits on its queue for ever.
9. `core/multimodal.py:404` and its likes: an owner that is cancelled leaves its key
   claimed (`abandoned`), and identical requests wait for good; cancelling one waiter
   cancels the shared future for all of them. Finalisation that raises loses the response
   and the slot (`leaked`) and ends the drain task with items queued (`leftover`).
10. `conversion/service.py:240`: a row that is queued or running without a worker is
    joined by every later request and never ends (`orphans`). It is left by an earlier
    process, by `close`, by an error between the row and the executor (`:370` to `:384`), by
    one at the worker's start (`:476`, before its `try`) or when a failure cannot be
    recorded. Two calls that decide at once
    queue two jobs for one output (`overlap`), of which one may remove what the other wrote.
11. `conversion/service.py:127`, `:655` and `:760`: a removal that stops half way
    (`clear_cache`, a forced job, the clean-up of a copy) leaves files, in the first two
    cases with the artifact row. If they still look runnable, a later request completes on
    them.

That prefills can be passed for ever under decode priority, and isolated ones by anything,
is how the scheduler is meant; `EventuallyServed` says that nothing else holds them up.

## 5. Proofs

All theorems hold for every value of the constants that satisfies the named assumption
of the module (`SchedulerAssumption`, `ResidencyAssumption`, `OperationsAssumption`,
`CancellationAssumption`, `ChatAssumption`, `KVAssumption`, `TextAssumption`,
`RoutedAssumption`, `ConversionAssumption`, `EventBusAssumption`): finite sets of tasks where something is counted, natural-number
limits, distinguished names. Each is evaluated by TLC, and each inductive invariant was
checked by TLC before it was proved.

**Scheduler.** `BaseInv` adds to the types the shape of a task (a future exists exactly
in the states that have one) and that the queue lists the pending tasks once each. On top
of it `Books` (counters equal cardinalities) is inductive, by lemmas on what one grant, one
release, one withdrawal do to the cardinalities. `WorkConserving` is not inductive: it
speaks of queue positions while steps move tasks, so `NoServableWaiter` restates it of
pending tasks, and that raising a counter never makes a request grantable carries it
through. `LimitsHold` needs the books, `NoOvertaking` and `CancelledNeverAdmitted` are
action properties from `BaseInv`.

**Residency** (first part of `OperationsProofs`). `OneTransition` is inductive with the
types. `DrainNotStranded` is
strengthened to `IdleComplete`, which also speaks of the ready records a drain starts from
and the unloading ones that a cancelled unload makes ready again. `LeaseProtected` and
`UsageCounted` follow from `LeaseInv`: per key, as long as nobody unloads directly, the
count equals the number of holders, a holder implies ready or draining and loaded, and a
set idle event implies that the count is zero. `PromisesNotLeaked` counts the callers that
are still inside `ensure_loaded`. `CountsTrueHolds` joins the two: leases
exactly, promises from above. `DrainsComplete` and
`CleanupSparesPromised` are false after a failed load or a direct unload (section 4, 2 and
3); the theorems state them of the states with neither (`Smooth`). There `PromiseAt` turns
the bound on promises into an equality: a record that is idle, going or gone has no waiter,
and one that is loading has only this load's. Shutdown adds `SweepInv`: whatever is used
or waited for after closing is still listed for the sweep, or the sweep is at it.

**Operations.** `OpsImplementsResidency` maps every step of the composition to a step of
the residency manager or a stutter, so the theorems above hold under operations
(`OpsLeaseProtected` is one). Its own invariant `OpInv` pairs status and task of each
record and says who will end a record whose task was cancelled; `RunningIffDraining` and
`SameModel` tie the record to the call of `unload`. `OpsSoundHolds` joins what is proved
of the records.

**Cancellation.** `OneMeaning` and `OwnerOnly` are inductive together with
`ObservedIsCancelled` (a checkpoint acts only on a token whose flag is set). The work is in
the tables: what expiry, removal and eviction leave in a bounded ordered table. The action
property about intents follows from the same invariant. `NoWakeUpLost` needs `WaiterKnown`
beside it: a listed waiter with the flag set exists only between the two halves of
`cancel()`, since the second look at the flag lists nobody whose token is flagged. (This
part and the event bus are in `ServiceProofs`.)

**Chat.** `HeldByWork` and `VerdictsAgree` speak of jobs, steps are taken by members of
teams, so `ChatInv` first says who is where (`Teams`: a request waits in one queue, once,
or is a member of one job), then what jobs at work hold (`Held`), then that the members of
a job that has not concluded are undecided (`Verdicts`). Without the first layer two jobs
could conclude one request. Members are concluded one by one, so `PartFrame` carries
`Verdicts` through a job of which some are. `VerdictStands` is an action property from it;
the members a raising job fails again are in `again` and exempt.

**Text batching and page books.** `PagedKV` has no state of its own, so its lemmas are about
operators on books. `KVInv` has the types, `Balanced` (the transient count and each page's
references are what the reservations in force use, and a referenced page is resident; except
for the pages in `twice`, section 4, 7) and `TightWhenOver` (over `max_pages` only if every
resident page is referenced). The sums are folds over sets: their value does not depend on
the order of the fold and grows by one term with each reservation, by induction on finite
sets. Eviction takes unreferenced pages only, so `Balanced` survives it, and stops either
within the limit or with nothing left to take. From these follow what `reserve`, `release`
and dropping a model do, and with the recursive functions `ReserveAll` and `ReleaseAll` the
same for a batch. `TextInv` adds who has the reservations: a queued request has none, an
entry of a batch belongs to this controller alone and is of its capability and model, a
controller without a task has no batch. Without that, one controller's release could give
back what another one decodes. `BatchInv` says the same of the native stream batches, which
share no request. `BooksAddUp` and `DecodedIsReserved` are the two checked
invariants; `RestedCacheFits` says what they amount to once all have ended and nothing
is in `leaked`: nothing reserved, and the cache within its limit. `WaitersAreKnown` needs `WaiterInv` as well: what
a controller lets go of is answered, recorded as lost, or of a caller that left.

**Routed execution.** The centre of `RoutedInv` is ownership: whoever is at work for a key
(an execution, an item queued or in a batch, an owner that left its claim) is the request
whose future the table keeps under that key, so settling one claim takes nothing from
another. `ClaimHasWorker`, `HeldByExecution` and `CancelStaysInFlight` are conjuncts of
it. `ImplementsCoalescing` is the refinement of `SingleFlight`, step by step; it needs
`Answers` (a settled claim has its own key's response, and a key in flight is not cached)
and, for batches, that the slices cut from the answer of one backend call are the
answers of its items, for every number and size of them (`FlattenSlice`).

**Conversion.** `ConvInv` follows a job from the call that creates it to its worker
(`Placed`), says that an answered key is recorded (`Answered`), and what the absence of
overlap buys (`Alone`): one live job at most, none while a call looks at the output, and
every half-written output under a row that is still running. The last is what makes
`WholeUnlessOverlap` survive a crash: the row of an interrupted copy stays running, so a
later call joins it instead of trusting the files. The price is finding 10. Of outputs torn
by a removal (finding 11) the theorem says nothing, as the code cannot tell them from whole
ones.

**Event bus.** `BusInv` says what the buffer holds (the last events without a gap), what a
client's history covers (everything it subscribed to up to its cursor, also while it is
away) and what its queue covers (everything after). The three meet in the subscription with
a cursor, where the eviction arithmetic decides what is replayed and what is reported lost.

**Induction over data.** The library's induction theorems are not usable here, but its
theorem that a well-founded relation has minimal elements is: a non-empty set of naturals
has a least element (`LeastNatural`), so a set with 0 and closed under successor is all of
them (`SetInduction`). With it `SequenceFacts` proves that a recursive function on an
interval exists and unfolds (`RecursionExists`), what `Filter` keeps, and where
`FlattenSeq` lays its parts; `TextBatchingProofs` lifts it to finite sets
(`SubsetInduction`) for the sums of the page books. The models use recursive functions, not
operators, where something is proved of them.

**Only model-checked.** Every invariant and every action property of a passing run is also
a theorem (`DrainsComplete` and `CleanupSparesPromised` of the states described above). What
stays with TLC is liveness, since TLAPS does not reason about fairness or ENABLED:
`EventuallyServed`, `WaiterWakes`, `WaitsEnd`, `OperationsEnd`, `EveryStreamEnds`,
`EveryRequestEnds` (of routed requests and of the text runtime) and `JobsEnd`. For four of
them a theorem has the safety half, that whoever waits is where somebody will find it:
`WorkConserving` for the scheduler, `NoWakeUpLost` for tokens, `ClaimHasWorker` for claims,
`WaitersAreKnown` for the text runtime.

## 6. What is not modelled

The map covers a small part of the repository's lines: those that take and return resources,
suspend, or persist. The rest is, by size: telemetry reports and the command line;
descriptions of capabilities, settings and contracts (data classes); adapters, native
runtimes and their options (one call of an external library each); routing and registry
(stateless scoring, file scans); parsing and rendering of documents, prompts and structured
output; conversion tools. They keep no state that several actors share, so a model would
repeat the code, not check it. The prefix cache (`runtime/prefix_cache.py`) is called from
the event loop only and keeps the payload in the entry; its page books describe size. Its
persistent store (`storage/prefix_cache_store.py`) writes files in place, and the table of
idempotent tool results (`tools/service.py`) guards effects outside the process: both are
listed as hazards without a property.

## 7. Checking it

In this directory, `tlc -config MCScheduler_safety.cfg MCScheduler` and likewise for the
other configurations; `tlapm SchedulerProofs.tla` and likewise for the other proof modules.
