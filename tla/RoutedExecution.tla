-------------------------- MODULE RoutedExecution --------------------------
(***************************************************************************)
(* Embedding, rerank, transcription and speech requests as                 *)
(* core/multimodal.py runs them: identical requests share one owner        *)
(* through runtime/request_coalescer.py, answers are kept in               *)
(* runtime/response_cache.py, and embeddings of one model are gathered     *)
(* into batches by a drain task.                                           *)
(*                                                                         *)
(* A future is named by the request that created it.  Claiming, publishing *)
(* and leaving a lease never suspend, so a step ends where the code awaits *)
(* admission, a lease, the backend, the shared future or the final unload. *)
(***************************************************************************)
EXTENDS Integers, Sequences, SequencesExt, FiniteSets

CONSTANTS
    Requests,   \* calls of embed, rerank, transcribe_audio, synthesize_speech
    Keys,       \* cache keys
    Inputs,     \* embedding keys: number of inputs; other keys: 0
    Asks,       \* which key each request asks for
    MaxSlots,   \* max_concurrent_requests of the scheduler
    Policy,     \* runtime_policy
    None        \* no request

ASSUME RoutedAssumption ==
    /\ Inputs \in [Keys -> Nat] /\ Asks \subseteq [Requests -> Keys]
    /\ MaxSlots \in Nat \ {0}
    /\ Policy \in {"keep_warm", "balanced", "aggressive_unload"}
    /\ None \notin Requests

VARIABLES
    keyOf,      \* the cache key of each request
    futures,    \* _futures: the future of each claimed key
    future,     \* state of the future a request created
    result,     \* and its result
    cache,      \* runtime_response_cache
    at,         \* where the request is
    shared,     \* the future it waits for
    outcome,    \* how its execution ended, while the finally block runs
    status,     \* how the request ended
    answer,     \* the response it was given
    pending,    \* _pending_embedding_batches of the model
    drain,      \* where the drain task is
    batch,      \* the items it took
    held,       \* requests holding an admission; a batch's first item for the batch
    leased,     \* requests with a residency lease
    gone        \* requests whose caller was cancelled
VARIABLES       \* history: what the code leaves behind
    leaked,     \* admissions that were never released
    abandoned,  \* owners that left their key claimed
    leftover    \* items queued when a drain task raised

table     == <<futures, future, result, cache>>
request   == <<at, shared, outcome, status, answer>>
batching  == <<pending, drain, batch>>
resources == <<held, leased>>
vars      == <<keyOf, table, request, batching, resources, gone, leaked, abandoned, leftover>>

Init ==
    /\ keyOf \in Asks
    /\ futures = [k \in Keys |-> None]
    /\ future = [r \in Requests |-> "none"]
    /\ result = [r \in Requests |-> <<>>]
    /\ cache = [k \in Keys |-> <<>>]
    /\ at = [r \in Requests |-> "new"]
    /\ shared = [r \in Requests |-> None]
    /\ outcome = [r \in Requests |-> "none"]
    /\ status = [r \in Requests |-> "new"]
    /\ answer = [r \in Requests |-> <<>>]
    /\ pending = <<>> /\ drain = "none" /\ batch = <<>>
    /\ held = {} /\ leased = {} /\ gone = {} /\ leaked = {} /\ abandoned = {}
    /\ leftover = {}

\* The vectors an embedding key stands for, one per input; other responses are
\* one value.
Response == [k \in Keys |-> [i \in 1 .. IF Inputs[k] = 0 THEN 1 ELSE Inputs[k] |-> <<k, i>>]]

Embeds(r) == Inputs[keyOf[r]] > 0
Executing == {"lease", "prepare", "invoke"}

KeysOf(S)    == {keyOf[r] : r \in S}
FuturesOf(S) == {futures[k] : k \in KeysOf(S)}

\* resolve and reject pop the key and set the future unless it is done.
SetFutures(S, state) ==
    /\ futures' = [k \in Keys |-> IF k \in KeysOf(S) THEN None ELSE futures[k]]
    /\ future' = [f \in Requests |-> IF f \in FuturesOf(S) /\ future[f] = "pending" THEN state ELSE future[f]]

Return(r, how, value) ==
    /\ at' = [at EXCEPT ![r] = "over"]
    /\ status' = [status EXCEPT ![r] = how]
    /\ answer' = [answer EXCEPT ![r] = value]
    /\ outcome' = [outcome EXCEPT ![r] = "none"]

-----------------------------------------------------------------------------
(* Claiming a key, and waiting for its future *)

\* A request whose key is claimed waits for the shared future.
Join(r) ==
    /\ at[r] = "new" /\ futures[keyOf[r]] # None
    /\ at' = [at EXCEPT ![r] = "waiting"]
    /\ status' = [status EXCEPT ![r] = "waiting"]
    /\ shared' = [shared EXCEPT ![r] = futures[keyOf[r]]]
    /\ UNCHANGED <<keyOf, table, outcome, answer, batching, resources, gone, leaked, abandoned, leftover>>

\* The owner finds the response cached: it resolves its claim and returns.
Hit(r) ==
    /\ at[r] = "new" /\ futures[keyOf[r]] = None /\ cache[keyOf[r]] # <<>>
    /\ Return(r, "served", cache[keyOf[r]])
    /\ UNCHANGED <<keyOf, table, shared, batching, resources, gone, leaked, abandoned, leftover>>

\* Reading the cache raises: the owner rejects its claim.
LookupFails(r) ==
    /\ at[r] = "new" /\ futures[keyOf[r]] = None
    /\ Return(r, "failed", <<>>)
    /\ UNCHANGED <<keyOf, table, shared, batching, resources, gone, leaked, abandoned, leftover>>

\* The owner of a key without a cached response: an embedding is queued for the
\* drain task, which is started unless it runs; anything else is executed.
Claim(r) ==
    /\ at[r] = "new" /\ futures[keyOf[r]] = None /\ cache[keyOf[r]] = <<>>
    /\ futures' = [futures EXCEPT ![keyOf[r]] = r]
    /\ future' = [future EXCEPT ![r] = "pending"]
    /\ status' = [status EXCEPT ![r] = "waiting"]
    /\ IF Embeds(r)
       THEN /\ at' = [at EXCEPT ![r] = "waiting"]
            /\ shared' = [shared EXCEPT ![r] = r]
            /\ pending' = Append(pending, r)
            /\ drain' = IF drain = "none" THEN "window" ELSE drain
       ELSE at' = [at EXCEPT ![r] = "acquire"] /\ UNCHANGED <<shared, pending, drain>>
    /\ UNCHANGED <<keyOf, result, cache, outcome, answer, batch, resources, gone, leaked, abandoned, leftover>>

\* The future is done: the request returns its result or raises.
Wake(r) ==
    /\ at[r] = "waiting"
    /\ LET f == shared[r] IN
        \/ future[f] = "result" /\ Return(r, "served", result[f])
        \/ future[f] = "failed" /\ Return(r, "failed", <<>>)
        \/ future[f] = "cancelled" /\ Return(r, "cancelled", <<>>)
    /\ UNCHANGED <<keyOf, table, shared, batching, resources, gone, leaked, abandoned, leftover>>

\* Mutant: a cancelled waiter also withdraws the claim.
CancelWaitingFreeing(r) ==
    /\ at[r] = "waiting"
    /\ Return(r, "cancelled", <<>>)
    /\ gone' = gone \cup {r}
    /\ SetFutures({r}, "cancelled")
    /\ UNCHANGED <<keyOf, result, cache, shared, batching, resources, leaked, abandoned, leftover>>

\* Mutant: the cancellation reaches every item of the running batch.
CancelWaitingBatch(r) ==
    /\ at[r] = "waiting"
    /\ Return(r, "cancelled", <<>>)
    /\ gone' = gone \cup {r}
    /\ future' = [q \in Requests |-> IF future[q] = "pending" /\ (q = shared[r] \/ q \in ToSet(batch))
                                     THEN "cancelled" ELSE future[q]]
    /\ UNCHANGED <<keyOf, futures, result, cache, shared, batching, resources, leaked, abandoned, leftover>>

\* The caller of a waiting request is cancelled: the await is on the shared
\* future itself, so it is cancelled too, for everybody.
CancelWaiting(r) ==
    /\ at[r] = "waiting"
    /\ Return(r, "cancelled", <<>>)
    /\ gone' = gone \cup {r}
    /\ future' = [future EXCEPT ![shared[r]] = IF @ = "pending" THEN "cancelled" ELSE @]
    /\ UNCHANGED <<keyOf, futures, result, cache, shared, batching, resources, leaked, abandoned, leftover>>

-----------------------------------------------------------------------------
(* An execution of its own: _execute, and what its caller does after it *)

Acquire(r) ==
    /\ at[r] = "acquire" /\ Cardinality(held) < MaxSlots
    /\ held' = held \cup {r}
    /\ at' = [at EXCEPT ![r] = "lease"]
    /\ UNCHANGED <<keyOf, table, shared, outcome, status, answer, batching, leased, gone, leaked, abandoned, leftover>>

\* The queue is full or the wait timed out: the owner rejects its claim.
AcquireFails(r) ==
    /\ at[r] = "acquire"
    /\ SetFutures({r}, "failed")
    /\ Return(r, "failed", <<>>)
    /\ UNCHANGED <<keyOf, result, cache, shared, batching, resources, gone, leaked, abandoned, leftover>>

EnterLease(r) ==
    /\ at[r] = "lease"
    /\ leased' = leased \cup {r}
    /\ at' = [at EXCEPT ![r] = "prepare"]
    /\ UNCHANGED <<keyOf, table, shared, outcome, status, answer, batching, held, gone, leaked, abandoned, leftover>>

Prepared(r) ==
    /\ at[r] = "prepare"
    /\ at' = [at EXCEPT ![r] = "invoke"]
    /\ UNCHANGED <<keyOf, table, shared, outcome, status, answer, batching, resources, gone, leaked, abandoned, leftover>>

\* The finally block: the lease is left, then finalize_runtime_for_request is
\* awaited.
Finally(r, how) ==
    /\ at' = [at EXCEPT ![r] = "finalize"]
    /\ outcome' = [outcome EXCEPT ![r] = how]
    /\ leased' = leased \ {r}
    /\ UNCHANGED <<keyOf, table, shared, status, answer, batching, held, leaked, abandoned, leftover>>

Invoked(r) == at[r] = "invoke" /\ Finally(r, "response") /\ UNCHANGED gone

ExecuteFails(r) == at[r] \in Executing /\ Finally(r, "raised") /\ UNCHANGED gone

CancelExecuting(r) ==
    /\ at[r] \in Executing
    /\ Finally(r, "cancelled")
    /\ gone' = gone \cup {r}

\* The admission is released; a response is stored and resolves the claim.
Complete(r) ==
    /\ at[r] = "finalize" /\ outcome[r] = "response"
    /\ held' = held \ {r}
    /\ cache' = [cache EXCEPT ![keyOf[r]] = Response[keyOf[r]]]
    /\ SetFutures({r}, "result")
    /\ result' = [result EXCEPT ![r] = Response[keyOf[r]]]
    /\ Return(r, "served", Response[keyOf[r]])
    /\ UNCHANGED <<keyOf, shared, batching, leased, gone, leaked, abandoned, leftover>>

\* The execution raised, or storing its response does: the claim is rejected.
Raise(r) ==
    /\ at[r] = "finalize" /\ outcome[r] \in {"response", "raised"}
    /\ held' = held \ {r}
    /\ SetFutures({r}, "failed")
    /\ Return(r, "failed", <<>>)
    /\ UNCHANGED <<keyOf, result, cache, shared, batching, leased, gone, leaked, abandoned, leftover>>

\* A cancelled owner passes `except Exception': nobody settles its claim.
RaiseCancelled(r) ==
    /\ at[r] = "finalize" /\ outcome[r] = "cancelled"
    /\ held' = held \ {r}
    /\ abandoned' = abandoned \cup {r}
    /\ Return(r, "cancelled", <<>>)
    /\ UNCHANGED <<keyOf, table, shared, batching, leased, gone, leaked, leftover>>

\* The unload raises (a lease of another request, under aggressive_unload): its
\* exception replaces the outcome and the admission is not released.
FinalizeFails(r) ==
    /\ at[r] = "finalize" /\ Policy # "keep_warm"
    /\ leaked' = leaked \cup {r}
    /\ SetFutures({r}, "failed")
    /\ Return(r, "failed", <<>>)
    /\ UNCHANGED <<keyOf, result, cache, shared, batching, resources, gone, abandoned, leftover>>

\* The owner is cancelled while it waits for its admission, or in the unload,
\* where the rest of the finally block is lost as well.
CancelOutside(r) ==
    /\ \/ at[r] = "acquire" /\ UNCHANGED leaked
       \/ at[r] = "finalize" /\ Policy # "keep_warm" /\ leaked' = leaked \cup {r}
    /\ gone' = gone \cup {r}
    /\ abandoned' = abandoned \cup {r}
    /\ Return(r, "cancelled", <<>>)
    /\ UNCHANGED <<keyOf, table, shared, batching, resources, leftover>>

-----------------------------------------------------------------------------
(* The drain task of the model's embeddings *)

Items == ToSet(batch)

\* After a batch the task goes on while there is something queued.
Loop == drain' = IF pending = <<>> THEN "none" ELSE "window"

\* The window has passed: everything queued is one batch.
TakeBatch ==
    /\ drain = "window"
    /\ batch' = pending
    /\ pending' = <<>>
    /\ drain' = IF pending = <<>> THEN "none" ELSE "acquire"
    /\ UNCHANGED <<keyOf, table, request, resources, gone, leaked, abandoned, leftover>>

AcquireBatch ==
    /\ drain = "acquire" /\ Cardinality(held) < MaxSlots
    /\ held' = held \cup {Head(batch)}
    /\ drain' = "lease"
    /\ UNCHANGED <<keyOf, table, request, pending, batch, leased, gone, leaked, abandoned, leftover>>

\* Mutant: a batch that is not admitted is dropped without a word.
AcquireBatchFailsSilently ==
    /\ drain = "acquire"
    /\ batch' = <<>>
    /\ Loop
    /\ UNCHANGED <<keyOf, table, request, pending, resources, gone, leaked, abandoned, leftover>>

AcquireBatchFails ==
    /\ drain = "acquire"
    /\ SetFutures(Items, "failed")
    /\ batch' = <<>>
    /\ Loop
    /\ UNCHANGED <<keyOf, result, cache, request, pending, resources, gone, leaked, abandoned, leftover>>

\* One lease per item, entered one after the other.
LeaseItem ==
    /\ drain = "lease"
    /\ \E i \in DOMAIN batch :
        /\ \A j \in DOMAIN batch : j < i <=> batch[j] \in leased
        /\ leased' = leased \cup {batch[i]}
        /\ drain' = IF i = Len(batch) THEN "prepare" ELSE "lease"
    /\ UNCHANGED <<keyOf, table, request, pending, batch, held, gone, leaked, abandoned, leftover>>

PreparedBatch ==
    /\ drain = "prepare"
    /\ drain' = "invoke"
    /\ UNCHANGED <<keyOf, table, request, pending, batch, resources, gone, leaked, abandoned, leftover>>

\* Mutant: only the lease of the first item is left.
BatchFailsKeepingLeases ==
    /\ drain \in Executing
    /\ SetFutures(Items, "failed")
    /\ leased' = leased \ {Head(batch)}
    /\ drain' = "finalize"
    /\ UNCHANGED <<keyOf, result, cache, request, pending, batch, held, gone, leaked, abandoned, leftover>>

BatchFails ==
    /\ drain \in Executing
    /\ SetFutures(Items, "failed")
    /\ leased' = leased \ Items
    /\ drain' = "finalize"
    /\ UNCHANGED <<keyOf, result, cache, request, pending, batch, held, gone, leaked, abandoned, leftover>>

\* External: the backend embeds all inputs of the batch, in order.
Vectors(items) == FlattenSeq([i \in DOMAIN items |-> Response[keyOf[items[i]]]])

\* The part of a response that belongs to item i: it starts where the inputs of
\* the items before it end.
Slice(items, data, i) ==
    LET size == [j \in DOMAIN items |-> Inputs[keyOf[items[j]]]]
        offset[j \in DOMAIN items] == IF j = 1 THEN 0 ELSE offset[j - 1] + size[j - 1]
    IN  SubSeq(data, offset[i] + 1, offset[i] + size[i])

\* The responses of the first n items are stored and resolve their claims.
ResolveItems(n) ==
    LET ok       == {batch[i] : i \in 1 .. n}
        Index(k) == CHOOSE i \in 1 .. n : keyOf[batch[i]] = k
        Item(k)  == Slice(batch, Vectors(batch), Index(k))
    IN  /\ cache' = [k \in Keys |-> IF k \in KeysOf(ok) THEN Item(k) ELSE cache[k]]
        /\ result' = [f \in Requests |-> IF f \in FuturesOf(ok) THEN Item(keyOf[f]) ELSE result[f]]
        /\ futures' = [k \in Keys |-> IF k \in KeysOf(Items) THEN None ELSE futures[k]]
        /\ future' = [f \in Requests |->
                        IF f \notin FuturesOf(Items) \/ future[f] # "pending" THEN future[f]
                        ELSE IF f \in FuturesOf(ok) THEN "result" ELSE "failed"]

\* A wrong number of vectors rejects all items, a failing store the items from
\* there on.
BatchInvoked ==
    /\ drain = "invoke"
    /\ \E n \in 0 .. Len(batch) : ResolveItems(n)
    /\ leased' = leased \ Items
    /\ drain' = "finalize"
    /\ UNCHANGED <<keyOf, request, pending, batch, held, gone, leaked, abandoned, leftover>>

\* Mutant: the drain task ends after one batch.
BatchDoneOnce ==
    /\ drain = "finalize"
    /\ held' = held \ {Head(batch)}
    /\ batch' = <<>>
    /\ drain' = "none"
    /\ UNCHANGED <<keyOf, table, request, pending, leased, gone, leaked, abandoned, leftover>>

BatchDone ==
    /\ drain = "finalize"
    /\ held' = held \ {Head(batch)}
    /\ batch' = <<>>
    /\ Loop
    /\ UNCHANGED <<keyOf, table, request, pending, leased, gone, leaked, abandoned, leftover>>

\* The unload raises: the admission is not released and the task ends, whatever
\* is queued.
BatchFinalizeFails ==
    /\ drain = "finalize" /\ Policy # "keep_warm"
    /\ leaked' = leaked \cup {Head(batch)}
    /\ batch' = <<>>
    /\ drain' = "none"
    /\ leftover' = leftover \cup ToSet(pending)
    /\ UNCHANGED <<keyOf, table, request, pending, resources, gone, abandoned>>

-----------------------------------------------------------------------------
RequestStep(r) ==
    \/ Join(r) \/ Hit(r) \/ LookupFails(r) \/ Claim(r) \/ Wake(r)
    \/ Acquire(r) \/ AcquireFails(r) \/ EnterLease(r) \/ Prepared(r) \/ Invoked(r)
    \/ ExecuteFails(r) \/ Complete(r) \/ Raise(r) \/ RaiseCancelled(r) \/ FinalizeFails(r)

CancelStep(r) == CancelWaiting(r) \/ CancelExecuting(r) \/ CancelOutside(r)

DrainStep ==
    \/ TakeBatch \/ AcquireBatch \/ AcquireBatchFails \/ LeaseItem \/ PreparedBatch
    \/ BatchFails \/ BatchInvoked \/ BatchDone \/ BatchFinalizeFails

Next == DrainStep \/ \E r \in Requests : RequestStep(r) \/ CancelStep(r)

Spec == Init /\ [][Next]_vars

\* The event loop runs what is ready; admissions, leases and backends answer or
\* fail.  Nobody has to come, and nobody has to cancel.
FairSpec ==
    /\ Spec
    /\ \A r \in Requests : WF_vars(at[r] # "new" /\ RequestStep(r))
    /\ WF_vars(DrainStep)

-----------------------------------------------------------------------------
TypeOK ==
    /\ futures \in [Keys -> Requests \cup {None}]
    /\ future \in [Requests -> {"none", "pending", "result", "failed", "cancelled"}]
    /\ at \in [Requests -> {"new", "waiting", "acquire", "finalize", "over"} \cup Executing]
    /\ shared \in [Requests -> Requests \cup {None}]
    /\ outcome \in [Requests -> {"none", "response", "raised", "cancelled"}]
    /\ drain \in {"none", "window", "acquire", "finalize"} \cup Executing
    /\ held \subseteq Requests /\ leased \subseteq Requests

InBackend(r) == at[r] = "invoke" \/ (drain = "invoke" /\ r \in Items)

\* Identical requests share one execution: a key has one owner, is never in the
\* backend twice nor again once its response is cached, and everybody is given
\* the response of its own key, from a batch's slices too (claim, resolve,
\* _resolve_embedding_batch_items).
Coalescing == INSTANCE SingleFlight WITH
    leader  <- futures,
    running <- [k \in Keys |-> Cardinality({r \in Requests : keyOf[r] = k /\ InBackend(r)})],
    store   <- cache,
    Answer  <- Response
ImplementsSingleFlight == Coalescing!Spec

\* Somebody is at work for every claimed key: its owner, or the drain task that
\* has it queued or in its batch and has not settled it.  A key is left alone
\* only by an owner that was cancelled, and a queue only by a task that raised.
ClaimHasWorker ==
    /\ TypeOK
    /\ \A k \in Keys : futures[k] # None =>
        LET o == futures[k] IN
        /\ keyOf[o] = k /\ future[o] \in {"pending", "cancelled"}
        /\ \/ at[o] \in {"acquire", "finalize"} \cup Executing
           \/ Contains(pending, o) \/ (o \in Items /\ drain \in {"acquire"} \cup Executing)
           \/ o \in abandoned
    /\ \A r \in ToSet(pending) \cup abandoned : futures[keyOf[r]] = r
    /\ drain = "none" => ToSet(pending) \subseteq leftover

\* Admissions are held by the executions past acquire and leases by those past
\* loading, whichever way requests end (the finally blocks of _execute and
\* _execute_embedding_batch), except the admissions lost in an unload that
\* raised or was cancelled.
HeldByExecution ==
    LET batched(D) == IF drain \in D THEN Items ELSE {}
        single(D)  == {r \in Requests : at[r] \in D}
    IN  /\ Cardinality(held) <= MaxSlots
        /\ held = single(Executing \cup {"finalize"}) \cup leaked
                    \cup {r \in batched(Executing \cup {"finalize"}) : r = Head(batch)}
        /\ single({"prepare", "invoke"}) \cup batched({"prepare", "invoke"}) \subseteq leased
        /\ leased \subseteq single({"prepare", "invoke"}) \cup batched(Executing)

\* A request is cancelled only with its own caller, or by a caller that waited
\* for the same future: never by one that shares its key, batch or model only.
CancelStaysInFlight ==
    \A r \in Requests : status[r] = "cancelled" =>
        r \in gone \/ \E q \in gone : shared[q] = shared[r] /\ shared[r] # None

\* Waiting for a claim nobody will settle.
Stranded(r) ==
    /\ at[r] = "waiting" /\ future[shared[r]] = "pending"
    /\ \/ shared[r] \in abandoned
       \/ shared[r] \in leftover /\ drain = "none"

\* Every request ends, however owners, joiners and the drain task interleave and
\* fail, unless its owner was cancelled or its drain task raised in an unload.
EveryRequestEnds == \A r \in Requests : at[r] # "new" ~> at[r] = "over" \/ Stranded(r)
=============================================================================
