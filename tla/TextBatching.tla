---------------------------- MODULE TextBatching ----------------------------
(***************************************************************************)
(* Text generation of runtime/mlx_text/runtime.py over the books of        *)
(* PagedKV: the continuous-batching controllers that LewLM owns, the       *)
(* native batches and the direct calls, with loading and unloading.        *)
(*                                                                         *)
(* Everything runs on one event loop.  A controller's task works from one  *)
(* suspension to the next without interruption: busy names the controller  *)
(* that holds the loop, and its stages follow one another before anybody   *)
(* else moves.  What the backend (mlx_lm) answers is a free choice.        *)
(***************************************************************************)
EXTENDS PagedKV

CONSTANTS
    Kinds,      \* the ways in which the requests may be served together
    Temperatures, TemperatureIn,   \* what a request asks for, in each of Kinds
    Gens,       \* numbers the controllers of one key that exist at a time
    MaxBatch,   \* continuous_batch_max_batch_size
    MaxLoads,   \* bound: loads of models
    None        \* no controller

AllKinds == {"generate", "stream", "direct", "batch"}

ASSUME TextAssumption ==
    /\ Kinds \subseteq [Requests -> AllKinds]
    /\ TemperatureIn \in [Kinds -> [Requests -> Temperatures]]
    /\ Gens \subseteq Nat
    /\ MaxBatch \in Nat \ {0}
    /\ MaxLoads \in Nat

\* A controller serves one capability of one model at one temperature.
Keys        == {"generate", "stream"} \X Models \X Temperatures
Controllers == Keys \X Gens

VARIABLES
    kv,         \* the paged-KV books
    loaded,     \* models with a client
    loads,      \* how many loads there were
    kind,       \* how each request is served
    batches,    \* the native stream batches that are open
    busy,       \* the controller whose task is running, or None
    cpc,        \* where a controller's task is; "unused": there is none
    pending,    \* _pending, oldest first
    active,     \* _active
    left,       \* tokens an active request may still produce
    rpc,        \* progress of a request's caller
    fut,        \* its future (generate) or completion (stream)
    ended,      \* streams with the end marker on their queue
    dropped,    \* queued.cancelled
    lost,       \* history: requests nobody will answer
    leaked      \* history: requests whose reservation nobody will release

callers == <<rpc, fut, ended, dropped>>
tasks   == <<busy, cpc, pending, active>>
vars    == <<kv, loaded, loads, kind, batches, tasks, left, callers, lost, leaked>>

Init ==
    /\ kv = EmptyBooks
    /\ loaded = {}
    /\ loads = 0
    /\ kind \in Kinds
    /\ batches = {}
    /\ busy = None
    /\ cpc = [c \in Controllers |-> "unused"]
    /\ pending = [c \in Controllers |-> <<>>]
    /\ active = [c \in Controllers |-> {}]
    /\ left = [r \in Requests |-> 0]
    /\ rpc = [r \in Requests |-> "new"]
    /\ fut = [r \in Requests |-> "none"]
    /\ ended = {}
    /\ dropped = {}
    /\ lost = {}
    /\ leaked = {}

Key(r)    == <<kind[r], ModelOf[r], TemperatureIn[kind][r]>>
KindOf(c) == c[1][1]
Model(c)  == c[1][2]

\* The controller a lookup returns: the open one of the key, or a new one.
Open(c) == cpc[c] \notin {"unused", "closing"}
Obtainable(key, c) ==
    /\ c[1] = key
    /\ \/ Open(c)
       \/ /\ cpc[c] = "unused"
          /\ \A d \in Controllers : d[1] = key => ~Open(d) /\ (cpc[d] = "unused" => c[2] <= d[2])
WithObtained(c) == [cpc EXCEPT ![c] = IF @ = "unused" THEN "created" ELSE @]

\* One after the other: the reservations of a batch, and their release.
ReserveAll(k, s) ==
    LET books[n \in 0 .. Len(s)] == IF n = 0 THEN k ELSE Reserve(books[n - 1], s[n])
    IN  books[Len(s)]
ReleaseAll(k, S) ==
    LET s == SetToSeq(S)
        books[n \in 0 .. Len(s)] == IF n = 0 THEN k ELSE Release(books[n - 1], s[n])
    IN  books[Len(s)]

-----------------------------------------------------------------------------
(* Models *)

Load(m) ==
    /\ busy = None
    /\ m \notin loaded /\ loads < MaxLoads
    /\ loaded' = loaded \cup {m}
    /\ loads' = loads + 1
    /\ UNCHANGED <<kv, kind, batches, tasks, left, callers, lost, leaked>>

\* Closing cancels the controller's task.  A task that never ran is gone with
\* what was queued for it; one that ran still has its finally block to do.
Unload(m) ==
    LET Ours(c) == Model(c) = m
        unborn  == {c \in Controllers : Ours(c) /\ cpc[c] = "created"}
    IN  /\ busy = None
        /\ m \in loaded
        /\ cpc' = [c \in Controllers |->
                    IF c \in unborn THEN "unused" ELSE IF Ours(c) /\ Open(c) THEN "closing" ELSE cpc[c]]
        /\ pending' = [c \in Controllers |-> IF c \in unborn THEN <<>> ELSE pending[c]]
        /\ lost' = lost \cup UNION {ToSet(pending[c]) : c \in unborn}
        /\ loaded' = loaded \ {m}
        /\ kv' = UnregisterModel(kv, m)
        /\ UNCHANGED <<loads, kind, batches, busy, active, left, callers, leaked>>

-----------------------------------------------------------------------------
(* Callers of the controllers *)

Enqueue(r, c) ==
    /\ busy = None
    /\ rpc[r] = "new" /\ kind[r] \in {"generate", "stream"}
    /\ ModelOf[r] \in loaded
    /\ Obtainable(Key(r), c)
    /\ cpc' = WithObtained(c)
    /\ pending' = [pending EXCEPT ![c] = Append(@, r)]
    /\ rpc' = [rpc EXCEPT ![r] = "waiting"]
    /\ UNCHANGED <<kv, loaded, loads, kind, batches, busy, active, left, fut, ended, dropped, lost, leaked>>

\* The future is resolved, or the queue's last item is taken.
Answered(r) == IF kind[r] = "generate" THEN fut[r] # "none" ELSE r \in ended

Return(r) ==
    /\ busy = None
    /\ rpc[r] = "waiting" /\ Answered(r)
    /\ rpc' = [rpc EXCEPT ![r] = "over"]
    /\ UNCHANGED <<kv, loaded, loads, kind, batches, tasks, left, fut, ended, dropped, lost, leaked>>

\* The caller is cancelled.  A generate caller cancels its own future; a
\* stream's finally block marks the request, and wakes the key's controller.
LeaveGenerate(r) ==
    /\ busy = None
    /\ rpc[r] = "waiting" /\ kind[r] = "generate"
    /\ rpc' = [rpc EXCEPT ![r] = "over"]
    /\ fut' = [fut EXCEPT ![r] = IF @ = "none" THEN "cancelled" ELSE @]
    /\ UNCHANGED <<kv, loaded, loads, kind, batches, tasks, left, ended, dropped, lost, leaked>>

LeaveStream(r, c) ==
    /\ busy = None
    /\ rpc[r] = "waiting" /\ kind[r] = "stream"
    /\ rpc' = [rpc EXCEPT ![r] = "over"]
    /\ IF fut[r] # "none"
       THEN UNCHANGED <<fut, dropped, cpc>>
       ELSE /\ Obtainable(Key(r), c)
            /\ fut' = [fut EXCEPT ![r] = "cancelled"]
            /\ dropped' = dropped \cup {r}
            /\ cpc' = WithObtained(c)
    /\ UNCHANGED <<kv, loaded, loads, kind, batches, busy, pending, active, left, ended, lost, leaked>>

-----------------------------------------------------------------------------
(* A controller's task *)

\* _wait_for_work: with nothing pending or active the task is suspended.
WaitForWork(c) ==
    IF pending'[c] = <<>> /\ active'[c] = {}
    THEN cpc' = [cpc EXCEPT ![c] = "idle"] /\ busy' = None
    ELSE cpc' = [cpc EXCEPT ![c] = "insert"] /\ busy' = c

Goto(c, stage) == cpc' = [cpc EXCEPT ![c] = stage] /\ busy' = c

Begin(c) ==
    /\ busy = None
    /\ cpc[c] = "created"
    /\ \/ Model(c) \in loaded /\ UNCHANGED <<pending, active>> /\ WaitForWork(c)
       \/ Goto(c, "fail") /\ UNCHANGED <<pending, active>>
    /\ UNCHANGED <<kv, loaded, loads, kind, batches, left, callers, lost, leaked>>

Resume(c) ==
    /\ busy = None
    /\ cpc[c] = "idle"
    /\ pending[c] # <<>> \/ active[c] # {}
    /\ Goto(c, "insert")
    /\ UNCHANGED <<kv, loaded, loads, kind, batches, pending, active, left, callers, lost, leaked>>

\* _insert_pending takes requests off the queue until the batch is full; those
\* whose caller left are taken and forgotten.
Live(r)     == IF kind[r] = "generate" THEN fut[r] = "none" ELSE r \notin dropped
Capacity(c) == MaxBatch - Cardinality(active[c])
Taken(c)    == Max({n \in 0 .. Len(pending[c]) :
                    n = 0 \/ Cardinality({i \in 1 .. n - 1 : Live(pending[c][i])}) < Capacity(c)})
Picked(c)   == Filter(SubSeq(pending[c], 1, Taken(c)), {r \in Requests : Live(r)})
Unpicked(c) == SubSeq(pending[c], Taken(c) + 1, Len(pending[c]))

InsertPending(c) ==
    /\ busy = c /\ cpc[c] = "insert"
    /\ pending' = [pending EXCEPT ![c] = Unpicked(c)]
    /\ active' = [active EXCEPT ![c] = @ \cup ToSet(Picked(c))]
    /\ left' = [r \in Requests |-> IF r \in ToSet(Picked(c)) THEN Max({MaxTokens[r], 1}) ELSE left[r]]
    /\ kv' = ReserveAll(kv, Picked(c))
    /\ IF KindOf(c) = "stream" THEN Goto(c, "sweep")
       ELSE IF active'[c] = {} THEN WaitForWork(c) ELSE Goto(c, "next")
    /\ UNCHANGED <<loaded, loads, kind, batches, callers, lost, leaked>>

\* Preparing the batch raises after n reservations, which stay behind, or
\* generator.insert raises and all are released.  Either way the requests in
\* hand are in neither collection when the failure is handed out.
InsertFails(c) ==
    /\ busy = c /\ cpc[c] = "insert"
    /\ Picked(c) # <<>>
    /\ \/ \E n \in 0 .. Len(Picked(c)) :
            LET made == SubSeq(Picked(c), 1, n)
            IN  kv' = ReserveAll(kv, made) /\ leaked' = leaked \cup ToSet(made)
       \/ /\ kv' = ReleaseAll(ReserveAll(kv, Picked(c)), ToSet(Picked(c)))
          /\ UNCHANGED leaked
    /\ pending' = [pending EXCEPT ![c] = Unpicked(c)]
    /\ lost' = lost \cup ToSet(Picked(c))
    /\ Goto(c, "fail")
    /\ UNCHANGED <<loaded, loads, kind, batches, active, left, callers>>

\* Mutant: a cancelled member's pages are not released.
SweepKeepingPages(c) ==
    /\ busy = c /\ cpc[c] = "sweep"
    /\ \E S \in SUBSET (active[c] \cap dropped) :
        /\ active' = [active EXCEPT ![c] = @ \ S]
        /\ kv' = kv
    /\ UNCHANGED pending
    /\ IF active'[c] = {} THEN WaitForWork(c) ELSE Goto(c, "next")
    /\ UNCHANGED <<loaded, loads, kind, batches, left, callers, lost, leaked>>

\* _cancel_active_requests: the backend drops some of the marked requests, or
\* cannot, and then they are decoded to their end.
Sweep(c) ==
    /\ busy = c /\ cpc[c] = "sweep"
    /\ \E S \in SUBSET (active[c] \cap dropped) :
        /\ active' = [active EXCEPT ![c] = @ \ S]
        /\ kv' = ReleaseAll(kv, S)
    /\ UNCHANGED pending
    /\ IF active'[c] = {} THEN WaitForWork(c) ELSE Goto(c, "next")
    /\ UNCHANGED <<loaded, loads, kind, batches, left, callers, lost, leaked>>

\* What a settled request's future and queue become; a request whose future
\* is done, or whose stream was left, is passed over.
Settle(S, answer) ==
    /\ fut' = [r \in Requests |-> IF r \in S /\ fut[r] = "none" THEN answer ELSE fut[r]]
    /\ ended' = ended \cup {r \in S : kind[r] = "stream" /\ r \notin dropped}

\* next_generated() gives every active request a token; F are the finished.
Generate(c) ==
    /\ busy = c /\ cpc[c] = "next"
    /\ \E F \in SUBSET active[c] :
        /\ \A r \in active[c] : left[r] = 1 => r \in F
        /\ active' = [active EXCEPT ![c] = @ \ F]
        /\ left' = [r \in Requests |-> IF r \in F THEN 0 ELSE IF r \in active[c] THEN left[r] - 1 ELSE left[r]]
        /\ Settle(F, "end")
        /\ kv' = ReleaseAll(kv, F)
    /\ cpc' = [cpc EXCEPT ![c] = "idle"]
    /\ busy' = None
    /\ UNCHANGED <<loaded, loads, kind, batches, pending, rpc, dropped, lost, leaked>>

\* The backend raises, or the decoding of a finished request does.  F were
\* settled by then.  A generate controller takes the request in hand out of
\* _active before it decodes its tokens, and nobody finds it again.
GenerateFails(c) ==
    /\ busy = c /\ cpc[c] = "next"
    /\ \E F \in SUBSET active[c] :
       \E H \in {{}} \cup {{r} : r \in {q \in active[c] \ F : kind[q] = "generate" /\ fut[q] = "none"}} :
        /\ active' = [active EXCEPT ![c] = @ \ (F \cup H)]
        /\ left' = [r \in Requests |-> IF r \in F \cup H THEN 0 ELSE left[r]]
        /\ Settle(F, "end")
        /\ kv' = ReleaseAll(kv, F)
        /\ lost' = lost \cup H
        /\ leaked' = leaked \cup H
    /\ Goto(c, "fail")
    /\ UNCHANGED <<loaded, loads, kind, batches, pending, rpc, dropped>>

Mine(c) == ToSet(pending[c]) \cup active[c]

Vanish(c) ==
    /\ kv' = ReleaseAll(kv, active[c])
    /\ pending' = [pending EXCEPT ![c] = <<>>]
    /\ active' = [active EXCEPT ![c] = {}]
    /\ left' = [r \in Requests |-> IF r \in active[c] THEN 0 ELSE left[r]]
    /\ cpc' = [cpc EXCEPT ![c] = "unused"]
    /\ busy' = None

\* Mutant: a failure is not handed to the queued requests.
FailActiveOnly(c) ==
    /\ busy = c /\ cpc[c] = "fail"
    /\ Settle(active[c], "exc")
    /\ Vanish(c)
    /\ UNCHANGED <<loaded, loads, kind, batches, rpc, dropped, lost, leaked>>

\* The exception reaches everything the controller still knows of.
Fail(c) ==
    /\ busy = c /\ cpc[c] = "fail"
    /\ Settle(Mine(c), "exc")
    /\ Vanish(c)
    /\ UNCHANGED <<loaded, loads, kind, batches, rpc, dropped, lost, leaked>>

\* The finally block of a cancelled task.  Futures are cancelled; nothing is
\* put on a stream's queue.
Finally(c) ==
    /\ busy = None /\ cpc[c] = "closing"
    /\ fut' = [r \in Requests |-> IF r \in Mine(c) /\ fut[r] = "none" THEN "cancelled" ELSE fut[r]]
    /\ dropped' = IF KindOf(c) = "stream" THEN dropped \cup Mine(c) ELSE dropped
    /\ lost' = IF KindOf(c) = "stream" THEN lost \cup Mine(c) ELSE lost
    /\ Vanish(c)
    /\ UNCHANGED <<loaded, loads, kind, batches, rpc, ended, leaked>>

-----------------------------------------------------------------------------
(* Direct calls and native batches *)

\* _generate without a controller does not suspend: pages come and go.
GenerateDirect(r) ==
    /\ busy = None
    /\ rpc[r] = "new" /\ kind[r] = "direct" /\ ModelOf[r] \in loaded
    /\ kv' = Release(Reserve(kv, r), r)
    /\ rpc' = [rpc EXCEPT ![r] = "over"]
    /\ UNCHANGED <<loaded, loads, kind, batches, tasks, left, fut, ended, dropped, lost, leaked>>

StreamDirect(r) ==
    /\ busy = None
    /\ rpc[r] = "new" /\ kind[r] = "direct" /\ ModelOf[r] \in loaded
    /\ kv' = Reserve(kv, r)
    /\ rpc' = [rpc EXCEPT ![r] = "streaming"]
    /\ UNCHANGED <<loaded, loads, kind, batches, tasks, left, fut, ended, dropped, lost, leaked>>

\* It is read to its end, raises, or is closed by its reader.
EndDirect(r) ==
    /\ busy = None
    /\ rpc[r] = "streaming"
    /\ kv' = Release(kv, r)
    /\ rpc' = [rpc EXCEPT ![r] = "over"]
    /\ UNCHANGED <<loaded, loads, kind, batches, tasks, left, fut, ended, dropped, lost, leaked>>

\* A batch is prepared as a whole.  Failing half way, or when the generator
\* is created outside the try block or closed before they are released, leaves
\* its reservations behind.
BatchFails(s) ==
    /\ \E n \in 0 .. Len(s) :
        LET made == SubSeq(s, 1, n)
        IN  kv' = ReserveAll(kv, made) /\ leaked' = leaked \cup ToSet(made)
    /\ rpc' = [r \in Requests |-> IF r \in ToSet(s) THEN "over" ELSE rpc[r]]

Batchable(S) ==
    /\ busy = None /\ S # {}
    /\ \E m \in loaded : \A r \in S : rpc[r] = "new" /\ kind[r] = "batch" /\ ModelOf[r] = m

GenerateBatch(S) ==
    /\ Batchable(S)
    /\ \/ BatchFails(SetToSeq(S))
       \/ /\ kv' = ReleaseAll(ReserveAll(kv, SetToSeq(S)), S)
          /\ rpc' = [r \in Requests |-> IF r \in S THEN "over" ELSE rpc[r]]
          /\ UNCHANGED leaked
    /\ UNCHANGED <<loaded, loads, kind, batches, tasks, left, fut, ended, dropped, lost>>

StreamBatch(S) ==
    /\ Batchable(S)
    /\ batches' = batches \cup {S}
    /\ kv' = ReserveAll(kv, SetToSeq(S))
    /\ rpc' = [r \in Requests |-> IF r \in S THEN "batched" ELSE rpc[r]]
    /\ UNCHANGED <<loaded, loads, kind, tasks, left, fut, ended, dropped, lost, leaked>>

\* However it ends, the generator is closed and the reservations released,
\* unless closing raises.
EndBatch(S) ==
    /\ busy = None
    /\ S \in batches
    /\ batches' = batches \ {S}
    /\ \/ kv' = ReleaseAll(kv, S) /\ UNCHANGED leaked
       \/ leaked' = leaked \cup S /\ UNCHANGED kv
    /\ rpc' = [r \in Requests |-> IF r \in S THEN "over" ELSE rpc[r]]
    /\ UNCHANGED <<loaded, loads, kind, tasks, left, fut, ended, dropped, lost>>

-----------------------------------------------------------------------------

Task(c) ==
    \/ Begin(c) \/ Resume(c) \/ InsertFails(c) \/ InsertPending(c)
    \/ Sweep(c) \/ GenerateFails(c) \/ Generate(c) \/ Fail(c) \/ Finally(c)

Next ==
    \/ \E m \in Models : Load(m) \/ Unload(m)
    \/ \E r \in Requests, c \in Controllers : Enqueue(r, c) \/ LeaveStream(r, c)
    \/ \E r \in Requests : Return(r) \/ LeaveGenerate(r)
    \/ \E c \in Controllers : Task(c)
    \/ \E r \in Requests : GenerateDirect(r) \/ StreamDirect(r) \/ EndDirect(r)
    \/ \E S \in SUBSET Requests : GenerateBatch(S) \/ StreamBatch(S) \/ EndBatch(S)

\* The loop runs every task that is ready, and resumes every caller whose
\* answer is there.
Fairness ==
    /\ \A c \in Controllers : WF_vars(Task(c))
    /\ \A r \in Requests : WF_vars(Return(r))

Spec     == Init /\ [][Next]_vars
FairSpec == Spec /\ Fairness

-----------------------------------------------------------------------------

Outcomes == {"none", "end", "exc", "cancelled"}
Stages   == {"unused", "created", "idle", "insert", "sweep", "next", "fail", "closing"}

TypeOK ==
    /\ BooksTypeOK(kv)
    /\ loaded \subseteq Models
    /\ busy \in Controllers \cup {None}
    /\ cpc \in [Controllers -> Stages]
    /\ kind \in Kinds
    /\ batches \subseteq SUBSET Requests
    /\ pending \in [Controllers -> Seq(Requests)]
    /\ active \in [Controllers -> SUBSET Requests]
    /\ rpc \in [Requests -> {"new", "waiting", "streaming", "batched", "over"}]
    /\ fut \in [Requests -> Outcomes]
    /\ ended \subseteq Requests /\ dropped \subseteq Requests /\ lost \subseteq Requests /\ leaked \subseteq Requests

\* However requests, failures, abandoned callers and unloads interleave, the
\* paged-KV books (paged_kv.py reserve, release, unregister_model) add up, a
\* page some reservation counts on is resident, and the cache is over its limit
\* only when every resident page is in use.
KVBooks == TypeOK /\ Balanced(kv) /\ TightWhenOver(kv)

\* Every request an open controller decodes has its pages reserved, no batch is
\* larger than continuous_batch_max_batch_size, and a reservation that is held
\* has somebody who will release it, save those a failed preparation left
\* behind (_prepare_native_batch_state), those of a native batch whose generator
\* could not be closed, and that of a request _run took out of _active before
\* its decoding raised.
ReservedWhileDecoding ==
    /\ \A c \in Controllers :
        /\ Cardinality(active[c]) <= MaxBatch
        /\ Open(c) => active[c] \subseteq kv.held
        /\ cpc[c] = "unused" => Mine(c) = {}
    /\ \A r \in kv.held \ leaked :
        \/ rpc[r] \in {"streaming", "batched"}
        \/ \E c \in Controllers : r \in active[c] /\ Open(c)

\* A caller that waits on a controller is answered, save the requests a failed
\* insertion or a failed decoding had in hand, the streams of a closed controller and those queued
\* for a task that was closed before it ran.
EveryRequestEnds == \A r \in Requests : rpc[r] = "waiting" ~> (rpc[r] # "waiting" \/ r \in lost)
=============================================================================
