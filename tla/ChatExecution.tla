--------------------------- MODULE ChatExecution ---------------------------
(***************************************************************************)
(* A chat request from the orchestrator (core/chat.py) to the HTTP         *)
(* response (api/routes/chat.py): admission, residency lease, generation,  *)
(* the producer of a stream, its queue and its reader, and the frontier    *)
(* batches of runtime/scheduler.py that run several requests as one.       *)
(*                                                                         *)
(* A job is one execution of a backend: of one request, or of a batch that *)
(* its first member leads.  Publishing events, entering an uncontended     *)
(* lock and leaving a lease never suspend, so a step ends where the code   *)
(* awaits admission, the lease, the backend, or a queue.                   *)
(***************************************************************************)
EXTENDS Integers, Sequences, SequencesExt, FiniteSets

CONSTANTS
    Requests,   \* chat requests, all for one model
    Kinds,      \* how the requests are served, or that one never comes
    MaxSlots,   \* max_concurrent_requests of the scheduler
    MaxBatch,   \* continuous_batch_max_batch_size
    MaxDeltas,  \* bound: deltas a stream produces
    Aggressive  \* runtime_policy is aggressive_unload

Batched == {"bcomplete", "bstream"}
Streams == {"stream", "bstream"}

ASSUME ChatAssumption ==
    /\ Kinds \subseteq [Requests -> {"complete", "stream", "absent"} \cup Batched]
    /\ MaxSlots \in Nat \ {0} /\ MaxBatch \in Nat \ {0} /\ MaxDeltas \in Nat
    /\ Aggressive \in BOOLEAN

VARIABLES
    kind,       \* how each request is served
    caller,     \* the coroutine that called complete() or stream()
    cancelled,  \* requests whose handle was cancelled by name
    waiting,    \* frontier queue of each batched kind
    drain,      \* its drain task
    job,        \* stage of the job a request leads
    team,       \* the members of that job
    slot,       \* jobs holding a scheduler admission
    lease,      \* requests holding a residency lease
    seq,        \* the request's sequence in the serving core
    asked,      \* sequences with cancellation_requested
    event,      \* the terminal event published last
    queue,      \* the stream's queue
    left,       \* deltas still to come
    kill,       \* jobs whose producer task was cancelled
    source,     \* the stream the response reads from
    hold,       \* the item read from it and not yet passed on
    resp        \* progress of the HTTP response
VARIABLES       \* history: what the code leaves behind, and where
    stuck,      \* admissions nobody will release
    stray,      \* leases left to the garbage collector
    forgotten,  \* sequences nobody will finish
    unclosed,   \* sources left to the garbage collector
    again       \* requests failed after their verdict was published

frontier == <<waiting, drain>>
held     == <<slot, lease>>
verdict  == <<seq, asked, event>>
stream   == <<queue, left, kill>>
reader   == <<source, hold, resp>>
holes    == <<stuck, stray, forgotten, unclosed, again>>
vars     == <<kind, caller, cancelled, frontier, job, team, held, verdict, stream, reader, holes>>

Init ==
    /\ kind \in Kinds
    /\ caller = [r \in Requests |-> "new"]
    /\ cancelled = {}
    /\ waiting = [k \in Batched |-> <<>>]
    /\ drain = [k \in Batched |-> "idle"]
    /\ job = [r \in Requests |-> "none"]
    /\ team = [r \in Requests |-> <<>>]
    /\ slot = {} /\ lease = {}
    /\ seq = [r \in Requests |-> "none"]
    /\ asked = {}
    /\ event = [r \in Requests |-> "none"]
    /\ queue = [r \in Requests |-> <<>>]
    /\ left = [r \in Requests |-> 0]
    /\ kill = {}
    /\ source = [r \in Requests |-> "none"]
    /\ hold = [r \in Requests |-> "none"]
    /\ resp = [r \in Requests |-> "none"]
    /\ stuck = {} /\ stray = {} /\ forgotten = {} /\ unclosed = {} /\ again = {}

\* In "concluding" some members of a job have their verdict and the loop over
\* them is about to raise; the code does not suspend there.
Producing == {"stream", "concluding", "ending", "failing"}
Working   == {"lease", "prepare", "run"} \cup Producing
Team(j)   == ToSet(team[j])

SetAll(f, S, v) == [r \in DOMAIN f |-> IF r \in S THEN v ELSE f[r]]

\* A caller that is still there gets the result; others' futures are done.
Answer(S, v) == caller' = [r \in Requests |-> IF r \in S /\ caller[r] = "waiting" THEN v ELSE caller[r]]

\* complete_sequence and fail_sequence, each with its terminal event.
Conclude(S, v) == seq' = SetAll(seq, S, v) /\ event' = SetAll(event, S, v)

\* When a batch has run its drain task takes the next, or ends at once: with an
\* empty queue nothing in it suspends, so no caller can enqueue in between.
Drained(j) ==
    drain' = IF kind[j] \notin Batched THEN drain
             ELSE [drain EXCEPT ![kind[j]] = IF waiting[kind[j]] = <<>> THEN "idle" ELSE "window"]

ReleaseAll(j) == slot' = slot \ {j} /\ lease' = lease \ Team(j)

Advance(j, stage) == job' = [job EXCEPT ![j] = stage]

-----------------------------------------------------------------------------
(* Callers *)

\* A batched request joins its kind's queue, and starts a drain unless one runs.
Enqueue(r) ==
    /\ waiting' = [waiting EXCEPT ![kind[r]] = Append(@, r)]
    /\ drain' = [drain EXCEPT ![kind[r]] = IF @ = "idle" THEN "window" ELSE @]

\* _prepare_context registers the sequence; a request already cancelled raises
\* right after, and its sequence stays.
Start(r) ==
    /\ caller[r] = "new" /\ kind[r] # "absent"
    /\ seq' = [seq EXCEPT ![r] = "active"]
    /\ IF r \in cancelled
       THEN /\ caller' = [caller EXCEPT ![r] = "raised"]
            /\ forgotten' = forgotten \cup {r}
            /\ UNCHANGED <<frontier, job, team>>
       ELSE /\ caller' = [caller EXCEPT ![r] = "waiting"]
            /\ IF kind[r] \in Batched
               THEN Enqueue(r) /\ UNCHANGED <<job, team>>
               ELSE /\ Advance(r, "acquire")
                    /\ team' = [team EXCEPT ![r] = <<r>>]
                    /\ UNCHANGED frontier
            /\ UNCHANGED forgotten
    /\ UNCHANGED <<kind, cancelled, held, asked, event, stream, reader, stuck, stray, unclosed, again>>

\* The token's flag is read before execution and by the response: setting it in
\* between is the same as setting it when the response opens.
CancelNamed(r) ==
    /\ r \notin cancelled /\ kind[r] # "absent"
    /\ caller[r] = "new" \/ resp[r] \in {"opening", "headers", "reading"}
    /\ cancelled' = cancelled \cup {r}
    /\ UNCHANGED <<kind, caller, frontier, job, team, held, verdict, stream, reader, holes>>

\* The caller's task is cancelled.  A batched caller only gives up its own
\* future.  A complete() has a finally block; the set-up of a stream has not.
CancelCaller(r) ==
    /\ caller[r] = "waiting" /\ job[r] # "concluding"
    /\ caller' = [caller EXCEPT ![r] = "gone"]
    /\ IF kind[r] \in Batched
       THEN UNCHANGED <<job, held, stuck, stray, forgotten>>
       ELSE /\ Advance(r, "over")
            /\ forgotten' = forgotten \cup {r}
            /\ IF kind[r] = "complete"
               THEN ReleaseAll(r) /\ UNCHANGED <<stuck, stray>>
               ELSE /\ stuck' = stuck \cup ({r} \cap slot)
                    /\ stray' = stray \cup ({r} \cap lease)
                    /\ UNCHANGED held
    /\ UNCHANGED <<kind, cancelled, frontier, team, verdict, stream, reader, unclosed, again>>

\* The drain task takes a batch when its window closes or the batch is full.
TakeBatch(k) ==
    LET batch == SubSeq(waiting[k], 1, IF Len(waiting[k]) < MaxBatch THEN Len(waiting[k]) ELSE MaxBatch)
    IN  /\ drain[k] = "window" /\ waiting[k] # <<>>
        /\ waiting' = [waiting EXCEPT ![k] = SubSeq(@, Len(batch) + 1, Len(@))]
        /\ drain' = [drain EXCEPT ![k] = "busy"]
        /\ Advance(Head(batch), "acquire")
        /\ team' = [team EXCEPT ![Head(batch)] = batch]
        /\ UNCHANGED <<kind, caller, cancelled, held, verdict, stream, reader, holes>>

-----------------------------------------------------------------------------
(* Executing a job *)

Acquire(j) ==
    /\ job[j] = "acquire"
    /\ Cardinality(slot) < MaxSlots
    /\ slot' = slot \cup {j}
    /\ Advance(j, "lease")
    /\ UNCHANGED <<kind, caller, cancelled, frontier, team, lease, verdict, stream, reader, holes>>

\* The queue is full, the wait timed out, or the scheduler refused.
AcquireFails(j) ==
    /\ job[j] = "acquire"
    /\ Advance(j, "over")
    /\ Conclude(Team(j), "failed")
    /\ Answer(Team(j), "raised")
    /\ Drained(j)
    /\ UNCHANGED <<kind, cancelled, waiting, team, held, asked, stream, reader, holes>>

EnterLease(j) ==
    /\ job[j] = "lease"
    /\ lease' = lease \cup Team(j)
    /\ Advance(j, "prepare")
    /\ UNCHANGED <<kind, caller, cancelled, frontier, team, slot, verdict, stream, reader, holes>>

\* A stream's caller gets a session and the route begins to read it.  The
\* session of a member whose caller is gone has no reader.
Prepare(j) ==
    /\ job[j] = "prepare"
    /\ IF kind[j] \notin Streams
       THEN /\ Advance(j, "run")
            /\ UNCHANGED <<caller, drain, left, source, resp>>
       ELSE LET read == {r \in Team(j) : caller[r] = "waiting"}
            IN  /\ Advance(j, "stream")
                /\ left' = SetAll(left, Team(j), MaxDeltas)
                /\ source' = SetAll(source, read, "open")
                /\ resp' = SetAll(resp, read, "opening")
                /\ Answer(Team(j), "answered")
                /\ Drained(j)
    /\ UNCHANGED <<kind, cancelled, waiting, team, held, verdict, queue, kill, hold, holes>>

\* finalize_runtime_for_request unloads under aggressive_unload, and raises
\* while anybody holds a lease.
UnloadRefused(holders) == Aggressive /\ holders # {}

\* complete(), alone or batched: the responses conclude the requests, and the
\* finally block returns what the job holds; the clean-up it ends with may raise.
RunComplete(j) ==
    /\ job[j] = "run"
    /\ Advance(j, "over")
    /\ Conclude(Team(j), "completed")
    /\ ReleaseAll(j)
    /\ Answer(Team(j), IF UnloadRefused(lease \ Team(j)) THEN "raised" ELSE "answered")
    /\ Drained(j)
    /\ UNCHANGED <<kind, cancelled, waiting, team, asked, stream, reader, holes>>

\* The members are completed one by one, and after the first n of them the
\* next one, or building the answer of the last, raises.
CompleteSome(j) ==
    /\ job[j] = "run"
    /\ \E n \in 1 .. Len(team[j]) : Conclude(ToSet(SubSeq(team[j], 1, n)), "completed")
    /\ Advance(j, "concluding")
    /\ UNCHANGED <<kind, caller, cancelled, frontier, team, held, asked, stream, reader, holes>>

\* The handler fails every member, those already completed included.
CompleteFails(j) ==
    /\ job[j] \in {"lease", "prepare", "run", "concluding"} /\ kind[j] \notin Streams
    /\ Advance(j, "over")
    /\ again' = again \cup {r \in Team(j) : event[r] # "none"}
    /\ Conclude(Team(j), "failed")
    /\ ReleaseAll(j)
    /\ Answer(Team(j), "raised")
    /\ Drained(j)
    /\ UNCHANGED <<kind, cancelled, waiting, team, asked, stream, reader, stuck, stray, forgotten, unclosed>>

\* Mutant: the failure of a set-up does not give the admission back.
StreamSetupFailsKeeping(j) ==
    /\ job[j] \in {"lease", "prepare"} /\ kind[j] = "stream"
    /\ Advance(j, "over")
    /\ Conclude(Team(j), "failed")
    /\ stray' = stray \cup ({j} \cap lease)
    /\ stuck' = IF UnloadRefused(lease) THEN stuck \cup {j} ELSE stuck
    /\ Answer(Team(j), "raised")
    /\ UNCHANGED <<kind, cancelled, frontier, team, held, asked, stream, reader, forgotten, unclosed, again>>

\* The set-up of a stream fails: the lease is not left, and the clean-up that
\* comes before the admission's release may raise.
StreamSetupFails(j) ==
    /\ job[j] \in {"lease", "prepare"} /\ kind[j] = "stream"
    /\ Advance(j, "over")
    /\ Conclude(Team(j), "failed")
    /\ stray' = stray \cup ({j} \cap lease)
    /\ IF UnloadRefused(lease)
       THEN stuck' = stuck \cup {j} /\ UNCHANGED slot
       ELSE slot' = slot \ {j} /\ UNCHANGED stuck
    /\ Answer(Team(j), "raised")
    /\ UNCHANGED <<kind, cancelled, frontier, team, lease, asked, stream, reader, forgotten, unclosed, again>>

\* The set-up of a batch leaves its leases first, but concludes its members
\* last: when the clean-up raises they are not concluded.
BatchSetupFails(j) ==
    /\ job[j] \in {"lease", "prepare"} /\ kind[j] = "bstream"
    /\ Advance(j, "over")
    /\ lease' = lease \ Team(j)
    /\ IF UnloadRefused(lease \ Team(j))
       THEN /\ stuck' = stuck \cup {j} /\ forgotten' = forgotten \cup Team(j)
            /\ UNCHANGED <<slot, seq, event>>
       ELSE /\ slot' = slot \ {j} /\ Conclude(Team(j), "failed")
            /\ UNCHANGED <<stuck, forgotten>>
    /\ Answer(Team(j), "raised")
    /\ Drained(j)
    /\ UNCHANGED <<kind, cancelled, waiting, team, asked, stream, reader, stray, unclosed, again>>

-----------------------------------------------------------------------------
(* The producer of a stream: a queue of one item.  A killed producer does     *)
(* nothing more than its finally block.                                      *)

Put(r, item) == queue' = [queue EXCEPT ![r] = Append(@, item)]

Delta(j) ==
    /\ job[j] = "stream" /\ kind[j] = "stream" /\ j \notin kill
    /\ left[j] > 0 /\ queue[j] = <<>>
    /\ Put(j, "delta")
    /\ left' = [left EXCEPT ![j] = @ - 1]
    /\ UNCHANGED <<kind, caller, cancelled, frontier, job, team, held, verdict, kill, reader, holes>>

\* The verdict is recorded and published before the last item is put.
Finish(j) ==
    /\ job[j] = "stream" /\ kind[j] = "stream" /\ j \notin kill
    /\ \/ Conclude({j}, "completed") /\ Advance(j, "ending")
       \/ Conclude({j}, "failed") /\ Advance(j, "failing")
    /\ UNCHANGED <<kind, caller, cancelled, frontier, team, held, asked, stream, reader, holes>>

LastItem(j) ==
    /\ job[j] \in {"ending", "failing"} /\ j \notin kill
    /\ queue[j] = <<>>
    /\ Put(j, IF job[j] = "ending" THEN "end" ELSE "exc")
    /\ ReleaseAll(j)
    /\ Advance(j, "over")
    /\ UNCHANGED <<kind, caller, cancelled, frontier, team, verdict, left, kill, reader, holes>>

\* Mutant: a killed producer records a failure.
KilledConcluding(j) ==
    /\ j \in kill /\ job[j] \in Producing
    /\ kill' = kill \ {j}
    /\ ReleaseAll(j)
    /\ Advance(j, "over")
    /\ Conclude({j}, "failed")
    /\ UNCHANGED <<kind, caller, cancelled, frontier, team, asked, queue, left, reader, holes>>

Killed(j) ==
    /\ j \in kill /\ job[j] \in Producing
    /\ kill' = kill \ {j}
    /\ ReleaseAll(j)
    /\ Advance(j, "over")
    /\ UNCHANGED <<kind, caller, cancelled, frontier, team, verdict, queue, left, reader, holes>>

-----------------------------------------------------------------------------
(* _run_batched_stream: unbounded queues; a member whose reader closed gets   *)
(* nothing more, and a failed event instead of a verdict.                    *)

BatchDelta(j, r) ==
    /\ job[j] = "stream" /\ kind[j] = "bstream"
    /\ r \in Team(j) /\ left[r] > 0
    /\ left' = [left EXCEPT ![r] = @ - 1]
    /\ IF source[r] = "closed" THEN UNCHANGED queue ELSE Put(r, "delta")
    /\ UNCHANGED <<kind, caller, cancelled, frontier, job, team, held, verdict, kill, reader, holes>>

\* Mutant: the event of a member whose reader closed says completed.
ConcludeStreamsIgnoringClosed(S) ==
    LET closed == {r \in S : source[r] = "closed"}
        served == S \ closed
    IN  /\ asked' = asked \cup closed
        /\ seq' = SetAll(seq, served, "completed")
        /\ event' = SetAll(event, S, "completed")
        /\ queue' = [r \in Requests |-> IF r \in served THEN Append(queue[r], "end") ELSE queue[r]]

ConcludeStreams(S) ==
    LET closed == {r \in S : source[r] = "closed"}
        served == S \ closed
    IN  /\ asked' = asked \cup closed
        /\ seq' = SetAll(seq, served, "completed")
        /\ event' = SetAll(SetAll(event, served, "completed"), closed, "failed")
        /\ queue' = [r \in Requests |-> IF r \in served THEN Append(queue[r], "end") ELSE queue[r]]

BatchFinish(j) ==
    /\ job[j] = "stream" /\ kind[j] = "bstream"
    /\ ConcludeStreams(Team(j))
    /\ ReleaseAll(j)
    /\ Advance(j, "over")
    /\ UNCHANGED <<kind, caller, cancelled, frontier, team, left, kill, reader, holes>>

\* Something raises after the first n members were concluded.
BatchSome(j) ==
    /\ job[j] = "stream" /\ kind[j] = "bstream"
    /\ \E n \in 1 .. Len(team[j]) : ConcludeStreams(ToSet(SubSeq(team[j], 1, n)))
    /\ Advance(j, "concluding")
    /\ UNCHANGED <<kind, caller, cancelled, frontier, team, held, left, kill, reader, holes>>

\* The backend raised, or the loop that concludes the members did: every member
\* is failed, those already concluded included.
BatchBreaks(j) ==
    /\ job[j] \in {"stream", "concluding"} /\ kind[j] = "bstream"
    /\ again' = again \cup {r \in Team(j) : event[r] # "none"}
    /\ queue' = [r \in Requests |-> IF r \in Team(j) THEN Append(queue[r], "exc") ELSE queue[r]]
    /\ Conclude(Team(j), "failed")
    /\ ReleaseAll(j)
    /\ Advance(j, "over")
    /\ UNCHANGED <<kind, caller, cancelled, frontier, team, asked, left, kill, reader, stuck, stray, forgotten, unclosed>>

-----------------------------------------------------------------------------
(* The response *)

\* Mutant: closing does not reach the producer.
CloseWithoutKill(r) ==
    /\ source' = [source EXCEPT ![r] = "closed"]
    /\ asked' = asked \cup {r}
    /\ kill' = kill

\* Closing the source marks the sequence and stops a producer of its own.
CloseSource(r) ==
    /\ source' = [source EXCEPT ![r] = "closed"]
    /\ asked' = asked \cup {r}
    /\ kill' = IF kind[r] = "stream" /\ job[r] \in Producing THEN kill \cup {r} ELSE kill

CloseIfOpen(r) == IF source[r] = "open" THEN CloseSource(r) ELSE UNCHANGED <<source, asked, kill>>

EndResponse(r) == resp' = [resp EXCEPT ![r] = "over"] /\ hold' = [hold EXCEPT ![r] = "none"]

\* The end of the stream closes the source as completed, an exception does not.
TakeItem(r) ==
    /\ resp[r] \in {"opening", "headers", "reading"}
    /\ source[r] = "open" /\ hold[r] = "none" /\ queue[r] # <<>>
    /\ hold' = [hold EXCEPT ![r] = Head(queue[r])]
    /\ queue' = [queue EXCEPT ![r] = Tail(@)]
    /\ \/ Head(queue[r]) = "delta" /\ UNCHANGED <<source, asked, kill>>
       \/ Head(queue[r]) = "end" /\ source' = [source EXCEPT ![r] = "closed"] /\ UNCHANGED <<asked, kill>>
       \/ Head(queue[r]) = "exc" /\ CloseSource(r)
    /\ UNCHANGED <<kind, caller, cancelled, frontier, job, team, held, seq, event, left, resp, holes>>

\* _open_stream: a first item that is a failure becomes an HTTP error; any
\* other item, or the end of the grace period, starts the response.
Opened(r) ==
    /\ resp[r] = "opening"
    /\ IF hold[r] = "exc" THEN EndResponse(r)
       ELSE resp' = [resp EXCEPT ![r] = "headers"] /\ UNCHANGED hold
    /\ UNCHANGED <<kind, caller, cancelled, frontier, job, team, held, verdict, stream, source, holes>>

OpenCancelled(r) ==
    /\ resp[r] = "opening"
    /\ CloseIfOpen(r)
    /\ EndResponse(r)
    /\ UNCHANGED <<kind, caller, cancelled, frontier, job, team, held, seq, event, queue, left, holes>>

\* The generator's first step.  A request cancelled by then gets its frame
\* before source_stream is set, and the source is not closed.
Begin(r) ==
    /\ resp[r] = "headers"
    /\ IF r \in cancelled
       THEN /\ EndResponse(r)
            /\ unclosed' = IF source[r] = "open" THEN unclosed \cup {r} ELSE unclosed
       ELSE resp' = [resp EXCEPT ![r] = "reading"] /\ UNCHANGED <<hold, unclosed>>
    /\ UNCHANGED <<kind, caller, cancelled, frontier, job, team, held, verdict, stream, source,
                   stuck, stray, forgotten, again>>

\* A delta is passed on; the end and a failure are the last frames.
Forward(r) ==
    /\ resp[r] = "reading" /\ hold[r] # "none"
    /\ hold[r] = "delta" => r \notin cancelled
    /\ IF hold[r] = "delta" THEN hold' = [hold EXCEPT ![r] = "none"] /\ UNCHANGED resp ELSE EndResponse(r)
    /\ UNCHANGED <<kind, caller, cancelled, frontier, job, team, held, verdict, stream, source, holes>>

\* The cancellation is seen at the next item or heartbeat.
SeeCancel(r) ==
    /\ resp[r] = "reading" /\ r \in cancelled
    /\ CloseIfOpen(r)
    /\ EndResponse(r)
    /\ UNCHANGED <<kind, caller, cancelled, frontier, job, team, held, seq, event, queue, left, holes>>

\* The client disconnects.  A generator that never ran has no finally block.
Disconnect(r) ==
    /\ \/ resp[r] = "reading" /\ CloseIfOpen(r) /\ UNCHANGED unclosed
       \/ /\ resp[r] = "headers"
          /\ unclosed' = IF source[r] = "open" THEN unclosed \cup {r} ELSE unclosed
          /\ UNCHANGED <<source, asked, kill>>
    /\ EndResponse(r)
    /\ UNCHANGED <<kind, caller, cancelled, frontier, job, team, held, seq, event, queue, left,
                   stuck, stray, forgotten, again>>

\* The garbage collector finalises a source or a lease nobody refers to.
Collect(r) ==
    \/ /\ r \in unclosed /\ source[r] = "open"
       /\ CloseSource(r)
       /\ UNCHANGED <<kind, caller, cancelled, frontier, job, team, held, seq, event, queue, left, hold, resp, holes>>
    \/ /\ r \in stray \cap lease
       /\ lease' = lease \ {r}
       /\ UNCHANGED <<kind, caller, cancelled, frontier, job, team, slot, verdict, stream, reader, holes>>

-----------------------------------------------------------------------------

Execute(j) ==
    \/ Acquire(j) \/ AcquireFails(j) \/ EnterLease(j) \/ Prepare(j) \/ RunComplete(j)
    \/ CompleteSome(j) \/ CompleteFails(j) \/ StreamSetupFails(j) \/ BatchSetupFails(j)
    \/ Delta(j) \/ Finish(j) \/ LastItem(j) \/ Killed(j)
    \/ (\E r \in Requests : BatchDelta(j, r)) \/ BatchFinish(j) \/ BatchSome(j) \/ BatchBreaks(j)

Respond(r) == TakeItem(r) \/ Opened(r) \/ Begin(r) \/ Forward(r) \/ SeeCancel(r)

Next ==
    \/ \E k \in Batched : TakeBatch(k)
    \/ \E r \in Requests :
        \/ Start(r) \/ CancelNamed(r) \/ CancelCaller(r)
        \/ Execute(r) \/ Respond(r)
        \/ OpenCancelled(r) \/ Disconnect(r) \/ Collect(r)

\* Tasks that can run do, the backend keeps producing, and the server keeps
\* reading a stream for a client that is there.  Nobody has to call, cancel or
\* leave, and nothing says when the garbage collector runs.
Fairness ==
    /\ \A k \in Batched : WF_vars(TakeBatch(k))
    /\ \A r \in Requests : WF_vars(Execute(r)) /\ WF_vars(Respond(r))

Spec     == Init /\ [][Next]_vars
FairSpec == Spec /\ Fairness

-----------------------------------------------------------------------------

TypeOK ==
    /\ caller \in [Requests -> {"new", "waiting", "answered", "raised", "gone"}]
    /\ drain \in [Batched -> {"idle", "window", "busy"}]
    /\ job \in [Requests -> {"none", "acquire", "over"} \cup Working]
    /\ slot \subseteq Requests /\ lease \subseteq Requests /\ kill \subseteq Requests
    /\ seq \in [Requests -> {"none", "active", "completed", "failed"}]
    /\ event \in [Requests -> {"none", "completed", "failed"}]
    /\ source \in [Requests -> {"none", "open", "closed"}]
    /\ hold \in [Requests -> {"none", "delta", "end", "exc"}]
    /\ resp \in [Requests -> {"none", "opening", "headers", "reading", "over"}]

\* An admission is held exactly by the jobs at work, and a lease by the members
\* of a job that is past its loading, however callers, readers and failures
\* interleave (the finally blocks of _execute_complete_context, iterator() and
\* _run_batched_stream), except where a stream's set-up leaves one behind.
HeldByWork ==
    /\ TypeOK
    /\ Cardinality(slot) <= MaxSlots
    /\ {j \in Requests : job[j] \in Working} \subseteq slot
    /\ slot \subseteq {j \in Requests : job[j] \in Working} \cup stuck
    /\ \A j \in Requests : job[j] \in Working \ {"lease"} => Team(j) \subseteq lease
    /\ lease \subseteq stray \cup UNION {Team(j) : j \in {i \in Requests : job[i] \in Working \ {"lease"}}}

\* The terminal event and the serving core's sequence agree, and a sequence that
\* is still active has a job, waits for one, or was asked to cancel, except where
\* a cancelled caller or a failed set-up left it (serving_core.py, _active).
VerdictsAgree ==
    \A r \in Requests :
        /\ event[r] = "completed" <=> seq[r] = "completed"
        /\ event[r] = "failed" => seq[r] = "failed" \/ (kind[r] = "bstream" /\ r \in asked)
        /\ seq[r] = "active" =>
            \/ \E k \in Batched : Contains(waiting[k], r)
            \/ \E j \in Requests : r \in Team(j) /\ job[j] \in {"acquire"} \cup Working
            \/ r \in forgotten \cup asked

\* A verdict stands: once a terminal event was published no step publishes the
\* opposite, a consumer that leaves afterwards included, except for a complete()
\* or a batch that raises after it published the verdicts of some members: its
\* handler fails those too.
VerdictStands ==
    [][\A r \in Requests :
        event[r] # "none" /\ r \notin again' => event'[r] = event[r] /\ seq'[r] = seq[r]]_vars

\* Every caller gets its answer, and the producer of every stream ends and has
\* then returned its admission: it is never left blocked on a full queue by a
\* reader that went away, unless the source was left unclosed.
EveryStreamEnds ==
    \A r \in Requests :
        caller[r] = "waiting" \/ (job[r] \in Producing /\ r \notin unclosed)
            ~> caller[r] # "waiting" /\ (job[r] \notin Producing \/ r \in unclosed)
=============================================================================
