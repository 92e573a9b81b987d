----------------------------- MODULE Conversion -----------------------------
(***************************************************************************)
(* The conversion service (conversion/service.py) for one cache key:       *)
(* submit(), called by request threads without a lock, the worker threads  *)
(* that run the jobs, the rows of the metadata store and the output        *)
(* directory in the conversion cache.  Rows and files survive the process; *)
(* the executor and the calls in progress do not.                          *)
(*                                                                         *)
(* A job is named by the client that created it.  A step is one statement  *)
(* of the store, one copy of a directory into place, or part of the        *)
(* removal of one: a removal may stop anywhere and leave a torn output.    *)
(* The store, the events and the audit log may raise wherever they are     *)
(* called.  Outputs are plain directories (no encryptor).                  *)
(***************************************************************************)
EXTENDS Integers, Sequences, SequencesExt, FiniteSets

CONSTANTS
    Clients,      \* calls of submit()
    Requests,     \* what the clients ask: with force, with the idempotency key
    MaxWorkers,   \* conversion_worker_count
    MaxUpsets,    \* bound: restarts, calls of close() and of clear_cache, and
                  \* errors in submit(), at the start and at the end of a worker
    None

ASSUME ConversionAssumption ==
    /\ Requests \subseteq [Clients -> [force : BOOLEAN, keyed : BOOLEAN]]
    /\ MaxWorkers \in Nat \ {0} /\ MaxUpsets \in Nat
    /\ None \notin Clients

VARIABLES         \* persisted
    request,      \* what each client asks
    job,          \* status of the job rows
    artifact,     \* the artifact row exists
    output,       \* the output path: its state and the job that wrote it
    idem          \* the idempotency row: a job and the request's force
VARIABLES         \* of the process
    at,           \* where a call of submit() is
    found,        \* the job it is going to return
    queue,        \* jobs submitted to the executor
    run,          \* where the worker of a job is
    closed,       \* close() was called
    clear,        \* where a call of clear_cache is; it is made by the command
                  \* line, a process of its own
    upsets,       \* how many of the events MaxUpsets bounds have happened
    clears        \* calls of clear_cache
VARIABLES         \* history
    orphans,      \* rows that no worker will ever touch again
    overlap,      \* a job was queued, or an output removed, under another's feet
    half,         \* jobs that completed on a half-written or missing output
    retry         \* clients that came with the key after it had been answered

rows    == <<job, artifact, output, idem>>
calls   == <<at, found>>
workers == <<queue, run, closed>>
history == <<orphans, overlap, half, retry>>
vars    == <<request, rows, calls, workers, clear, clears, upsets, history>>

Absent == [state |-> "none", by |-> None]
Torn   == [state |-> "torn", by |-> None]   \* what a removal cut short leaves

Init ==
    /\ request \in Requests
    /\ job = [c \in Clients |-> "none"]
    /\ artifact = FALSE
    /\ output = Absent
    /\ idem = [job |-> None, force |-> FALSE]
    /\ at = [c \in Clients |-> "new"]
    /\ found = [c \in Clients |-> None]
    /\ queue = <<>>
    /\ run = [c \in Clients |-> "none"]
    /\ closed = FALSE /\ clear = "none" /\ upsets = 0 /\ clears = 0
    /\ orphans = {} /\ overlap = FALSE /\ half = {} /\ retry = {}

Unfinished(j) == job[j] \in {"queued", "running"}
Live(j)       == Unfinished(j) /\ j \notin orphans
Working       == {"start", "convert", "target", "removing", "copy", "copying", "record", "complete", "after", "failing"}

\* Calls that looked for a job and have not settled what they do about it.
Deciding == {c \in Clients : at[c] \in {"artifact", "recover", "recovered", "cached", "clean", "decide"}}

\* The calls in C, or the live jobs, may rely on the output as it is.
UnderFeet(C) == C # {} \/ \E j \in Clients : Live(j)

\* discover_models finds a runnable model in a whole output, never in none; in a
\* half-written or torn one it may, if the files it looks at are there.
Valid(verdict) ==
    \/ output.state = "whole" /\ verdict
    \/ output.state = "none" /\ ~verdict
    \/ output.state \in {"partial", "torn"} /\ verdict \in BOOLEAN

\* What rmtree(ignore_errors=True) may leave of the output.
Leftover == IF output.state = "none" THEN {Absent} ELSE {Absent, Torn}

Upset == upsets < MaxUpsets /\ upsets' = upsets + 1

Goto(c, stage) == at' = [at EXCEPT ![c] = stage]
SetJob(j, status) == job' = [job EXCEPT ![j] = status]

\* A row turns completed on the strength of the output as it is.
CompleteOn(c) ==
    /\ SetJob(c, "completed")
    /\ half' = IF output.state \in {"none", "partial"} THEN half \cup {c} ELSE half

-----------------------------------------------------------------------------
(* submit() *)

\* A replay returns the recorded job; another request under the same key is a
\* conflict.
Begin(c) ==
    /\ at[c] = "new"
    /\ retry' = IF \E d \in Clients : at[d] = "done" /\ request[d] = request[c] /\ request[c].keyed /\ clears = 0
                THEN retry \cup {c} ELSE retry
    /\ IF request[c].keyed /\ idem.job # None
       THEN Goto(c, IF idem.force = request[c].force THEN "done" ELSE "raised")
       ELSE Goto(c, IF request[c].force THEN "decide" ELSE "jobs")
    /\ UNCHANGED <<request, rows, found, workers, clear, clears, upsets, orphans, overlap, half>>

\* Mutant: only a job that has not started is joined.
FindQueuedJob(c) ==
    /\ at[c] = "jobs"
    /\ IF \E j \in Clients : job[j] = "queued"
       THEN /\ \E j \in Clients : job[j] = "queued" /\ found' = [found EXCEPT ![c] = j]
            /\ Goto(c, "idem")
       ELSE Goto(c, "artifact") /\ UNCHANGED found
    /\ UNCHANGED <<request, rows, workers, clear, clears, upsets, history>>

\* The newest queued or running job of the key is joined (creation times are
\* not kept: any of them may be it).
FindJob(c) ==
    /\ at[c] = "jobs"
    /\ IF \E j \in Clients : Unfinished(j)
       THEN /\ \E j \in Clients : Unfinished(j) /\ found' = [found EXCEPT ![c] = j]
            /\ Goto(c, "idem")
       ELSE Goto(c, "artifact") /\ UNCHANGED found
    /\ UNCHANGED <<request, rows, workers, clear, clears, upsets, history>>

\* The recorded artifact is used if its path holds a runnable model.
UseArtifact(c) ==
    /\ at[c] = "artifact"
    /\ \E ok \in BOOLEAN : Valid(ok) /\ Goto(c, IF artifact /\ ok THEN "cached" ELSE "recover")
    /\ UNCHANGED <<request, rows, found, workers, clear, clears, upsets, history>>

\* _recover_or_cleanup_orphaned_output looks at the path ...
Inspect(c) ==
    /\ at[c] = "recover"
    /\ \E ok \in BOOLEAN :
        /\ Valid(ok)
        /\ Goto(c, IF output.state = "none" THEN "decide" ELSE IF ok THEN "recovered" ELSE "clean")
    /\ UNCHANGED <<request, rows, found, workers, clear, clears, upsets, history>>

\* ... and records what it found, or removes it.
Recover(c) ==
    /\ at[c] = "recovered"
    /\ artifact' = TRUE
    /\ Goto(c, "cached")
    /\ UNCHANGED <<request, job, output, idem, found, workers, clear, clears, upsets, history>>

Clean(c) ==
    /\ at[c] = "clean"
    /\ output' \in Leftover
    /\ overlap' = (overlap \/ UnderFeet(Deciding \ {c}))
    /\ Goto(c, "decide")
    /\ UNCHANGED <<request, job, artifact, idem, found, workers, clear, clears, upsets, orphans, half, retry>>

\* The artifact, known or recovered, makes the job completed at once.
CompleteCached(c) ==
    /\ at[c] = "cached"
    /\ CompleteOn(c)
    /\ Goto(c, "idem") /\ found' = [found EXCEPT ![c] = c]
    /\ UNCHANGED <<request, artifact, output, idem, workers, clear, clears, upsets, orphans, overlap, retry>>

\* The model runs as it is, cannot be converted, or is queued.
Decide(c) ==
    /\ at[c] = "decide"
    /\ \E status \in {"completed", "failed", "queued"} :
        /\ SetJob(c, status)
        /\ overlap' = (overlap \/ (status = "queued" /\ UnderFeet(Deciding \ {c})))
    /\ found' = [found EXCEPT ![c] = c]
    /\ Goto(c, "idem")
    /\ UNCHANGED <<request, artifact, output, idem, workers, clear, clears, upsets, orphans, half, retry>>

\* Mutant: the answer of a call that joined a job is not remembered.
StoreOwnIdempotentJob(c) ==
    /\ at[c] = "idem"
    /\ idem' = IF request[c].keyed /\ found[c] = c THEN [job |-> c, force |-> request[c].force] ELSE idem
    /\ Goto(c, IF found[c] = c /\ job[c] = "queued" THEN "hand" ELSE "done")
    /\ found' = [found EXCEPT ![c] = None]
    /\ UNCHANGED <<request, job, artifact, output, workers, clear, clears, upsets, history>>

\* _store_idempotent_job, before the caller has an answer.
StoreIdempotentJob(c) ==
    /\ at[c] = "idem"
    /\ idem' = IF request[c].keyed THEN [job |-> found[c], force |-> request[c].force] ELSE idem
    /\ Goto(c, IF found[c] = c /\ job[c] = "queued" THEN "hand" ELSE "done")
    /\ found' = [found EXCEPT ![c] = None]
    /\ UNCHANGED <<request, job, artifact, output, workers, clear, clears, upsets, history>>

Hand(c) ==
    /\ at[c] = "hand" /\ ~closed
    /\ queue' = Append(queue, c)
    /\ Goto(c, "done")
    /\ UNCHANGED <<request, rows, found, run, closed, clear, clears, upsets, history>>

\* The store, a file, an event, the audit log, or in the end a closed executor
\* raises, and submit with it: a row that was queued stays so, with no worker.
SubmitFails(c) ==
    /\ at[c] \notin {"new", "done", "raised"}
    /\ IF at[c] = "hand" /\ closed THEN UNCHANGED upsets ELSE Upset
    /\ Goto(c, "raised")
    /\ found' = [found EXCEPT ![c] = None]
    /\ orphans' = IF job[c] = "queued" THEN orphans \cup {c} ELSE orphans
    /\ UNCHANGED <<request, rows, workers, clear, clears, overlap, half, retry>>

-----------------------------------------------------------------------------
(* _run_job *)

Step(j, stage) == run' = [run EXCEPT ![j] = stage]

Pick ==
    /\ queue # <<>> /\ Cardinality({j \in Clients : run[j] \in Working}) < MaxWorkers
    /\ Step(Head(queue), "start")
    /\ queue' = Tail(queue)
    /\ UNCHANGED <<request, rows, calls, closed, clear, clears, upsets, history>>

StartJob(j) ==
    /\ run[j] = "start"
    /\ SetJob(j, "running")
    /\ Step(j, "convert")
    /\ UNCHANGED <<request, artifact, output, idem, calls, queue, closed, clear, clears, upsets, history>>

\* Reading the manifest or writing the row raises, or the event after it, all
\* before the try block: the worker is gone and the row stays queued or running.
StartFails(j) ==
    /\ run[j] = "start"
    /\ Upset
    /\ Step(j, "none")
    /\ \E status \in {"queued", "running"} : SetJob(j, status)
    /\ orphans' = orphans \cup {j}
    /\ UNCHANGED <<request, artifact, output, idem, calls, queue, closed, clear, clears, overlap, half, retry>>

\* The backend wrote its output to a temporary directory.
Converted(j) ==
    /\ run[j] = "convert"
    /\ Step(j, "target")
    /\ UNCHANGED <<request, rows, calls, queue, closed, clear, clears, upsets, history>>

\* Mutant: an error ends the worker and not the job.
JobFailsQuietly(j) ==
    /\ run[j] \in {"convert", "target", "removing", "copy", "record", "complete", "after"}
    /\ Step(j, "none")
    /\ UNCHANGED <<request, rows, calls, queue, closed, clear, clears, upsets, history>>

\* The backend, the store or the file system raises, or an event or audit line
\* after the row was already completed.
JobFails(j) ==
    /\ run[j] \in {"convert", "target", "removing", "copy", "record", "complete", "after"}
    /\ Step(j, "failing")
    /\ UNCHANGED <<request, rows, calls, queue, closed, clear, clears, upsets, history>>

\* The handler of _run_job fails the row ...
FailJob(j) ==
    /\ run[j] = "failing"
    /\ SetJob(j, "failed") /\ Step(j, "none")
    /\ UNCHANGED <<request, artifact, output, idem, calls, queue, closed, clear, clears, upsets, history>>

\* ... unless the store raises again: the row stays as it is, with no worker.
FailUnrecorded(j) ==
    /\ run[j] = "failing"
    /\ Upset
    /\ Step(j, "none")
    /\ orphans' = IF Unfinished(j) THEN orphans \cup {j} ELSE orphans
    /\ UNCHANGED <<request, rows, calls, queue, closed, clear, clears, overlap, half, retry>>

\* _write_output_path: an existing output is an error, or is removed if forced.
CheckTarget(j) ==
    /\ run[j] = "target"
    /\ \/ output.state = "none" /\ Step(j, "copy") /\ UNCHANGED output
       \/ output.state # "none" /\ ~request[j].force /\ Step(j, "failing") /\ UNCHANGED output
       \/ output.state # "none" /\ request[j].force /\ Step(j, "removing") /\ output' = Torn
    /\ UNCHANGED <<request, job, artifact, idem, calls, queue, closed, clear, clears, upsets, history>>

Removed(j) ==
    /\ run[j] = "removing"
    /\ output' = Absent
    /\ Step(j, "copy")
    /\ UNCHANGED <<request, job, artifact, idem, calls, queue, closed, clear, clears, upsets, history>>

\* copytree makes the directory; if somebody else just did, it raises, and the
\* clean-up removes what is there.
CopyStarts(j) ==
    /\ run[j] = "copy"
    /\ IF output.state = "none"
       THEN output' = [state |-> "partial", by |-> j] /\ Step(j, "copying")
       ELSE output' \in Leftover /\ Step(j, "failing")
    /\ UNCHANGED <<request, job, artifact, idem, calls, queue, closed, clear, clears, upsets, history>>

\* What others removed, or wrote, meanwhile stays so.
CopyEnds(j) ==
    /\ run[j] = "copying" /\ output.state # "none"
    /\ output' = IF output = [state |-> "partial", by |-> j] THEN [state |-> "whole", by |-> None] ELSE output
    /\ Step(j, "record")
    /\ UNCHANGED <<request, job, artifact, idem, calls, queue, closed, clear, clears, upsets, history>>

\* No space, or the directory was removed meanwhile.
CopyFails(j) ==
    /\ run[j] = "copying"
    /\ output' \in Leftover
    /\ Step(j, "failing")
    /\ UNCHANGED <<request, job, artifact, idem, calls, queue, closed, clear, clears, upsets, history>>

RecordArtifact(j) ==
    /\ run[j] = "record"
    /\ artifact' = TRUE
    /\ Step(j, "complete")
    /\ UNCHANGED <<request, job, output, idem, calls, queue, closed, clear, clears, upsets, history>>

CompleteJob(j) ==
    /\ run[j] = "complete"
    /\ CompleteOn(j)
    /\ Step(j, "after")
    /\ UNCHANGED <<request, artifact, output, idem, calls, queue, closed, clear, clears, upsets, orphans, overlap, retry>>

JobEnds(j) ==
    /\ run[j] = "after"
    /\ Step(j, "none")
    /\ UNCHANGED <<request, rows, calls, queue, closed, clear, clears, upsets, history>>

-----------------------------------------------------------------------------
(* The process, and the command line beside it *)

\* close(): jobs still queued are cancelled, running ones end.
Close ==
    /\ Upset
    /\ ~closed
    /\ closed' = TRUE
    /\ queue' = <<>>
    /\ orphans' = orphans \cup ToSet(queue)
    /\ UNCHANGED <<request, rows, calls, run, clear, clears, overlap, half, retry>>

\* The process ends, by a crash or after close(), and a new one starts.
Restart ==
    /\ Upset
    /\ orphans' = orphans \cup {j \in Clients : Unfinished(j)}
    /\ at' = [c \in Clients |-> IF at[c] \in {"new", "done", "raised"} THEN at[c] ELSE "raised"]
    /\ run' = [j \in Clients |-> "none"]
    /\ queue' = <<>> /\ closed' = FALSE
    /\ found' = [c \in Clients |-> None]
    /\ UNCHANGED <<request, rows, clear, clears, overlap, half, retry>>

\* clear_cache removes the output, in as many steps as it has files, then the
\* artifact rows, then the idempotency rows; it may raise or die anywhere.
ClearStarts ==
    /\ clear = "none" /\ Upset
    /\ clear' = "files" /\ clears' = clears + 1
    /\ UNCHANGED <<request, rows, calls, workers, history>>

ClearSome ==
    /\ clear = "files" /\ output.state \notin {"none", "torn"}
    /\ output' = Torn
    /\ overlap' = (overlap \/ UnderFeet(Deciding))
    /\ UNCHANGED <<request, job, artifact, idem, calls, workers, clear, clears, upsets, orphans, half, retry>>

ClearFiles ==
    /\ clear = "files"
    /\ clear' = "artifacts"
    /\ output' = Absent
    /\ overlap' = (overlap \/ UnderFeet(Deciding))
    /\ UNCHANGED <<request, job, artifact, idem, calls, workers, clears, upsets, orphans, half, retry>>

ClearArtifacts ==
    /\ clear = "artifacts"
    /\ clear' = "idem"
    /\ artifact' = FALSE
    /\ UNCHANGED <<request, job, output, idem, calls, workers, clears, upsets, history>>

ClearIdempotent ==
    /\ clear = "idem"
    /\ clear' = "none"
    /\ idem' = [job |-> None, force |-> FALSE]
    /\ UNCHANGED <<request, job, artifact, output, calls, workers, clears, upsets, history>>

ClearStops ==
    /\ clear # "none"
    /\ clear' = "none"
    /\ UNCHANGED <<request, rows, calls, workers, clears, upsets, history>>

-----------------------------------------------------------------------------
SubmitStep(c) ==
    \/ FindJob(c) \/ UseArtifact(c) \/ Inspect(c) \/ Recover(c) \/ Clean(c) \/ CompleteCached(c)
    \/ Decide(c) \/ StoreIdempotentJob(c) \/ Hand(c) \/ SubmitFails(c)

WorkerStep(j) ==
    \/ StartJob(j) \/ StartFails(j) \/ Converted(j) \/ JobFails(j) \/ FailJob(j) \/ FailUnrecorded(j)
    \/ CheckTarget(j) \/ Removed(j) \/ CopyStarts(j) \/ CopyEnds(j) \/ CopyFails(j)
    \/ RecordArtifact(j) \/ CompleteJob(j) \/ JobEnds(j)

ClearStep == ClearStarts \/ ClearSome \/ ClearFiles \/ ClearArtifacts \/ ClearIdempotent \/ ClearStops

Next ==
    \/ \E c \in Clients : Begin(c) \/ SubmitStep(c) \/ WorkerStep(c)
    \/ Pick \/ Close \/ Restart \/ ClearStep

Spec == Init /\ [][Next]_vars

\* Threads run, and a conversion ends: its tool is run with a time limit.
\* Nobody has to submit, close, restart or clear.
FairSpec ==
    /\ Spec
    /\ \A c \in Clients : WF_vars(SubmitStep(c)) /\ WF_vars(WorkerStep(c))
    /\ WF_vars(Pick)

-----------------------------------------------------------------------------
TypeOK ==
    /\ job \in [Clients -> {"none", "queued", "running", "completed", "failed"}]
    /\ artifact \in BOOLEAN
    /\ output \in [state : {"none", "partial", "whole", "torn"}, by : Clients \cup {None}]
    /\ idem \in [job : Clients \cup {None}, force : BOOLEAN]
    /\ found \in [Clients -> Clients \cup {None}]
    /\ run \in [Clients -> {"none"} \cup Working]

\* No job is reported completed on a missing or half-written output, wherever a
\* worker, a call or clear_cache fails and wherever the process ends, unless a job
\* was queued or an output removed while another call was deciding or another job
\* was at work.  Outputs whose removal was cut short are exempt: the code does
\* complete on them, as their files may still look runnable and their artifact
\* row, if they had one, is still there.
WholeUnlessOverlap == TypeOK /\ (half # {} => overlap)

\* A client that repeats a request under its idempotency key after the key was
\* answered starts no second conversion, restarts included
\* (_store_idempotent_job comes before the answer).
RetryStartsNothing == \A c \in retry : job[c] = "none"

\* Every job that is queued ends completed or failed, and every call of submit()
\* returns, however calls and workers interleave, except the jobs left without a
\* worker: by a restart, a close(), a start that failed, a submit() that raised
\* after it had queued the row, or a failure that could not be recorded.
JobsEnd == []<>(\A c \in Clients : ~Live(c) /\ at[c] \in {"new", "done", "raised"})
=============================================================================
