---------------------------- MODULE Cancellation ----------------------------
(***************************************************************************)
(* Cancellation handles of runtime/cancellation.py: the registry with its  *)
(* active, pending and terminal tables, and the token a request shares     *)
(* with whoever waits for its cancellation.                                *)
(*                                                                         *)
(* Registry calls come from the event loop and from other threads; each    *)
(* runs under the registry's lock and is one step, except that cancel()    *)
(* signals a token in two: it sets the flag, and then takes the waiters.   *)
(* wait_cancelled() uses the token's own lock and runs in between.         *)
(***************************************************************************)
EXTENDS Integers, Sequences, SequencesExt, SequenceFilter

CONSTANTS
    Handles,        \* request handles
    Requests,       \* tracked requests; several may use one handle in turn
    Credentials,    \* credential fingerprints
    None,           \* no request, no credential
    MaxTracked      \* max_tracked_requests

ASSUME CancellationAssumption ==
    /\ None \notin Requests \cup Credentials
    /\ MaxTracked \in Nat \ {0}

VARIABLES
    active,     \* _active: the request a handle addresses, or None
    pending,    \* _pending: handles with an intent, oldest first
    intent,     \* the caller that left a handle's intent
    stale,      \* handles whose intent is past its expiry
    terminal,   \* _terminal: handles with a terminal record, oldest first
    outcome,    \* the state of a terminal record
    towner,     \* _terminal_owners: credential per handle, where present
    rpc,        \* progress of each request
    handle,     \* its handle
    credential, \* its credential
    cancelled,  \* its token's flag
    observed,   \* a checkpoint acted on it
    by,         \* who set the flag
    signalling, \* the request whose token a cancel() in progress has flagged
    wpc,        \* progress of the request's wait_cancelled()
    listed,     \* its future is in the token's waiters
    resolved    \* its future is resolved

tables == <<active, pending, intent, stale, terminal, outcome, towner>>
waits  == <<wpc, listed, resolved>>
vars   == <<tables, rpc, handle, credential, cancelled, observed, by, signalling, waits>>

\* Owners compare by fingerprint, and a missing one only matches a missing one.
\* A trusted caller is the embedding host, which has no fingerprint.
Owners  == Credentials \cup {None}
Callers == [cred : Owners, trusted : {FALSE}] \cup {[cred |-> None, trusted |-> TRUE]}
Nobody  == [cred |-> None, trusted |-> FALSE]
Absent  == "absent"

Init ==
    /\ active = [h \in Handles |-> None]
    /\ pending = <<>>
    /\ intent = [h \in Handles |-> Nobody]
    /\ stale = {}
    /\ terminal = <<>>
    /\ outcome = [h \in Handles |-> Absent]
    /\ towner = [h \in Handles |-> Absent]
    /\ rpc = [r \in Requests |-> "new"]
    /\ handle \in [Requests -> Handles]
    /\ credential \in [Requests -> Owners]
    /\ cancelled = [r \in Requests |-> FALSE]
    /\ observed = [r \in Requests |-> FALSE]
    /\ by = [r \in Requests |-> Nobody]
    /\ signalling = None
    /\ wpc = [r \in Requests |-> "out"]
    /\ listed = [r \in Requests |-> FALSE]
    /\ resolved = [r \in Requests |-> FALSE]

-----------------------------------------------------------------------------
(* Shared pieces.                                                          *)

\* Intents that survive the expiry at the start of track() and cancel().
Live == Filter(pending, Handles \ stale)

Without(s, h) == Filter(s, Handles \ {h})

Evict(s) == IF Len(s) > MaxTracked THEN Tail(s) ELSE s

\* Mutant: anybody with a handle is its owner.
OwnersMatchAny(c, d) == TRUE

OwnersMatch(c, d) == c = d

MayCancel(who, owner) == who.trusted \/ OwnersMatch(owner, who.cred)

\* _expire_intents_locked
Purge ==
    /\ pending' = Live
    /\ intent' = [h \in Handles |-> IF h \in stale THEN Nobody ELSE intent[h]]
    /\ stale' = {}

-----------------------------------------------------------------------------
(* track and _release.                                                     *)

\* Mutant: the intent is taken and the token left alone.
ArrivesCancelledForgets(r) == UNCHANGED <<cancelled, by>>

\* The request arrives after its cancellation.
ArrivesCancelled(r) ==
    /\ cancelled' = [cancelled EXCEPT ![r] = TRUE]
    /\ by' = [by EXCEPT ![r] = intent[handle[r]]]

Admitted(r) ==
    LET h == handle[r] IN
    /\ active[h] = None
    /\ h \in ToSet(Live) => intent[h].trusted \/ OwnersMatch(intent[h].cred, credential[r])

\* A live request becomes the meaning of the handle.
ForgetTerminal(h) ==
    /\ terminal' = Without(terminal, h)
    /\ outcome' = [outcome EXCEPT ![h] = Absent]
    /\ towner' = [towner EXCEPT ![h] = Absent]

Track(r) ==
    LET h == handle[r] IN
    /\ signalling = None
    /\ rpc[r] = "new"
    /\ Admitted(r)
    /\ rpc' = [rpc EXCEPT ![r] = "active"]
    /\ active' = [active EXCEPT ![h] = r]
    /\ pending' = Without(Live, h)
    /\ intent' = [x \in Handles |-> IF x \in stale \cup {h} THEN Nobody ELSE intent[x]]
    /\ stale' = {}
    /\ ForgetTerminal(h)
    /\ IF h \in ToSet(Live) THEN ArrivesCancelled(r) ELSE UNCHANGED <<cancelled, by>>
    /\ UNCHANGED <<handle, credential, observed, signalling, waits>>

\* The handle is active, or reserved by another owner's intent.  The terminal
\* record is dropped before the intent is looked at.
TrackRefused(r) ==
    LET h == handle[r] IN
    /\ signalling = None
    /\ rpc[r] = "new"
    /\ ~Admitted(r)
    /\ Purge
    /\ rpc' = [rpc EXCEPT ![r] = "refused"]
    /\ IF active[h] = None THEN ForgetTerminal(h) ELSE UNCHANGED <<terminal, outcome, towner>>
    /\ UNCHANGED <<active, handle, credential, cancelled, observed, by, signalling, waits>>

Deactivate(r) ==
    IF active[handle[r]] = r THEN [active EXCEPT ![handle[r]] = None] ELSE active

\* _terminal_owners: set for the request, dropped with every evicted record.
OwnersAfter(r, t) ==
    [h \in Handles |-> IF h \notin ToSet(t) THEN Absent
                       ELSE IF h = handle[r] THEN credential[r] ELSE towner[h]]

\* The tracked block ends, with whatever wait it had.
Release(r) ==
    LET h == handle[r]
        t == Evict(Append(Without(terminal, h), h))
    IN
    /\ signalling = None
    /\ rpc[r] = "active" /\ wpc[r] = "out"
    /\ rpc' = [rpc EXCEPT ![r] = "done"]
    /\ active' = Deactivate(r)
    /\ terminal' = t
    /\ outcome' = [x \in Handles |->
                     IF x \notin ToSet(t) THEN Absent
                     ELSE IF x # h THEN outcome[x]
                     ELSE IF observed[r] THEN "cancelled" ELSE "completed"]
    /\ towner' = OwnersAfter(r, t)
    /\ UNCHANGED <<pending, intent, stale, handle, credential, cancelled, observed, by,
                   signalling, waits>>

\* raise_if_cancelled, observe_if_cancelled.
Checkpoint(r) ==
    /\ rpc[r] = "active" /\ cancelled[r]
    /\ observed' = [observed EXCEPT ![r] = TRUE]
    /\ UNCHANGED <<tables, rpc, handle, credential, cancelled, by, signalling, waits>>

-----------------------------------------------------------------------------
(* cancel.                                                                 *)

\* A live request: the flag is set, and the waiters are still to be taken.
CancelActive(h, who) ==
    LET r == active[h] IN
    /\ signalling = None
    /\ r # None
    /\ MayCancel(who, credential[r])
    /\ Purge
    /\ cancelled' = [cancelled EXCEPT ![r] = TRUE]
    /\ by' = [by EXCEPT ![r] = IF cancelled[r] THEN @ ELSE who]
    /\ signalling' = r
    /\ UNCHANGED <<active, terminal, outcome, towner, rpc, handle, credential, observed, waits>>

\* Every listed future is resolved on its loop; the registry's lock is free.
TakeWaiters ==
    /\ signalling # None
    /\ resolved' = [resolved EXCEPT ![signalling] = @ \/ listed[signalling]]
    /\ listed' = [listed EXCEPT ![signalling] = FALSE]
    /\ signalling' = None
    /\ UNCHANGED <<tables, rpc, handle, credential, cancelled, observed, by, wpc>>

\* Mutant: a finished request's handle takes a new intent.
UnknownUnlessActive(h) == active[h] = None /\ h \notin ToSet(Live)

\* No request has arrived under the handle, or its record is forgotten.
Unknown(h) == active[h] = None /\ h \notin ToSet(terminal) /\ h \notin ToSet(Live)

LeaveIntent(h, who) ==
    LET p == Evict(Append(Live, h)) IN
    /\ signalling = None
    /\ Unknown(h)
    /\ pending' = p
    /\ intent' = [x \in Handles |-> IF x \notin ToSet(p) THEN Nobody
                                    ELSE IF x = h THEN who ELSE intent[x]]
    /\ stale' = {}
    /\ UNCHANGED <<active, terminal, outcome, towner, rpc, handle, credential, cancelled,
                   observed, by, signalling, waits>>

\* The owner repeats a cancellation: owner, trust and expiry stay.
RepeatIntent(h, who) ==
    /\ signalling = None
    /\ active[h] = None /\ h \notin ToSet(terminal) /\ h \in ToSet(Live)
    /\ MayCancel(who, intent[h].cred)
    /\ pending' = Append(Without(Live, h), h)
    /\ intent' = [x \in Handles |-> IF x \in stale THEN Nobody ELSE intent[x]]
    /\ stale' = {}
    /\ UNCHANGED <<active, terminal, outcome, towner, rpc, handle, credential, cancelled,
                   observed, by, signalling, waits>>

\* A terminal record is returned, or the caller is not the owner: only the
\* expiry happens.
CancelWithoutEffect(h, who) ==
    /\ signalling = None
    /\ \/ active[h] # None /\ ~MayCancel(who, credential[active[h]])
       \/ active[h] = None /\ h \in ToSet(terminal)
       \/ /\ active[h] = None /\ h \notin ToSet(terminal) /\ h \in ToSet(Live)
          /\ ~MayCancel(who, intent[h].cred)
    /\ Purge
    /\ UNCHANGED <<active, terminal, outcome, towner, rpc, handle, credential, cancelled,
                   observed, by, signalling, waits>>

\* Time passes an intent's expiry.
Elapse(h) ==
    /\ h \in ToSet(pending) \ stale
    /\ stale' = stale \cup {h}
    /\ UNCHANGED <<active, pending, intent, terminal, outcome, towner, rpc, handle, credential,
                   cancelled, observed, by, signalling, waits>>

-----------------------------------------------------------------------------
(* wait_cancelled.                                                         *)

\* The first look, without the lock.
WaitCancelled(r) ==
    /\ rpc[r] = "active" /\ wpc[r] = "out"
    /\ ~cancelled[r]
    /\ wpc' = [wpc EXCEPT ![r] = "checked"]
    /\ resolved' = [resolved EXCEPT ![r] = FALSE]
    /\ UNCHANGED <<tables, rpc, handle, credential, cancelled, observed, by, signalling, listed>>

\* Mutant: the flag is not looked at again under the lock.
EnterWaitersBlindly(r) ==
    /\ wpc[r] = "checked"
    /\ wpc' = [wpc EXCEPT ![r] = "waiting"]
    /\ listed' = [listed EXCEPT ![r] = TRUE]
    /\ UNCHANGED <<tables, rpc, handle, credential, cancelled, observed, by, signalling, resolved>>

\* The second look, under the lock.
EnterWaiters(r) ==
    /\ wpc[r] = "checked"
    /\ wpc' = [wpc EXCEPT ![r] = "waiting"]
    /\ listed' = [listed EXCEPT ![r] = ~cancelled[r]]
    /\ resolved' = [resolved EXCEPT ![r] = cancelled[r]]
    /\ UNCHANGED <<tables, rpc, handle, credential, cancelled, observed, by, signalling>>

\* The future is resolved, or the waiting task is cancelled.
LeaveWaiters(r) ==
    /\ wpc[r] = "waiting"
    /\ wpc' = [wpc EXCEPT ![r] = "out"]
    /\ listed' = [listed EXCEPT ![r] = FALSE]
    /\ resolved' = [resolved EXCEPT ![r] = FALSE]
    /\ UNCHANGED <<tables, rpc, handle, credential, cancelled, observed, by, signalling>>

Wake(r) == resolved[r] /\ LeaveWaiters(r)

-----------------------------------------------------------------------------
RequestStep(r) ==
    \/ Track(r)
    \/ TrackRefused(r)
    \/ Checkpoint(r)
    \/ Release(r)
    \/ WaitCancelled(r)
    \/ EnterWaiters(r)
    \/ LeaveWaiters(r)

CancelStep(h, who) ==
    \/ CancelActive(h, who)
    \/ LeaveIntent(h, who)
    \/ RepeatIntent(h, who)
    \/ CancelWithoutEffect(h, who)

Next ==
    \/ \E r \in Requests : RequestStep(r)
    \/ \E h \in Handles, who \in Callers : CancelStep(h, who)
    \/ TakeWaiters
    \/ \E h \in Handles : Elapse(h)

Spec == Init /\ [][Next]_vars

\* A cancel() call finishes, and a resolved future wakes its task.
Fairness ==
    /\ WF_vars(TakeWaiters)
    /\ \A r \in Requests : WF_vars(EnterWaiters(r)) /\ WF_vars(Wake(r))

FairSpec == Spec /\ Fairness

-----------------------------------------------------------------------------
(* Properties.                                                             *)

TypeOK ==
    /\ active \in [Handles -> Requests \cup {None}]
    /\ pending \in Seq(Handles) /\ Len(pending) <= MaxTracked
    /\ intent \in [Handles -> Callers]
    /\ stale \subseteq Handles
    /\ terminal \in Seq(Handles) /\ Len(terminal) <= MaxTracked
    /\ outcome \in [Handles -> {Absent, "cancelled", "completed"}]
    /\ towner \in [Handles -> Owners \cup {Absent}]
    /\ rpc \in [Requests -> {"new", "active", "done", "refused"}]
    /\ handle \in [Requests -> Handles]
    /\ credential \in [Requests -> Owners]
    /\ cancelled \in [Requests -> BOOLEAN]
    /\ observed \in [Requests -> BOOLEAN]
    /\ by \in [Requests -> Callers]
    /\ signalling \in Requests \cup {None}
    /\ wpc \in [Requests -> {"out", "checked", "waiting"}]
    /\ listed \in [Requests -> BOOLEAN]
    /\ resolved \in [Requests -> BOOLEAN]

\* A handle means one thing: a live request, an intent or a finished request,
\* and a live request is addressed by its own handle.  track() relies on it
\* when it drops the terminal record before it looks for an intent.
OneMeaning ==
    /\ TypeOK
    /\ \A h \in Handles :
          /\ active[h] # None => rpc[active[h]] = "active" /\ handle[active[h]] = h
          /\ ~(active[h] # None /\ h \in ToSet(pending))
          /\ ~(active[h] # None /\ h \in ToSet(terminal))
          /\ ~(h \in ToSet(pending) /\ h \in ToSet(terminal))
    /\ \A r \in Requests : rpc[r] = "active" => active[handle[r]] = r

\* A terminal record and its owner are kept for the same time, and both are
\* those of a request that finished under the handle: the default for a
\* missing owner would hand the record to unauthenticated callers, and a record
\* that says "cancelled" stands for a request that saw the signal and stopped.
OwnerKept ==
    \A h \in Handles :
        IF h \in ToSet(terminal)
        THEN \E r \in Requests :
                /\ rpc[r] = "done" /\ handle[r] = h
                /\ towner[h] = credential[r]
                /\ outcome[h] = "cancelled" <=> cancelled[r] /\ observed[r]
        ELSE towner[h] = Absent

\* A request is only ever cancelled by its own credential or by the trusted
\* host, whether it was running or had yet to arrive.
OnlyOwnerCancels ==
    \A r \in Requests : cancelled[r] => by[r].trusted \/ by[r].cred = credential[r]

\* Authority over a handle stays with the credential that made it, before,
\* during and after its request runs.
OwnerOnly == OwnerKept /\ OnlyOwnerCancels

\* An intent is not lost: it leaves the table by cancelling the request that
\* arrives under its handle, by expiring, or by making room for another.
IntentHonoured ==
    [][\A h \in ToSet(pending) \ stale :
          \/ h \in ToSet(pending')
          \/ Len(pending') = MaxTracked /\ ToSet(pending') \ ToSet(pending) # {}
          \/ active'[h] # None /\ cancelled'[active'[h]]]_vars

\* A waiter of a cancelled token wakes, however the flag and the waiter list
\* were interleaved.
WaiterWakes ==
    \A r \in Requests : wpc[r] = "waiting" /\ cancelled[r] ~> wpc[r] = "out"
=============================================================================
