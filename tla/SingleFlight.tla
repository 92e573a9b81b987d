---------------------------- MODULE SingleFlight ----------------------------
(***************************************************************************)
(* What request coalescing promises (runtime/request_coalescer.py:         *)
(* "concurrent identical requests share one owner execution"), without the *)
(* futures, queues and caches that bring it about: a key is led by one     *)
(* request at a time, runs at most once at a time and never again once its *)
(* answer is stored, and a request is only ever served its own key's       *)
(* answer.                                                                 *)
(***************************************************************************)
EXTENDS Integers

CONSTANTS Requests, Keys, None,
          Answer   \* Answer[k]: what the backend computes for key k

VARIABLES
    keyOf,    \* the key each request asks for
    leader,   \* the request that leads the key, or None
    running,  \* executions of the key in the backend
    store,    \* its stored answer
    status,   \* of each request
    answer    \* what a served request was given

vars == <<keyOf, leader, running, store, status, answer>>

Init ==
    /\ keyOf \in [Requests -> Keys]
    /\ leader = [k \in Keys |-> None]
    /\ running = [k \in Keys |-> 0]
    /\ store = [k \in Keys |-> <<>>]
    /\ status = [r \in Requests |-> "new"]
    /\ answer = [r \in Requests |-> <<>>]

\* A request comes: it leads its key unless another request does.
Ask(r) ==
    /\ status[r] = "new"
    /\ status' = [status EXCEPT ![r] = "waiting"]
    /\ leader' = [leader EXCEPT ![keyOf[r]] = IF @ = None THEN r ELSE @]
    /\ UNCHANGED <<keyOf, running, store, answer>>

\* Led keys without an answer go to the backend, in one call.
Launch(K) ==
    /\ \A k \in K : leader[k] # None /\ running[k] = 0 /\ store[k] = <<>>
    /\ running' = [k \in Keys |-> IF k \in K THEN 1 ELSE running[k]]
    /\ UNCHANGED <<keyOf, leader, store, status, answer>>

\* A call returns: keys stop running, get their answer, and lose their leader,
\* which no key does while it runs.
Land ==
    \A k \in Keys :
        /\ running'[k] \in {running[k], 0}
        /\ store'[k] = store[k] \/ (leader[k] # None /\ store'[k] = Answer[k])
        /\ leader'[k] = leader[k] \/ (leader'[k] = None /\ running'[k] = 0)

\* Requests end: served the stored answer of their key, failed or cancelled.
End ==
    \A r \in Requests :
        \/ status'[r] = status[r] /\ answer'[r] = answer[r]
        \/ /\ status[r] \in {"new", "waiting"}
           /\ \/ status'[r] = "served" /\ answer'[r] = Answer[keyOf[r]]
                                       /\ store'[keyOf[r]] = Answer[keyOf[r]]
              \/ status'[r] \in {"failed", "cancelled"} /\ answer'[r] = <<>>

Next ==
    \/ \E r \in Requests : Ask(r)
    \/ \E K \in SUBSET Keys : Launch(K)
    \/ Land /\ End /\ UNCHANGED keyOf

Spec == Init /\ [][Next]_vars
=============================================================================
