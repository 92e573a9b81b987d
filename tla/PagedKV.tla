------------------------------ MODULE PagedKV ------------------------------
(***************************************************************************)
(* PagedKVResidencyManager of runtime/paged_kv.py: the books of the paged  *)
(* key-value cache.  A prompt is cut into pages that requests share and    *)
(* that stay resident until room is needed; a reservation also counts the  *)
(* pages its decoding will fill.  Every method runs under the manager's    *)
(* lock, so each is an operator from one state of the books to the next.   *)
(***************************************************************************)
EXTENDS Integers, Sequences, SequencesExt, FiniteSetsExt, SequenceFilter

CONSTANTS
    Requests,   \* requests; each makes at most one reservation
    Models,     \* models
    ModelOf,    \* the model of a request
    Prompt,     \* its prompt tokens
    MaxTokens,  \* its max_tokens
    LaneOf,     \* its scheduling lane
    PageSize,   \* page_size_tokens
    MaxPages    \* max_pages

Lanes == {"decode", "prefill"}

ASSUME KVAssumption ==
    /\ IsFiniteSet(Requests)
    /\ ModelOf \in [Requests -> Models]
    /\ Prompt \in [Requests -> Seq(Int)]
    /\ MaxTokens \in [Requests -> Nat]
    /\ LaneOf \in [Requests -> Lanes]
    /\ PageSize \in Nat \ {0}
    /\ MaxPages \in Nat \ {0}

PagesFor(n) == (n + PageSize - 1) \div PageSize

\* The key of a page is a digest of the model and one chunk of the prompt.
PageKeys ==
    [r \in Requests |-> [i \in 1 .. PagesFor(Len(Prompt[r])) |->
        <<ModelOf[r], SubSeq(Prompt[r], (i - 1) * PageSize + 1, Min({i * PageSize, Len(Prompt[r])}))>>]]

DecodePages == [r \in Requests |-> Max({PagesFor(MaxTokens[r]), 1})]

Pages == UNION {ToSet(PageKeys[r]) : r \in Requests}

\* How often a page is in a request's prompt.
Uses == [p \in Pages |-> [r \in Requests |-> Cardinality({i \in DOMAIN PageKeys[r] : PageKeys[r][i] = p})]]

(***************************************************************************)
(* The books: order lists the resident pages, least recently touched       *)
(* first; ref and lane describe a resident page; transient counts the      *)
(* decode pages of the active reservations, which are held.                *)
(* twice is history: pages that one prompt put in place two times over.    *)
(***************************************************************************)
Books ==
    [order : Seq(Pages), ref : [Pages -> Nat], lane : [Pages -> Lanes],
     transient : [Lanes -> Nat], held : SUBSET Requests, twice : SUBSET Pages]

EmptyBooks ==
    [order |-> <<>>, ref |-> [p \in Pages |-> 0], lane |-> [p \in Pages |-> "decode"],
     transient |-> [l \in Lanes |-> 0], held |-> {}, twice |-> {}]

Total(k) == Len(k.order) + k.transient["decode"] + k.transient["prefill"]

\* Pages touched by one call carry one timestamp and sort by key.
Touch(order, S) == Filter(order, Pages \ S) \o SetToSeq(S)

\* Mutant: pages in use are candidates too.
EvictAnything(k, needed) ==
    LET excess  == Total(k) + needed - MaxPages
        victims == ToSet(SubSeq(k.order, 1, Min({excess, Len(k.order)})))
    IN  [k EXCEPT !.order = Filter(@, Pages \ victims)]

\* Unreferenced pages go, prefill before decode and oldest first, until the
\* needed pages fit or none is left.  A function of the books, which TLC
\* evaluates once where it is applied.
Evicting(needed) ==
    [k \in Books |->
        LET Idle(l)    == Filter(k.order, {p \in Pages : k.ref[p] <= 0 /\ k.lane[p] = l})
            candidates == Idle("prefill") \o Idle("decode")
            excess     == Total(k) + needed - MaxPages
            victims    == ToSet(SubSeq(candidates, 1, Min({excess, Len(candidates)})))
        IN  [k EXCEPT !.order = Filter(@, Pages \ victims)]]

EvictToFit(k, needed) == Evicting(needed)[k]

Reserve(k, r) ==
    LET keys   == ToSet(PageKeys[r])
        known  == keys \cap ToSet(k.order)
        fresh  == keys \ known
        listed == Cardinality({i \in DOMAIN PageKeys[r] : PageKeys[r][i] \in fresh})
        reused == [k EXCEPT !.ref  = [p \in Pages |-> IF p \in known THEN @[p] + Uses[p][r] ELSE @[p]],
                            !.lane = [p \in Pages |-> IF p \in keys THEN LaneOf[r] ELSE @[p]]]
        roomy  == EvictToFit(reused, listed + DecodePages[r])
    IN  [roomy EXCEPT !.ref   = [p \in Pages |-> IF p \in fresh THEN 1 ELSE @[p]],
                      !.order = Touch(@, keys),
                      !.transient[LaneOf[r]] = @ + DecodePages[r],
                      !.held  = @ \cup {r},
                      !.twice = @ \cup {p \in fresh : Uses[p][r] > 1}]

\* A reservation that is no longer active gives nothing back.
Release(k, r) ==
    IF r \notin k.held THEN k
    ELSE LET keys == ToSet(PageKeys[r]) \cap ToSet(k.order)
         IN  EvictToFit(
                [k EXCEPT !.ref   = [p \in Pages |-> IF p \in keys THEN Max({0, @[p] - Uses[p][r]}) ELSE @[p]],
                          !.order = Touch(@, keys),
                          !.transient[LaneOf[r]] = Max({0, @ - DecodePages[r]}),
                          !.held  = @ \ {r}],
                0)

\* The model's reservations and pages go; a later Release of one is a no-op.
UnregisterModel(k, m) ==
    LET gone  == {r \in k.held : ModelOf[r] = m}
        Of(l) == SumFunctionOnSet(DecodePages, {r \in gone : LaneOf[r] = l})
    IN  [k EXCEPT !.order = Filter(@, {p \in Pages : p[1] # m}),
                  !.ref   = [p \in Pages |-> IF p[1] = m THEN 0 ELSE @[p]],
                  !.transient = [l \in Lanes |-> Max({0, @[l] - Of(l)})],
                  !.held  = @ \ gone,
                  !.twice = {p \in @ : p[1] # m}]

-----------------------------------------------------------------------------

BooksTypeOK(k) == k \in Books /\ IsInjective(k.order)

\* transient is what the active reservations will decode, a page's references
\* are the places active prompts have it in, and a referenced page is resident.
Balanced(k) ==
    /\ \A l \in Lanes :
        k.transient[l] = SumFunctionOnSet(DecodePages, {r \in k.held : LaneOf[r] = l})
    /\ \A p \in Pages \ k.twice :
        /\ k.ref[p] = SumFunctionOnSet(Uses[p], k.held)
        /\ k.ref[p] > 0 => p \in ToSet(k.order)

\* The cache is over its limit only when no page could be given up.
TightWhenOver(k) == Total(k) > MaxPages => \A p \in ToSet(k.order) : k.ref[p] > 0
=============================================================================
