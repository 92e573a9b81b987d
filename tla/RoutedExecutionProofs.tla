------------------------ MODULE RoutedExecutionProofs ------------------------
(***************************************************************************)
(* Proofs for module RoutedExecution, for every set of requests and keys,  *)
(* every mix of embeddings and other requests, any number of slots and     *)
(* each policy: who works for a claim, what executions hold, whom a        *)
(* cancellation reaches, and that the module implements SingleFlight.      *)
(*                                                                         *)
(* At the centre of the inductive invariant is ownership: whoever is at    *)
(* work for a key (an execution, an item queued or not settled yet, an     *)
(* owner that left its claim) is the request whose future the table keeps  *)
(* under that key, so settling one claim takes nothing from another.       *)
(***************************************************************************)
EXTENDS RoutedExecution, SequenceFacts, FiniteSetTheorems

Owns(r)   == futures[keyOf[r]] = r
Working   == {"acquire", "finalize"} \cup Executing
Unsettled == {"acquire"} \cup Executing
Values    == {<<>>} \cup {Response[k] : k \in Keys}

Types ==
    /\ TypeOK
    /\ keyOf \in [Requests -> Keys]
    /\ status \in [Requests -> {"new", "waiting", "served", "failed", "cancelled"}]
    /\ cache \in [Keys -> Values]
    /\ result \in [Requests -> Values] /\ answer \in [Requests -> Values]
    /\ pending \in Seq(Requests) /\ batch \in Seq(Requests)
    /\ gone \subseteq Requests /\ leaked \subseteq Requests /\ abandoned \subseteq Requests

Placed(r) ==
    /\ at[r] = "new" => status[r] = "new"
    /\ at[r] \in Working \cup {"waiting"} => status[r] = "waiting"
    /\ at[r] \in Working => ~Embeds(r) /\ Owns(r)
    /\ at[r] = "waiting" => shared[r] \in Requests /\ keyOf[shared[r]] = keyOf[r]

\* The items queued and in the batch.
Batched ==
    /\ \A r \in ToSet(pending) \cup Items : Embeds(r) /\ at[r] \in {"waiting", "over"}
    /\ \A r \in ToSet(pending) : Owns(r) /\ r \notin Items
    /\ drain \in Unsettled => \A r \in Items : Owns(r)
    /\ drain \in Unsettled \cup {"finalize"} => batch # <<>>

\* What is left behind is left by requests that can do nothing more about it.
Left ==
    /\ \A r \in abandoned : ~Embeds(r) /\ at[r] = "over" /\ Owns(r)
    /\ \A r \in leaked : at[r] \in {"waiting", "over"} /\ r \notin ToSet(pending) \cup Items
    /\ \A r \in gone : at[r] \in {"finalize", "over"}

Held == HeldByExecution /\ IsFiniteSet(held)

Cancels ==
    /\ CancelStaysInFlight
    /\ \A f \in Requests : future[f] = "cancelled" => \E q \in gone : shared[q] = f
    /\ \A r \in Requests : outcome[r] = "cancelled" => r \in gone

Answers ==
    /\ \A k \in Keys : /\ cache[k] \in {<<>>, Response[k]}
                       /\ futures[k] # None => cache[k] = <<>>
    /\ \A f \in Requests : future[f] = "result" =>
            result[f] = Response[keyOf[f]] /\ cache[keyOf[f]] = Response[keyOf[f]]

RoutedInv ==
    /\ Types
    /\ \A r \in Requests : Placed(r)
    /\ Batched /\ Left /\ ClaimHasWorker /\ Held /\ Cancels /\ Answers

-----------------------------------------------------------------------------
(* The pieces actions are made of.                                         *)

LEMMA ItemTypes ==
    ASSUME Types
    PROVE  /\ ToSet(pending) \subseteq Requests /\ Items \subseteq Requests
           /\ batch # <<>> => Head(batch) \in Items
           /\ \A r \in Requests : Contains(pending, r) <=> r \in ToSet(pending)
<1>1. pending \in Seq(Requests) /\ batch \in Seq(Requests)
    BY DEF Types
<1>2. /\ DOMAIN pending = 1..Len(pending) /\ DOMAIN batch = 1..Len(batch)
      /\ \A i \in 1..Len(pending) : pending[i] \in Requests
      /\ \A i \in 1..Len(batch) : batch[i] \in Requests
    BY <1>1, LenProperties, ElementOfSeq
<1>3. batch # <<>> => Head(batch) \in Items
  <2>1. batch # <<>> => Head(batch) = batch[1] /\ 1 \in DOMAIN batch
      BY <1>1, <1>2, EmptySeq, HeadTailProperties, LenProperties
  <2>  QED  BY <2>1 DEF Items, ToSet
<1>  QED  BY <1>2, <1>3 DEF Items, ToSet, Contains

LEMMA ReturnFacts ==
    ASSUME Types, NEW r \in Requests, NEW how \in {"served", "failed", "cancelled"},
           NEW value \in Values, Return(r, how, value)
    PROVE  /\ at'[r] = "over" /\ status'[r] = how /\ answer'[r] = value /\ outcome'[r] = "none"
           /\ \A q \in Requests : q # r => /\ at'[q] = at[q] /\ status'[q] = status[q]
                                           /\ answer'[q] = answer[q] /\ outcome'[q] = outcome[q]
           /\ at' \in [Requests -> {"new", "waiting", "acquire", "finalize", "over"} \cup Executing]
           /\ status' \in [Requests -> {"new", "waiting", "served", "failed", "cancelled"}]
           /\ answer' \in [Requests -> Values]
           /\ outcome' \in [Requests -> {"none", "response", "raised", "cancelled"}]
BY DEF Types, TypeOK, Return

\* Settling the claims of owners takes nothing from others.
LEMMA SettleFacts ==
    ASSUME Types, NEW S \in SUBSET Requests, \A r \in S : Owns(r),
           NEW state \in {"result", "failed"}, SetFutures(S, state)
    PROVE  /\ futures' \in [Keys -> Requests \cup {None}]
           /\ future' \in [Requests -> {"none", "pending", "result", "failed", "cancelled"}]
           /\ \A r \in S : futures'[keyOf[r]] = None
           /\ \A k \in Keys : futures'[k] = futures[k] \/ (futures'[k] = None /\ futures[k] \in S)
           /\ \A f \in Requests : future'[f] = IF f \in S /\ future[f] = "pending" THEN state ELSE future[f]
<1>1. FuturesOf(S) = S /\ KeysOf(S) \subseteq Keys
    BY DEF FuturesOf, KeysOf, Owns, Types
<1>2. \A k \in KeysOf(S) : futures[k] \in S
    BY DEF KeysOf, Owns
<1>3. \A r \in S : keyOf[r] \in KeysOf(S)
    BY DEF KeysOf
<1>4. /\ futures' = [k \in Keys |-> IF k \in KeysOf(S) THEN None ELSE futures[k]]
      /\ future' = [f \in Requests |-> IF f \in S /\ future[f] = "pending" THEN state ELSE future[f]]
    BY <1>1 DEF SetFutures
<1>  QED  BY <1>1, <1>2, <1>3, <1>4 DEF Types, TypeOK

-----------------------------------------------------------------------------
(* What a step of a request keeps.                                         *)

\* A step of request r that neither claims a key nor touches the queue.
StepOf(r) ==
    /\ UNCHANGED <<keyOf, pending, drain, batch, leftover>>
    /\ \A q \in Requests : q # r => at'[q] = at[q] /\ status'[q] = status[q] /\ shared'[q] = shared[q]
    /\ at[r] # "over" /\ (at[r] = "waiting" => at'[r] = "over")
    /\ \A k \in Keys : \/ futures'[k] = futures[k]
                       \/ futures'[k] = None /\ futures[k] = r /\ at[r] \in Working /\ at'[r] = "over"
    /\ \A f \in Requests : \/ future'[f] = future[f]
                           \/ future[f] = "pending" /\ future'[f] = "cancelled"
                           \/ future[f] = "pending" /\ f = r /\ futures'[keyOf[r]] = None
    /\ abandoned \subseteq abandoned' /\ abandoned' \subseteq abandoned \cup {r}
    /\ r \in abandoned' => at[r] \in Working /\ at'[r] = "over" /\ futures' = futures
    /\ leaked' \subseteq leaked \cup {r} /\ (r \in leaked' \ leaked => at[r] \notin {"new", "waiting"} /\ at'[r] = "over")
    /\ gone' \subseteq gone \cup {r} /\ (r \in gone' => at'[r] \in {"finalize", "over"})
    /\ at[r] \in Working /\ at'[r] \notin Working => at'[r] = "over" /\ (r \in abandoned' \/ futures'[keyOf[r]] = None)

LEMMA StepOfKeeps ==
    ASSUME RoutedInv, NEW r \in Requests, StepOf(r), Types', Placed(r)'
    PROVE  (\A q \in Requests : Placed(q)') /\ Batched' /\ Left' /\ ClaimHasWorker'
<1>1. /\ Types /\ Placed(r) /\ Batched /\ Left /\ ClaimHasWorker
      /\ ToSet(pending) \subseteq Requests /\ Items \subseteq Requests
      /\ Items' = Items /\ ToSet(pending') = ToSet(pending)
      /\ \A q \in Requests : Contains(pending, q) <=> q \in ToSet(pending)
      /\ \A q \in Requests : Contains(pending', q) <=> q \in ToSet(pending)
    BY ItemTypes DEF RoutedInv, StepOf, Items
<1>2. r \in ToSet(pending) \cup Items => at[r] = "waiting" /\ at'[r] = "over"
    BY <1>1 DEF Batched, StepOf
<1>3. \A q \in Requests : keyOf[q] \in Keys /\ keyOf'[q] = keyOf[q] /\ (Embeds(q)' <=> Embeds(q))
    BY <1>1 DEF Types, StepOf, Embeds
<1>4. \A q \in Requests : q # r /\ Owns(q) => Owns(q)'
    BY <1>3, RoutedAssumption DEF StepOf, Owns
<1>5. at[r] \notin Working /\ Owns(r) => Owns(r)'
    BY <1>3, RoutedAssumption DEF StepOf, Owns
<1>6. ASSUME NEW q \in Requests PROVE Placed(q)'
  <2>1. CASE q = r
      BY <2>1
  <2>2. CASE q # r
    <3>1. Placed(q)
        BY DEF RoutedInv
    <3>2. at'[q] = at[q] /\ status'[q] = status[q] /\ shared'[q] = shared[q]
        BY <2>2 DEF StepOf
    <3>  QED  BY <1>3, <1>4, <2>2, <3>1, <3>2 DEF Placed
  <2>  QED  BY <2>1, <2>2
<1>7. Batched'
  <2>1. \A q \in ToSet(pending) \cup Items : Embeds(q) /\ at[q] \in {"waiting", "over"}
      BY <1>1 DEF Batched
  <2>2. \A q \in ToSet(pending) \cup Items : Embeds(q)' /\ at'[q] \in {"waiting", "over"}
      BY <1>1, <1>2, <1>3, <2>1 DEF StepOf
  <2>3. r \in ToSet(pending) \cup Items => at[r] \notin Working
      BY <1>2 DEF Working, Executing
  <2>4. \A q \in ToSet(pending) \cup Items : Owns(q) => Owns(q)'
      BY <1>1, <1>4, <1>5, <2>3
  <2>  QED  BY <1>1, <2>2, <2>4 DEF Batched, StepOf
<1>8. Left'
  <2>1. ASSUME NEW q \in abandoned' PROVE ~Embeds(q)' /\ at'[q] = "over" /\ Owns(q)'
    <3>1. CASE q = r
      <4>1. ~Embeds(r) /\ Owns(r) /\ futures' = futures /\ at'[r] = "over"
          BY <1>1, <2>1, <3>1 DEF StepOf, Placed
      <4>  QED  BY <1>3, <3>1, <4>1 DEF Owns
    <3>2. CASE q # r
      <4>1. q \in abandoned /\ q \in Requests
          BY <1>1, <2>1, <3>2 DEF StepOf, Types
      <4>  QED  BY <1>1, <1>3, <1>4, <3>2, <4>1 DEF Left, StepOf
    <3>  QED  BY <3>1, <3>2
  <2>2. \A q \in leaked' : at'[q] \in {"waiting", "over"} /\ q \notin ToSet(pending) \cup Items
      BY <1>1, <1>2 DEF Left, StepOf, Types
  <2>3. \A q \in gone' : at'[q] \in {"finalize", "over"}
      BY <1>1 DEF Left, StepOf, Types
  <2>  QED  BY <1>1, <2>1, <2>2, <2>3 DEF Left
<1>9. ClaimHasWorker'
  <2>1. TypeOK'
      BY DEF Types
  <2>2. ASSUME NEW k \in Keys, futures'[k] # None
        PROVE  LET o == futures'[k] IN
               /\ keyOf'[o] = k /\ future'[o] \in {"pending", "cancelled"}
               /\ \/ at'[o] \in Working
                  \/ Contains(pending', o) \/ (o \in Items' /\ drain' \in Unsettled)
                  \/ o \in abandoned'
    <3>  DEFINE o == futures[k]
    <3>1. futures'[k] = o /\ o # None /\ o \in Requests
        BY <1>1, <2>2 DEF StepOf, Types, TypeOK
    <3>2. /\ keyOf[o] = k /\ future[o] \in {"pending", "cancelled"}
          /\ \/ at[o] \in Working
             \/ Contains(pending, o) \/ (o \in Items /\ drain \in Unsettled)
             \/ o \in abandoned
        BY <1>1, <3>1 DEF ClaimHasWorker, Working, Unsettled
    <3>  HIDE DEF o
    <3>3. keyOf'[o] = k /\ future'[o] \in {"pending", "cancelled"}
        BY <1>3, <2>2, <3>1, <3>2 DEF StepOf
    <3>4. at[o] \in Working => at'[o] \in Working \/ o \in abandoned'
      <4>1. CASE o = r
          BY <2>2, <3>1, <3>2, <4>1 DEF StepOf
      <4>2. CASE o # r
          BY <3>1, <4>2 DEF StepOf
      <4>  QED  BY <4>1, <4>2
    <3>5. \/ at'[o] \in Working
          \/ Contains(pending', o) \/ (o \in Items' /\ drain' \in Unsettled)
          \/ o \in abandoned'
        BY <1>1, <3>1, <3>2, <3>4 DEF StepOf
    <3>  QED  BY <3>1, <3>3, <3>5
  <2>3. \A q \in ToSet(pending') \cup abandoned' : futures'[keyOf'[q]] = q
      BY <1>7, <1>8 DEF Batched, Left, Owns
  <2>4. drain' = "none" => ToSet(pending') \subseteq leftover'
      BY <1>1 DEF ClaimHasWorker, StepOf
  <2>  QED  BY <2>1, <2>2, <2>3, <2>4 DEF ClaimHasWorker, Working, Unsettled
<1>  QED  BY <1>6, <1>7, <1>8, <1>9

-----------------------------------------------------------------------------
(* Admissions and leases, request by request.                              *)

InExecution == Executing \cup {"finalize"}
HasSlot(q)  == at[q] \in InExecution \/ q \in leaked \/ (drain \in InExecution /\ q \in Items /\ q = Head(batch))
NeedsLease(q) == at[q] \in {"prepare", "invoke"} \/ (drain \in {"prepare", "invoke"} /\ q \in Items)
MayLease(q)   == at[q] \in {"prepare", "invoke"} \/ (drain \in Executing /\ q \in Items)

HeldOne(q) ==
    /\ q \in held <=> HasSlot(q)
    /\ NeedsLease(q) => q \in leased
    /\ q \in leased => MayLease(q)

HeldPer == /\ \A q \in Requests : HeldOne(q)
           /\ IsFiniteSet(held) /\ Cardinality(held) <= MaxSlots

LEMMA HeldEach == Types => (Held <=> HeldPer)
<1>  SUFFICES ASSUME Types PROVE Held <=> HeldPer
    OBVIOUS
<1>  DEFINE H == {r \in Requests : at[r] \in InExecution} \cup leaked
                   \cup {r \in (IF drain \in InExecution THEN Items ELSE {}) : r = Head(batch)}
            N == {r \in Requests : at[r] \in {"prepare", "invoke"}}
                   \cup (IF drain \in {"prepare", "invoke"} THEN Items ELSE {})
            M == {r \in Requests : at[r] \in {"prepare", "invoke"}}
                   \cup (IF drain \in Executing THEN Items ELSE {})
<1>1. /\ Items \subseteq Requests /\ leaked \subseteq Requests
      /\ held \subseteq Requests /\ leased \subseteq Requests
    BY ItemTypes DEF Types, TypeOK
<1>2. HeldByExecution <=> Cardinality(held) <= MaxSlots /\ held = H /\ N \subseteq leased /\ leased \subseteq M
    BY DEF HeldByExecution, InExecution
<1>3. held = H <=> \A q \in Requests : q \in held <=> HasSlot(q)
    BY <1>1 DEF HasSlot
<1>4. N \subseteq leased <=> \A q \in Requests : NeedsLease(q) => q \in leased
    BY <1>1 DEF NeedsLease
<1>5. leased \subseteq M <=> \A q \in Requests : q \in leased => MayLease(q)
    BY <1>1 DEF MayLease
<1>  HIDE DEF H, N, M
<1>  QED  BY <1>2, <1>3, <1>4, <1>5 DEF Held, HeldPer, HeldOne

LEMMA HeldEachNext == Types' => (Held' <=> HeldPer')
<1>1. Types => (Held <=> HeldPer)
    BY HeldEach
<1>  QED  BY <1>1, PTL

\* Nobody is admitted beyond the slots, and giving back keeps the count.
LEMMA HeldBound ==
    ASSUME IsFiniteSet(held), Cardinality(held) <= MaxSlots,
           \/ held' \subseteq held
           \/ Cardinality(held) < MaxSlots /\ \E x : held' = held \cup {x}
    PROVE  IsFiniteSet(held') /\ Cardinality(held') <= MaxSlots
<1>1. Cardinality(held) \in Nat /\ MaxSlots \in Nat
    BY RoutedAssumption, FS_CardinalityType
<1>2. CASE held' \subseteq held
  <2>1. IsFiniteSet(held') /\ Cardinality(held') <= Cardinality(held) /\ Cardinality(held') \in Nat
      BY <1>2, FS_Subset, FS_CardinalityType
  <2>  QED  BY <1>1, <2>1
<1>3. CASE Cardinality(held) < MaxSlots /\ \E x : held' = held \cup {x}
  <2>1. PICK x : held' = held \cup {x}
      BY <1>3
  <2>2. /\ IsFiniteSet(held')
        /\ Cardinality(held') = Cardinality(held) \/ Cardinality(held') = Cardinality(held) + 1
      BY <2>1, FS_AddElement
  <2>  QED  BY <1>1, <1>3, <2>2
<1>  QED  BY <1>2, <1>3

\* A step of request r that gives back or takes only what is its own.
LEMMA StepOfHeld ==
    ASSUME RoutedInv, NEW r \in Requests, Types', UNCHANGED <<drain, batch>>,
           \A q \in Requests : q # r => /\ at'[q] = at[q] /\ (q \in leaked' <=> q \in leaked)
                                        /\ (q \in held' <=> q \in held) /\ (q \in leased' <=> q \in leased),
           r \in Items => UNCHANGED <<held, leased, leaked>> /\ at[r] \notin InExecution /\ at'[r] \notin InExecution,
           r \notin Items => HeldOne(r)',
           \/ held' \subseteq held
           \/ Cardinality(held) < MaxSlots /\ held' = held \cup {r}
    PROVE  Held'
<1>1. /\ Types /\ IsFiniteSet(held) /\ Cardinality(held) <= MaxSlots
      /\ \A q \in Requests : HeldOne(q)
    BY HeldEach DEF RoutedInv, HeldPer
<1>2. IsFiniteSet(held') /\ Cardinality(held') <= MaxSlots
    BY <1>1, HeldBound
<1>3. Items' = Items
    BY DEF Items
<1>4. ASSUME NEW q \in Requests PROVE HeldOne(q)'
  <2>1. CASE q # r
      BY <1>1, <1>3, <2>1 DEF HeldOne, HasSlot, NeedsLease, MayLease
  <2>2. CASE q = r /\ r \in Items
    <3>1. at[r] \notin {"prepare", "invoke"} /\ at'[r] \notin {"prepare", "invoke"}
        BY <2>2 DEF InExecution, Executing
    <3>  QED  BY <1>1, <1>3, <2>2, <3>1 DEF HeldOne, HasSlot, NeedsLease, MayLease
  <2>3. CASE q = r /\ r \notin Items
      BY <2>3
  <2>  QED  BY <2>1, <2>2, <2>3
<1>  QED  BY <1>2, <1>4, HeldEachNext DEF HeldPer

-----------------------------------------------------------------------------
(* Cancellations and answers.                                              *)

LEMMA StepOfCancels ==
    ASSUME RoutedInv, NEW r \in Requests,
           \A q \in Requests : /\ q # r => status'[q] = status[q] /\ outcome'[q] = outcome[q]
                               /\ at[q] # "new" => shared'[q] = shared[q],
           gone \subseteq gone',
           \A f \in Requests : future'[f] = "cancelled" =>
                future[f] = "cancelled" \/ \E q \in gone' : shared'[q] = f,
           outcome'[r] = "cancelled" => r \in gone',
           status'[r] = "cancelled" =>
                r \in gone' \/ \E q \in gone' : shared'[q] = shared'[r] /\ shared'[r] # None
    PROVE  Cancels'
<1>1. /\ Types /\ Left /\ Cancels /\ \A q \in Requests : Placed(q)
    BY DEF RoutedInv
<1>2. \A q \in gone : q \in Requests /\ at[q] # "new" /\ shared'[q] = shared[q] /\ q \in gone'
    BY <1>1 DEF Left, Types
<1>3. ASSUME NEW q \in Requests, q # r, status[q] = "cancelled"
      PROVE  q \in gone' \/ \E p \in gone' : shared'[p] = shared'[q] /\ shared'[q] # None
  <2>1. at[q] # "new"
      BY <1>1, <1>3 DEF Placed
  <2>2. q \in gone \/ \E p \in gone : shared[p] = shared[q] /\ shared[q] # None
      BY <1>1, <1>3 DEF Cancels, CancelStaysInFlight
  <2>  QED  BY <1>2, <2>1, <2>2
<1>4. CancelStaysInFlight'
    BY <1>3 DEF CancelStaysInFlight
<1>5. ASSUME NEW f \in Requests, future'[f] = "cancelled" PROVE \E q \in gone' : shared'[q] = f
  <2>1. CASE future[f] = "cancelled"
    <3>1. PICK q \in gone : shared[q] = f
        BY <1>1, <2>1 DEF Cancels
    <3>  QED  BY <1>2, <3>1
  <2>2. CASE future[f] # "cancelled"
      BY <1>5, <2>2
  <2>  QED  BY <2>1, <2>2
<1>6. \A q \in Requests : outcome'[q] = "cancelled" => q \in gone'
    BY <1>1, <1>2 DEF Cancels
<1>  QED  BY <1>4, <1>5, <1>6 DEF Cancels

\* A step that neither stores a response nor gives a future a result.
LEMMA QuietAnswers ==
    ASSUME RoutedInv, UNCHANGED <<keyOf, cache, result>>,
           \A k \in Keys : futures'[k] \in {futures[k], None},
           \A f \in Requests : future'[f] = "result" => future[f] = "result"
    PROVE  Answers'
BY DEF RoutedInv, Answers

-----------------------------------------------------------------------------
(* Steps of a request that settle nothing.                                 *)

LEMMA InvParts ==
    ASSUME RoutedInv, NEW r \in Requests
    PROVE  /\ Types /\ TypeOK /\ Placed(r) /\ Batched /\ Left /\ ClaimHasWorker /\ Held /\ Cancels /\ Answers
           /\ HeldOne(r) /\ Items \subseteq Requests /\ keyOf[r] \in Keys
           /\ r \in Items => at[r] \in {"waiting", "over"}
           /\ r \in ToSet(pending) => at[r] \in {"waiting", "over"}
           /\ r \in leaked => at[r] \in {"waiting", "over"}
           /\ r \in gone => at[r] \in {"finalize", "over"}
           /\ r \in abandoned => at[r] = "over"
BY HeldEach, ItemTypes DEF RoutedInv, Types, HeldPer, Batched, Left

LEMMA JoinInv ==
    ASSUME RoutedInv, NEW r \in Requests, Join(r)
    PROVE  RoutedInv'
<1>  USE InvParts
<1>  DEFINE f == futures[keyOf[r]]
<1>1. /\ at[r] = "new" /\ f # None /\ f \in Requests
      /\ UNCHANGED <<keyOf, futures, future, result, cache, outcome, answer, pending, drain, batch, held, leased,
                     gone, leaked, abandoned, leftover>>
    BY DEF Join, table, batching, resources, Types, TypeOK
<1>2. keyOf[f] = keyOf[r]
    BY <1>1 DEF ClaimHasWorker
<1>3. /\ at'[r] = "waiting" /\ status'[r] = "waiting" /\ shared'[r] = f
      /\ \A q \in Requests : q # r => at'[q] = at[q] /\ status'[q] = status[q] /\ shared'[q] = shared[q]
    BY DEF Join, Types, TypeOK
<1>4. Types'
    BY <1>1 DEF Types, TypeOK, Join, Executing, Values
<1>5. Placed(r)'
    BY <1>1, <1>2, <1>3 DEF Placed, Working, Executing
<1>6. StepOf(r)
    BY <1>1, <1>3 DEF StepOf, Working, Executing
<1>7. Held'
  <2>1. r \notin Items
      BY <1>1
  <2>2. HeldOne(r)'
      BY <1>1, <1>3, <2>1 DEF HeldOne, HasSlot, NeedsLease, MayLease, InExecution, Executing, Items
  <2>  QED  BY <1>1, <1>3, <1>4, <2>1, <2>2, StepOfHeld
<1>8. Cancels'
  <2>1. (status'[r] # "cancelled" /\ outcome'[r] # "cancelled") \/ r \in gone
      BY <1>1, <1>3 DEF Cancels
  <2>  QED  BY <1>1, <1>3, <2>1, StepOfCancels DEF Cancels
<1>9. Answers'
    BY <1>1, QuietAnswers
<1>  QED  BY <1>4, <1>5, <1>6, <1>7, <1>8, <1>9, StepOfKeeps DEF RoutedInv

\* A request returns, and its claim, if it has one, stays with somebody else.
LEMMA ReturnInv ==
    ASSUME RoutedInv, NEW r \in Requests, at[r] \in {"new", "waiting"},
           NEW how \in {"served", "failed", "cancelled"}, NEW value \in Values, Return(r, how, value),
           UNCHANGED <<keyOf, futures, result, cache, shared, pending, drain, batch, held, leased,
                       leaked, abandoned, leftover>>,
           gone \subseteq gone', gone' \subseteq gone \cup {r},
           how = "cancelled" => r \in gone' \/ (at[r] = "waiting" /\ future[shared[r]] = "cancelled"),
           future' \in [Requests -> {"none", "pending", "result", "failed", "cancelled"}],
           \A f \in Requests : \/ future'[f] = future[f]
                               \/ /\ future[f] = "pending" /\ future'[f] = "cancelled"
                                  /\ r \in gone' /\ shared[r] = f
    PROVE  RoutedInv'
<1>  USE InvParts
<1>1. /\ at'[r] = "over" /\ status'[r] = how /\ outcome'[r] = "none"
      /\ \A q \in Requests : q # r => at'[q] = at[q] /\ status'[q] = status[q] /\ outcome'[q] = outcome[q]
    BY ReturnFacts
<1>2. Types'
    BY ReturnFacts DEF Types, TypeOK, Values
<1>3. Placed(r)'
    BY <1>1 DEF Placed, Working, Executing
<1>4. StepOf(r)
    BY <1>1 DEF StepOf, Working, Executing
<1>5. Held'
  <2>1. at[r] \notin InExecution /\ at'[r] \notin InExecution
      BY <1>1 DEF InExecution, Executing
  <2>2. r \notin Items => HeldOne(r)'
      BY <1>1, <2>1 DEF HeldOne, HasSlot, NeedsLease, MayLease, InExecution, Executing, Items
  <2>  QED  BY <1>1, <1>2, <2>1, <2>2, StepOfHeld
<1>6. Cancels'
  <2>1. ASSUME how = "cancelled"
        PROVE  r \in gone' \/ \E q \in gone' : shared'[q] = shared'[r] /\ shared'[r] # None
    <3>1. CASE r \in gone'
        BY <3>1
    <3>2. CASE at[r] = "waiting" /\ future[shared[r]] = "cancelled"
      <4>1. shared[r] \in Requests
          BY <3>2 DEF Placed
      <4>2. PICK q \in gone : shared[q] = shared[r]
          BY <3>2, <4>1 DEF Cancels
      <4>  QED  BY <4>1, <4>2, RoutedAssumption
    <3>  QED  BY <2>1, <3>1, <3>2
  <2>  QED  BY <1>1, <2>1, StepOfCancels
<1>7. Answers'
    BY QuietAnswers
<1>  QED  BY <1>2, <1>3, <1>4, <1>5, <1>6, <1>7, StepOfKeeps DEF RoutedInv

LEMMA HitInv ==
    ASSUME RoutedInv, NEW r \in Requests, Hit(r) \/ LookupFails(r)
    PROVE  RoutedInv'
<1>  USE InvParts
<1>1. /\ at[r] = "new" /\ future' = future /\ future' \in [Requests -> {"none", "pending", "result", "failed", "cancelled"}]
      /\ UNCHANGED <<keyOf, futures, result, cache, shared, pending, drain, batch, held, leased, gone,
                     leaked, abandoned, leftover>>
    BY DEF Hit, LookupFails, table, batching, resources, Types, TypeOK
<1>2. cache[keyOf[r]] \in Values /\ <<>> \in Values
    BY DEF Types, Values
<1>3. CASE Return(r, "served", cache[keyOf[r]])
  <2>  DEFINE v == cache[keyOf[r]]
  <2>1. v \in Values /\ Return(r, "served", v)
      BY <1>2, <1>3
  <2>  HIDE DEF v
  <2>  QED  BY <1>1, <2>1, ReturnInv
<1>4. CASE Return(r, "failed", <<>>)
    BY <1>1, <1>2, <1>4, ReturnInv
<1>  QED  BY <1>3, <1>4 DEF Hit, LookupFails

LEMMA WakeInv ==
    ASSUME RoutedInv, NEW r \in Requests, Wake(r)
    PROVE  RoutedInv'
<1>  USE InvParts
<1>1. /\ at[r] = "waiting" /\ shared[r] \in Requests
      /\ future' = future /\ future' \in [Requests -> {"none", "pending", "result", "failed", "cancelled"}]
      /\ UNCHANGED <<keyOf, futures, result, cache, shared, pending, drain, batch, held, leased, gone,
                     leaked, abandoned, leftover>>
    BY DEF Wake, table, batching, resources, Types, TypeOK, Placed
<1>2. result[shared[r]] \in Values /\ <<>> \in Values
    BY <1>1 DEF Types, Values
<1>3. CASE Return(r, "served", result[shared[r]])
  <2>  DEFINE v == result[shared[r]]
  <2>1. v \in Values /\ Return(r, "served", v)
      BY <1>2, <1>3
  <2>  HIDE DEF v
  <2>  QED  BY <1>1, <2>1, ReturnInv
<1>4. CASE Return(r, "failed", <<>>)
    BY <1>1, <1>2, <1>4, ReturnInv
<1>5. CASE Return(r, "cancelled", <<>>) /\ future[shared[r]] = "cancelled"
    BY <1>1, <1>2, <1>5, ReturnInv
<1>  QED  BY <1>3, <1>4, <1>5 DEF Wake

LEMMA CancelWaitingInv ==
    ASSUME RoutedInv, NEW r \in Requests, CancelWaiting(r)
    PROVE  RoutedInv'
<1>  USE InvParts
<1>1. /\ at[r] = "waiting" /\ shared[r] \in Requests /\ gone' = gone \cup {r}
      /\ Return(r, "cancelled", <<>>) /\ <<>> \in Values
      /\ UNCHANGED <<keyOf, futures, result, cache, shared, pending, drain, batch, held, leased,
                     leaked, abandoned, leftover>>
    BY DEF CancelWaiting, table, batching, resources, Placed, Values
<1>2. /\ future' \in [Requests -> {"none", "pending", "result", "failed", "cancelled"}]
      /\ \A f \in Requests : \/ future'[f] = future[f]
                             \/ /\ future[f] = "pending" /\ future'[f] = "cancelled"
                                /\ r \in gone' /\ shared[r] = f
    BY <1>1 DEF CancelWaiting, Types, TypeOK
<1>  QED  BY <1>1, <1>2, ReturnInv

-----------------------------------------------------------------------------
(* An execution of its own.                                                *)

\* The execution goes on to its next await.
LEMMA AdvanceInv ==
    ASSUME RoutedInv, NEW r \in Requests, at[r] \in Working, NEW stage \in Working,
           at' = [at EXCEPT ![r] = stage],
           outcome' \in [Requests -> {"none", "response", "raised", "cancelled"}],
           \A q \in Requests : q # r => outcome'[q] = outcome[q],
           outcome'[r] = "cancelled" => r \in gone',
           gone \subseteq gone', gone' \subseteq gone \cup {r}, r \in gone' => stage = "finalize" /\ r \in Requests,
           held' = held \/ (Cardinality(held) < MaxSlots /\ held' = held \cup {r}),
           leased' \subseteq Requests,
           \A q \in Requests : q # r => (q \in leased' <=> q \in leased),
           r \in held' <=> stage \in InExecution,
           r \in leased' <=> stage \in {"prepare", "invoke"},
           UNCHANGED <<keyOf, futures, future, result, cache, shared, status, answer, pending, drain, batch,
                       leaked, abandoned, leftover>>
    PROVE  RoutedInv'
<1>  USE InvParts
<1>1. at'[r] = stage /\ \A q \in Requests : q # r => at'[q] = at[q]
    BY DEF Types, TypeOK
<1>2. /\ at[r] \notin {"new", "waiting", "over"} /\ stage \notin {"new", "waiting", "over"}
      /\ r \notin Items /\ r \notin leaked
    BY DEF Working, Executing
<1>3. Types'
  <2>1. at' \in [Requests -> {"new", "waiting", "acquire", "finalize", "over"} \cup Executing]
      BY DEF Types, TypeOK, Working
  <2>2. held' \subseteq Requests /\ gone' \subseteq Requests
      BY DEF Types, TypeOK
  <2>  QED  BY <2>1, <2>2 DEF Types, TypeOK, Values
<1>4. Placed(r)'
    BY <1>1, <1>2 DEF Placed, Owns, Embeds
<1>5. StepOf(r)
    BY <1>1, <1>2 DEF StepOf
<1>6. Held'
  <2>1. HeldOne(r)'
    <3>1. r \notin Items' /\ r \notin leaked'
        BY <1>2 DEF Items
    <3>  QED  BY <1>1, <3>1 DEF HeldOne, HasSlot, NeedsLease, MayLease
  <2>  QED  BY <1>1, <1>2, <1>3, <2>1, StepOfHeld
<1>7. Cancels'
  <2>1. status'[r] # "cancelled"
      BY DEF Placed
  <2>  QED  BY <2>1, StepOfCancels
<1>8. Answers'
    BY QuietAnswers
<1>  QED  BY <1>3, <1>4, <1>5, <1>6, <1>7, <1>8, StepOfKeeps DEF RoutedInv

LEMMA ExecuteInv ==
    ASSUME RoutedInv, NEW r \in Requests,
           Acquire(r) \/ EnterLease(r) \/ Prepared(r) \/ Invoked(r) \/ ExecuteFails(r) \/ CancelExecuting(r)
    PROVE  RoutedInv'
<1>  USE InvParts
<1>1. /\ at[r] \in Working /\ r \notin Items /\ r \notin leaked
      /\ UNCHANGED <<keyOf, futures, future, result, cache, shared, status, answer, pending, drain, batch,
                     leaked, abandoned, leftover>>
  <2>1. at[r] \in Working
      BY DEF Acquire, EnterLease, Prepared, Invoked, ExecuteFails, CancelExecuting, Working, Executing
  <2>2. UNCHANGED <<keyOf, futures, future, result, cache, shared, status, answer, pending, drain, batch,
                    leaked, abandoned, leftover>>
      BY DEF Acquire, EnterLease, Prepared, Invoked, ExecuteFails, CancelExecuting, Finally, table, batching
  <2>  QED  BY <2>1, <2>2 DEF Working, Executing
<1>2. /\ held \subseteq Requests /\ leased \subseteq Requests
      /\ outcome \in [Requests -> {"none", "response", "raised", "cancelled"}]
      /\ (r \in held <=> at[r] \in InExecution) /\ (r \in leased <=> at[r] \in {"prepare", "invoke"})
    BY <1>1 DEF Types, TypeOK, HeldOne, HasSlot, NeedsLease, MayLease
<1>3. /\ {"lease", "prepare", "invoke", "finalize"} \subseteq Working
      /\ {"lease", "prepare", "invoke", "finalize"} \subseteq InExecution
    BY DEF Working, Executing, InExecution
<1>4. r \notin gone \/ at[r] = "finalize"
    BY <1>1 DEF Working, Executing
<1>5. outcome[r] = "cancelled" => r \in gone
    BY DEF Cancels
<1>6. CASE Acquire(r)
    BY <1>1, <1>2, <1>3, <1>4, <1>5, <1>6, AdvanceInv DEF Acquire
<1>7. CASE EnterLease(r)
  <2>1. /\ at[r] = "lease" /\ at' = [at EXCEPT ![r] = "prepare"] /\ leased' = leased \cup {r}
        /\ UNCHANGED <<held, outcome, gone>>
      BY <1>7 DEF EnterLease
  <2>  QED  BY <1>1, <1>2, <1>3, <1>4, <1>5, <2>1, AdvanceInv
<1>8. CASE Prepared(r)
  <2>1. /\ at[r] = "prepare" /\ at' = [at EXCEPT ![r] = "invoke"] /\ UNCHANGED <<held, leased, outcome, gone>>
      BY <1>8 DEF Prepared, resources
  <2>  QED  BY <1>1, <1>2, <1>3, <1>4, <1>5, <2>1, AdvanceInv
<1>9. CASE Invoked(r) \/ ExecuteFails(r) \/ CancelExecuting(r)
  <2>1. PICK how \in {"response", "raised", "cancelled"} :
            Finally(r, how) /\ at[r] \in Executing
            /\ gone' = (IF how = "cancelled" THEN gone \cup {r} ELSE gone)
      BY <1>9 DEF Invoked, ExecuteFails, CancelExecuting, Executing
  <2>2. /\ at' = [at EXCEPT ![r] = "finalize"] /\ leased' = leased \ {r} /\ held' = held
        /\ outcome' \in [Requests -> {"none", "response", "raised", "cancelled"}] /\ outcome'[r] = how
        /\ \A q \in Requests : q # r => outcome'[q] = outcome[q]
      BY <1>2, <2>1 DEF Finally
  <2>3. r \in held
      BY <1>2, <2>1 DEF InExecution
  <2>  QED  BY <1>1, <1>2, <1>3, <2>1, <2>2, <2>3, AdvanceInv
<1>  QED  BY <1>6, <1>7, <1>8, <1>9

\* The execution is over: its claim is settled, or left by a cancelled owner.
LEMMA EndInv ==
    ASSUME RoutedInv, NEW r \in Requests, at[r] \in {"acquire", "finalize"},
           NEW how \in {"served", "failed", "cancelled"}, NEW value \in Values, Return(r, how, value),
           how = "cancelled" => r \in gone',
           gone \subseteq gone', gone' \subseteq gone \cup {r},
           \/ UNCHANGED <<futures, future>> /\ abandoned' = abandoned \cup {r}
           \/ abandoned' = abandoned /\ \E state \in {"result", "failed"} : SetFutures({r}, state),
           \/ held' = held \ {r} /\ leaked' = leaked
           \/ at[r] = "acquire" /\ UNCHANGED <<held, leaked>>
           \/ at[r] = "finalize" /\ held' = held /\ leaked' = leaked \cup {r},
           UNCHANGED <<keyOf, shared, pending, drain, batch, leased, leftover>>,
           cache' \in [Keys -> Values], result' \in [Requests -> Values], Answers'
    PROVE  RoutedInv'
<1>  USE InvParts
<1>1. /\ at'[r] = "over" /\ status'[r] = how /\ outcome'[r] = "none"
      /\ \A q \in Requests : q # r => at'[q] = at[q] /\ status'[q] = status[q] /\ outcome'[q] = outcome[q]
    BY ReturnFacts
<1>2. /\ at[r] \in Working /\ r \notin Items /\ r \notin leaked /\ Owns(r)
      /\ (r \in held <=> at[r] = "finalize") /\ r \notin leased
  <2>1. at[r] \in Working /\ r \notin Items /\ r \notin leaked
      BY DEF Working
  <2>2. at[r] \in InExecution <=> at[r] = "finalize"
      BY DEF InExecution, Executing
  <2>  QED  BY <2>1, <2>2 DEF Placed, HeldOne, HasSlot, MayLease
<1>3. /\ futures' \in [Keys -> Requests \cup {None}]
      /\ future' \in [Requests -> {"none", "pending", "result", "failed", "cancelled"}]
      /\ \A k \in Keys : futures'[k] = futures[k] \/ (futures'[k] = None /\ futures[k] = r)
      /\ \A f \in Requests : \/ future'[f] = future[f]
                             \/ /\ future[f] = "pending" /\ f = r /\ futures'[keyOf[r]] = None
                                /\ future'[f] # "cancelled"
      /\ r \in abandoned' \/ futures'[keyOf[r]] = None
      /\ r \in abandoned' => futures' = futures
  <2>1. CASE UNCHANGED <<futures, future>> /\ abandoned' = abandoned \cup {r}
      BY <2>1 DEF Types, TypeOK
  <2>2. CASE abandoned' = abandoned /\ \E state \in {"result", "failed"} : SetFutures({r}, state)
    <3>1. PICK state \in {"result", "failed"} : SetFutures({r}, state)
        BY <2>2
    <3>2. {r} \in SUBSET Requests /\ \A q \in {r} : Owns(q)
        BY <1>2
    <3>3. /\ futures' \in [Keys -> Requests \cup {None}]
          /\ future' \in [Requests -> {"none", "pending", "result", "failed", "cancelled"}]
          /\ \A q \in {r} : futures'[keyOf[q]] = None
          /\ \A k \in Keys : futures'[k] = futures[k] \/ (futures'[k] = None /\ futures[k] \in {r})
          /\ \A f \in Requests : future'[f] = IF f \in {r} /\ future[f] = "pending" THEN state ELSE future[f]
        BY <3>1, <3>2, SettleFacts
    <3>4. r \notin abandoned
        BY <1>2 DEF Working, Executing
    <3>  QED  BY <2>2, <3>3, <3>4
  <2>  QED  BY <2>1, <2>2
<1>4. Types'
  <2>1. held' \subseteq Requests /\ leaked' \subseteq Requests /\ gone' \subseteq Requests /\ abandoned' \subseteq Requests
      BY DEF Types, TypeOK
  <2>2. /\ at' \in [Requests -> {"new", "waiting", "acquire", "finalize", "over"} \cup Executing]
        /\ status' \in [Requests -> {"new", "waiting", "served", "failed", "cancelled"}]
        /\ answer' \in [Requests -> Values]
        /\ outcome' \in [Requests -> {"none", "response", "raised", "cancelled"}]
      BY ReturnFacts
  <2>  QED  BY <1>3, <2>1, <2>2 DEF Types, TypeOK, Values
<1>5. Placed(r)'
    BY <1>1 DEF Placed, Working, Executing
<1>6. StepOf(r)
    BY <1>1, <1>2, <1>3 DEF StepOf, Working, Executing
<1>7. Held'
  <2>1. r \notin Items'
      BY <1>2 DEF Items
  <2>2. r \in held' <=> r \in leaked'
      BY <1>2
  <2>3. at'[r] \notin InExecution /\ at'[r] \notin {"prepare", "invoke"}
      BY <1>1 DEF InExecution, Executing
  <2>4. HeldOne(r)'
      BY <1>2, <2>1, <2>2, <2>3 DEF HeldOne, HasSlot, NeedsLease, MayLease
  <2>  QED  BY <1>1, <1>2, <1>4, <2>4, StepOfHeld
<1>8. Cancels'
    BY <1>1, <1>3, StepOfCancels
<1>  QED  BY <1>4, <1>5, <1>6, <1>7, <1>8, StepOfKeeps DEF RoutedInv

\* Claims of owners are rejected: no answer changes.
LEMMA RejectAnswers ==
    ASSUME RoutedInv, UNCHANGED <<keyOf, cache, result>>,
           NEW S \in SUBSET Requests, \A r \in S : Owns(r), SetFutures(S, "failed")
    PROVE  Answers'
<1>1. Types
    BY DEF RoutedInv
<1>2. /\ \A k \in Keys : futures'[k] = futures[k] \/ (futures'[k] = None /\ futures[k] \in S)
      /\ \A f \in Requests : future'[f] = IF f \in S /\ future[f] = "pending" THEN "failed" ELSE future[f]
    BY <1>1, SettleFacts
<1>  QED  BY <1>2, QuietAnswers

LEMMA ResponseInValues == \A k \in Keys : Response[k] \in Values
BY DEF Values

LEMMA CompleteAnswers ==
    ASSUME RoutedInv, NEW r \in Requests, Complete(r)
    PROVE  Answers' /\ cache' \in [Keys -> Values] /\ result' \in [Requests -> Values]
<1>  USE InvParts
<1>  DEFINE k0 == keyOf[r]
            v  == Response[k0]
<1>1. k0 \in Keys /\ v \in Values /\ Owns(r)
    BY ResponseInValues DEF Complete, Placed, Working
<1>2. /\ cache' = [cache EXCEPT ![k0] = v] /\ result' = [result EXCEPT ![r] = v] /\ keyOf' = keyOf
      /\ SetFutures({r}, "result")
    BY DEF Complete
<1>  HIDE DEF v
<1>3. /\ cache' \in [Keys -> Values] /\ cache'[k0] = v /\ \A k \in Keys : k # k0 => cache'[k] = cache[k]
      /\ result' \in [Requests -> Values] /\ result'[r] = v /\ \A f \in Requests : f # r => result'[f] = result[f]
    BY <1>1, <1>2 DEF Types
<1>4. /\ \A q \in {r} : futures'[keyOf[q]] = None
      /\ \A k \in Keys : futures'[k] = futures[k] \/ (futures'[k] = None /\ futures[k] \in {r})
      /\ \A f \in Requests : future'[f] = IF f \in {r} /\ future[f] = "pending" THEN "result" ELSE future[f]
  <2>1. {r} \in SUBSET Requests /\ \A q \in {r} : Owns(q)
      BY <1>1
  <2>  QED  BY <1>2, <2>1, SettleFacts
<1>5. ASSUME NEW k \in Keys
      PROVE  cache'[k] \in {<<>>, Response[k]} /\ (futures'[k] # None => cache'[k] = <<>>)
  <2>1. CASE k = k0
      BY <1>3, <1>4, <2>1 DEF v
  <2>2. CASE k # k0
      BY <1>3, <1>4, <2>2 DEF Answers
  <2>  QED  BY <2>1, <2>2
<1>6. ASSUME NEW f \in Requests, future'[f] = "result"
      PROVE  result'[f] = Response[keyOf'[f]] /\ cache'[keyOf'[f]] = Response[keyOf'[f]]
  <2>1. CASE f = r
      BY <1>2, <1>3, <2>1 DEF v
  <2>2. CASE f # r
    <3>1. result'[f] = Response[keyOf[f]] /\ cache[keyOf[f]] = Response[keyOf[f]]
        BY <1>3, <1>4, <1>6, <2>2 DEF Answers
    <3>2. keyOf[f] \in Keys
        BY DEF Types
    <3>3. cache'[keyOf[f]] = Response[keyOf[f]]
        BY <1>3, <3>1, <3>2 DEF v
    <3>  QED  BY <1>2, <3>1, <3>3
  <2>  QED  BY <2>1, <2>2
<1>  QED  BY <1>3, <1>5, <1>6 DEF Answers

LEMMA FinishInv ==
    ASSUME RoutedInv, NEW r \in Requests,
           AcquireFails(r) \/ Complete(r) \/ Raise(r) \/ RaiseCancelled(r) \/ FinalizeFails(r) \/ CancelOutside(r)
    PROVE  RoutedInv'
<1>  USE InvParts
<1>1. <<>> \in Values /\ cache \in [Keys -> Values] /\ result \in [Requests -> Values]
    BY DEF Values, Types
<1>2. /\ at[r] \in {"acquire", "finalize"} /\ Owns(r) /\ {r} \in SUBSET Requests
      /\ UNCHANGED <<keyOf, shared, pending, drain, batch, leased, leftover>>
  <2>1. at[r] \in {"acquire", "finalize"}
      BY DEF AcquireFails, Complete, Raise, RaiseCancelled, FinalizeFails, CancelOutside
  <2>2. UNCHANGED <<keyOf, shared, pending, drain, batch, leased, leftover>>
      BY DEF AcquireFails, Complete, Raise, RaiseCancelled, FinalizeFails, CancelOutside, batching, resources
  <2>  QED  BY <2>1, <2>2 DEF Placed, Working
<1>3. CASE AcquireFails(r) \/ Raise(r) \/ FinalizeFails(r)
  <2>1. /\ SetFutures({r}, "failed") /\ Return(r, "failed", <<>>)
        /\ UNCHANGED <<keyOf, cache, result, gone, abandoned>>
        /\ \/ held' = held \ {r} /\ leaked' = leaked
           \/ at[r] = "acquire" /\ UNCHANGED <<held, leaked>>
           \/ at[r] = "finalize" /\ held' = held /\ leaked' = leaked \cup {r}
      BY <1>3 DEF AcquireFails, Raise, FinalizeFails, resources
  <2>2. \A q \in {r} : Owns(q)
      BY <1>2
  <2>3. Answers'
      BY <1>2, <2>1, <2>2, RejectAnswers
  <2>  QED  BY <1>1, <1>2, <2>1, <2>3, EndInv
<1>4. CASE RaiseCancelled(r) \/ CancelOutside(r)
  <2>1. /\ Return(r, "cancelled", <<>>) /\ abandoned' = abandoned \cup {r}
        /\ UNCHANGED <<futures, future, cache, result>>
        /\ r \in gone' /\ gone \subseteq gone' /\ gone' \subseteq gone \cup {r}
        /\ \/ held' = held \ {r} /\ leaked' = leaked
           \/ at[r] = "acquire" /\ UNCHANGED <<held, leaked>>
           \/ at[r] = "finalize" /\ held' = held /\ leaked' = leaked \cup {r}
      BY <1>4 DEF RaiseCancelled, CancelOutside, table, resources, Cancels
  <2>2. Answers'
      BY <1>2, <2>1, QuietAnswers
  <2>  QED  BY <1>1, <1>2, <2>1, <2>2, EndInv
<1>5. CASE Complete(r)
  <2>  DEFINE v == Response[keyOf[r]]
  <2>1. v \in Values /\ Return(r, "served", v) /\ SetFutures({r}, "result") /\ held' = held \ {r}
        /\ UNCHANGED <<gone, leaked, abandoned>>
      BY <1>5, ResponseInValues DEF Complete
  <2>2. Answers' /\ cache' \in [Keys -> Values] /\ result' \in [Requests -> Values]
      BY <1>5, CompleteAnswers
  <2>  HIDE DEF v
  <2>  QED  BY <1>2, <2>1, <2>2, EndInv
<1>  QED  BY <1>3, <1>4, <1>5

-----------------------------------------------------------------------------
(* Claiming a key.                                                         *)

LEMMA ClaimFacts ==
    ASSUME RoutedInv, NEW r \in Requests, Claim(r)
    PROVE  /\ at[r] = "new" /\ keyOf[r] \in Keys /\ futures[keyOf[r]] = None /\ cache[keyOf[r]] = <<>>
           /\ futures'[keyOf[r]] = r /\ \A k \in Keys : k # keyOf[r] => futures'[k] = futures[k]
           /\ future'[r] = "pending" /\ \A f \in Requests : f # r => future'[f] = future[f]
           /\ status'[r] = "waiting"
           /\ \A q \in Requests : q # r => at'[q] = at[q] /\ status'[q] = status[q] /\ shared'[q] = shared[q]
           /\ UNCHANGED <<keyOf, result, cache, outcome, answer, batch, held, leased, gone, leaked, abandoned, leftover>>
           /\ \A q \in Requests : q # r /\ Owns(q) => Owns(q)'
           /\ Owns(r)' /\ Items' = Items
           /\ ToSet(pending) \subseteq ToSet(pending') /\ ToSet(pending') \subseteq ToSet(pending) \cup {r}
           /\ \/ /\ Embeds(r) /\ at'[r] = "waiting" /\ shared'[r] = r /\ r \in ToSet(pending')
                 /\ drain' # "none" /\ (drain' = drain \/ (drain = "none" /\ drain' = "window"))
              \/ /\ ~Embeds(r) /\ at'[r] = "acquire" /\ shared'[r] = shared[r] /\ r \notin ToSet(pending')
                 /\ UNCHANGED <<drain, pending>>
           /\ Types'
<1>  USE InvParts
<1>1. /\ at[r] = "new" /\ keyOf[r] \in Keys /\ futures[keyOf[r]] = None /\ cache[keyOf[r]] = <<>>
      /\ UNCHANGED <<keyOf, result, cache, outcome, answer, batch, held, leased, gone, leaked, abandoned, leftover>>
    BY DEF Claim, resources
<1>2. /\ futures' \in [Keys -> Requests \cup {None}] /\ futures'[keyOf[r]] = r
      /\ \A k \in Keys : k # keyOf[r] => futures'[k] = futures[k]
      /\ future' \in [Requests -> {"none", "pending", "result", "failed", "cancelled"}]
      /\ future'[r] = "pending" /\ \A f \in Requests : f # r => future'[f] = future[f]
      /\ status' \in [Requests -> {"new", "waiting", "served", "failed", "cancelled"}]
      /\ status'[r] = "waiting" /\ \A q \in Requests : q # r => status'[q] = status[q]
    BY <1>1 DEF Claim, Types, TypeOK
<1>3. /\ at' \in [Requests -> {"new", "waiting", "acquire", "finalize", "over"} \cup Executing]
      /\ shared' \in [Requests -> Requests \cup {None}]
      /\ drain' \in {"none", "window", "acquire", "finalize"} \cup Executing
      /\ \A q \in Requests : q # r => at'[q] = at[q] /\ shared'[q] = shared[q]
      /\ \/ Embeds(r) /\ at'[r] = "waiting" /\ shared'[r] = r /\ pending' = Append(pending, r)
            /\ drain' # "none" /\ (drain' = drain \/ (drain = "none" /\ drain' = "window"))
         \/ ~Embeds(r) /\ at'[r] = "acquire" /\ shared'[r] = shared[r] /\ UNCHANGED <<drain, pending>>
  <2>1. /\ at \in [Requests -> {"new", "waiting", "acquire", "finalize", "over"} \cup Executing]
        /\ shared \in [Requests -> Requests \cup {None}]
        /\ drain \in {"none", "window", "acquire", "finalize"} \cup Executing
      BY DEF TypeOK
  <2>2. CASE Embeds(r)
    <3>1. /\ at' = [at EXCEPT ![r] = "waiting"] /\ shared' = [shared EXCEPT ![r] = r]
          /\ pending' = Append(pending, r) /\ drain' = IF drain = "none" THEN "window" ELSE drain
        BY <2>2 DEF Claim
    <3>2. /\ drain' # "none" /\ (drain' = drain \/ (drain = "none" /\ drain' = "window"))
          /\ drain' \in {"none", "window", "acquire", "finalize"} \cup Executing
        BY <2>1, <3>1
    <3>  QED  BY <2>1, <2>2, <3>1, <3>2
  <2>3. CASE ~Embeds(r)
    <3>1. at' = [at EXCEPT ![r] = "acquire"] /\ UNCHANGED <<shared, pending, drain>>
        BY <2>3 DEF Claim
    <3>  QED  BY <2>1, <2>3, <3>1
  <2>  QED  BY <2>2, <2>3
<1>4. /\ pending' \in Seq(Requests) /\ ToSet(pending) \subseteq ToSet(pending')
      /\ ToSet(pending') \subseteq ToSet(pending) \cup {r}
      /\ Embeds(r) => r \in ToSet(pending')
  <2>1. pending \in Seq(Requests)
      BY DEF Types
  <2>2. Append(pending, r) \in Seq(Requests) /\ ToSet(Append(pending, r)) = ToSet(pending) \cup {r}
      BY <2>1, AppendRange
  <2>  QED  BY <1>3, <2>1, <2>2
<1>5. r \notin ToSet(pending)
    BY <1>1
<1>6. \A q \in Requests : q # r /\ Owns(q) => Owns(q)'
  <2>1. \A q \in Requests : keyOf[q] \in Keys /\ q # None
      BY RoutedAssumption DEF Types
  <2>  QED  BY <1>1, <1>2, <2>1 DEF Owns
<1>7. Types'
    BY <1>1, <1>2, <1>3, <1>4 DEF Types, TypeOK, Values
<1>  QED  BY <1>1, <1>2, <1>3, <1>4, <1>5, <1>6, <1>7 DEF Owns, Items

LEMMA ClaimInv ==
    ASSUME RoutedInv, NEW r \in Requests, Claim(r)
    PROVE  RoutedInv'
<1>  USE InvParts
<1>1. \A q \in Requests : keyOf[q] \in Keys /\ keyOf'[q] = keyOf[q] /\ (Embeds(q)' <=> Embeds(q))
    BY ClaimFacts DEF Types, Embeds
<1>2. ToSet(pending) \subseteq Requests /\ Items \subseteq Requests /\ r \notin ToSet(pending) \cup Items
    BY ClaimFacts, ItemTypes
<1>3. ASSUME NEW q \in Requests PROVE Placed(q)'
  <2>1. CASE q = r
      BY <1>1, <2>1, ClaimFacts DEF Placed, Working, Executing
  <2>2. CASE q # r
    <3>1. Placed(q)
        BY DEF RoutedInv
    <3>2. at'[q] = at[q] /\ status'[q] = status[q] /\ shared'[q] = shared[q] /\ (Owns(q) => Owns(q)')
        BY <2>2, ClaimFacts
    <3>  QED  BY <1>1, <3>1, <3>2 DEF Placed
  <2>  QED  BY <2>1, <2>2
<1>4. Batched'
  <2>1. \A q \in ToSet(pending') \cup Items' : Embeds(q)' /\ at'[q] \in {"waiting", "over"}
      BY <1>1, <1>2, ClaimFacts DEF Batched
  <2>2. \A q \in ToSet(pending') : Owns(q)' /\ q \notin Items'
      BY <1>2, ClaimFacts DEF Batched
  <2>3. drain' \in Unsettled => \A q \in Items' : Owns(q)'
      BY <1>2, ClaimFacts DEF Batched, Unsettled, Executing
  <2>4. drain' \in Unsettled \cup {"finalize"} => batch' # <<>>
      BY ClaimFacts DEF Batched, Unsettled, Executing
  <2>  QED  BY <2>1, <2>2, <2>3, <2>4 DEF Batched
<1>5. Left'
  <2>1. \A q \in abandoned' \cup leaked' \cup gone' : q \in Requests /\ q # r
      BY ClaimFacts DEF Types
  <2>  QED  BY <1>1, <1>2, <2>1, ClaimFacts DEF Left
<1>6. ClaimHasWorker'
  <2>1. ASSUME NEW k \in Keys, futures'[k] # None
        PROVE  LET o == futures'[k] IN
               /\ keyOf'[o] = k /\ future'[o] \in {"pending", "cancelled"}
               /\ \/ at'[o] \in Working
                  \/ Contains(pending', o) \/ (o \in Items' /\ drain' \in Unsettled)
                  \/ o \in abandoned'
    <3>1. \A q \in Requests : Contains(pending', q) <=> q \in ToSet(pending')
      <4>1. Types'
          BY ClaimFacts
      <4>2. pending' \in Seq(Requests)
          BY <4>1 DEF Types
      <4>3. DOMAIN pending' = 1..Len(pending')
          BY <4>2, LenProperties
      <4>  QED  BY <4>3 DEF Contains, ToSet
    <3>2. CASE k = keyOf[r]
      <4>1. futures'[k] = r /\ (at'[r] = "acquire" \/ r \in ToSet(pending')) /\ future'[r] = "pending"
          BY <3>2, ClaimFacts
      <4>  QED  BY <1>1, <3>1, <3>2, <4>1 DEF Working
    <3>3. CASE k # keyOf[r]
      <4>  DEFINE o == futures[k]
      <4>1. futures'[k] = o /\ o # None /\ o \in Requests
          BY <2>1, <3>3, ClaimFacts DEF Types, TypeOK
      <4>2. /\ keyOf[o] = k /\ future[o] \in {"pending", "cancelled"}
            /\ \/ at[o] \in Working
               \/ Contains(pending, o) \/ (o \in Items /\ drain \in Unsettled)
               \/ o \in abandoned
          BY <4>1 DEF ClaimHasWorker, Working, Unsettled
      <4>3. Contains(pending, o) <=> o \in ToSet(pending)
          BY <4>1, ItemTypes
      <4>  HIDE DEF o
      <4>4. o # r
          BY <3>3, <4>2
      <4>5. drain \in Unsettled => drain' = drain
          BY ClaimFacts DEF Unsettled, Executing
      <4>6. at'[o] = at[o] /\ future'[o] = future[o] /\ keyOf'[o] = keyOf[o]
          BY <4>1, <4>4, ClaimFacts
      <4>7. (o \in Items => o \in Items') /\ (o \in abandoned => o \in abandoned')
            /\ (o \in ToSet(pending) => o \in ToSet(pending'))
          BY ClaimFacts
      <4>  QED  BY <3>1, <4>1, <4>2, <4>3, <4>5, <4>6, <4>7
    <3>  QED  BY <3>2, <3>3
  <2>2. \A q \in ToSet(pending') \cup abandoned' : futures'[keyOf'[q]] = q
      BY <1>4, <1>5 DEF Batched, Left, Owns
  <2>3. drain' = "none" => ToSet(pending') \subseteq leftover'
      BY ClaimFacts DEF ClaimHasWorker
  <2>4. TypeOK'
      BY ClaimFacts DEF Types
  <2>  QED  BY <2>1, <2>2, <2>3, <2>4 DEF ClaimHasWorker, Working, Unsettled
<1>7. Held'
  <2>1. /\ IsFiniteSet(held) /\ Cardinality(held) <= MaxSlots /\ \A q \in Requests : HeldOne(q)
        /\ Types' /\ UNCHANGED <<held, leased, leaked, batch>> /\ Items' = Items
      BY HeldEach, ClaimFacts DEF HeldPer
  <2>2. ASSUME NEW D, D \subseteq Unsettled \cup {"finalize"} PROVE drain' \in D <=> drain \in D
      BY <2>2, ClaimFacts DEF Unsettled, Executing
  <2>3. /\ (drain' \in InExecution <=> drain \in InExecution) /\ (drain' \in Executing <=> drain \in Executing)
        /\ (drain' \in {"prepare", "invoke"} <=> drain \in {"prepare", "invoke"})
      BY <2>2 DEF InExecution, Unsettled, Executing
  <2>4. \A q \in Requests : /\ at'[q] \in InExecution <=> at[q] \in InExecution
                            /\ at'[q] \in {"prepare", "invoke"} <=> at[q] \in {"prepare", "invoke"}
      BY ClaimFacts DEF InExecution, Executing
  <2>5. \A q \in Requests : HeldOne(q)'
      BY <2>1, <2>3, <2>4 DEF HeldOne, HasSlot, NeedsLease, MayLease
  <2>  QED  BY <2>1, <2>5, HeldEachNext DEF HeldPer
<1>8. Cancels'
    BY ClaimFacts, StepOfCancels DEF Cancels
<1>9. Answers'
  <2>1. \A k \in Keys : cache'[k] \in {<<>>, Response[k]} /\ (futures'[k] # None => cache'[k] = <<>>)
      BY ClaimFacts DEF Answers
  <2>2. \A f \in Requests : future'[f] = "result" =>
            result'[f] = Response[keyOf'[f]] /\ cache'[keyOf'[f]] = Response[keyOf'[f]]
      BY ClaimFacts DEF Answers
  <2>  QED  BY <2>1, <2>2 DEF Answers
<1>  QED  BY <1>3, <1>4, <1>5, <1>6, <1>7, <1>8, <1>9, ClaimFacts DEF RoutedInv

-----------------------------------------------------------------------------
(* The drain task.                                                         *)

\* Every item the task has in hand stays there or is settled.
DrainKeepsItems ==
    \A o \in Requests : o \in ToSet(pending) \/ (o \in Items /\ drain \in Unsettled) =>
        o \in ToSet(pending') \/ (o \in Items' /\ drain' \in Unsettled) \/ futures'[keyOf[o]] = None

LEMMA DrainKeeps ==
    ASSUME RoutedInv, Types', Batched', DrainKeepsItems,
           UNCHANGED <<keyOf, at, shared, outcome, status, gone, abandoned>>,
           \A k \in Keys : futures'[k] = futures[k] \/ (futures'[k] = None /\ futures[k] \in Items),
           \A f \in Requests : \/ future'[f] = future[f]
                               \/ f \in Items /\ futures'[keyOf[f]] = None /\ future'[f] # "cancelled",
           \A q \in leaked' : q \in leaked \cup Items /\ q \notin ToSet(pending') \cup Items',
           drain' = "none" => ToSet(pending') \subseteq leftover'
    PROVE  (\A q \in Requests : Placed(q)') /\ Left' /\ ClaimHasWorker' /\ Cancels'
<1>1. /\ Types /\ TypeOK /\ Batched /\ Left /\ ClaimHasWorker /\ Cancels /\ \A q \in Requests : Placed(q)
      /\ ToSet(pending) \subseteq Requests /\ Items \subseteq Requests
      /\ \A q \in Requests : Contains(pending, q) <=> q \in ToSet(pending)
    BY ItemTypes DEF RoutedInv, Types
<1>2. \A q \in Requests : keyOf[q] \in Keys /\ keyOf'[q] = keyOf[q] /\ (Embeds(q)' <=> Embeds(q))
    BY <1>1 DEF Types, Embeds
<1>3. \A q \in Requests : Owns(q) /\ ~Embeds(q) => Owns(q)'
    BY <1>1, <1>2 DEF Owns, Batched
<1>4. \A q \in Requests : Placed(q)'
    BY <1>1, <1>2, <1>3 DEF Placed
<1>5. Left'
  <2>1. \A q \in abandoned : q \in Requests
      BY <1>1 DEF Types
  <2>2. \A q \in abandoned' : ~Embeds(q)' /\ at'[q] = "over" /\ Owns(q)'
      BY <1>1, <1>2, <1>3, <2>1 DEF Left
  <2>3. \A q \in leaked' : at'[q] \in {"waiting", "over"}
      BY <1>1 DEF Left, Batched
  <2>4. \A q \in gone' : at'[q] \in {"finalize", "over"}
      BY <1>1 DEF Left
  <2>  QED  BY <2>2, <2>3, <2>4 DEF Left
<1>6. ClaimHasWorker'
  <2>1. ASSUME NEW k \in Keys, futures'[k] # None
        PROVE  LET o == futures'[k] IN
               /\ keyOf'[o] = k /\ future'[o] \in {"pending", "cancelled"}
               /\ \/ at'[o] \in Working
                  \/ Contains(pending', o) \/ (o \in Items' /\ drain' \in Unsettled)
                  \/ o \in abandoned'
    <3>  DEFINE o == futures[k]
    <3>1. futures'[k] = o /\ o # None /\ o \in Requests
        BY <1>1, <2>1 DEF Types, TypeOK
    <3>2. /\ keyOf[o] = k /\ future[o] \in {"pending", "cancelled"}
          /\ \/ at[o] \in Working
             \/ Contains(pending, o) \/ (o \in Items /\ drain \in Unsettled)
             \/ o \in abandoned
        BY <1>1, <3>1 DEF ClaimHasWorker, Working, Unsettled
    <3>  HIDE DEF o
    <3>3. Contains(pending', o) <=> o \in ToSet(pending')
      <4>1. pending' \in Seq(Requests)
          BY DEF Types
      <4>2. DOMAIN pending' = 1..Len(pending')
          BY <4>1, LenProperties
      <4>  QED  BY <4>2 DEF Contains, ToSet
    <3>4. future'[o] = future[o]
        BY <2>1, <3>1, <3>2
    <3>5. o \in ToSet(pending) \/ (o \in Items /\ drain \in Unsettled) =>
            o \in ToSet(pending') \/ (o \in Items' /\ drain' \in Unsettled)
        BY <2>1, <3>1, <3>2 DEF DrainKeepsItems
    <3>  QED  BY <1>1, <1>2, <3>1, <3>2, <3>3, <3>4, <3>5
  <2>2. \A q \in ToSet(pending') \cup abandoned' : futures'[keyOf'[q]] = q
      BY <1>5 DEF Batched, Left, Owns
  <2>3. TypeOK'
      BY DEF Types
  <2>  QED  BY <2>1, <2>2, <2>3 DEF ClaimHasWorker, Working, Unsettled
<1>7. Cancels'
    BY <1>1 DEF Cancels, CancelStaysInFlight
<1>  QED  BY <1>4, <1>5, <1>6, <1>7

\* What the task holds follows its stage and its batch.
LEMMA DrainHeld ==
    ASSUME RoutedInv, Types', at' = at,
           \A q \in Requests : HeldOne(q) => HeldOne(q)',
           \/ held' \subseteq held
           \/ Cardinality(held) < MaxSlots /\ \E x : held' = held \cup {x}
    PROVE  Held'
<1>1. /\ Types /\ IsFiniteSet(held) /\ Cardinality(held) <= MaxSlots
      /\ \A q \in Requests : HeldOne(q)
    BY HeldEach DEF RoutedInv, HeldPer
<1>2. IsFiniteSet(held') /\ Cardinality(held') <= MaxSlots
    BY <1>1, HeldBound
<1>  QED  BY <1>1, <1>2, HeldEachNext DEF HeldPer

LEMMA BatchParts ==
    ASSUME RoutedInv
    PROVE  /\ Types /\ TypeOK /\ Batched /\ Left /\ Answers /\ ClaimHasWorker
           /\ ToSet(pending) \subseteq Requests /\ Items \subseteq Requests
           /\ batch # <<>> => Head(batch) \in Items
           /\ \A q \in Items : q \notin leaked /\ at[q] \notin InExecution /\ at[q] \notin {"prepare", "invoke"}
BY ItemTypes DEF RoutedInv, Types, Batched, Left, InExecution, Executing

LEMMA TakeBatchInv ==
    ASSUME RoutedInv, TakeBatch
    PROVE  RoutedInv'
<1>  USE BatchParts
<1>1. /\ drain = "window" /\ batch' = pending /\ pending' = <<>>
      /\ drain' = (IF pending = <<>> THEN "none" ELSE "acquire")
      /\ UNCHANGED <<keyOf, futures, future, result, cache, at, shared, outcome, status, answer, held, leased,
                     gone, leaked, abandoned, leftover>>
    BY DEF TakeBatch, table, request, resources
<1>2. ToSet(pending') = {} /\ Items' = ToSet(pending)
    BY <1>1 DEF ToSet, Items
<1>3. Types'
  <2>1. pending' \in Seq(Requests) /\ batch' \in Seq(Requests)
      BY <1>1 DEF Types
  <2>2. drain' \in {"none", "window", "acquire", "finalize"} \cup Executing
      BY <1>1
  <2>  QED  BY <1>1, <2>1, <2>2 DEF Types, TypeOK, Values
<1>4. Batched'
  <2>1. \A q \in Requests : (Embeds(q)' <=> Embeds(q)) /\ (Owns(q)' <=> Owns(q)) /\ at'[q] = at[q]
      BY <1>1 DEF Embeds, Owns
  <2>2. drain' \in Unsettled \cup {"finalize"} => batch' # <<>>
      BY <1>1 DEF Unsettled, Executing
  <2>  QED  BY <1>2, <2>1, <2>2 DEF Batched
<1>5. DrainKeepsItems
  <2>1. pending = <<>> => ToSet(pending) = {}
      BY DEF ToSet
  <2>2. drain \notin Unsettled /\ (drain' \in Unsettled \/ ToSet(pending) = {})
      BY <1>1, <2>1 DEF Unsettled, Executing
  <2>  QED  BY <1>1, <1>2, <2>2 DEF DrainKeepsItems
<1>6. \A q \in leaked' : q \in leaked \cup Items /\ q \notin ToSet(pending') \cup Items'
    BY <1>1, <1>2 DEF Left
<1>7. (\A q \in Requests : Placed(q)') /\ Left' /\ ClaimHasWorker' /\ Cancels'
    BY <1>1, <1>2, <1>3, <1>4, <1>5, <1>6, DrainKeeps
<1>8. Held'
  <2>1. /\ drain \notin InExecution /\ drain \notin Executing /\ drain \notin {"prepare", "invoke"}
        /\ drain' \notin InExecution /\ drain' \notin Executing /\ drain' \notin {"prepare", "invoke"}
      BY <1>1 DEF InExecution, Executing
  <2>2. \A q \in Requests : HeldOne(q) => HeldOne(q)'
      BY <1>1, <2>1 DEF HeldOne, HasSlot, NeedsLease, MayLease
  <2>  QED  BY <1>1, <1>3, <2>2, DrainHeld
<1>9. Answers'
    BY <1>1, QuietAnswers
<1>  QED  BY <1>3, <1>4, <1>7, <1>8, <1>9 DEF RoutedInv

\* The batch is admitted, leased and prepared.
LEMMA BatchGoesOnInv ==
    ASSUME RoutedInv, AcquireBatch \/ LeaseItem \/ PreparedBatch
    PROVE  RoutedInv'
<1>  USE BatchParts
<1>1. /\ drain \in Unsettled /\ drain' \in Unsettled /\ batch # <<>>
      /\ UNCHANGED <<keyOf, futures, future, result, cache, at, shared, outcome, status, answer, pending, batch,
                     gone, leaked, abandoned, leftover>>
  <2>1. drain \in Unsettled
      BY DEF AcquireBatch, LeaseItem, PreparedBatch, Unsettled, Executing
  <2>2. drain' \in Unsettled
      BY DEF AcquireBatch, LeaseItem, PreparedBatch, Unsettled, Executing
  <2>3. UNCHANGED <<keyOf, futures, future, result, cache, at, shared, outcome, status, answer, pending, batch,
                    gone, leaked, abandoned, leftover>>
      BY DEF AcquireBatch, LeaseItem, PreparedBatch, table, request
  <2>  QED  BY <2>1, <2>2, <2>3 DEF Batched
<1>2. Items' = Items /\ ToSet(pending') = ToSet(pending)
    BY <1>1 DEF Items
<1>3. held' \subseteq Requests /\ leased' \subseteq Requests
  <2>1. \A i \in DOMAIN batch : batch[i] \in Requests
      BY DEF Items, ToSet
  <2>  QED  BY <1>1, <2>1 DEF AcquireBatch, LeaseItem, PreparedBatch, resources, Types, TypeOK
<1>4. Types'
    BY <1>1, <1>3 DEF Types, TypeOK, Values, Unsettled
<1>5. Batched'
  <2>1. \A q \in Requests : (Embeds(q)' <=> Embeds(q)) /\ (Owns(q)' <=> Owns(q)) /\ at'[q] = at[q]
      BY <1>1 DEF Embeds, Owns
  <2>  QED  BY <1>1, <1>2, <2>1 DEF Batched
<1>6. DrainKeepsItems
    BY <1>1, <1>2 DEF DrainKeepsItems
<1>7. \A q \in leaked' : q \in leaked \cup Items /\ q \notin ToSet(pending') \cup Items'
    BY <1>1, <1>2 DEF Left
<1>8. (\A q \in Requests : Placed(q)') /\ Left' /\ ClaimHasWorker' /\ Cancels'
  <2>1. drain' # "none"
      BY <1>1 DEF Unsettled, Executing
  <2>  QED  BY <1>1, <1>4, <1>5, <1>6, <1>7, <2>1, DrainKeeps
<1>9. Held'
  <2>1. CASE AcquireBatch
    <3>1. /\ drain = "acquire" /\ drain' = "lease" /\ held' = held \cup {Head(batch)} /\ leased' = leased
          /\ Cardinality(held) < MaxSlots
        BY <2>1 DEF AcquireBatch
    <3>2. /\ drain \notin InExecution /\ drain \notin Executing /\ drain \notin {"prepare", "invoke"}
          /\ drain' \in InExecution /\ drain' \in Executing /\ drain' \notin {"prepare", "invoke"}
        BY <3>1 DEF InExecution, Executing
    <3>3. \A q \in Requests : HeldOne(q) => HeldOne(q)'
        BY <1>1, <1>2, <3>1, <3>2 DEF HeldOne, HasSlot, NeedsLease, MayLease
    <3>  QED  BY <1>1, <1>4, <3>1, <3>3, DrainHeld
  <2>2. CASE LeaseItem
    <3>1. PICK i \in DOMAIN batch :
            /\ \A j \in DOMAIN batch : j < i <=> batch[j] \in leased
            /\ leased' = leased \cup {batch[i]}
            /\ drain' = IF i = Len(batch) THEN "prepare" ELSE "lease"
        BY <2>2 DEF LeaseItem
    <3>2. drain = "lease" /\ held' = held
        BY <2>2 DEF LeaseItem
    <3>3. /\ drain \in InExecution /\ drain \in Executing /\ drain \notin {"prepare", "invoke"}
          /\ drain' \in InExecution /\ drain' \in Executing
          /\ drain' \in {"prepare", "invoke"} => i = Len(batch)
        BY <3>1, <3>2 DEF InExecution, Executing
    <3>4. batch[i] \in Items
        BY <3>1 DEF Items, ToSet
    <3>5. i = Len(batch) => Items \subseteq leased'
      <4>1. batch \in Seq(Requests)
          BY DEF Types
      <4>2. DOMAIN batch = 1..Len(batch) /\ Len(batch) \in Nat
          BY <4>1, LenProperties
      <4>3. i = Len(batch) => \A j \in DOMAIN batch : batch[j] \in leased'
          BY <3>1, <4>2
      <4>  QED  BY <4>3 DEF Items, ToSet
    <3>6. \A q \in Requests : HeldOne(q) => HeldOne(q)'
        BY <1>1, <1>2, <3>1, <3>2, <3>3, <3>4, <3>5 DEF HeldOne, HasSlot, NeedsLease, MayLease
    <3>  QED  BY <1>1, <1>4, <3>2, <3>6, DrainHeld
  <2>3. CASE PreparedBatch
    <3>1. drain = "prepare" /\ drain' = "invoke" /\ held' = held /\ leased' = leased
        BY <2>3 DEF PreparedBatch, resources
    <3>2. /\ drain \in InExecution /\ drain \in Executing /\ drain \in {"prepare", "invoke"}
          /\ drain' \in InExecution /\ drain' \in Executing /\ drain' \in {"prepare", "invoke"}
        BY <3>1 DEF InExecution, Executing
    <3>3. \A q \in Requests : HeldOne(q) => HeldOne(q)'
        BY <1>1, <1>2, <3>1, <3>2 DEF HeldOne, HasSlot, NeedsLease, MayLease
    <3>  QED  BY <1>1, <1>4, <3>1, <3>3, DrainHeld
  <2>  QED  BY <2>1, <2>2, <2>3
<1>10. Answers'
    BY <1>1, QuietAnswers
<1>  QED  BY <1>4, <1>5, <1>8, <1>9, <1>10 DEF RoutedInv

\* The batch is over: its claims were settled before.
LEMMA BatchOverInv ==
    ASSUME RoutedInv, BatchDone \/ BatchFinalizeFails
    PROVE  RoutedInv'
<1>  USE BatchParts
<1>1. /\ drain = "finalize" /\ batch # <<>> /\ batch' = <<>> /\ drain' \in {"none", "window"}
      /\ UNCHANGED <<keyOf, futures, future, result, cache, at, shared, outcome, status, answer, pending, leased,
                     gone, abandoned>>
      /\ \/ held' = held \ {Head(batch)} /\ leaked' = leaked
         \/ held' = held /\ leaked' = leaked \cup {Head(batch)}
      /\ leftover \subseteq leftover'
      /\ drain' = "none" => pending = <<>> \/ ToSet(pending) \subseteq leftover'
  <2>1. drain = "finalize" /\ batch' = <<>>
      BY DEF BatchDone, BatchFinalizeFails
  <2>2. /\ drain' \in {"none", "window"} /\ leftover \subseteq leftover'
        /\ drain' = "none" => pending = <<>> \/ ToSet(pending) \subseteq leftover'
      BY DEF BatchDone, BatchFinalizeFails, Loop
  <2>3. UNCHANGED <<keyOf, futures, future, result, cache, at, shared, outcome, status, answer, pending, leased,
                    gone, abandoned>>
      BY DEF BatchDone, BatchFinalizeFails, table, request, resources
  <2>4. \/ held' = held \ {Head(batch)} /\ leaked' = leaked
        \/ held' = held /\ leaked' = leaked \cup {Head(batch)}
      BY DEF BatchDone, BatchFinalizeFails, resources
  <2>  QED  BY <2>1, <2>2, <2>3, <2>4 DEF Batched
<1>2. Items' = {} /\ ToSet(pending') = ToSet(pending) /\ Head(batch) \in Items
    BY <1>1 DEF Items, ToSet
<1>3. Types'
  <2>1. batch' \in Seq(Requests) /\ held' \subseteq Requests /\ leaked' \subseteq Requests
      BY <1>1, <1>2 DEF Types, TypeOK
  <2>  QED  BY <1>1, <2>1 DEF Types, TypeOK, Values
<1>4. drain' \notin Unsettled \cup {"finalize"} /\ drain \notin Unsettled
    BY <1>1 DEF Unsettled, Executing
<1>5. Batched'
  <2>1. \A q \in Requests : (Embeds(q)' <=> Embeds(q)) /\ (Owns(q)' <=> Owns(q)) /\ at'[q] = at[q]
      BY <1>1 DEF Embeds, Owns
  <2>  QED  BY <1>1, <1>2, <1>4, <2>1 DEF Batched
<1>6. DrainKeepsItems
    BY <1>2, <1>4 DEF DrainKeepsItems
<1>7. \A q \in leaked' : q \in leaked \cup Items /\ q \notin ToSet(pending') \cup Items'
    BY <1>1, <1>2 DEF Left, Batched
<1>8. (\A q \in Requests : Placed(q)') /\ Left' /\ ClaimHasWorker' /\ Cancels'
  <2>1. drain' = "none" => ToSet(pending') \subseteq leftover'
    <3>1. pending = <<>> => ToSet(pending) = {}
        BY DEF ToSet
    <3>  QED  BY <1>1, <1>2, <3>1
  <2>  QED  BY <1>1, <1>3, <1>5, <1>6, <1>7, <2>1, DrainKeeps
<1>9. Held'
  <2>1. /\ drain \in InExecution /\ drain \notin Executing /\ drain \notin {"prepare", "invoke"}
        /\ drain' \notin InExecution /\ drain' \notin Executing /\ drain' \notin {"prepare", "invoke"}
      BY <1>1 DEF InExecution, Executing
  <2>2. \A q \in Requests : HeldOne(q) => HeldOne(q)'
      BY <1>1, <1>2, <2>1 DEF HeldOne, HasSlot, NeedsLease, MayLease
  <2>  QED  BY <1>1, <1>3, <2>2, DrainHeld
<1>10. Answers'
    BY <1>1, QuietAnswers
<1>  QED  BY <1>3, <1>5, <1>8, <1>9, <1>10 DEF RoutedInv

-----------------------------------------------------------------------------
(* The slices of a batch's response.                                       *)

Vector == Keys \X Nat

LEMMA ResponseType ==
    ASSUME NEW k \in Keys
    PROVE  Response[k] \in Seq(Vector) /\ (Inputs[k] > 0 => Len(Response[k]) = Inputs[k])
<1>  DEFINE n == IF Inputs[k] = 0 THEN 1 ELSE Inputs[k]
<1>1. n \in Nat /\ Inputs[k] \in Nat
    BY RoutedAssumption
<1>  HIDE DEF n
<1>2. Response[k] = [i \in 1..n |-> <<k, i>>]
    BY DEF Response, n
<1>3. \A i \in 1..n : <<k, i>> \in Vector
    BY <1>1 DEF Vector
<1>4. Response[k] \in [1..n -> Vector]
    BY <1>2, <1>3
<1>5. Response[k] \in Seq(Vector)
    BY <1>1, <1>4, SeqDef
<1>6. Len(Response[k]) = n
    BY <1>1, <1>4, <1>5, LenProperties
<1>  QED  BY <1>1, <1>5, <1>6 DEF n

\* The backend's vectors, cut at the offsets of the items' inputs, give every
\* item the response of its own key.
LEMMA SliceIsResponse ==
    ASSUME RoutedInv, NEW i \in DOMAIN batch
    PROVE  Slice(batch, Vectors(batch), i) = Response[keyOf[batch[i]]]
<1>  USE BatchParts
<1>  DEFINE ss     == [j \in DOMAIN batch |-> Response[keyOf[batch[j]]]]
            N      == Len(batch)
            size   == [j \in DOMAIN batch |-> Inputs[keyOf[batch[j]]]]
            offset == CHOOSE o : o = [j \in DOMAIN batch |-> IF j = 1 THEN 0 ELSE o[j - 1] + size[j - 1]]
<1>1. batch \in Seq(Requests) /\ N \in Nat /\ DOMAIN batch = 1..N
    BY LenProperties DEF Types
<1>2. \A j \in 1..N : batch[j] \in Items /\ keyOf[batch[j]] \in Keys /\ Inputs[keyOf[batch[j]]] > 0
  <2>1. \A j \in 1..N : batch[j] \in Items
      BY <1>1 DEF Items, ToSet
  <2>2. \A q \in Items : keyOf[q] \in Keys /\ Inputs[keyOf[q]] > 0
      BY DEF Types, Batched, Embeds
  <2>  QED  BY <2>1, <2>2
<1>3. \A j \in 1..N : /\ ss[j] = Response[keyOf[batch[j]]] /\ ss[j] \in Seq(Vector)
                      /\ size[j] = Inputs[keyOf[batch[j]]] /\ size[j] \in Nat /\ Len(ss[j]) = size[j]
    BY <1>1, <1>2, ResponseType, RoutedAssumption
<1>4. ss \in Seq(Seq(Vector)) /\ Len(ss) = N
  <2>1. ss \in [1..N -> Seq(Vector)]
      BY <1>1, <1>3
  <2>  HIDE DEF ss, N
  <2>2. ss \in Seq(Seq(Vector))
      BY <1>1, <2>1, SeqDef
  <2>  QED  BY <1>1, <2>1, <2>2, LenProperties
<1>5. FlattenSeq(ss) = Vectors(batch)
    BY DEF Vectors
<1>6. Slice(batch, Vectors(batch), i) = SubSeq(Vectors(batch), offset[i] + 1, offset[i] + size[i])
    BY DEF Slice
<1>7. offset = [j \in DOMAIN batch |-> IF j = 1 THEN 0 ELSE offset[j - 1] + size[j - 1]]
  <2>  DEFINE G == [p \in Nat \X (1..N) |-> p[1] + (IF p[2] = 1 THEN 0 ELSE size[p[2] - 1])]
  <2>1. G \in Steps(Nat, N)
    <3>1. \A j \in 1..N : j # 1 => j - 1 \in 1..N
        BY <1>1
    <3>2. \A j \in 1..N : (IF j = 1 THEN 0 ELSE size[j - 1]) \in Nat
        BY <1>3, <3>1
    <3>  HIDE DEF size
    <3>3. \A p \in Nat \X (1..N) : p[1] + (IF p[2] = 1 THEN 0 ELSE size[p[2] - 1]) \in Nat
        BY <3>2
    <3>4. G \in [Nat \X (1..N) -> Nat]
        BY <3>3
    <3>  HIDE DEF G
    <3>  QED  BY <3>4 DEF Steps
  <2>  HIDE DEF size
  <2>2. PICK o : Unfolds(o, Nat, 0, G, N)
    <3>  DEFINE zero == 0
    <3>1. zero \in Nat
        OBVIOUS
    <3>  HIDE DEF G, N, zero
    <3>2. \E o : Unfolds(o, Nat, zero, G, N)
        BY <1>1, <2>1, <3>1, RecursionExists
    <3>  QED  BY <3>2 DEF zero
  <2>3. ASSUME NEW j \in 1..N PROVE o[j] = IF j = 1 THEN 0 ELSE o[j - 1] + size[j - 1]
    <3>1. o[j] = IF j = 1 THEN 0 ELSE G[<<o[j - 1], j>>]
        BY <2>2 DEF Unfolds
    <3>2. CASE j # 1
      <4>1. j - 1 \in 1..N
          BY <1>1, <3>2
      <4>2. o[j - 1] \in Nat
          BY <2>2, <4>1 DEF Unfolds
      <4>3. <<o[j - 1], j>> \in Nat \X (1..N)
          BY <4>2
      <4>4. G[<<o[j - 1], j>>] = o[j - 1] + size[j - 1]
          BY <3>2, <4>3
      <4>  HIDE DEF G
      <4>  QED  BY <3>1, <3>2, <4>4
    <3>  QED  BY <3>1, <3>2
  <2>  HIDE DEF G
  <2>4. o = [j \in DOMAIN batch |-> IF j = 1 THEN 0 ELSE o[j - 1] + size[j - 1]]
      BY <1>1, <2>2, <2>3 DEF Unfolds
  <2>  QED  BY <2>4
<1>  HIDE DEF offset, size, ss, N
<1>8. Offsets(offset, ss)
  <2>1. \A j \in 1..N : offset[j] = IF j = 1 THEN 0 ELSE offset[j - 1] + Len(ss[j - 1])
    <3>1. \A j \in 1..N : j # 1 => j - 1 \in 1..N
        BY <1>1
    <3>2. \A j \in 1..N : offset[j] = IF j = 1 THEN 0 ELSE offset[j - 1] + size[j - 1]
        BY <1>1, <1>7
    <3>  QED  BY <1>3, <3>1, <3>2
  <2>2. offset \in [1..N -> Nat]
    <3>  DEFINE T == {j \in Nat : j \in 1..N => offset[j] \in Nat}
    <3>1. 0 \in T
        OBVIOUS
    <3>2. ASSUME NEW j \in Nat, j \in T PROVE j + 1 \in T
      <4>  SUFFICES ASSUME j + 1 \in 1..N PROVE offset[j + 1] \in Nat
          OBVIOUS
      <4>1. CASE j = 0
          BY <2>1, <4>1
      <4>2. CASE j # 0
        <5>1. j \in 1..N /\ j + 1 # 1 /\ (j + 1) - 1 = j
            BY <1>1, <4>2
        <5>2. offset[j] \in Nat /\ Len(ss[j]) \in Nat
            BY <1>3, <3>2, <5>1
        <5>3. offset[j + 1] = offset[j] + Len(ss[j])
            BY <2>1, <5>1
        <5>  QED  BY <5>2, <5>3
      <4>  QED  BY <4>1, <4>2
    <3>3. Nat \subseteq T
      <4>  HIDE DEF T
      <4>  QED  BY <3>1, <3>2, SetInduction
    <3>4. \A j \in 1..N : offset[j] \in Nat
        BY <3>3
    <3>5. offset = [j \in 1..N |-> offset[j]]
        BY <1>1, <1>7
    <3>  QED  BY <3>4, <3>5
  <2>  QED  BY <1>4, <2>1, <2>2 DEF Offsets
<1>9. SubSeq(FlattenSeq(ss), offset[i] + 1, offset[i] + Len(ss[i])) = ss[i]
    BY <1>1, <1>4, <1>8, FlattenSlice
<1>  QED  BY <1>1, <1>3, <1>5, <1>6, <1>9

-----------------------------------------------------------------------------
(* Settling a batch.                                                       *)

LEMMA SettleBatchInv ==
    ASSUME RoutedInv, drain \in Unsettled,
           UNCHANGED <<keyOf, request, pending, held, gone, leaked, abandoned, leftover>>,
           futures' \in [Keys -> Requests \cup {None}],
           future' \in [Requests -> {"none", "pending", "result", "failed", "cancelled"}],
           cache' \in [Keys -> Values], result' \in [Requests -> Values], Answers',
           \A r \in Items : futures'[keyOf[r]] = None,
           \A k \in Keys : futures'[k] = futures[k] \/ (futures'[k] = None /\ futures[k] \in Items),
           \A f \in Requests : \/ future'[f] = future[f]
                               \/ f \in Items /\ future'[f] # "cancelled",
           \/ drain = "acquire" /\ batch' = <<>> /\ Loop /\ leased' = leased
           \/ drain \in Executing /\ batch' = batch /\ drain' = "finalize" /\ leased' = leased \ Items
    PROVE  RoutedInv'
<1>  USE BatchParts
<1>1. UNCHANGED <<at, shared, outcome, status, answer>>
    BY DEF request
<1>2. /\ Items' \subseteq Items /\ ToSet(pending') = ToSet(pending)
      /\ drain' \notin Unsettled /\ drain' \in {"none", "window", "finalize"}
      /\ drain' = "finalize" => batch' # <<>>
      /\ drain' = "none" => pending = <<>>
      /\ batch' \in Seq(Requests)
  <2>1. CASE drain = "acquire" /\ batch' = <<>> /\ Loop
    <3>1. Items' = {} /\ batch' \in Seq(Requests)
        BY <2>1 DEF Items, ToSet
    <3>  QED  BY <2>1, <3>1 DEF Loop, Unsettled, Executing
  <2>2. CASE batch' = batch /\ drain' = "finalize"
    <3>1. Items' = Items /\ batch' \in Seq(Requests) /\ batch' # <<>>
        BY <2>2 DEF Items, Batched, Types
    <3>  QED  BY <2>2, <3>1 DEF Unsettled, Executing
  <2>  QED  BY <2>1, <2>2
<1>3. Types'
  <2>1. leased' \subseteq Requests
      BY DEF Types, TypeOK
  <2>2. drain' \in {"none", "window", "acquire", "finalize"} \cup Executing
      BY <1>2
  <2>  QED  BY <1>1, <1>2, <2>1, <2>2 DEF Types, TypeOK, Values
<1>4. Batched'
  <2>1. \A q \in Requests : (Embeds(q)' <=> Embeds(q)) /\ at'[q] = at[q] /\ keyOf[q] \in Keys
      BY <1>1 DEF Embeds, Types
  <2>2. \A q \in ToSet(pending) : Owns(q)'
      BY <2>1 DEF Owns, Batched
  <2>3. \A q \in ToSet(pending') \cup Items' : Embeds(q)' /\ at'[q] \in {"waiting", "over"}
      BY <1>2, <2>1 DEF Batched
  <2>4. \A q \in ToSet(pending') : Owns(q)' /\ q \notin Items'
      BY <1>2, <2>2 DEF Batched
  <2>  QED  BY <1>2, <2>3, <2>4 DEF Batched
<1>5. DrainKeepsItems
    BY <1>2 DEF DrainKeepsItems
<1>6. \A q \in leaked' : q \in leaked \cup Items /\ q \notin ToSet(pending') \cup Items'
    BY <1>2 DEF Left
<1>7. (\A q \in Requests : Placed(q)') /\ Left' /\ ClaimHasWorker' /\ Cancels'
  <2>1. drain' = "none" => ToSet(pending') \subseteq leftover'
    <3>1. pending = <<>> => ToSet(pending) = {}
        BY DEF ToSet
    <3>  QED  BY <1>2, <3>1
  <2>  QED  BY <1>1, <1>3, <1>4, <1>5, <1>6, <2>1, DrainKeeps
<1>8. Held'
  <2>1. ASSUME NEW q \in Requests, HeldOne(q) PROVE HeldOne(q)'
    <3>1. /\ drain' \notin Executing /\ drain' \notin {"prepare", "invoke"} /\ drain' \in InExecution <=> drain' = "finalize"
        BY <1>2 DEF InExecution, Executing
    <3>2. CASE drain = "acquire" /\ batch' = <<>> /\ Loop /\ leased' = leased
      <4>1. drain' # "finalize" /\ drain \notin InExecution /\ drain \notin Executing
          BY <3>2 DEF Loop, InExecution, Executing
      <4>2. drain' \notin InExecution /\ drain' \notin Executing /\ drain' \notin {"prepare", "invoke"}
          BY <1>2, <4>1 DEF InExecution, Executing
      <4>  QED  BY <1>1, <2>1, <3>2, <4>1, <4>2 DEF HeldOne, HasSlot, NeedsLease, MayLease
    <3>3. CASE drain \in Executing /\ batch' = batch /\ drain' = "finalize" /\ leased' = leased \ Items
      <4>1. /\ drain \in InExecution /\ drain' \in InExecution /\ Items' = Items
            /\ drain' \notin Executing /\ drain' \notin {"prepare", "invoke"}
          BY <3>3 DEF InExecution, Executing, Items
      <4>  QED  BY <1>1, <2>1, <3>3, <4>1 DEF HeldOne, HasSlot, NeedsLease, MayLease
    <3>  QED  BY <3>2, <3>3
  <2>  QED  BY <1>1, <1>3, <2>1, DrainHeld
<1>  QED  BY <1>3, <1>4, <1>7, <1>8 DEF RoutedInv

LEMMA BatchFailsInv ==
    ASSUME RoutedInv, AcquireBatchFails \/ BatchFails
    PROVE  RoutedInv'
<1>  USE BatchParts
<1>1. /\ drain \in Unsettled /\ SetFutures(Items, "failed")
      /\ UNCHANGED <<keyOf, result, cache, request, pending, held, gone, leaked, abandoned, leftover>>
      /\ \/ drain = "acquire" /\ batch' = <<>> /\ Loop /\ leased' = leased
         \/ drain \in Executing /\ batch' = batch /\ drain' = "finalize" /\ leased' = leased \ Items
    BY DEF AcquireBatchFails, BatchFails, resources, Unsettled, Executing
<1>2. Items \in SUBSET Requests /\ \A r \in Items : Owns(r)
    BY <1>1 DEF Batched
<1>3. /\ futures' \in [Keys -> Requests \cup {None}]
      /\ future' \in [Requests -> {"none", "pending", "result", "failed", "cancelled"}]
      /\ \A r \in Items : futures'[keyOf[r]] = None
      /\ \A k \in Keys : futures'[k] = futures[k] \/ (futures'[k] = None /\ futures[k] \in Items)
      /\ \A f \in Requests : future'[f] = IF f \in Items /\ future[f] = "pending" THEN "failed" ELSE future[f]
    BY <1>1, <1>2, SettleFacts
<1>4. Answers'
    BY <1>1, <1>2, RejectAnswers
<1>5. cache' \in [Keys -> Values] /\ result' \in [Requests -> Values]
    BY <1>1 DEF Types
<1>  QED  BY <1>1, <1>3, <1>4, <1>5, SettleBatchInv

\* What the responses of a batch's first n items do to the tables.
LEMMA ResolveFacts ==
    ASSUME RoutedInv, drain \in Unsettled, NEW n \in 0..Len(batch), ResolveItems(n)
    PROVE  LET ok == {batch[i] : i \in 1..n} IN
           /\ ok \subseteq Items
           /\ \A k \in Keys : cache'[k] = IF \E r \in ok : keyOf[r] = k THEN Response[k] ELSE cache[k]
           /\ \A f \in Requests : result'[f] = IF f \in ok THEN Response[keyOf[f]] ELSE result[f]
           /\ cache' \in [Keys -> Values] /\ result' \in [Requests -> Values]
           /\ futures' \in [Keys -> Requests \cup {None}]
           /\ future' \in [Requests -> {"none", "pending", "result", "failed", "cancelled"}]
           /\ \A r \in Items : futures'[keyOf[r]] = None
           /\ \A k \in Keys : futures'[k] = futures[k] \/ (futures'[k] = None /\ futures[k] \in Items)
           /\ \A f \in Requests : future'[f] = IF f \in Items /\ future[f] = "pending"
                                               THEN IF f \in ok THEN "result" ELSE "failed"
                                               ELSE future[f]
<1>  USE BatchParts
<1>  DEFINE ok       == {batch[i] : i \in 1..n}
            Index(k) == CHOOSE i \in 1..n : keyOf[batch[i]] = k
            Item(k)  == Slice(batch, Vectors(batch), Index(k))
<1>1. /\ cache' = [k \in Keys |-> IF k \in KeysOf(ok) THEN Item(k) ELSE cache[k]]
      /\ result' = [f \in Requests |-> IF f \in FuturesOf(ok) THEN Item(keyOf[f]) ELSE result[f]]
      /\ futures' = [k \in Keys |-> IF k \in KeysOf(Items) THEN None ELSE futures[k]]
      /\ future' = [f \in Requests |->
                        IF f \notin FuturesOf(Items) \/ future[f] # "pending" THEN future[f]
                        ELSE IF f \in FuturesOf(ok) THEN "result" ELSE "failed"]
    BY DEF ResolveItems
<1>2. batch \in Seq(Requests) /\ DOMAIN batch = 1..Len(batch) /\ Len(batch) \in Nat /\ 1..n \subseteq DOMAIN batch
  <2>1. batch \in Seq(Requests)
      BY DEF Types
  <2>2. DOMAIN batch = 1..Len(batch) /\ Len(batch) \in Nat
      BY <2>1, LenProperties
  <2>  QED  BY <2>1, <2>2
<1>3. ok \subseteq Items
    BY <1>2 DEF Items, ToSet
<1>4. /\ \A r \in Items : Owns(r) /\ keyOf[r] \in Keys
      /\ FuturesOf(ok) = ok /\ FuturesOf(Items) = Items
      /\ \A k \in Keys : k \in KeysOf(Items) => futures[k] \in Items
  <2>1. \A r \in Items : Owns(r) /\ keyOf[r] \in Keys
      BY DEF Batched, Types
  <2>  HIDE DEF ok
  <2>2. \A r \in Items : futures[keyOf[r]] = r
      BY <2>1 DEF Owns
  <2>3. FuturesOf(ok) = ok /\ FuturesOf(Items) = Items
      BY <1>3, <2>2 DEF FuturesOf, KeysOf
  <2>4. \A k \in Keys : k \in KeysOf(Items) => futures[k] \in Items
      BY <2>2 DEF KeysOf
  <2>  QED  BY <2>1, <2>3, <2>4
<1>5. ASSUME NEW k \in KeysOf(ok) PROVE Item(k) = Response[k]
  <2>1. \E i \in 1..n : keyOf[batch[i]] = k
      BY <1>5 DEF KeysOf
  <2>2. Index(k) \in 1..n /\ keyOf[batch[Index(k)]] = k
      BY <2>1
  <2>  HIDE DEF Index
  <2>3. Index(k) \in DOMAIN batch
      BY <1>2, <2>2
  <2>  QED  BY <2>2, <2>3, SliceIsResponse
<1>  HIDE DEF ok, Item
<1>6. \A k \in Keys : cache'[k] = IF \E r \in ok : keyOf[r] = k THEN Response[k] ELSE cache[k]
  <2>1. \A k \in Keys : k \in KeysOf(ok) <=> \E r \in ok : keyOf[r] = k
      BY DEF KeysOf
  <2>2. \A k \in Keys : cache'[k] = IF k \in KeysOf(ok) THEN Item(k) ELSE cache[k]
      BY <1>1
  <2>  QED  BY <1>5, <2>1, <2>2
<1>7. \A f \in Requests : result'[f] = IF f \in ok THEN Response[keyOf[f]] ELSE result[f]
  <2>1. \A f \in ok : keyOf[f] \in KeysOf(ok)
      BY DEF KeysOf
  <2>2. \A f \in Requests : result'[f] = IF f \in ok THEN Item(keyOf[f]) ELSE result[f]
      BY <1>1, <1>4
  <2>  QED  BY <1>5, <2>1, <2>2
<1>8. cache' \in [Keys -> Values] /\ result' \in [Requests -> Values]
  <2>1. \A k \in Keys : cache[k] \in Values /\ Response[k] \in Values
      BY ResponseInValues DEF Types
  <2>2. \A f \in Requests : result[f] \in Values /\ keyOf[f] \in Keys
      BY DEF Types
  <2>3. \A k \in Keys : cache'[k] \in Values
      BY <1>6, <2>1
  <2>4. \A f \in Requests : result'[f] \in Values
      BY <1>7, <2>1, <2>2
  <2>5. cache' = [k \in Keys |-> cache'[k]] /\ result' = [f \in Requests |-> result'[f]]
      BY <1>1
  <2>  QED  BY <2>3, <2>4, <2>5
<1>9. /\ futures' \in [Keys -> Requests \cup {None}]
      /\ \A r \in Items : futures'[keyOf[r]] = None
      /\ \A k \in Keys : futures'[k] = futures[k] \/ (futures'[k] = None /\ futures[k] \in Items)
  <2>1. \A r \in Items : keyOf[r] \in KeysOf(Items)
      BY DEF KeysOf
  <2>  QED  BY <1>1, <1>4, <2>1 DEF TypeOK
<1>10. /\ future' \in [Requests -> {"none", "pending", "result", "failed", "cancelled"}]
       /\ \A f \in Requests : future'[f] = IF f \in Items /\ future[f] = "pending"
                                           THEN IF f \in ok THEN "result" ELSE "failed"
                                           ELSE future[f]
    BY <1>1, <1>4 DEF TypeOK
<1>  QED  BY <1>3, <1>6, <1>7, <1>8, <1>9, <1>10 DEF ok

LEMMA BatchInvokedInv ==
    ASSUME RoutedInv, BatchInvoked
    PROVE  RoutedInv'
<1>  USE BatchParts
<1>1. /\ drain = "invoke" /\ drain \in Unsettled /\ drain \in Executing
      /\ UNCHANGED <<keyOf, request, pending, batch, held, gone, leaked, abandoned, leftover>>
      /\ drain' = "finalize" /\ leased' = leased \ Items
    BY DEF BatchInvoked, Unsettled, Executing
<1>2. PICK n \in 0..Len(batch) : ResolveItems(n)
    BY DEF BatchInvoked
<1>  DEFINE ok == {batch[i] : i \in 1..n}
<1>3. /\ ok \subseteq Items
      /\ \A k \in Keys : cache'[k] = IF \E r \in ok : keyOf[r] = k THEN Response[k] ELSE cache[k]
      /\ \A f \in Requests : result'[f] = IF f \in ok THEN Response[keyOf[f]] ELSE result[f]
      /\ cache' \in [Keys -> Values] /\ result' \in [Requests -> Values]
      /\ futures' \in [Keys -> Requests \cup {None}]
      /\ future' \in [Requests -> {"none", "pending", "result", "failed", "cancelled"}]
      /\ \A r \in Items : futures'[keyOf[r]] = None
      /\ \A k \in Keys : futures'[k] = futures[k] \/ (futures'[k] = None /\ futures[k] \in Items)
      /\ \A f \in Requests : future'[f] = IF f \in Items /\ future[f] = "pending"
                                          THEN IF f \in ok THEN "result" ELSE "failed"
                                          ELSE future[f]
    BY <1>1, <1>2, ResolveFacts
<1>  HIDE DEF ok
<1>4. Answers'
  <2>1. ASSUME NEW k \in Keys
        PROVE  cache'[k] \in {<<>>, Response[k]} /\ (futures'[k] # None => cache'[k] = <<>>)
    <3>1. CASE \E r \in ok : keyOf[r] = k
        BY <1>3, <3>1
    <3>2. CASE ~ \E r \in ok : keyOf[r] = k
        BY <1>3, <3>2 DEF Answers
    <3>  QED  BY <3>1, <3>2
  <2>2. ASSUME NEW f \in Requests, future'[f] = "result"
        PROVE  result'[f] = Response[keyOf'[f]] /\ cache'[keyOf'[f]] = Response[keyOf'[f]]
    <3>1. keyOf[f] \in Keys /\ keyOf'[f] = keyOf[f]
        BY <1>1 DEF Types
    <3>2. CASE f \in ok
        BY <1>3, <3>1, <3>2
    <3>3. CASE f \notin ok
      <4>1. future[f] = "result"
          BY <1>3, <2>2, <3>3
      <4>2. result[f] = Response[keyOf[f]] /\ cache[keyOf[f]] = Response[keyOf[f]]
          BY <4>1 DEF Answers
      <4>  QED  BY <1>3, <3>1, <3>3, <4>2
    <3>  QED  BY <3>2, <3>3
  <2>  QED  BY <2>1, <2>2 DEF Answers
<1>5. \A f \in Requests : future'[f] = future[f] \/ (f \in Items /\ future'[f] # "cancelled")
    BY <1>3
<1>  QED  BY <1>1, <1>3, <1>4, <1>5, SettleBatchInv

-----------------------------------------------------------------------------
(* Who works for a claim, what executions hold, whom a cancel reaches.     *)

LEMMA InitRoutedInv == Init => RoutedInv
<1>  SUFFICES ASSUME Init PROVE RoutedInv
    OBVIOUS
<1>1. ToSet(<<>>) = {} /\ Items = {} /\ ToSet(pending) = {}
    BY DEF Init, ToSet, Items
<1>2. keyOf \in [Requests -> Keys]
    BY RoutedAssumption DEF Init
<1>3. Types
  <2>1. <<>> \in Values /\ <<>> \in Seq(Requests)
      BY DEF Values
  <2>  HIDE DEF Values
  <2>  QED  BY <1>2, <2>1 DEF Init, Types, TypeOK
<1>4. \A r \in Requests : Placed(r)
    BY DEF Init, Placed, Working, Executing
<1>5. Batched
    BY <1>1 DEF Init, Batched, Unsettled, Executing
<1>6. Left
    BY DEF Init, Left
<1>7. ClaimHasWorker
  <2>1. TypeOK
      BY <1>3 DEF Types
  <2>  QED  BY <1>1, <2>1 DEF Init, ClaimHasWorker
<1>8. Held
  <2>1. IsFiniteSet(held) /\ Cardinality(held) = 0
      BY FS_EmptySet DEF Init
  <2>2. \A q \in Requests : HeldOne(q)
      BY <1>1 DEF Init, HeldOne, HasSlot, NeedsLease, MayLease, InExecution, Executing
  <2>3. Cardinality(held) <= MaxSlots
      BY <2>1, RoutedAssumption
  <2>  QED  BY <1>3, <2>1, <2>2, <2>3, HeldEach DEF HeldPer
<1>9. Cancels
    BY DEF Init, Cancels, CancelStaysInFlight
<1>10. Answers
    BY <1>2 DEF Init, Answers
<1>  QED  BY <1>3, <1>4, <1>5, <1>6, <1>7, <1>8, <1>9, <1>10 DEF RoutedInv

LEMMA NextRoutedInv == RoutedInv /\ [Next]_vars => RoutedInv'
<1>  SUFFICES ASSUME RoutedInv, [Next]_vars PROVE RoutedInv'
    OBVIOUS
<1>1. ASSUME NEW r \in Requests, RequestStep(r) PROVE RoutedInv'
    BY <1>1, JoinInv, HitInv, ClaimInv, WakeInv, ExecuteInv, FinishInv DEF RequestStep
<1>2. ASSUME NEW r \in Requests, CancelStep(r) PROVE RoutedInv'
    BY <1>2, CancelWaitingInv, ExecuteInv, FinishInv DEF CancelStep
<1>3. CASE DrainStep
    BY <1>3, TakeBatchInv, BatchGoesOnInv, BatchFailsInv, BatchInvokedInv, BatchOverInv DEF DrainStep
<1>4. CASE UNCHANGED vars
  <2>1. UNCHANGED <<keyOf, futures, future, result, cache, at, shared, outcome, status, answer, pending, drain, batch,
                    held, leased, gone, leaked, abandoned, leftover>>
      BY <1>4 DEF vars, table, request, batching, resources
  <2>2. Items' = Items
      BY <2>1 DEF Items
  <2>3. Types' /\ Batched' /\ Left' /\ Cancels' /\ Answers' /\ \A q \in Requests : Placed(q)'
    <3>1. \A q \in Requests : (Embeds(q)' <=> Embeds(q)) /\ (Owns(q)' <=> Owns(q))
        BY <2>1 DEF Embeds, Owns
    <3>2. Types /\ ToSet(pending) \subseteq Requests /\ Items \subseteq Requests
        BY BatchParts
    <3>3. Types'
        BY <2>1 DEF RoutedInv, Types, TypeOK, Values
    <3>4. Batched'
        BY <2>1, <2>2, <3>1, <3>2 DEF RoutedInv, Batched
    <3>5. Left'
        BY <2>1, <2>2, <3>1, <3>2 DEF RoutedInv, Left, Types
    <3>6. Cancels' /\ Answers'
        BY <2>1 DEF RoutedInv, Cancels, Answers, CancelStaysInFlight
    <3>7. \A q \in Requests : Placed(q)'
        BY <2>1, <3>1 DEF RoutedInv, Placed
    <3>  QED  BY <3>3, <3>4, <3>5, <3>6, <3>7
  <2>4. ClaimHasWorker'
      BY <2>1, <2>2, <2>3 DEF RoutedInv, ClaimHasWorker, Types
  <2>5. Held'
    <3>1. \A q \in Requests : HeldOne(q) => HeldOne(q)'
        BY <2>1, <2>2 DEF HeldOne, HasSlot, NeedsLease, MayLease
    <3>  QED  BY <2>1, <2>3, <3>1, DrainHeld
  <2>  QED  BY <2>3, <2>4, <2>5 DEF RoutedInv
<1>  QED  BY <1>1, <1>2, <1>3, <1>4 DEF Next

\* The inductive invariant holds of every behaviour.
THEOREM RoutedInvariant == Spec => []RoutedInv
<1>1. Init => RoutedInv
    BY InitRoutedInv
<1>2. RoutedInv /\ [Next]_vars => RoutedInv'
    BY NextRoutedInv
<1>  QED  BY <1>1, <1>2, PTL DEF Spec

\* Every claimed key has an owner or a drain task at work for it, and only an
\* owner that was cancelled leaves one alone (claim, resolve and reject, and
\* the paths of multimodal.py that reach them).
THEOREM EveryClaimHasWorker == Spec => []ClaimHasWorker
<1>1. RoutedInv => ClaimHasWorker
    BY DEF RoutedInv
<1>  QED  BY <1>1, RoutedInvariant, PTL

\* Whichever way requests and batches end, slots are held exactly by executions
\* past acquire and leases by those past loading, beside the slots lost in an
\* unload that raised (the finally blocks of _execute and
\* _execute_embedding_batch), and the slots are never exceeded.
THEOREM SlotsAndLeasesAreHeldByExecutions == Spec => []HeldByExecution
<1>1. RoutedInv => HeldByExecution
    BY DEF RoutedInv, Held
<1>  QED  BY <1>1, RoutedInvariant, PTL

\* A cancellation reaches the callers that wait for the same future and nobody
\* else: not the rest of the batch, not a later request for the same key.
THEOREM CancellationStaysInFlight == Spec => []CancelStaysInFlight
<1>1. RoutedInv => CancelStaysInFlight
    BY DEF RoutedInv, Cancels
<1>  QED  BY <1>1, RoutedInvariant, PTL

-----------------------------------------------------------------------------
(* RoutedExecution implements SingleFlight.                                *)

Busy(k) == futures[k] # None /\ InBackend(futures[k])
Running == [k \in Keys |-> Cardinality({r \in Requests : keyOf[r] = k /\ InBackend(r)})]

\* A key is in the backend at most once, and for its owner.
LEMMA RunningIsBusy == RoutedInv => \A k \in Keys : Running[k] = IF Busy(k) THEN 1 ELSE 0
<1>  SUFFICES ASSUME RoutedInv, NEW k \in Keys PROVE Running[k] = IF Busy(k) THEN 1 ELSE 0
    OBVIOUS
<1>  USE BatchParts
<1>  DEFINE B == {r \in Requests : keyOf[r] = k /\ InBackend(r)}
<1>1. Running[k] = Cardinality(B)
    BY DEF Running
<1>2. ASSUME NEW r \in Requests, InBackend(r) PROVE Owns(r)
  <2>1. CASE at[r] = "invoke"
      BY <2>1 DEF RoutedInv, Placed, Working, Executing
  <2>2. CASE drain = "invoke" /\ r \in Items
      BY <2>2 DEF Batched, Unsettled, Executing
  <2>  QED  BY <1>2, <2>1, <2>2 DEF InBackend
<1>3. CASE Busy(k)
  <2>1. futures[k] \in Requests /\ keyOf[futures[k]] = k
      BY <1>3 DEF Busy, TypeOK, ClaimHasWorker
  <2>2. B = {futures[k]}
      BY <1>2, <1>3, <2>1 DEF Busy, Owns
  <2>  QED  BY <1>1, <1>3, <2>2, FS_Singleton
<1>4. CASE ~Busy(k)
  <2>1. \A r \in B : r = futures[k] /\ r # None
      BY <1>2, RoutedAssumption DEF Owns
  <2>2. B = {}
      BY <1>4, <2>1 DEF Busy
  <2>  HIDE DEF B
  <2>  QED  BY <1>1, <1>4, <2>2, FS_EmptySet
<1>  QED  BY <1>3, <1>4

LEMMA RunningIsBusyNext == RoutedInv' => (\A k \in Keys : Running[k] = IF Busy(k) THEN 1 ELSE 0)'
BY RunningIsBusy, PTL

\* A call of the backend ends, or requests do, or nothing that shows happens.
LEMMA LandsAndEnds ==
    ASSUME RoutedInv, RoutedInv', keyOf' = keyOf,
           \A q \in Requests : InBackend(q)' => InBackend(q),
           \A k \in Keys : futures'[k] \in {futures[k], None},
           \A k \in Keys : cache'[k] = cache[k] \/ (futures[k] # None /\ cache'[k] = Response[k]),
           \A r \in Requests :
                \/ status'[r] = status[r] /\ answer'[r] = answer[r]
                \/ /\ status[r] \in {"new", "waiting"}
                   /\ \/ /\ status'[r] = "served" /\ answer'[r] = Response[keyOf[r]]
                         /\ cache'[keyOf[r]] = Response[keyOf[r]]
                      \/ status'[r] \in {"failed", "cancelled"} /\ answer'[r] = <<>>
    PROVE  Coalescing!Next
<1>1. \A k \in Keys : futures[k] \in Requests \cup {None}
    BY DEF RoutedInv, Types, TypeOK
<1>2. \A k \in Keys : Busy(k)' => Busy(k)
    BY <1>1 DEF Busy
<1>3. \A k \in Keys : futures'[k] = None => ~Busy(k)'
    BY DEF Busy
<1>4. ASSUME NEW k \in Keys
      PROVE  Running'[k] \in {Running[k], 0} /\ (futures'[k] = None => Running'[k] = 0)
    BY <1>2, <1>3, RunningIsBusy, RunningIsBusyNext
<1>5. Coalescing!Land
    BY <1>4 DEF Coalescing!Land, Running
<1>6. Coalescing!End
    BY DEF Coalescing!End
<1>  QED  BY <1>5, <1>6 DEF Coalescing!Next

\* A request comes.
LEMMA AskStep ==
    ASSUME RoutedInv, RoutedInv', NEW r \in Requests, Join(r) \/ Claim(r)
    PROVE  Coalescing!Next
<1>  USE InvParts
<1>1. /\ at[r] = "new" /\ status[r] = "new" /\ status' = [status EXCEPT ![r] = "waiting"]
      /\ UNCHANGED <<keyOf, cache, answer, batch>>
      /\ \A q \in Requests : at'[q] = "invoke" <=> at[q] = "invoke"
      /\ drain' = "invoke" <=> drain = "invoke"
  <2>1. CASE Join(r)
      BY <2>1 DEF Join, Placed, table, batching, TypeOK
  <2>2. CASE Claim(r)
    <3>1. status[r] = "new" /\ status' = [status EXCEPT ![r] = "waiting"]
        BY <2>2 DEF Claim, Placed
    <3>  QED  BY <2>2, <3>1, ClaimFacts
  <2>  QED  BY <2>1, <2>2
<1>2. \A q \in Requests : InBackend(q)' <=> InBackend(q)
    BY <1>1 DEF InBackend, Items
<1>3. Running' = Running
  <2>1. \A k \in Keys : {q \in Requests : keyOf'[q] = k /\ InBackend(q)'} = {q \in Requests : keyOf[q] = k /\ InBackend(q)}
      BY <1>1, <1>2
  <2>  QED  BY <2>1 DEF Running
<1>4. futures' = [futures EXCEPT ![keyOf[r]] = IF futures[keyOf[r]] = None THEN r ELSE futures[keyOf[r]]]
  <2>1. CASE Join(r)
      BY <2>1 DEF Join, table, TypeOK
  <2>2. CASE Claim(r)
      BY <2>2 DEF Claim, TypeOK
  <2>  QED  BY <2>1, <2>2
<1>5. Coalescing!Ask(r)
    BY <1>1, <1>3, <1>4 DEF Coalescing!Ask, Running
<1>  QED  BY <1>5 DEF Coalescing!Next

\* A prepared request, or the prepared batch, goes to the backend.
LEMMA LaunchStep ==
    ASSUME RoutedInv, RoutedInv', NEW S \in SUBSET Requests,
           UNCHANGED <<keyOf, futures, cache, status, answer>>,
           \A q \in S : Owns(q) /\ ~InBackend(q),
           \A q \in Requests : InBackend(q)' <=> q \in S \/ InBackend(q)
    PROVE  Coalescing!Next
<1>1. /\ Types /\ TypeOK /\ Answers /\ ClaimHasWorker
    BY DEF RoutedInv, Types
<1>  DEFINE K == KeysOf(S)
<1>2. K \in SUBSET Keys /\ \A k \in Keys : k \in K => futures[k] \in S /\ futures[k] # None
    BY <1>1, RoutedAssumption DEF KeysOf, Owns, Types
<1>3. \A k \in Keys : k \notin K => futures[k] \notin S
    BY <1>1, RoutedAssumption DEF KeysOf, ClaimHasWorker
<1>  HIDE DEF K
<1>4. \A k \in Keys : futures[k] # None => futures[k] \in Requests
    BY <1>1 DEF TypeOK
<1>5. \A k \in Keys : Busy(k)' <=> k \in K \/ Busy(k)
    BY <1>2, <1>3, <1>4 DEF Busy
<1>6. \A k \in Keys : k \in K => ~Busy(k)
    BY <1>2 DEF Busy
<1>7. \A k \in Keys : Running'[k] = IF k \in K THEN 1 ELSE Running[k]
    BY <1>5, RunningIsBusy, RunningIsBusyNext
<1>8. \A k \in Keys : k \in K => Running[k] = 0
    BY <1>6, RunningIsBusy
<1>9. Running' = [k \in Keys |-> IF k \in K THEN 1 ELSE Running[k]]
  <2>1. Running' = [k \in Keys |-> Running'[k]]
      BY DEF Running
  <2>  QED  BY <1>7, <2>1
<1>10. \A k \in K : futures[k] # None /\ Running[k] = 0 /\ cache[k] = <<>>
    BY <1>1, <1>2, <1>8 DEF Answers
<1>11. Coalescing!Launch(K)
    BY <1>9, <1>10 DEF Coalescing!Launch, Running
<1>  QED  BY <1>2, <1>11 DEF Coalescing!Next

\* A request returns what it may return.
LEMMA ReturnStep ==
    ASSUME RoutedInv, RoutedInv', NEW r \in Requests, at[r] # "over", keyOf' = keyOf, drain' = drain, batch' = batch,
           NEW how \in {"served", "failed", "cancelled"}, NEW value \in Values, Return(r, how, value),
           \A k \in Keys : futures'[k] \in {futures[k], None},
           \A k \in Keys : cache'[k] = cache[k] \/ (futures[k] # None /\ cache'[k] = Response[k]),
           how = "served" => value = Response[keyOf[r]] /\ cache'[keyOf[r]] = Response[keyOf[r]],
           how # "served" => value = <<>>
    PROVE  Coalescing!Next
<1>  USE InvParts
<1>1. /\ at'[r] = "over" /\ status'[r] = how /\ answer'[r] = value
      /\ \A q \in Requests : q # r => at'[q] = at[q] /\ status'[q] = status[q] /\ answer'[q] = answer[q]
    BY ReturnFacts
<1>2. \A q \in Requests : InBackend(q)' => InBackend(q)
    BY <1>1 DEF InBackend, Items
<1>3. status[r] \in {"new", "waiting"}
    BY DEF Placed, TypeOK, Working
<1>4. \A q \in Requests :
        \/ status'[q] = status[q] /\ answer'[q] = answer[q]
        \/ /\ status[q] \in {"new", "waiting"}
           /\ \/ /\ status'[q] = "served" /\ answer'[q] = Response[keyOf[q]]
                 /\ cache'[keyOf[q]] = Response[keyOf[q]]
              \/ status'[q] \in {"failed", "cancelled"} /\ answer'[q] = <<>>
    BY <1>1, <1>3
<1>  QED  BY <1>2, <1>4, LandsAndEnds

LEMMA SingleReturns ==
    ASSUME RoutedInv, RoutedInv', NEW r \in Requests,
           Hit(r) \/ LookupFails(r) \/ Wake(r) \/ CancelWaiting(r)
    PROVE  Coalescing!Next
<1>  USE InvParts
<1>1. /\ at[r] # "over" /\ UNCHANGED <<keyOf, drain, batch, futures, cache>> /\ <<>> \in Values
  <2>1. at[r] # "over"
      BY DEF Hit, LookupFails, Wake, CancelWaiting
  <2>2. UNCHANGED <<keyOf, drain, batch, futures, cache>>
      BY DEF Hit, LookupFails, Wake, CancelWaiting, table, batching
  <2>  QED  BY <2>1, <2>2 DEF Values
<1>2. CASE Return(r, "failed", <<>>) \/ Return(r, "cancelled", <<>>)
    BY <1>1, <1>2, ReturnStep
<1>3. CASE Hit(r)
  <2>  DEFINE v == cache[keyOf[r]]
  <2>1. v \in Values /\ v = Response[keyOf[r]] /\ cache'[keyOf[r]] = v /\ Return(r, "served", v)
      BY <1>1, <1>3 DEF Hit, Answers, Types
  <2>  HIDE DEF v
  <2>  QED  BY <1>1, <2>1, ReturnStep
<1>4. CASE Wake(r) /\ Return(r, "served", result[shared[r]]) /\ future[shared[r]] = "result"
  <2>  DEFINE v == result[shared[r]]
  <2>1. shared[r] \in Requests /\ keyOf[shared[r]] = keyOf[r]
      BY <1>4 DEF Wake, Placed
  <2>2. v \in Values /\ v = Response[keyOf[r]] /\ cache[keyOf[r]] = v
      BY <1>4, <2>1 DEF Answers, Types
  <2>3. Return(r, "served", v)
      BY <1>4
  <2>  HIDE DEF v
  <2>  QED  BY <1>1, <2>2, <2>3, ReturnStep
<1>  QED  BY <1>2, <1>3, <1>4 DEF Hit, LookupFails, Wake, CancelWaiting

LEMMA ExecutionEnds ==
    ASSUME RoutedInv, RoutedInv', NEW r \in Requests,
           AcquireFails(r) \/ Complete(r) \/ Raise(r) \/ RaiseCancelled(r) \/ FinalizeFails(r) \/ CancelOutside(r)
    PROVE  Coalescing!Next
<1>  USE InvParts
<1>1. at[r] \in {"acquire", "finalize"}
    BY DEF AcquireFails, Complete, Raise, RaiseCancelled, FinalizeFails, CancelOutside
<1>2. Owns(r) /\ {r} \in SUBSET Requests /\ r # None /\ <<>> \in Values
    BY <1>1, RoutedAssumption DEF Placed, Working, Values
<1>3. UNCHANGED <<keyOf, drain, batch>>
    BY DEF AcquireFails, Complete, Raise, RaiseCancelled, FinalizeFails, CancelOutside, batching
<1>4. \A k \in Keys : futures'[k] \in {futures[k], None}
  <2>1. CASE futures' = futures
      BY <2>1
  <2>2. CASE \E state \in {"result", "failed"} : SetFutures({r}, state)
    <3>1. PICK state \in {"result", "failed"} : SetFutures({r}, state)
        BY <2>2
    <3>2. \A q \in {r} : Owns(q)
        BY <1>2
    <3>3. \A k \in Keys : futures'[k] = futures[k] \/ (futures'[k] = None /\ futures[k] \in {r})
        BY <1>2, <3>1, <3>2, SettleFacts
    <3>  QED  BY <3>3
  <2>3. futures' = futures \/ \E state \in {"result", "failed"} : SetFutures({r}, state)
      BY DEF AcquireFails, Complete, Raise, RaiseCancelled, FinalizeFails, CancelOutside, table
  <2>  QED  BY <2>1, <2>2, <2>3
<1>5. CASE Complete(r)
  <2>  DEFINE v == Response[keyOf[r]]
  <2>1. v \in Values /\ Return(r, "served", v) /\ cache' = [cache EXCEPT ![keyOf[r]] = v]
      BY <1>5, ResponseInValues DEF Complete
  <2>2. cache \in [Keys -> Values]
      BY DEF Types
  <2>3. futures[keyOf[r]] # None
      BY <1>2 DEF Owns
  <2>  HIDE DEF v
  <2>4. cache'[keyOf[r]] = v /\ \A k \in Keys : k # keyOf[r] => cache'[k] = cache[k]
      BY <2>1, <2>2
  <2>5. \A k \in Keys : cache'[k] = cache[k] \/ (futures[k] # None /\ cache'[k] = Response[k])
      BY <2>3, <2>4 DEF v
  <2>6. v = Response[keyOf[r]]
      BY DEF v
  <2>  QED  BY <1>1, <1>3, <1>4, <2>1, <2>4, <2>5, <2>6, ReturnStep
<1>6. CASE ~Complete(r)
  <2>1. cache' = cache /\ (Return(r, "failed", <<>>) \/ Return(r, "cancelled", <<>>))
      BY <1>6 DEF AcquireFails, Raise, RaiseCancelled, FinalizeFails, CancelOutside, table
  <2>  QED  BY <1>1, <1>2, <1>3, <1>4, <2>1, ReturnStep
<1>  QED  BY <1>5, <1>6

\* A step that shows nothing, or a call of the backend that returns.
LEMMA QuietStep ==
    ASSUME RoutedInv, RoutedInv', UNCHANGED <<keyOf, cache, status, answer>>,
           \A q \in Requests : InBackend(q)' => InBackend(q),
           \A k \in Keys : futures'[k] \in {futures[k], None}
    PROVE  Coalescing!Next
BY LandsAndEnds

LEMMA ExecutionStep ==
    ASSUME RoutedInv, RoutedInv', NEW r \in Requests,
           Acquire(r) \/ EnterLease(r) \/ Prepared(r) \/ Invoked(r) \/ ExecuteFails(r) \/ CancelExecuting(r)
    PROVE  Coalescing!Next
<1>  USE InvParts
<1>1. UNCHANGED <<keyOf, futures, cache, status, answer, drain, batch>>
    BY DEF Acquire, EnterLease, Prepared, Invoked, ExecuteFails, CancelExecuting, Finally, table, batching
<1>2. CASE Prepared(r)
  <2>1. at[r] = "prepare" /\ at'[r] = "invoke" /\ \A q \in Requests : q # r => at'[q] = at[q]
      BY <1>2 DEF Prepared, TypeOK
  <2>2. {r} \in SUBSET Requests /\ \A q \in {r} : Owns(q) /\ ~InBackend(q)
      BY <2>1 DEF Placed, InBackend, Working, Executing
  <2>3. \A q \in Requests : InBackend(q)' <=> q \in {r} \/ InBackend(q)
      BY <1>1, <2>1 DEF InBackend, Items
  <2>  QED  BY <1>1, <2>2, <2>3, LaunchStep
<1>3. CASE ~Prepared(r)
  <2>1. PICK stage \in {"lease", "prepare", "finalize"} : at' = [at EXCEPT ![r] = stage]
      BY <1>3 DEF Acquire, EnterLease, Invoked, ExecuteFails, CancelExecuting, Finally
  <2>2. at'[r] # "invoke" /\ \A q \in Requests : q # r => at'[q] = at[q]
      BY <2>1 DEF TypeOK
  <2>3. \A q \in Requests : InBackend(q)' => InBackend(q)
      BY <1>1, <2>2 DEF InBackend, Items
  <2>  QED  BY <1>1, <2>3, QuietStep
<1>  QED  BY <1>2, <1>3

LEMMA DrainStepImplements ==
    ASSUME RoutedInv, RoutedInv', DrainStep
    PROVE  Coalescing!Next
<1>  USE BatchParts
<1>1. UNCHANGED <<keyOf, at, status, answer>>
    BY DEF DrainStep, TakeBatch, AcquireBatch, AcquireBatchFails, LeaseItem, PreparedBatch, BatchFails,
           BatchInvoked, BatchDone, BatchFinalizeFails, request
<1>2. CASE PreparedBatch
  <2>1. drain = "prepare" /\ drain' = "invoke" /\ UNCHANGED <<futures, cache, batch>>
      BY <1>2 DEF PreparedBatch, table
  <2>2. Items \in SUBSET Requests /\ \A q \in Items : Owns(q) /\ ~InBackend(q)
      BY <2>1 DEF Batched, Unsettled, Executing, InBackend
  <2>3. \A q \in Requests : InBackend(q)' <=> q \in Items \/ InBackend(q)
      BY <1>1, <2>1 DEF InBackend, Items
  <2>  QED  BY <1>1, <2>1, <2>2, <2>3, LaunchStep
<1>3. CASE ~PreparedBatch
  <2>1. drain' # "invoke"
      BY <1>3 DEF DrainStep, TakeBatch, AcquireBatch, AcquireBatchFails, LeaseItem, BatchFails,
                  BatchInvoked, BatchDone, BatchFinalizeFails, Loop
  <2>2. \A q \in Requests : InBackend(q)' => InBackend(q)
      BY <1>1, <2>1 DEF InBackend
  <2>3. CASE BatchInvoked
    <3>1. PICK n \in 0..Len(batch) : ResolveItems(n)
        BY <2>3 DEF BatchInvoked
    <3>2. drain \in Unsettled
        BY <2>3 DEF BatchInvoked, Unsettled, Executing
    <3>  DEFINE ok == {batch[i] : i \in 1..n}
    <3>3. /\ ok \subseteq Items
          /\ \A k \in Keys : cache'[k] = IF \E r \in ok : keyOf[r] = k THEN Response[k] ELSE cache[k]
          /\ \A k \in Keys : futures'[k] = futures[k] \/ (futures'[k] = None /\ futures[k] \in Items)
        BY <3>1, <3>2, ResolveFacts
    <3>  HIDE DEF ok
    <3>4. \A r \in Items : futures[keyOf[r]] # None
        BY <3>2, RoutedAssumption DEF Batched, Owns
    <3>5. \A k \in Keys : cache'[k] = cache[k] \/ (futures[k] # None /\ cache'[k] = Response[k])
        BY <3>3, <3>4
    <3>6. \A k \in Keys : futures'[k] \in {futures[k], None}
        BY <3>3
    <3>  QED  BY <1>1, <2>2, <3>5, <3>6, LandsAndEnds
  <2>4. CASE AcquireBatchFails \/ BatchFails
    <3>1. SetFutures(Items, "failed") /\ cache' = cache /\ drain \in Unsettled
        BY <2>4 DEF AcquireBatchFails, BatchFails, Unsettled, Executing
    <3>2. Items \in SUBSET Requests /\ \A r \in Items : Owns(r)
        BY <3>1 DEF Batched
    <3>3. \A k \in Keys : futures'[k] = futures[k] \/ (futures'[k] = None /\ futures[k] \in Items)
        BY <3>1, <3>2, SettleFacts
    <3>  QED  BY <1>1, <2>2, <3>1, <3>3, QuietStep
  <2>5. CASE TakeBatch \/ AcquireBatch \/ LeaseItem \/ BatchDone \/ BatchFinalizeFails
    <3>1. UNCHANGED <<futures, cache>>
        BY <2>5 DEF TakeBatch, AcquireBatch, LeaseItem, BatchDone, BatchFinalizeFails, table
    <3>  QED  BY <1>1, <2>2, <3>1, QuietStep
  <2>  QED  BY <1>3, <2>3, <2>4, <2>5 DEF DrainStep
<1>  QED  BY <1>2, <1>3

\* Every step of routed execution is a step of the coalescer's promise, or
\* shows nothing of it: identical requests share one execution, a key is led by
\* one request at a time and not executed again once its response is stored,
\* and everybody is served the response of its own key (claim, resolve, reject,
\* _execute, _resolve_embedding_batch_items).
THEOREM ImplementsCoalescing == Spec => ImplementsSingleFlight
<1>1. Init => Coalescing!Init
  <2>  SUFFICES ASSUME Init PROVE Coalescing!Init
      OBVIOUS
  <2>1. RoutedInv
      BY InitRoutedInv
  <2>2. \A k \in Keys : ~Busy(k)
      BY DEF Init, Busy
  <2>3. \A k \in Keys : Running[k] = 0
      BY <2>1, <2>2, RunningIsBusy
  <2>4. Running = [k \in Keys |-> 0]
      BY <2>3 DEF Running
  <2>5. keyOf \in [Requests -> Keys]
      BY <2>1 DEF RoutedInv, Types
  <2>  QED  BY <2>4, <2>5 DEF Init, Coalescing!Init, Running
<1>2. RoutedInv /\ RoutedInv' /\ [Next]_vars => [Coalescing!Next]_(Coalescing!vars)
  <2>  SUFFICES ASSUME RoutedInv, RoutedInv', [Next]_vars PROVE [Coalescing!Next]_(Coalescing!vars)
      OBVIOUS
  <2>1. ASSUME NEW r \in Requests, RequestStep(r) \/ CancelStep(r) PROVE Coalescing!Next
      BY <2>1, AskStep, SingleReturns, ExecutionStep, ExecutionEnds DEF RequestStep, CancelStep
  <2>2. CASE DrainStep
      BY <2>2, DrainStepImplements
  <2>3. CASE UNCHANGED vars
    <3>1. UNCHANGED <<keyOf, futures, cache, status, answer, at, drain, batch>>
        BY <2>3 DEF vars, table, request, batching
    <3>2. \A q \in Requests : InBackend(q)' => InBackend(q)
        BY <3>1 DEF InBackend, Items
    <3>3. Coalescing!Next
        BY <3>1, <3>2, QuietStep
    <3>  QED  BY <3>3
  <2>  QED  BY <2>1, <2>2, <2>3 DEF Next
<1>  QED  BY <1>1, <1>2, RoutedInvariant, PTL DEF Spec, ImplementsSingleFlight, Coalescing!Spec
=============================================================================
