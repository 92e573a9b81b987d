--------------------------- MODULE ServiceProofs ---------------------------
(***************************************************************************)
(* Proofs for the two services of the container that stand on their own,   *)
(* each for every value of its constants; neither part uses the other.     *)
(*                                                                         *)
(* Module Cancellation: a handle has one meaning, authority over it stays  *)
(* with its owner, intents are honoured and no wake-up is lost, for every  *)
(* set of handles, requests and credentials and every size of the tables.  *)
(* OneMeaning and OwnerOnly are inductive together with one more fact: a   *)
(* checkpoint only acts on a token whose flag is set.                      *)
(*                                                                         *)
(* Module EventBus: no event is silently lost, and what a client sees is   *)
(* in order and without repeats, for every set of clients and topics,      *)
(* every buffer size and any number of events and server lifetimes.  The   *)
(* inductive invariant says what the buffer holds (the last events,        *)
(* without a gap), what the client's history covers (everything up to its  *)
(* cursor, also while it is away), and what its queue still covers         *)
(* (everything after the cursor).                                          *)
(***************************************************************************)
EXTENDS Cancellation, EventBus, SequenceFacts

ObservedIsCancelled == \A r \in Requests : observed[r] => cancelled[r]

CancelInv == OneMeaning /\ OwnerOnly /\ ObservedIsCancelled

-----------------------------------------------------------------------------
(* The tables.                                                             *)

\* The intents that survive the expiry.
LEMMA LiveFacts ==
    ASSUME TypeOK
    PROVE  /\ Live \in Seq(Handles)
           /\ Len(Live) \in Nat /\ Len(Live) <= Len(pending)
           /\ ToSet(Live) = ToSet(pending) \ stale
           /\ ToSet(pending) \cap stale # {} => Len(Live) < Len(pending)
<1>1. pending \in Seq(Handles)
    BY DEF TypeOK
<1>2. ToSet(pending) \subseteq Handles
    BY <1>1, LenProperties, ElementOfSeq DEF ToSet
<1>3. ToSet(Live) = ToSet(pending) \cap (Handles \ stale)
    BY <1>1, FilterRange DEF Live
<1>4. /\ Live \in Seq(Handles)
      /\ Len(Live) \in Nat /\ Len(Live) <= Len(pending)
      /\ ToSet(pending) \ (Handles \ stale) # {} => Len(Live) < Len(pending)
    BY <1>1, FilterLength DEF Live
<1>  QED  BY <1>2, <1>3, <1>4

\* A table without one of its keys.
LEMMA WithoutFacts ==
    ASSUME NEW s \in Seq(Handles), NEW h \in Handles
    PROVE  /\ Without(s, h) \in Seq(Handles)
           /\ Len(Without(s, h)) \in Nat /\ Len(Without(s, h)) <= Len(s)
           /\ ToSet(Without(s, h)) = ToSet(s) \ {h}
           /\ h \in ToSet(s) => Len(Without(s, h)) < Len(s)
<1>1. ToSet(s) \subseteq Handles
    BY LenProperties, ElementOfSeq DEF ToSet
<1>2. ToSet(Without(s, h)) = ToSet(s) \cap (Handles \ {h})
    BY FilterRange DEF Without
<1>3. /\ Without(s, h) \in Seq(Handles)
      /\ Len(Without(s, h)) \in Nat /\ Len(Without(s, h)) <= Len(s)
      /\ ToSet(s) \ (Handles \ {h}) # {} => Len(Without(s, h)) < Len(s)
    BY FilterLength DEF Without
<1>  QED  BY <1>1, <1>2, <1>3

\* A table that takes one more key and evicts the oldest if it is full.
LEMMA EvictFacts ==
    ASSUME NEW s \in Seq(Handles), NEW h \in Handles, Len(s) <= MaxTracked
    PROVE  LET t == Evict(Append(s, h)) IN
           /\ t \in Seq(Handles)
           /\ Len(t) \in Nat /\ Len(t) <= MaxTracked
           /\ h \in ToSet(t) /\ ToSet(t) \subseteq ToSet(s) \cup {h}
           /\ \/ Len(t) = MaxTracked /\ Len(s) = MaxTracked
              \/ ToSet(t) = ToSet(s) \cup {h}
<1>  DEFINE a == Append(s, h)
<1>1. /\ a \in Seq(Handles) /\ Len(a) = Len(s) + 1 /\ Len(s) \in Nat
      /\ ToSet(a) = ToSet(s) \cup {h} /\ a[Len(s) + 1] = h
    BY AppendRange, AppendProperties, LenProperties
<1>2. MaxTracked \in Nat \ {0}
    BY CancellationAssumption
<1>  HIDE DEF a
<1>3. CASE Len(a) > MaxTracked
  <2>1. Evict(a) = Tail(a) /\ a # <<>> /\ Len(s) = MaxTracked
      BY <1>1, <1>2, <1>3, EmptySeq DEF Evict
  <2>2. /\ Tail(a) \in Seq(Handles) /\ Len(Tail(a)) = Len(a) - 1
        /\ ToSet(Tail(a)) \subseteq ToSet(a)
      BY <1>1, <2>1, TailRange
  <2>3. h \in ToSet(Tail(a))
    <3>1. Tail(a)[MaxTracked] = a[MaxTracked + 1]
        BY <1>1, <1>2, <2>1, HeadTailProperties
    <3>2. MaxTracked \in DOMAIN Tail(a)
        BY <1>1, <1>2, <2>1, <2>2, LenProperties
    <3>  QED  BY <1>1, <2>1, <3>1, <3>2 DEF ToSet
  <2>  QED  BY <1>1, <1>2, <2>1, <2>2, <2>3 DEF a
<1>4. CASE ~(Len(a) > MaxTracked)
    BY <1>1, <1>2, <1>4 DEF Evict, a
<1>  QED  BY <1>3, <1>4

-----------------------------------------------------------------------------
(* Initially.                                                              *)

LEMMA InitCancelInv ==
    ASSUME Init
    PROVE  CancelInv
<1>1. ToSet(<<>>) = {} /\ <<>> \in Seq(Handles) /\ Len(<<>>) = 0
    BY EmptySeq, LenProperties DEF ToSet
<1>2. Nobody \in Callers
    BY DEF Nobody, Callers, Owners
<1>3. TypeOK
    BY <1>1, <1>2, CancellationAssumption DEF Init, TypeOK
<1>4. OneMeaning
    BY <1>1, <1>3, CancellationAssumption DEF Init, OneMeaning
<1>5. OwnerOnly /\ ObservedIsCancelled
    BY <1>1 DEF Init, OwnerOnly, OwnerKept, OnlyOwnerCancels, ObservedIsCancelled
<1>  QED  BY <1>4, <1>5 DEF CancelInv

-----------------------------------------------------------------------------
(* Steps that only take records away, and leave finished requests alone.   *)

LEMMA OwnerFrame ==
    ASSUME OwnerKept, UNCHANGED <<handle, credential>>,
           \A x \in Handles : x \in ToSet(terminal') =>
               x \in ToSet(terminal) /\ towner'[x] = towner[x] /\ outcome'[x] = outcome[x],
           \A x \in Handles : x \notin ToSet(terminal') => towner'[x] = Absent,
           \A q \in Requests : rpc[q] = "done" =>
               rpc'[q] = "done" /\ cancelled'[q] = cancelled[q] /\ observed'[q] = observed[q]
    PROVE  OwnerKept'
<1>  SUFFICES ASSUME NEW x \in Handles, x \in ToSet(terminal')
              PROVE  \E q \in Requests :
                         /\ rpc'[q] = "done" /\ handle'[q] = x
                         /\ towner'[x] = credential'[q]
                         /\ outcome'[x] = "cancelled" <=> cancelled'[q] /\ observed'[q]
    BY DEF OwnerKept
<1>1. PICK q \in Requests :
          /\ rpc[q] = "done" /\ handle[q] = x
          /\ towner[x] = credential[q]
          /\ outcome[x] = "cancelled" <=> cancelled[q] /\ observed[q]
    BY DEF OwnerKept
<1>2. /\ rpc'[q] = "done" /\ handle'[q] = x
      /\ towner'[x] = credential'[q]
      /\ outcome'[x] = "cancelled" <=> cancelled'[q] /\ observed'[q]
    BY <1>1
<1>  QED  BY <1>2

LEMMA MeaningFrame ==
    ASSUME OneMeaning, TypeOK', UNCHANGED <<active, handle>>,
           \A q \in Requests : rpc'[q] = "active" <=> rpc[q] = "active",
           ToSet(terminal') \subseteq ToSet(terminal),
           \A x \in Handles : x \in ToSet(pending') =>
               x \in ToSet(pending) \/ (active[x] = None /\ x \notin ToSet(terminal'))
    PROVE  OneMeaning'
<1>1. ASSUME NEW x \in Handles PROVE active[x] \in Requests \cup {None}
    BY DEF OneMeaning, TypeOK
<1>  QED  BY <1>1 DEF OneMeaning

-----------------------------------------------------------------------------
(* track and _release.                                                     *)

\* The expiry keeps the table's type and drops handles only.
LEMMA PurgeFacts ==
    ASSUME TypeOK, Purge
    PROVE  /\ pending' \in Seq(Handles) /\ Len(pending') <= MaxTracked
           /\ ToSet(pending') = ToSet(pending) \ stale
           /\ intent' \in [Handles -> Callers]
           /\ stale' = {}
<1>1. Nobody \in Callers
    BY DEF Nobody, Callers, Owners
<1>2. Len(pending) \in Nat /\ Len(pending) <= MaxTracked /\ MaxTracked \in Nat
    BY CancellationAssumption, LenProperties DEF TypeOK
<1>  QED  BY <1>1, <1>2, LiveFacts DEF Purge, TypeOK

LEMMA TrackInv ==
    ASSUME CancelInv, NEW r \in Requests, Track(r)
    PROVE  CancelInv'
<1>  DEFINE h == handle[r]
<1>1. TypeOK /\ OneMeaning /\ OwnerKept /\ OnlyOwnerCancels /\ ObservedIsCancelled
    BY DEF CancelInv, OneMeaning, OwnerOnly
<1>2. h \in Handles /\ Nobody \in Callers
    BY <1>1 DEF TypeOK, Nobody, Callers, Owners
<1>3. MaxTracked \in Nat /\ None \notin Requests
    BY CancellationAssumption
<1>4. /\ pending' \in Seq(Handles) /\ Len(pending') <= MaxTracked
      /\ ToSet(pending') = (ToSet(pending) \ stale) \ {h}
  <2>1. Live \in Seq(Handles) /\ Len(Live) <= Len(pending) /\ ToSet(Live) = ToSet(pending) \ stale
        /\ Len(Live) \in Nat
      BY <1>1, LiveFacts
  <2>2. /\ Without(Live, h) \in Seq(Handles) /\ Len(Without(Live, h)) <= Len(Live)
        /\ ToSet(Without(Live, h)) = ToSet(Live) \ {h} /\ Len(Without(Live, h)) \in Nat
      BY <1>2, <2>1, WithoutFacts
  <2>3. Len(pending) \in Nat /\ Len(pending) <= MaxTracked
      BY <1>1, LenProperties DEF TypeOK
  <2>4. pending' = Without(Live, h)
      BY DEF Track
  <2>  QED  BY <1>3, <2>1, <2>2, <2>3, <2>4
<1>5. /\ terminal' \in Seq(Handles) /\ Len(terminal') <= MaxTracked
      /\ ToSet(terminal') = ToSet(terminal) \ {h}
  <2>1. terminal \in Seq(Handles) /\ Len(terminal) \in Nat /\ Len(terminal) <= MaxTracked
      BY <1>1, LenProperties DEF TypeOK
  <2>2. /\ Without(terminal, h) \in Seq(Handles) /\ Len(Without(terminal, h)) <= Len(terminal)
        /\ ToSet(Without(terminal, h)) = ToSet(terminal) \ {h} /\ Len(Without(terminal, h)) \in Nat
      BY <1>2, <2>1, WithoutFacts
  <2>3. terminal' = Without(terminal, h)
      BY DEF Track, ForgetTerminal
  <2>  QED  BY <1>3, <2>1, <2>2, <2>3
<1>6. /\ cancelled' \in [Requests -> BOOLEAN] /\ by' \in [Requests -> Callers]
      /\ \A q \in Requests : q # r => cancelled'[q] = cancelled[q] /\ by'[q] = by[q]
      /\ cancelled[r] => cancelled'[r]
      /\ cancelled'[r] => by'[r].trusted \/ by'[r].cred = credential[r]
  <2>1. CASE h \in ToSet(Live)
    <3>1. intent[h].trusted \/ intent[h].cred = credential[r]
        BY <2>1 DEF Track, Admitted, OwnersMatch
    <3>2. intent[h] \in Callers
        BY <1>1, <1>2 DEF TypeOK
    <3>3. cancelled' = [cancelled EXCEPT ![r] = TRUE] /\ by' = [by EXCEPT ![r] = intent[h]]
        BY <2>1 DEF Track, ArrivesCancelled
    <3>  QED  BY <1>1, <3>1, <3>2, <3>3 DEF TypeOK
  <2>2. CASE h \notin ToSet(Live)
      BY <1>1, <2>2 DEF Track, TypeOK, OnlyOwnerCancels
  <2>  QED  BY <2>1, <2>2
<1>7. TypeOK'
  <2>1. intent' \in [Handles -> Callers] /\ stale' \subseteq Handles
      BY <1>1, <1>2 DEF Track, TypeOK
  <2>2. /\ active' \in [Handles -> Requests \cup {None}]
        /\ rpc' \in [Requests -> {"new", "active", "done", "refused"}]
        /\ outcome' \in [Handles -> {Absent, "cancelled", "completed"}]
        /\ towner' \in [Handles -> Owners \cup {Absent}]
      BY <1>1, <1>2 DEF Track, ForgetTerminal, TypeOK
  <2>3. UNCHANGED <<handle, credential, observed, signalling, waits>>
      BY DEF Track
  <2>  QED  BY <1>1, <1>4, <1>5, <1>6, <2>1, <2>2, <2>3 DEF TypeOK, waits
<1>8. OneMeaning'
  <2>1. /\ active[h] = None /\ rpc[r] = "new"
        /\ active' = [active EXCEPT ![h] = r] /\ rpc' = [rpc EXCEPT ![r] = "active"]
        /\ UNCHANGED handle
      BY DEF Track, Admitted
  <2>2. \A x \in Handles : active'[x] = (IF x = h THEN r ELSE active[x])
      BY <1>1, <2>1 DEF TypeOK
  <2>3. \A q \in Requests : rpc'[q] = (IF q = r THEN "active" ELSE rpc[q])
      BY <1>1, <2>1 DEF TypeOK
  <2>4. ASSUME NEW x \in Handles
        PROVE  /\ active'[x] # None => rpc'[active'[x]] = "active" /\ handle'[active'[x]] = x
               /\ ~(active'[x] # None /\ x \in ToSet(pending'))
               /\ ~(active'[x] # None /\ x \in ToSet(terminal'))
               /\ ~(x \in ToSet(pending') /\ x \in ToSet(terminal'))
    <3>1. active[x] \in Requests \cup {None}
        BY <1>1 DEF TypeOK
    <3>  QED  BY <1>1, <1>4, <1>5, <2>1, <2>2, <2>3, <3>1 DEF OneMeaning
  <2>5. ASSUME NEW q \in Requests, rpc'[q] = "active" PROVE active'[handle'[q]] = q
    <3>1. handle[q] \in Handles
        BY <1>1 DEF TypeOK
    <3>  QED  BY <1>1, <1>3, <2>1, <2>2, <2>3, <2>5, <3>1 DEF OneMeaning
  <2>  QED  BY <1>7, <2>4, <2>5 DEF OneMeaning
<1>9. OwnerKept'
  <2>1. /\ outcome' = [outcome EXCEPT ![h] = Absent] /\ towner' = [towner EXCEPT ![h] = Absent]
        /\ rpc[r] = "new" /\ rpc' = [rpc EXCEPT ![r] = "active"]
        /\ UNCHANGED <<handle, credential, observed>>
      BY DEF Track, ForgetTerminal
  <2>2. ASSUME NEW x \in Handles, x \in ToSet(terminal')
        PROVE  x \in ToSet(terminal) /\ towner'[x] = towner[x] /\ outcome'[x] = outcome[x]
      BY <1>1, <1>5, <2>1, <2>2 DEF TypeOK
  <2>3. ASSUME NEW x \in Handles, x \notin ToSet(terminal') PROVE towner'[x] = Absent
    <3>1. x # h => towner[x] = Absent
        BY <1>1, <1>5, <2>3 DEF OwnerKept
    <3>  QED  BY <1>1, <2>1, <3>1 DEF TypeOK
  <2>4. ASSUME NEW q \in Requests, rpc[q] = "done"
        PROVE  rpc'[q] = "done" /\ cancelled'[q] = cancelled[q] /\ observed'[q] = observed[q]
    <3>1. q # r
        BY <2>1, <2>4
    <3>  QED  BY <1>1, <1>6, <2>1, <2>4, <3>1 DEF TypeOK
  <2>  QED  BY <1>1, <2>1, <2>2, <2>3, <2>4, OwnerFrame
<1>10. OnlyOwnerCancels'
  <2>1. UNCHANGED credential
      BY DEF Track
  <2>  QED  BY <1>1, <1>6, <2>1 DEF OnlyOwnerCancels
<1>11. ObservedIsCancelled'
  <2>1. UNCHANGED observed
      BY DEF Track
  <2>  QED  BY <1>1, <1>6, <2>1 DEF ObservedIsCancelled
<1>  QED  BY <1>8, <1>9, <1>10, <1>11 DEF CancelInv, OwnerOnly

LEMMA TrackRefusedInv ==
    ASSUME CancelInv, NEW r \in Requests, TrackRefused(r)
    PROVE  CancelInv'
<1>  DEFINE h == handle[r]
<1>1. TypeOK /\ OneMeaning /\ OwnerKept /\ OnlyOwnerCancels /\ ObservedIsCancelled
    BY DEF CancelInv, OneMeaning, OwnerOnly
<1>2. h \in Handles /\ MaxTracked \in Nat
    BY <1>1, CancellationAssumption DEF TypeOK
<1>3. /\ pending' \in Seq(Handles) /\ Len(pending') <= MaxTracked
      /\ ToSet(pending') = ToSet(pending) \ stale
      /\ intent' \in [Handles -> Callers] /\ stale' = {}
    BY <1>1, PurgeFacts DEF TrackRefused
<1>4. /\ rpc[r] = "new" /\ rpc' = [rpc EXCEPT ![r] = "refused"]
      /\ UNCHANGED <<active, handle, credential, cancelled, observed, by, signalling, waits>>
    BY DEF TrackRefused
<1>5. \A q \in Requests : rpc'[q] = (IF q = r THEN "refused" ELSE rpc[q])
    BY <1>1, <1>4 DEF TypeOK
<1>6. /\ terminal' \in Seq(Handles) /\ Len(terminal') <= MaxTracked
      /\ ToSet(terminal') \subseteq ToSet(terminal)
      /\ outcome' \in [Handles -> {Absent, "cancelled", "completed"}]
      /\ towner' \in [Handles -> Owners \cup {Absent}]
      /\ \A x \in Handles : x \in ToSet(terminal') => towner'[x] = towner[x] /\ outcome'[x] = outcome[x]
      /\ \A x \in Handles : x \notin ToSet(terminal') => towner'[x] = Absent
  <2>1. CASE active[h] = None
    <3>1. terminal \in Seq(Handles) /\ Len(terminal) \in Nat /\ Len(terminal) <= MaxTracked
        BY <1>1, LenProperties DEF TypeOK
    <3>2. /\ Without(terminal, h) \in Seq(Handles) /\ Len(Without(terminal, h)) <= Len(terminal)
          /\ ToSet(Without(terminal, h)) = ToSet(terminal) \ {h} /\ Len(Without(terminal, h)) \in Nat
        BY <1>2, <3>1, WithoutFacts
    <3>3. /\ terminal' = Without(terminal, h)
          /\ outcome' = [outcome EXCEPT ![h] = Absent] /\ towner' = [towner EXCEPT ![h] = Absent]
        BY <2>1 DEF TrackRefused, ForgetTerminal
    <3>4. terminal' \in Seq(Handles) /\ Len(terminal') <= MaxTracked
        BY <1>2, <3>1, <3>2, <3>3
    <3>5. ASSUME NEW x \in Handles, x \notin ToSet(terminal') PROVE towner'[x] = Absent
      <4>1. x # h => towner[x] = Absent
          BY <1>1, <3>2, <3>3, <3>5 DEF OwnerKept
      <4>  QED  BY <1>1, <3>3, <4>1 DEF TypeOK
    <3>  QED  BY <1>1, <3>2, <3>3, <3>4, <3>5 DEF TypeOK
  <2>2. CASE active[h] # None
    <3>1. UNCHANGED <<terminal, outcome, towner>>
        BY <2>2 DEF TrackRefused
    <3>  QED  BY <1>1, <3>1 DEF TypeOK, OwnerKept
  <2>  QED  BY <2>1, <2>2
<1>7. TypeOK'
    BY <1>1, <1>3, <1>4, <1>6 DEF TypeOK, waits
<1>8. OneMeaning'
  <2>1. \A q \in Requests : rpc'[q] = "active" <=> rpc[q] = "active"
      BY <1>4, <1>5
  <2>  QED  BY <1>1, <1>3, <1>4, <1>6, <1>7, <2>1, MeaningFrame
<1>9. OwnerKept'
  <2>1. \A q \in Requests : rpc[q] = "done" => rpc'[q] = "done"
      BY <1>4, <1>5
  <2>  QED  BY <1>1, <1>4, <1>6, <2>1, OwnerFrame
<1>10. OnlyOwnerCancels' /\ ObservedIsCancelled'
    BY <1>1, <1>4 DEF OnlyOwnerCancels, ObservedIsCancelled
<1>  QED  BY <1>8, <1>9, <1>10 DEF CancelInv, OwnerOnly

LEMMA ReleaseInv ==
    ASSUME CancelInv, NEW r \in Requests, Release(r)
    PROVE  CancelInv'
<1>  DEFINE h == handle[r]
            t == Evict(Append(Without(terminal, h), h))
<1>1. TypeOK /\ OneMeaning /\ OwnerKept /\ OnlyOwnerCancels /\ ObservedIsCancelled
    BY DEF CancelInv, OneMeaning, OwnerOnly
<1>2. h \in Handles /\ MaxTracked \in Nat /\ None \notin Requests
    BY <1>1, CancellationAssumption DEF TypeOK
<1>3. /\ t \in Seq(Handles) /\ Len(t) <= MaxTracked
      /\ h \in ToSet(t) /\ ToSet(t) \subseteq ToSet(terminal) \cup {h}
  <2>1. terminal \in Seq(Handles) /\ Len(terminal) \in Nat /\ Len(terminal) <= MaxTracked
      BY <1>1, LenProperties DEF TypeOK
  <2>2. /\ Without(terminal, h) \in Seq(Handles) /\ Len(Without(terminal, h)) <= MaxTracked
        /\ ToSet(Without(terminal, h)) = ToSet(terminal) \ {h}
      BY <1>2, <2>1, WithoutFacts
  <2>  QED  BY <1>2, <2>2, EvictFacts
<1>4. /\ rpc[r] = "active" /\ rpc' = [rpc EXCEPT ![r] = "done"]
      /\ active[h] = r /\ active' = [active EXCEPT ![h] = None]
      /\ terminal' = t
      /\ towner' = [x \in Handles |-> IF x \notin ToSet(t) THEN Absent
                                      ELSE IF x = h THEN credential[r] ELSE towner[x]]
      /\ outcome' = [x \in Handles |->
                       IF x \notin ToSet(t) THEN Absent
                       ELSE IF x # h THEN outcome[x]
                       ELSE IF observed[r] THEN "cancelled" ELSE "completed"]
      /\ UNCHANGED <<pending, intent, stale, handle, credential, cancelled, observed, by,
                     signalling, waits>>
    BY <1>1 DEF Release, OwnersAfter, Deactivate, OneMeaning
<1>  HIDE DEF t
<1>5. TypeOK'
  <2>1. towner' \in [Handles -> Owners \cup {Absent}]
      BY <1>1, <1>4 DEF TypeOK
  <2>2. outcome' \in [Handles -> {Absent, "cancelled", "completed"}]
      BY <1>1, <1>4 DEF TypeOK
  <2>3. /\ active' \in [Handles -> Requests \cup {None}]
        /\ rpc' \in [Requests -> {"new", "active", "done", "refused"}]
      BY <1>1, <1>4 DEF TypeOK
  <2>  QED  BY <1>1, <1>3, <1>4, <2>1, <2>2, <2>3 DEF TypeOK, waits
<1>6. \A x \in Handles : active'[x] = (IF x = h THEN None ELSE active[x])
    BY <1>1, <1>2, <1>4 DEF TypeOK
<1>7. \A q \in Requests : rpc'[q] = (IF q = r THEN "done" ELSE rpc[q])
    BY <1>1, <1>4 DEF TypeOK
<1>8. OneMeaning'
  <2>1. ASSUME NEW x \in Handles
        PROVE  /\ active'[x] # None => rpc'[active'[x]] = "active" /\ handle'[active'[x]] = x
               /\ ~(active'[x] # None /\ x \in ToSet(pending'))
               /\ ~(active'[x] # None /\ x \in ToSet(terminal'))
               /\ ~(x \in ToSet(pending') /\ x \in ToSet(terminal'))
    <3>1. active[x] \in Requests \cup {None}
        BY <1>1 DEF TypeOK
    <3>2. active'[x] # None => active'[x] = active[x] /\ active[x] # r
        BY <1>1, <1>4, <1>6 DEF OneMeaning
    <3>  QED  BY <1>1, <1>2, <1>3, <1>4, <1>6, <1>7, <3>1, <3>2 DEF OneMeaning
  <2>2. ASSUME NEW q \in Requests, rpc'[q] = "active" PROVE active'[handle'[q]] = q
    <3>1. q # r /\ rpc[q] = "active" /\ handle[q] \in Handles
        BY <1>1, <1>7, <2>2 DEF TypeOK
    <3>2. active[handle[q]] = q /\ handle[q] # h
        BY <1>1, <1>4, <3>1 DEF OneMeaning
    <3>  QED  BY <1>4, <1>6, <3>1, <3>2
  <2>  QED  BY <1>5, <2>1, <2>2 DEF OneMeaning
<1>9. OwnerKept'
  <2>  SUFFICES ASSUME NEW x \in Handles, x \in ToSet(t)
                PROVE  \E q \in Requests :
                           /\ rpc'[q] = "done" /\ handle'[q] = x
                           /\ towner'[x] = credential'[q]
                           /\ outcome'[x] = "cancelled" <=> cancelled'[q] /\ observed'[q]
      BY <1>4 DEF OwnerKept
  <2>1. CASE x = h
    <3>1. towner'[x] = credential[r]
        BY <1>4, <2>1
    <3>2. outcome'[x] = "cancelled" <=> observed[r]
        BY <1>4, <2>1
    <3>3. observed[r] => cancelled[r]
        BY <1>1 DEF ObservedIsCancelled
    <3>  QED  BY <1>4, <1>7, <2>1, <3>1, <3>2, <3>3
  <2>2. CASE x # h
    <3>1. x \in ToSet(terminal) /\ towner'[x] = towner[x] /\ outcome'[x] = outcome[x]
        BY <1>3, <1>4, <2>2
    <3>2. PICK q \in Requests :
              /\ rpc[q] = "done" /\ handle[q] = x
              /\ towner[x] = credential[q]
              /\ outcome[x] = "cancelled" <=> cancelled[q] /\ observed[q]
        BY <1>1, <3>1 DEF OwnerKept
    <3>3. rpc'[q] = "done"
        BY <1>7, <3>2
    <3>  QED  BY <1>4, <3>1, <3>2, <3>3
  <2>  QED  BY <2>1, <2>2
<1>10. OnlyOwnerCancels' /\ ObservedIsCancelled'
    BY <1>1, <1>4 DEF OnlyOwnerCancels, ObservedIsCancelled
<1>  QED  BY <1>8, <1>9, <1>10 DEF CancelInv, OwnerOnly

LEMMA CheckpointInv ==
    ASSUME CancelInv, NEW r \in Requests, Checkpoint(r)
    PROVE  CancelInv'
<1>1. TypeOK /\ OneMeaning /\ OwnerKept /\ OnlyOwnerCancels /\ ObservedIsCancelled
    BY DEF CancelInv, OneMeaning, OwnerOnly
<1>2. /\ rpc[r] = "active" /\ cancelled[r]
      /\ observed' = [observed EXCEPT ![r] = TRUE]
      /\ UNCHANGED <<tables, rpc, handle, credential, cancelled, by, signalling, waits>>
    BY DEF Checkpoint
<1>3. TypeOK'
    BY <1>1, <1>2 DEF TypeOK, tables, waits
<1>4. OneMeaning'
    BY <1>1, <1>2, <1>3 DEF OneMeaning, tables
<1>5. OwnerKept'
  <2>1. \A q \in Requests : rpc[q] = "done" => observed'[q] = observed[q]
      BY <1>1, <1>2 DEF TypeOK
  <2>2. \A x \in Handles : x \notin ToSet(terminal) => towner[x] = Absent
      BY <1>1 DEF OwnerKept
  <2>  QED  BY <1>1, <1>2, <2>1, <2>2, OwnerFrame DEF tables
<1>6. ObservedIsCancelled'
    BY <1>1, <1>2 DEF TypeOK, ObservedIsCancelled
<1>7. OnlyOwnerCancels'
    BY <1>1, <1>2 DEF OnlyOwnerCancels
<1>  QED  BY <1>4, <1>5, <1>6, <1>7 DEF CancelInv, OwnerOnly

-----------------------------------------------------------------------------
(* cancel.                                                                 *)

LEMMA CancelActiveInv ==
    ASSUME CancelInv, NEW h \in Handles, NEW who \in Callers, CancelActive(h, who)
    PROVE  CancelInv'
<1>  DEFINE r == active[h]
<1>1. TypeOK /\ OneMeaning /\ OwnerKept /\ OnlyOwnerCancels /\ ObservedIsCancelled
    BY DEF CancelInv, OneMeaning, OwnerOnly
<1>2. /\ r \in Requests /\ rpc[r] = "active"
      /\ who.trusted \/ credential[r] = who.cred
    BY <1>1 DEF CancelActive, MayCancel, OwnersMatch, OneMeaning, TypeOK
<1>3. /\ pending' \in Seq(Handles) /\ Len(pending') <= MaxTracked
      /\ ToSet(pending') = ToSet(pending) \ stale
      /\ intent' \in [Handles -> Callers] /\ stale' = {}
    BY <1>1, PurgeFacts DEF CancelActive
<1>4. /\ cancelled' = [cancelled EXCEPT ![r] = TRUE]
      /\ by' = [by EXCEPT ![r] = IF cancelled[r] THEN @ ELSE who]
      /\ signalling' = r
      /\ UNCHANGED <<active, terminal, outcome, towner, rpc, handle, credential, observed, waits>>
    BY DEF CancelActive
<1>5. TypeOK'
  <2>1. by' \in [Requests -> Callers] /\ cancelled' \in [Requests -> BOOLEAN]
      BY <1>1, <1>2, <1>4 DEF TypeOK
  <2>  QED  BY <1>1, <1>2, <1>3, <1>4, <2>1 DEF TypeOK, waits
<1>6. OneMeaning'
    BY <1>1, <1>3, <1>4, <1>5, MeaningFrame
<1>7. OwnerKept'
  <2>1. \A q \in Requests : rpc[q] = "done" => cancelled'[q] = cancelled[q]
      BY <1>1, <1>2, <1>4 DEF TypeOK
  <2>2. \A x \in Handles : x \notin ToSet(terminal) => towner[x] = Absent
      BY <1>1 DEF OwnerKept
  <2>  QED  BY <1>1, <1>4, <2>1, <2>2, OwnerFrame
<1>8. OnlyOwnerCancels'
  <2>  SUFFICES ASSUME NEW q \in Requests, cancelled'[q]
                PROVE  by'[q].trusted \/ by'[q].cred = credential[q]
      BY <1>4 DEF OnlyOwnerCancels
  <2>1. CASE q = r
    <3>1. CASE cancelled[r]
        BY <1>1, <1>2, <1>4, <2>1, <3>1 DEF TypeOK, OnlyOwnerCancels
    <3>2. CASE ~cancelled[r]
        BY <1>1, <1>2, <1>4, <2>1, <3>2 DEF TypeOK
    <3>  QED  BY <3>1, <3>2
  <2>2. CASE q # r
      BY <1>1, <1>2, <1>4, <2>2 DEF TypeOK, OnlyOwnerCancels
  <2>  QED  BY <2>1, <2>2
<1>9. ObservedIsCancelled'
    BY <1>1, <1>2, <1>4 DEF TypeOK, ObservedIsCancelled
<1>  QED  BY <1>6, <1>7, <1>8, <1>9 DEF CancelInv, OwnerOnly

\* Steps that touch nothing but the pending table.
LEMMA PendingFrame ==
    ASSUME CancelInv,
           pending' \in Seq(Handles), Len(pending') <= MaxTracked,
           intent' \in [Handles -> Callers], stale' \subseteq Handles,
           \A x \in Handles : x \in ToSet(pending') =>
               x \in ToSet(pending) \/ (active[x] = None /\ x \notin ToSet(terminal)),
           UNCHANGED <<active, terminal, outcome, towner, rpc, handle, credential, cancelled,
                       observed, by, signalling, waits>>
    PROVE  CancelInv'
<1>1. TypeOK /\ OneMeaning /\ OwnerKept /\ OnlyOwnerCancels /\ ObservedIsCancelled
    BY DEF CancelInv, OneMeaning, OwnerOnly
<1>2. TypeOK'
    BY <1>1 DEF TypeOK, waits
<1>3. OneMeaning'
    BY <1>1, <1>2, MeaningFrame
<1>4. OwnerKept' /\ OnlyOwnerCancels' /\ ObservedIsCancelled'
    BY <1>1 DEF OwnerKept, OnlyOwnerCancels, ObservedIsCancelled
<1>  QED  BY <1>3, <1>4 DEF CancelInv, OwnerOnly

\* What leaving an intent does to the table.
LEMMA LeaveIntentFacts ==
    ASSUME TypeOK, NEW h \in Handles, NEW who \in Callers, LeaveIntent(h, who)
    PROVE  /\ pending' \in Seq(Handles) /\ Len(pending') <= MaxTracked
           /\ h \in ToSet(pending') /\ ToSet(pending') \subseteq ToSet(pending) \cup {h}
           /\ \/ Len(pending') = MaxTracked /\ Len(Live) = MaxTracked
              \/ ToSet(pending') = (ToSet(pending) \ stale) \cup {h}
<1>1. /\ Live \in Seq(Handles) /\ Len(Live) \in Nat /\ Len(Live) <= Len(pending)
      /\ ToSet(Live) = ToSet(pending) \ stale
    BY LiveFacts
<1>2. Len(pending) \in Nat /\ Len(pending) <= MaxTracked /\ MaxTracked \in Nat
    BY CancellationAssumption, LenProperties DEF TypeOK
<1>3. Len(Live) <= MaxTracked
    BY <1>1, <1>2
<1>4. pending' = Evict(Append(Live, h))
    BY DEF LeaveIntent
<1>  QED  BY <1>1, <1>3, <1>4, EvictFacts

LEMMA LeaveIntentInv ==
    ASSUME CancelInv, NEW h \in Handles, NEW who \in Callers, LeaveIntent(h, who)
    PROVE  CancelInv'
<1>1. TypeOK
    BY DEF CancelInv, OneMeaning
<1>2. /\ pending' \in Seq(Handles) /\ Len(pending') <= MaxTracked
      /\ ToSet(pending') \subseteq ToSet(pending) \cup {h}
    BY <1>1, LeaveIntentFacts
<1>3. Nobody \in Callers
    BY DEF Nobody, Callers, Owners
<1>4. intent' \in [Handles -> Callers] /\ stale' \subseteq Handles
    BY <1>1, <1>3 DEF LeaveIntent, TypeOK
<1>5. active[h] = None /\ h \notin ToSet(terminal)
    BY DEF LeaveIntent, Unknown
<1>6. UNCHANGED <<active, terminal, outcome, towner, rpc, handle, credential, cancelled,
                  observed, by, signalling, waits>>
    BY DEF LeaveIntent
<1>  QED  BY <1>2, <1>4, <1>5, <1>6, PendingFrame

\* Repeating an intent moves it to the end of the table.
LEMMA RepeatIntentFacts ==
    ASSUME TypeOK, NEW h \in Handles, NEW who \in Callers, RepeatIntent(h, who)
    PROVE  /\ pending' \in Seq(Handles) /\ Len(pending') <= MaxTracked
           /\ ToSet(pending') = ToSet(pending) \ stale
<1>1. /\ Live \in Seq(Handles) /\ Len(Live) \in Nat /\ Len(Live) <= Len(pending)
      /\ ToSet(Live) = ToSet(pending) \ stale
    BY LiveFacts
<1>2. Len(pending) \in Nat /\ Len(pending) <= MaxTracked /\ MaxTracked \in Nat
    BY CancellationAssumption, LenProperties DEF TypeOK
<1>3. h \in ToSet(Live) /\ pending' = Append(Without(Live, h), h)
    BY DEF RepeatIntent
<1>4. /\ Without(Live, h) \in Seq(Handles) /\ Len(Without(Live, h)) \in Nat
      /\ Len(Without(Live, h)) < Len(Live)
      /\ ToSet(Without(Live, h)) = ToSet(Live) \ {h}
    BY <1>1, <1>3, WithoutFacts
<1>5. /\ pending' \in Seq(Handles) /\ Len(pending') = Len(Without(Live, h)) + 1
      /\ ToSet(pending') = (ToSet(Live) \ {h}) \cup {h}
    BY <1>3, <1>4, AppendRange
<1>6. Len(pending') <= MaxTracked
    BY <1>1, <1>2, <1>4, <1>5
<1>  QED  BY <1>1, <1>3, <1>5, <1>6

LEMMA RepeatIntentInv ==
    ASSUME CancelInv, NEW h \in Handles, NEW who \in Callers, RepeatIntent(h, who)
    PROVE  CancelInv'
<1>1. TypeOK
    BY DEF CancelInv, OneMeaning
<1>2. /\ pending' \in Seq(Handles) /\ Len(pending') <= MaxTracked
      /\ ToSet(pending') \subseteq ToSet(pending)
    BY <1>1, RepeatIntentFacts
<1>3. Nobody \in Callers
    BY DEF Nobody, Callers, Owners
<1>4. intent' \in [Handles -> Callers] /\ stale' \subseteq Handles
    BY <1>1, <1>3 DEF RepeatIntent, TypeOK
<1>5. UNCHANGED <<active, terminal, outcome, towner, rpc, handle, credential, cancelled,
                  observed, by, signalling, waits>>
    BY DEF RepeatIntent
<1>  QED  BY <1>2, <1>4, <1>5, PendingFrame

LEMMA CancelWithoutEffectInv ==
    ASSUME CancelInv, NEW h \in Handles, NEW who \in Callers, CancelWithoutEffect(h, who)
    PROVE  CancelInv'
<1>1. TypeOK
    BY DEF CancelInv, OneMeaning
<1>2. /\ pending' \in Seq(Handles) /\ Len(pending') <= MaxTracked
      /\ ToSet(pending') \subseteq ToSet(pending)
      /\ intent' \in [Handles -> Callers] /\ stale' \subseteq Handles
    BY <1>1, PurgeFacts DEF CancelWithoutEffect
<1>3. UNCHANGED <<active, terminal, outcome, towner, rpc, handle, credential, cancelled,
                  observed, by, signalling, waits>>
    BY DEF CancelWithoutEffect
<1>  QED  BY <1>2, <1>3, PendingFrame

LEMMA ElapseInv ==
    ASSUME CancelInv, NEW h \in Handles, Elapse(h)
    PROVE  CancelInv'
<1>1. TypeOK
    BY DEF CancelInv, OneMeaning
<1>2. /\ pending' = pending /\ intent' = intent /\ stale' \subseteq Handles
      /\ UNCHANGED <<active, terminal, outcome, towner, rpc, handle, credential, cancelled,
                     observed, by, signalling, waits>>
    BY <1>1 DEF Elapse, TypeOK
<1>  QED  BY <1>1, <1>2, PendingFrame DEF TypeOK

-----------------------------------------------------------------------------
(* The token's waiters.                                                    *)

\* Steps that touch nothing but waiters.
LEMMA WaitFrame ==
    ASSUME CancelInv, signalling' \in Requests \cup {None},
           wpc' \in [Requests -> {"out", "checked", "waiting"}],
           listed' \in [Requests -> BOOLEAN], resolved' \in [Requests -> BOOLEAN],
           UNCHANGED <<tables, rpc, handle, credential, cancelled, observed, by>>
    PROVE  CancelInv'
<1>1. TypeOK /\ OneMeaning /\ OwnerKept /\ OnlyOwnerCancels /\ ObservedIsCancelled
    BY DEF CancelInv, OneMeaning, OwnerOnly
<1>2. TypeOK'
    BY <1>1 DEF TypeOK, tables
<1>3. OneMeaning'
    BY <1>1, <1>2 DEF OneMeaning, tables
<1>4. OwnerKept' /\ OnlyOwnerCancels' /\ ObservedIsCancelled'
    BY <1>1 DEF OwnerKept, OnlyOwnerCancels, ObservedIsCancelled, tables
<1>  QED  BY <1>3, <1>4 DEF CancelInv, OwnerOnly

LEMMA TakeWaitersInv ==
    ASSUME CancelInv, TakeWaiters
    PROVE  CancelInv'
<1>1. TypeOK
    BY DEF CancelInv, OneMeaning
<1>  DEFINE woken == resolved[signalling] \/ listed[signalling]
<1>2. woken \in BOOLEAN
    OBVIOUS
<1>3. resolved' = [resolved EXCEPT ![signalling] = woken]
    BY DEF TakeWaiters
<1>  HIDE DEF woken
<1>4. resolved' \in [Requests -> BOOLEAN]
    BY <1>1, <1>2, <1>3 DEF TypeOK
<1>5. /\ listed' \in [Requests -> BOOLEAN] /\ signalling' \in Requests \cup {None}
      /\ wpc' \in [Requests -> {"out", "checked", "waiting"}]
    BY <1>1 DEF TypeOK, TakeWaiters
<1>6. UNCHANGED <<tables, rpc, handle, credential, cancelled, observed, by>>
    BY DEF TakeWaiters
<1>  QED  BY <1>4, <1>5, <1>6, WaitFrame

LEMMA WaitStepsInv ==
    ASSUME CancelInv, NEW r \in Requests,
           WaitCancelled(r) \/ EnterWaiters(r) \/ LeaveWaiters(r)
    PROVE  CancelInv'
<1>1. TypeOK
    BY DEF CancelInv, OneMeaning
<1>2. cancelled[r] \in BOOLEAN /\ (~cancelled[r]) \in BOOLEAN
    BY <1>1 DEF TypeOK
<1>3. /\ wpc' \in [Requests -> {"out", "checked", "waiting"}]
      /\ listed' \in [Requests -> BOOLEAN] /\ resolved' \in [Requests -> BOOLEAN]
      /\ signalling' \in Requests \cup {None}
      /\ UNCHANGED <<tables, rpc, handle, credential, cancelled, observed, by>>
  <2>1. CASE WaitCancelled(r)
      BY <1>1, <2>1 DEF WaitCancelled, TypeOK
  <2>2. CASE EnterWaiters(r)
      BY <1>1, <1>2, <2>2 DEF EnterWaiters, TypeOK
  <2>3. CASE LeaveWaiters(r)
      BY <1>1, <2>3 DEF LeaveWaiters, TypeOK
  <2>  QED  BY <2>1, <2>2, <2>3
<1>  QED  BY <1>3, WaitFrame

-----------------------------------------------------------------------------
(* The theorems.                                                           *)

LEMMA NextCancelInv ==
    ASSUME CancelInv, [Next]_vars
    PROVE  CancelInv'
<1>1. ASSUME NEW r \in Requests, RequestStep(r) PROVE CancelInv'
    BY <1>1, TrackInv, TrackRefusedInv, CheckpointInv, ReleaseInv, WaitStepsInv DEF RequestStep
<1>2. ASSUME NEW h \in Handles, NEW who \in Callers, CancelStep(h, who) PROVE CancelInv'
    BY <1>2, CancelActiveInv, LeaveIntentInv, RepeatIntentInv, CancelWithoutEffectInv DEF CancelStep
<1>3. ASSUME UNCHANGED vars PROVE CancelInv'
  <2>1. CancelInv /\ UNCHANGED <<tables, rpc, handle, credential, cancelled, observed, by, signalling, waits>>
      BY <1>3 DEF vars
  <2>2. TypeOK
      BY DEF CancelInv, OneMeaning
  <2>  QED  BY <2>1, <2>2, WaitFrame DEF TypeOK, waits
<1>  QED  BY <1>1, <1>2, <1>3, TakeWaitersInv, ElapseInv DEF Next

\* The inductive invariant holds of every behaviour.
THEOREM CancelInvariant == Spec => []CancelInv
<1>1. Init => CancelInv
    BY InitCancelInv
<1>2. CancelInv /\ [Next]_vars => CancelInv'
    BY NextCancelInv
<1>  QED  BY <1>1, <1>2, PTL DEF Spec

\* A handle means a live request, an intent or a finished request, never two of
\* them (_active, _pending and _terminal of CancellationRegistry).
THEOREM HandleHasOneMeaning == Spec => []OneMeaning
<1>1. CancelInv => OneMeaning
    BY DEF CancelInv
<1>  QED  BY <1>1, CancelInvariant, PTL

\* Nobody but the owner or the trusted host cancels a request, and a terminal
\* record keeps the owner and the outcome of the request it stands for.
THEOREM AuthorityStaysWithOwner == Spec => []OwnerOnly
<1>1. CancelInv => OwnerOnly
    BY DEF CancelInv
<1>  QED  BY <1>1, CancelInvariant, PTL

-----------------------------------------------------------------------------
(* Intents are honoured.                                                   *)

\* How an intent may leave the table in one step.
Honoured(h) ==
    \/ h \in ToSet(pending')
    \/ Len(pending') = MaxTracked /\ ToSet(pending') \ ToSet(pending) # {}
    \/ active'[h] # None /\ cancelled'[active'[h]]

LEMMA HonouredStep ==
    ASSUME CancelInv, Next, NEW h \in ToSet(pending) \ stale
    PROVE  Honoured(h)
<1>1. TypeOK
    BY DEF CancelInv, OneMeaning
<1>2. ToSet(pending) \subseteq Handles
    BY <1>1, LenProperties, ElementOfSeq DEF TypeOK, ToSet
<1>3. Purge => Honoured(h)
    BY <1>1, PurgeFacts DEF Honoured
<1>4. UNCHANGED pending => Honoured(h)
    BY DEF Honoured
<1>5. ASSUME NEW r \in Requests, Track(r) PROVE Honoured(h)
  <2>  DEFINE g == handle[r]
  <2>1. /\ g \in Handles /\ None \notin Requests
        /\ ToSet(Live) = ToSet(pending) \ stale /\ Live \in Seq(Handles)
      BY <1>1, LiveFacts, CancellationAssumption DEF TypeOK
  <2>2. pending' = Without(Live, g) /\ active' = [active EXCEPT ![g] = r]
      BY <1>5 DEF Track
  <2>3. CASE h # g
    <3>1. ToSet(pending') = ToSet(Live) \ {g}
        BY <2>1, <2>2, WithoutFacts
    <3>  QED  BY <2>1, <2>3, <3>1 DEF Honoured
  <2>4. CASE h = g
    <3>1. cancelled' = [cancelled EXCEPT ![r] = TRUE]
        BY <1>5, <2>1, <2>4 DEF Track, ArrivesCancelled
    <3>2. active'[h] = r /\ cancelled'[r]
        BY <1>1, <2>1, <2>2, <2>4, <3>1 DEF TypeOK
    <3>  QED  BY <2>1, <3>2 DEF Honoured
  <2>  QED  BY <2>3, <2>4
<1>6. ASSUME NEW g \in Handles, NEW who \in Callers, LeaveIntent(g, who) PROVE Honoured(h)
  <2>1. /\ g \in ToSet(pending')
        /\ \/ Len(pending') = MaxTracked /\ Len(Live) = MaxTracked
           \/ ToSet(pending') = (ToSet(pending) \ stale) \cup {g}
      BY <1>1, <1>6, LeaveIntentFacts
  <2>2. CASE Len(pending') = MaxTracked /\ Len(Live) = MaxTracked
    <3>1. /\ ToSet(Live) = ToSet(pending) \ stale
          /\ ToSet(pending) \cap stale # {} => Len(Live) < Len(pending)
          /\ Len(Live) \in Nat
        BY <1>1, LiveFacts
    <3>2. Len(pending) <= MaxTracked /\ Len(pending) \in Nat
        BY <1>1, LenProperties DEF TypeOK
    <3>3. ToSet(pending) \cap stale = {}
        BY <2>2, <3>1, <3>2
    <3>4. g \notin ToSet(pending)
        BY <1>6, <3>1, <3>3 DEF LeaveIntent, Unknown
    <3>  QED  BY <2>1, <2>2, <3>4 DEF Honoured
  <2>3. CASE ToSet(pending') = (ToSet(pending) \ stale) \cup {g}
      BY <2>3 DEF Honoured
  <2>  QED  BY <2>1, <2>2, <2>3
<1>7. ASSUME NEW g \in Handles, NEW who \in Callers, RepeatIntent(g, who) PROVE Honoured(h)
    BY <1>1, <1>7, RepeatIntentFacts DEF Honoured
<1>8. ASSUME NEW g \in Handles, NEW who \in Callers,
             CancelActive(g, who) \/ CancelWithoutEffect(g, who)
      PROVE  Honoured(h)
    BY <1>3, <1>8 DEF CancelActive, CancelWithoutEffect
<1>9. ASSUME NEW r \in Requests, TrackRefused(r) PROVE Honoured(h)
    BY <1>3, <1>9 DEF TrackRefused
<1>10. ASSUME NEW r \in Requests,
              Checkpoint(r) \/ Release(r) \/ WaitCancelled(r) \/ EnterWaiters(r) \/ LeaveWaiters(r)
       PROVE  UNCHANGED pending
    BY <1>10 DEF Checkpoint, Release, WaitCancelled, EnterWaiters, LeaveWaiters, tables
<1>11. TakeWaiters \/ (\E g \in Handles : Elapse(g)) => UNCHANGED pending
    BY DEF TakeWaiters, Elapse, tables
<1>12. ASSUME NEW r \in Requests, RequestStep(r) PROVE Honoured(h)
    BY <1>4, <1>5, <1>9, <1>10, <1>12 DEF RequestStep
<1>13. ASSUME NEW g \in Handles, NEW who \in Callers, CancelStep(g, who) PROVE Honoured(h)
    BY <1>6, <1>7, <1>8, <1>13 DEF CancelStep
<1>  QED  BY <1>4, <1>11, <1>12, <1>13 DEF Next

\* An intent leaves the table of cancel() by cancelling the request that comes
\* under its handle, by expiring, or for a newer one when the table is full.
THEOREM IntentsAreHonoured == Spec => IntentHonoured
<1>1. CancelInv /\ [Next]_vars =>
        [\A h \in ToSet(pending) \ stale :
            \/ h \in ToSet(pending')
            \/ Len(pending') = MaxTracked /\ ToSet(pending') \ ToSet(pending) # {}
            \/ active'[h] # None /\ cancelled'[active'[h]]]_vars
    BY HonouredStep DEF Honoured
<1>2. Init => CancelInv
    BY InitCancelInv
<1>3. CancelInv /\ [Next]_vars => CancelInv'
    BY NextCancelInv
<1>  QED  BY <1>1, <1>2, <1>3, PTL DEF Spec, IntentHonoured

-----------------------------------------------------------------------------
(* No wake-up is lost.                                                     *)

\* A waiter is in the token's list or its future is resolved; one that is
\* listed with the flag set is about to be taken from the list.
WaiterKnown ==
    \A r \in Requests :
        /\ rpc[r] = "new" => wpc[r] = "out"
        /\ wpc[r] = "waiting" => listed[r] \/ resolved[r]
        /\ listed[r] => wpc[r] = "waiting"
        /\ listed[r] /\ cancelled[r] => signalling = r

LEMMA WaiterKnownStep ==
    ASSUME CancelInv, WaiterKnown, [Next]_vars
    PROVE  WaiterKnown'
<1>1. TypeOK
    BY DEF CancelInv, OneMeaning
<1>2. \A r \in Requests : r # None
    BY CancellationAssumption
<1>3. ASSUME NEW r \in Requests, Track(r) PROVE WaiterKnown'
  <2>1. wpc[r] = "out" /\ ~listed[r]
      BY <1>3 DEF WaiterKnown, Track
  <2>2. \A q \in Requests : q # r => cancelled'[q] = cancelled[q] /\ rpc'[q] = rpc[q]
      BY <1>1, <1>3 DEF Track, ArrivesCancelled, TypeOK
  <2>3. rpc'[r] = "active" /\ UNCHANGED <<signalling, wpc, listed, resolved>>
      BY <1>1, <1>3 DEF Track, TypeOK, waits
  <2>  QED  BY <2>1, <2>2, <2>3 DEF WaiterKnown
<1>4. ASSUME NEW r \in Requests, TrackRefused(r) \/ Release(r) \/ Checkpoint(r) PROVE WaiterKnown'
  <2>1. /\ UNCHANGED <<cancelled, signalling, wpc, listed, resolved>>
        /\ \A q \in Requests : rpc'[q] = "new" => rpc[q] = "new"
      BY <1>1, <1>4 DEF TrackRefused, Release, Checkpoint, TypeOK, waits
  <2>  QED  BY <2>1 DEF WaiterKnown
<1>5. ASSUME NEW r \in Requests, WaitCancelled(r) PROVE WaiterKnown'
  <2>1. rpc[r] = "active" /\ wpc[r] = "out" /\ wpc' = [wpc EXCEPT ![r] = "checked"]
      BY <1>5 DEF WaitCancelled
  <2>2. UNCHANGED <<rpc, cancelled, signalling, listed>> /\ resolved' = [resolved EXCEPT ![r] = FALSE]
      BY <1>5 DEF WaitCancelled
  <2>  QED  BY <1>1, <2>1, <2>2 DEF WaiterKnown, TypeOK
\* The second look at the flag, under the lock, decides between the list and a
\* resolved future.
<1>6. ASSUME NEW r \in Requests, EnterWaiters(r) PROVE WaiterKnown'
  <2>1. /\ wpc'[r] = "waiting" /\ listed'[r] = ~cancelled[r] /\ resolved'[r] = cancelled[r]
        /\ wpc[r] = "checked" /\ cancelled[r] \in BOOLEAN
      BY <1>1, <1>6 DEF EnterWaiters, TypeOK
  <2>2. /\ \A q \in Requests : q # r => wpc'[q] = wpc[q] /\ listed'[q] = listed[q] /\ resolved'[q] = resolved[q]
        /\ UNCHANGED <<rpc, cancelled, signalling>>
      BY <1>1, <1>6 DEF EnterWaiters, TypeOK
  <2>  QED  BY <2>1, <2>2 DEF WaiterKnown
<1>7. ASSUME NEW r \in Requests, LeaveWaiters(r) PROVE WaiterKnown'
    BY <1>1, <1>7 DEF LeaveWaiters, WaiterKnown, TypeOK
<1>8. ASSUME NEW h \in Handles, NEW who \in Callers, CancelActive(h, who) PROVE WaiterKnown'
  <2>1. active[h] \in Requests /\ signalling = None /\ signalling' = active[h]
      BY <1>1, <1>8 DEF CancelActive, TypeOK
  <2>2. \A q \in Requests : q # active[h] => cancelled'[q] = cancelled[q]
      BY <1>1, <1>8, <2>1 DEF CancelActive, TypeOK
  <2>3. UNCHANGED <<rpc, wpc, listed, resolved>>
      BY <1>8 DEF CancelActive, waits
  <2>  QED  BY <1>2, <2>1, <2>2, <2>3 DEF WaiterKnown
<1>9. CASE TakeWaiters
  <2>1. signalling \in Requests /\ signalling' = None /\ UNCHANGED <<rpc, cancelled, wpc>>
      BY <1>1, <1>9 DEF TakeWaiters, TypeOK
  <2>2. ~listed'[signalling] /\ resolved'[signalling] = (resolved[signalling] \/ listed[signalling])
      BY <1>1, <1>9, <2>1 DEF TakeWaiters, TypeOK
  <2>3. \A q \in Requests : q # signalling => listed'[q] = listed[q] /\ resolved'[q] = resolved[q]
      BY <1>1, <1>9, <2>1 DEF TakeWaiters, TypeOK
  <2>  QED  BY <2>1, <2>2, <2>3 DEF WaiterKnown
<1>10. ASSUME UNCHANGED <<rpc, cancelled, signalling, wpc, listed, resolved>> PROVE WaiterKnown'
    BY <1>10 DEF WaiterKnown
<1>11. ASSUME NEW h \in Handles, NEW who \in Callers,
              LeaveIntent(h, who) \/ RepeatIntent(h, who) \/ CancelWithoutEffect(h, who) \/ Elapse(h)
       PROVE  WaiterKnown'
    BY <1>10, <1>11 DEF LeaveIntent, RepeatIntent, CancelWithoutEffect, Elapse, waits
<1>12. (\E h \in Handles : Elapse(h)) \/ UNCHANGED vars => WaiterKnown'
    BY <1>10 DEF Elapse, vars, waits
<1>13. ASSUME NEW r \in Requests, RequestStep(r) PROVE WaiterKnown'
    BY <1>3, <1>4, <1>5, <1>6, <1>7, <1>13 DEF RequestStep
<1>14. ASSUME NEW h \in Handles, NEW who \in Callers, CancelStep(h, who) PROVE WaiterKnown'
    BY <1>8, <1>11, <1>14 DEF CancelStep
<1>  QED  BY <1>9, <1>12, <1>13, <1>14 DEF Next

\* Whoever waits for a cancellation that has happened has a resolved future, or
\* the cancel() that set the flag is about to resolve it: the two looks at the
\* flag in wait_cancelled() and the two halves of cancel() leave no gap.  It is
\* the safety half of WaiterWakes.
THEOREM NoWakeUpLost ==
    Spec => [](\A r \in Requests : wpc[r] = "waiting" /\ cancelled[r] =>
                 resolved[r] \/ (listed[r] /\ signalling = r))
<1>  DEFINE Woken == \A r \in Requests : wpc[r] = "waiting" /\ cancelled[r] =>
                       resolved[r] \/ (listed[r] /\ signalling = r)
<1>1. Init => WaiterKnown
    BY DEF Init, WaiterKnown
<1>2. CancelInv /\ WaiterKnown /\ [Next]_vars => WaiterKnown'
    BY WaiterKnownStep
<1>3. WaiterKnown => Woken
    BY DEF WaiterKnown
<1>  QED  BY <1>1, <1>2, <1>3, CancelInvariant, PTL DEF Spec

-----------------------------------------------------------------------------
(* The event bus.                                                          *)

\* The events from Oldest on, and only those, are in the buffer.
Oldest   == sequence + 1 - Len(buffer)
Retained == /\ Len(buffer) <= sequence
            /\ \A i \in 1..Len(buffer) : buffer[i] = Oldest + i - 1

\* How far the client's stream has come: its cursor, or where it began.
Low(c)     == IF cursor[c][1] = epoch THEN cursor[c][2] ELSE since[c]
Current(c) == c \in connected \/ cursor[c][1] = epoch

History(c) ==
    /\ since[c] <= Low(c) /\ Low(c) <= sequence
    /\ \A i, j \in 1..Len(seen[c]) : i < j => seen[c][i] < seen[c][j]
    /\ \A m \in ToSet(seen[c]) : since[c] < m /\ m <= Low(c) /\ topic[m] \in filter[c]
    /\ \A n \in missed[c] : n < Oldest /\ n \notin ToSet(seen[c])
    /\ \A n \in (since[c] + 1)..Low(c) : topic[n] \in filter[c] => n \in missed[c] \cup ToSet(seen[c])

\* A marker is the first frame, and what it reports lost has left the buffer.
Markers(c) ==
    \A i \in 1..Len(queue[c]) :
        /\ i > 1 => queue[c][i].kind = "event"
        /\ queue[c][i].kind = "foreign" => queue[c][i].n = 0
        /\ queue[c][i].kind = "resumed" =>
            /\ cursor[c][1] = epoch
            /\ queue[c][i].n > 0 => cursor[c][2] + queue[c][i].n < Oldest

Backlog(c) ==
    /\ Markers(c)
    /\ \A i, j \in Pending(c) : i < j => queue[c][i].n < queue[c][j].n
    /\ \A i \in Pending(c) : /\ Low(c) < queue[c][i].n /\ queue[c][i].n <= sequence
                             /\ topic[queue[c][i].n] \in filter[c]
                             /\ queue[c][i].n \notin Losses(c)
    /\ \A n \in (Low(c) + 1)..sequence : topic[n] \in filter[c] =>
            n \in Losses(c) \/ \E i \in Pending(c) : queue[c][i].n = n

BusInv ==
    /\ BusTypeOK
    /\ Retained
    /\ \A c \in Clients : cursor[c][1] <= epoch
    /\ \A c \in Clients : Current(c) => History(c)
    /\ \A c \in connected : Backlog(c)

-----------------------------------------------------------------------------
(* Types of what a client keeps.                                           *)

LEMMA ServerTypes ==
    ASSUME BusTypeOK
    PROVE  sequence \in Nat /\ epoch \in Nat /\ Len(buffer) \in Nat /\ Oldest \in Int /\ Oldest <= sequence + 1
<1>1. Len(topic) \in Nat /\ Len(buffer) \in Nat
    BY LenProperties DEF BusTypeOK
<1>  QED  BY <1>1, EventBusAssumption DEF BusTypeOK, sequence, Oldest

LEMMA ServerTypesNext ==
    ASSUME BusTypeOK'
    PROVE  sequence' \in Nat /\ epoch' \in Nat /\ Len(buffer') \in Nat /\ Oldest' \in Int
<1>1. Len(topic') \in Nat /\ Len(buffer') \in Nat
    BY LenProperties DEF BusTypeOK
<1>  QED  BY <1>1, EventBusAssumption DEF BusTypeOK, sequence, Oldest

LEMMA ClientTypes ==
    ASSUME BusTypeOK, NEW c \in Clients
    PROVE  /\ cursor[c][1] \in Nat /\ cursor[c][2] \in Nat /\ since[c] \in Nat /\ Low(c) \in Nat
           /\ Len(queue[c]) \in Nat /\ Len(seen[c]) \in Nat
           /\ \A i \in 1..Len(queue[c]) : queue[c][i].n \in Nat
                                          /\ queue[c][i].kind \in {"event", "resumed", "foreign"}
           /\ \A i \in 1..Len(seen[c]) : seen[c][i] \in Nat
           /\ ToSet(seen[c]) \subseteq Nat /\ missed[c] \subseteq Nat
           /\ Pending(c) \subseteq Nat /\ Pending(c) \subseteq 1..Len(queue[c])
           /\ Losses(c) \subseteq Nat
<1>1. cursor[c] \in (0..MaxEpochs) \X (0..MaxEvents) /\ since[c] \in 0..MaxEvents /\ MaxEvents \in Nat /\ MaxEpochs \in Nat
    BY EventBusAssumption DEF BusTypeOK
<1>2. cursor[c][1] \in Nat /\ cursor[c][2] \in Nat /\ since[c] \in Nat
    BY <1>1
<1>3. queue[c] \in Seq(Items) /\ seen[c] \in Seq(1..MaxEvents) /\ missed[c] \in SUBSET (1..MaxEvents)
    BY DEF BusTypeOK
<1>4. Len(queue[c]) \in Nat /\ Len(seen[c]) \in Nat /\ DOMAIN seen[c] = 1..Len(seen[c])
    BY <1>3, LenProperties
<1>5. \A i \in 1..Len(queue[c]) : queue[c][i].n \in Nat /\ queue[c][i].kind \in {"event", "resumed", "foreign"}
  <2>1. \A i \in 1..Len(queue[c]) : queue[c][i] \in Items
      BY <1>3, ElementOfSeq
  <2>  QED  BY <1>1, <2>1 DEF Items
<1>6. \A i \in 1..Len(seen[c]) : seen[c][i] \in Nat
    BY <1>1, <1>3, ElementOfSeq
<1>7. ToSet(seen[c]) \subseteq Nat /\ missed[c] \subseteq Nat
    BY <1>3, <1>4, <1>6 DEF ToSet
<1>  QED  BY <1>2, <1>4, <1>5, <1>6, <1>7, ServerTypes DEF Low, Pending, Losses

-----------------------------------------------------------------------------
(* What the clients that take no part in a step keep.                      *)

Grows == /\ sequence <= sequence' /\ Oldest <= Oldest' /\ epoch' = epoch
         /\ \A n \in 1..sequence : topic'[n] = topic[n]

LEMMA HistoryFrame ==
    ASSUME BusTypeOK, BusTypeOK', NEW c \in Clients, History(c), Grows,
           filter'[c] = filter[c], cursor'[c] = cursor[c], since'[c] = since[c],
           seen'[c] = seen[c], missed'[c] = missed[c]
    PROVE  History(c)'
<1>1. /\ sequence \in Nat /\ sequence' \in Nat /\ Oldest \in Int /\ Oldest' \in Int
      /\ since[c] \in Nat /\ Low(c) \in Nat /\ ToSet(seen[c]) \subseteq Nat /\ missed[c] \subseteq Nat
    BY ServerTypes, ClientTypes, ServerTypesNext
<1>2. Low(c)' = Low(c) /\ Low(c) <= sequence
    BY DEF Low, Grows, History
<1>3. \A m \in ToSet(seen[c]) : m \in 1..sequence
    BY <1>1, <1>2 DEF History
<1>4. \A n \in (since[c] + 1)..Low(c) : n \in 1..sequence
    BY <1>1, <1>2
<1>5. since'[c] <= Low(c)' /\ Low(c)' <= sequence'
    BY <1>1, <1>2 DEF History, Grows
<1>6. \A m \in ToSet(seen'[c]) : since'[c] < m /\ m <= Low(c)' /\ topic'[m] \in filter'[c]
    BY <1>2, <1>3 DEF History, Grows
<1>7. \A n \in missed'[c] : n < Oldest' /\ n \notin ToSet(seen'[c])
    BY <1>1 DEF History, Grows
<1>8. \A n \in (since'[c] + 1)..Low(c)' : topic'[n] \in filter'[c] => n \in missed'[c] \cup ToSet(seen'[c])
    BY <1>2, <1>4 DEF History, Grows
<1>9. \A i, j \in 1..Len(seen'[c]) : i < j => seen'[c][i] < seen'[c][j]
    BY DEF History
<1>  QED  BY <1>5, <1>6, <1>7, <1>8, <1>9 DEF History

\* The losses of a client that takes no part stay the same: its marker reports
\* only what was lost already.
LEMMA LossesFrame ==
    ASSUME BusTypeOK, BusTypeOK', NEW c \in Clients, Markers(c), Retained, Grows, Low(c) <= sequence,
           cursor'[c] = cursor[c], missed'[c] = missed[c], NEW item \in Items,
           queue'[c] = queue[c] \/ (queue'[c] = Append(queue[c], item) /\ item.kind = "event")
    PROVE  Losses(c)' = Losses(c)
<1>1. /\ sequence \in Nat /\ sequence' \in Nat /\ Oldest \in Int /\ Oldest <= sequence + 1 /\ Len(queue[c]) \in Nat
      /\ cursor[c][1] \in Nat /\ cursor[c][2] \in Nat
      /\ \A i \in 1..Len(queue[c]) : queue[c][i].n \in Nat
    BY ServerTypes, ClientTypes, ServerTypesNext
<1>2. queue[c] \in Seq(Items)
    BY DEF BusTypeOK
<1>3. /\ Append(queue[c], item) \in Seq(Items) /\ Len(Append(queue[c], item)) = Len(queue[c]) + 1
      /\ \A i \in 1..Len(queue[c]) : Append(queue[c], item)[i] = queue[c][i]
      /\ Append(queue[c], item)[Len(queue[c]) + 1] = item
    BY <1>2, AppendProperties
<1>4. /\ Len(queue'[c]) \in Nat /\ Len(queue[c]) <= Len(queue'[c])
      /\ \A i \in 1..Len(queue[c]) : queue'[c][i] = queue[c][i]
      /\ \A i \in 1..Len(queue'[c]) : i \in 1..Len(queue[c]) \/ queue'[c][i].kind = "event"
  <2>1. CASE queue'[c] = queue[c]
      BY <1>1, <2>1
  <2>2. CASE queue'[c] = Append(queue[c], item) /\ item.kind = "event"
      BY <1>1, <1>3, <2>2
  <2>  QED  BY <2>1, <2>2
<1>  DEFINE Gap(n) == \E i \in 1..Len(queue[c]) :
                        /\ queue[c][i].kind = "resumed"
                        /\ n > cursor[c][2] /\ n <= cursor[c][2] + queue[c][i].n
                        /\ cursor[c][1] = epoch
            Gap2(n) == \E i \in 1..Len(queue'[c]) :
                        /\ queue'[c][i].kind = "resumed"
                        /\ n > cursor'[c][2] /\ n <= cursor'[c][2] + queue'[c][i].n
                        /\ cursor'[c][1] = epoch'
<1>5. \A n : Gap2(n) <=> Gap(n)
  <2>1. ASSUME NEW n, Gap2(n) PROVE Gap(n)
    <3>1. PICK i \in 1..Len(queue'[c]) :
                /\ queue'[c][i].kind = "resumed"
                /\ n > cursor'[c][2] /\ n <= cursor'[c][2] + queue'[c][i].n
                /\ cursor'[c][1] = epoch'
        BY <2>1
    <3>2. i \in 1..Len(queue[c]) /\ queue'[c][i] = queue[c][i]
        BY <1>4, <3>1
    <3>  QED  BY <3>1, <3>2 DEF Grows
  <2>2. ASSUME NEW n, Gap(n) PROVE Gap2(n)
    <3>1. PICK i \in 1..Len(queue[c]) :
                /\ queue[c][i].kind = "resumed"
                /\ n > cursor[c][2] /\ n <= cursor[c][2] + queue[c][i].n
                /\ cursor[c][1] = epoch
        BY <2>2
    <3>2. i \in 1..Len(queue'[c]) /\ queue'[c][i] = queue[c][i]
        BY <1>1, <1>4, <3>1
    <3>  QED  BY <3>1, <3>2 DEF Grows
  <2>  QED  BY <2>1, <2>2
<1>6. \A n \in Nat : Gap(n) => n <= sequence
  <2>  SUFFICES ASSUME NEW n \in Nat, NEW i \in 1..Len(queue[c]), queue[c][i].kind = "resumed",
                       n > cursor[c][2], n <= cursor[c][2] + queue[c][i].n
                PROVE  n <= sequence
      OBVIOUS
  <2>1. queue[c][i].n > 0 /\ cursor[c][2] + queue[c][i].n < Oldest
      BY <1>1 DEF Markers
  <2>  QED  BY <1>1, <2>1
<1>7. Losses(c) = missed[c] \cup {n \in 1..sequence : Gap(n)} /\ Losses(c)' = missed'[c] \cup {n \in 1..sequence' : Gap2(n)}
    BY DEF Losses
<1>  HIDE DEF Gap, Gap2
<1>8. {n \in 1..sequence' : Gap2(n)} = {n \in 1..sequence : Gap(n)}
    BY <1>1, <1>5, <1>6 DEF Grows
<1>  QED  BY <1>7, <1>8

\* A client whose queue is not touched: what is published does not match.
LEMMA BacklogFrame ==
    ASSUME BusTypeOK, BusTypeOK', NEW c \in Clients, History(c), Backlog(c), Retained, Grows,
           filter'[c] = filter[c], cursor'[c] = cursor[c], since'[c] = since[c],
           missed'[c] = missed[c], queue'[c] = queue[c],
           \A n \in (sequence + 1)..sequence' : topic'[n] \notin filter[c]
    PROVE  Backlog(c)'
<1>1. /\ sequence \in Nat /\ sequence' \in Nat /\ Oldest \in Int /\ Oldest' \in Int /\ Low(c) \in Nat
      /\ cursor[c][1] \in Nat /\ cursor[c][2] \in Nat /\ Pending(c) \subseteq 1..Len(queue[c])
      /\ \A i \in 1..Len(queue[c]) : queue[c][i].n \in Nat
    BY ServerTypes, ClientTypes, ServerTypesNext
<1>2. Low(c)' = Low(c) /\ Low(c) <= sequence
    BY DEF Low, Grows, History
<1>3. Losses(c)' = Losses(c)
  <2>1. Event(0) \in Items
      BY EventBusAssumption DEF Event, Items
  <2>  QED  BY <1>2, <2>1, LossesFrame DEF Backlog
<1>4. Pending(c)' = Pending(c)
    BY DEF Pending
<1>5. Markers(c)'
    BY <1>1 DEF Backlog, Markers, Grows
<1>6. \A i \in Pending(c) : queue[c][i].n \in 1..sequence
    BY <1>1, <1>2 DEF Backlog
<1>7. \A i, j \in Pending(c)' : i < j => queue'[c][i].n < queue'[c][j].n
    BY <1>4 DEF Backlog
<1>8. \A i \in Pending(c)' : /\ Low(c)' < queue'[c][i].n /\ queue'[c][i].n <= sequence'
                             /\ topic'[queue'[c][i].n] \in filter'[c]
                             /\ queue'[c][i].n \notin Losses(c)'
    BY <1>1, <1>2, <1>3, <1>4, <1>6 DEF Backlog, Grows
<1>9. ASSUME NEW n \in (Low(c)' + 1)..sequence', topic'[n] \in filter'[c]
      PROVE  n \in Losses(c)' \/ \E i \in Pending(c)' : queue'[c][i].n = n
  <2>1. n \in (Low(c) + 1)..sequence /\ n \in 1..sequence
      BY <1>1, <1>2, <1>9
  <2>  QED  BY <1>3, <1>4, <1>9, <2>1 DEF Backlog, Grows
<1>  QED  BY <1>5, <1>7, <1>8, <1>9 DEF Backlog

\* A client in whose queue the new event is put.
LEMMA BacklogMatch ==
    ASSUME BusTypeOK, BusTypeOK', NEW c \in Clients, History(c), Backlog(c), Retained, Grows,
           filter'[c] = filter[c], cursor'[c] = cursor[c], since'[c] = since[c], missed'[c] = missed[c],
           sequence' = sequence + 1, topic'[sequence + 1] \in filter[c],
           queue'[c] = Append(queue[c], Event(sequence + 1))
    PROVE  Backlog(c)'
<1>1. /\ sequence \in Nat /\ sequence' \in Nat /\ Oldest \in Int /\ Oldest' \in Int /\ Low(c) \in Nat
      /\ Oldest <= sequence + 1
      /\ cursor[c][1] \in Nat /\ cursor[c][2] \in Nat /\ Pending(c) \subseteq 1..Len(queue[c])
      /\ \A i \in 1..Len(queue[c]) : queue[c][i].n \in Nat
      /\ Len(queue[c]) \in Nat
    BY ServerTypes, ClientTypes, ServerTypesNext
<1>2. Low(c)' = Low(c) /\ Low(c) <= sequence
    BY DEF Low, Grows, History
<1>3. Event(sequence + 1) \in Items /\ Event(sequence + 1).kind = "event" /\ Event(sequence + 1).n = sequence + 1
  <2>1. sequence' <= MaxEvents
      BY DEF BusTypeOK, sequence
  <2>  QED  BY <1>1, <2>1, EventBusAssumption DEF Items, Event
<1>  DEFINE N == Len(queue[c])
<1>4. /\ Len(queue'[c]) = N + 1 /\ queue'[c][N + 1] = Event(sequence + 1)
      /\ \A i \in 1..N : queue'[c][i] = queue[c][i]
    BY <1>3, AppendProperties DEF BusTypeOK
<1>5. Losses(c)' = Losses(c) /\ \A n \in Losses(c) : n < sequence + 1
  <2>1. Losses(c)' = Losses(c)
      BY <1>2, <1>3, LossesFrame DEF Backlog
  <2>2. \A n \in missed[c] : n < Oldest /\ n \in Nat
      BY ClientTypes DEF History
  <2>3. Losses(c) \subseteq missed[c] \cup (1..sequence)
      BY DEF Losses
  <2>4. \A n \in missed[c] \cup (1..sequence) : n < sequence + 1
      BY <1>1, <2>2
  <2>  QED  BY <2>1, <2>3, <2>4
<1>6. Pending(c)' = Pending(c) \cup {N + 1}
    BY <1>1, <1>3, <1>4 DEF Pending
<1>7. Markers(c)'
  <2>1. ASSUME NEW i \in 1..(N + 1)
        PROVE  /\ i > 1 => queue'[c][i].kind = "event"
               /\ queue'[c][i].kind = "foreign" => queue'[c][i].n = 0
               /\ queue'[c][i].kind = "resumed" =>
                    /\ cursor'[c][1] = epoch'
                    /\ queue'[c][i].n > 0 => cursor'[c][2] + queue'[c][i].n < Oldest'
    <3>1. CASE i = N + 1
        BY <1>3, <1>4, <3>1
    <3>2. CASE i \in 1..N
        BY <1>1, <1>4, <3>2 DEF Backlog, Markers, Grows
    <3>  QED  BY <1>1, <2>1, <3>1, <3>2
  <2>  QED  BY <1>4, <2>1 DEF Markers
<1>8. \A i \in Pending(c) : queue'[c][i] = queue[c][i] /\ queue[c][i].n \in 1..sequence
    BY <1>1, <1>2, <1>4 DEF Backlog
<1>  HIDE DEF N
<1>9. \A i, j \in Pending(c)' : i < j => queue'[c][i].n < queue'[c][j].n
  <2>1. N = Len(queue[c])
      BY DEF N
  <2>  QED  BY <1>1, <1>3, <1>4, <1>6, <1>8, <2>1 DEF Backlog
<1>10. \A i \in Pending(c)' : /\ Low(c)' < queue'[c][i].n /\ queue'[c][i].n <= sequence'
                              /\ topic'[queue'[c][i].n] \in filter'[c]
                              /\ queue'[c][i].n \notin Losses(c)'
  <2>1. ASSUME NEW i \in Pending(c)
        PROVE  /\ Low(c)' < queue'[c][i].n /\ queue'[c][i].n <= sequence'
               /\ topic'[queue'[c][i].n] \in filter'[c]
               /\ queue'[c][i].n \notin Losses(c)'
      BY <1>1, <1>2, <1>5, <1>8 DEF Backlog, Grows
  <2>2. /\ Low(c)' < queue'[c][N + 1].n /\ queue'[c][N + 1].n <= sequence'
        /\ topic'[queue'[c][N + 1].n] \in filter'[c]
        /\ queue'[c][N + 1].n \notin Losses(c)'
      BY <1>1, <1>2, <1>3, <1>4, <1>5
  <2>  QED  BY <1>6, <2>1, <2>2
<1>11. ASSUME NEW n \in (Low(c)' + 1)..sequence', topic'[n] \in filter'[c]
       PROVE  n \in Losses(c)' \/ \E i \in Pending(c)' : queue'[c][i].n = n
  <2>1. CASE n = sequence + 1
      BY <1>3, <1>4, <1>6, <2>1
  <2>2. CASE n # sequence + 1
    <3>1. n \in (Low(c) + 1)..sequence /\ n \in 1..sequence
        BY <1>1, <1>2, <1>11, <2>2
    <3>2. n \in Losses(c) \/ \E i \in Pending(c) : queue[c][i].n = n
        BY <1>11, <3>1 DEF Backlog, Grows
    <3>  QED  BY <1>5, <1>6, <1>8, <3>2
  <2>  QED  BY <2>1, <2>2
<1>  QED  BY <1>7, <1>9, <1>10, <1>11 DEF Backlog

-----------------------------------------------------------------------------
(* Publishing.                                                             *)

\* One more event is stamped; the buffer keeps the last events, without a gap.
LEMMA StampedServer ==
    ASSUME BusTypeOK, Retained, NEW t \in Topics, Stamped(t)
    PROVE  /\ topic' \in Seq(Topics) /\ sequence' = sequence + 1 /\ sequence' <= MaxEvents
           /\ topic'[sequence + 1] = t /\ \A n \in 1..sequence : topic'[n] = topic[n]
           /\ buffer' \in Seq(1..MaxEvents) /\ Len(buffer') <= size
           /\ Oldest <= Oldest' /\ Retained'
<1>  DEFINE n == sequence + 1
            b == Append(buffer, n)
            L == Len(buffer)
<1>1. sequence \in Nat /\ L \in Nat /\ size \in Nat /\ MaxEvents \in Nat /\ sequence < MaxEvents
    BY ServerTypes, EventBusAssumption DEF BusTypeOK, Stamped
<1>2. /\ topic' \in Seq(Topics) /\ sequence' = sequence + 1
      /\ topic'[sequence + 1] = t /\ \A k \in 1..sequence : topic'[k] = topic[k]
    BY AppendProperties DEF Stamped, BusTypeOK, sequence
<1>3. buffer \in Seq(1..MaxEvents) /\ n \in 1..MaxEvents /\ L <= size /\ L <= sequence
    BY <1>1 DEF BusTypeOK, Retained
<1>4. /\ b \in Seq(1..MaxEvents) /\ Len(b) = L + 1 /\ b[L + 1] = n
      /\ \A i \in 1..L : b[i] = buffer[i]
    BY <1>3, AppendProperties
<1>5. /\ buffer' = IF Len(b) > size THEN Tail(b) ELSE b
    BY DEF Stamped, Retain
<1>6. \A i \in 1..L : buffer[i] = sequence + 1 - L + i - 1
    BY DEF Retained, Oldest
<1>7. \A i \in 1..(L + 1) : b[i] = n - L + i - 1
  <2>1. ASSUME NEW i \in 1..(L + 1) PROVE b[i] = n - L + i - 1
    <3>1. CASE i = L + 1
        BY <1>1, <1>4, <3>1
    <3>2. CASE i \in 1..L
        BY <1>1, <1>4, <1>6, <3>2
    <3>  QED  BY <1>1, <2>1, <3>1, <3>2
  <2>  QED  BY <2>1
<1>8. b # <<>>
    BY <1>1, <1>4
<1>9. /\ Tail(b) \in Seq(1..MaxEvents) /\ Len(Tail(b)) = L
      /\ \A i \in 1..L : Tail(b)[i] = b[i + 1]
    BY <1>1, <1>4, <1>8, HeadTailProperties
<1>10. Oldest = n - L /\ Oldest' = sequence' + 1 - Len(buffer') /\ sequence' = n
    BY <1>1, <1>2 DEF Oldest
<1>  HIDE DEF n, b, L
<1>11. n \in Nat /\ n = sequence + 1 /\ L = Len(buffer)
    BY <1>1 DEF n, L
<1>12. CASE L + 1 > size
  <2>1. buffer' = Tail(b) /\ Len(buffer') = L
      BY <1>4, <1>5, <1>9, <1>12
  <2>2. \A i \in 1..L : buffer'[i] = n - L + i
      BY <1>1, <1>7, <1>9, <1>11, <2>1
  <2>3. Oldest' = n + 1 - L
      BY <1>10, <2>1
  <2>4. Retained'
    <3>1. Len(buffer') <= sequence'
        BY <1>1, <1>3, <1>10, <1>11, <2>1
    <3>2. \A i \in 1..Len(buffer') : buffer'[i] = Oldest' + i - 1
      <4>1. ASSUME NEW i \in 1..L PROVE buffer'[i] = Oldest' + i - 1
        <5>1. buffer'[i] = n - L + i /\ i \in Int /\ L \in Int /\ n \in Int
            BY <1>1, <1>11, <2>2, <4>1
        <5>2. n + 1 - L + i - 1 = n - L + i
            BY <5>1
        <5>  QED  BY <2>3, <5>1, <5>2
      <4>  QED  BY <2>1, <4>1
    <3>  QED  BY <3>1, <3>2 DEF Retained
  <2>  QED  BY <1>1, <1>2, <1>3, <1>9, <1>10, <1>11, <2>1, <2>3, <2>4
<1>13. CASE ~(L + 1 > size)
  <2>1. buffer' = b /\ Len(buffer') = L + 1
      BY <1>4, <1>5, <1>13
  <2>2. Oldest' = n - L
      BY <1>1, <1>10, <1>11, <2>1
  <2>3. Retained'
      BY <1>1, <1>3, <1>7, <1>10, <1>11, <2>1, <2>2 DEF Retained
  <2>  QED  BY <1>1, <1>2, <1>3, <1>4, <1>10, <1>11, <1>13, <2>1, <2>2, <2>3
<1>  QED  BY <1>12, <1>13

LEMMA PublishInv ==
    ASSUME BusInv, NEW t \in Topics, Stamped(t), handoff' \in Seq(Topics), attached' \in BOOLEAN,
           UNCHANGED <<epoch, size, connected, filter, cursor, since, seen, missed>>
    PROVE  BusInv'
<1>1. BusTypeOK /\ Retained
    BY DEF BusInv
<1>2. /\ topic' \in Seq(Topics) /\ sequence' = sequence + 1 /\ sequence' <= MaxEvents
      /\ topic'[sequence + 1] = t /\ \A n \in 1..sequence : topic'[n] = topic[n]
      /\ buffer' \in Seq(1..MaxEvents) /\ Len(buffer') <= size
      /\ Oldest <= Oldest' /\ Retained'
    BY <1>1, StampedServer
<1>3. sequence \in Nat
    BY <1>1, ServerTypes
<1>4. Event(sequence + 1) \in Items
    BY <1>2, <1>3, EventBusAssumption DEF Event, Items
<1>5. \A c \in Clients : queue'[c] = IF c \in connected /\ t \in filter[c]
                                     THEN Append(queue[c], Event(sequence + 1)) ELSE queue[c]
    BY DEF Stamped, Matching
<1>6. queue' \in [Clients -> Seq(Items)]
  <2>1. ASSUME NEW c \in Clients PROVE queue'[c] \in Seq(Items)
    <3>1. queue[c] \in Seq(Items)
        BY <1>1 DEF BusTypeOK
    <3>2. Append(queue[c], Event(sequence + 1)) \in Seq(Items)
        BY <1>4, <3>1, AppendProperties
    <3>  QED  BY <1>5, <3>1, <3>2
  <2>2. queue' = [c \in Clients |-> queue'[c]]
      BY DEF Stamped
  <2>  QED  BY <2>1, <2>2
<1>7. BusTypeOK'
    BY <1>1, <1>2, <1>6 DEF BusTypeOK, sequence
<1>8. Grows
    BY <1>2, <1>3 DEF Grows
<1>9. \A c \in Clients : Current(c)' => History(c)'
  <2>1. ASSUME NEW c \in Clients, Current(c)' PROVE History(c)'
    <3>1. Current(c)
        BY <2>1 DEF Current
    <3>  QED  BY <1>1, <1>7, <1>8, <3>1, HistoryFrame DEF BusInv
  <2>  QED  BY <2>1
<1>10. \A c \in connected' : Backlog(c)'
  <2>1. ASSUME NEW c \in connected PROVE Backlog(c)'
    <3>1. c \in Clients /\ History(c) /\ Backlog(c)
        BY <1>1 DEF BusInv, Current, BusTypeOK
    <3>2. CASE t \in filter[c]
        BY <1>1, <1>2, <1>5, <1>7, <1>8, <3>1, <3>2, BacklogMatch
    <3>3. CASE t \notin filter[c]
      <4>1. \A n \in (sequence + 1)..sequence' : topic'[n] \notin filter[c]
          BY <1>2, <1>3, <3>3
      <4>  QED  BY <1>1, <1>5, <1>7, <1>8, <3>1, <3>3, <4>1, BacklogFrame
    <3>  QED  BY <3>2, <3>3
  <2>  QED  BY <2>1
<1>  QED  BY <1>2, <1>7, <1>9, <1>10 DEF BusInv

-----------------------------------------------------------------------------
(* Steps of one client.                                                    *)

Untouched(d) ==
    /\ filter'[d] = filter[d] /\ queue'[d] = queue[d] /\ cursor'[d] = cursor[d]
    /\ since'[d] = since[d] /\ seen'[d] = seen[d] /\ missed'[d] = missed[d]
    /\ d \in connected' <=> d \in connected

\* Only the client that moves has to be looked at.
LEMMA OneClient ==
    ASSUME BusInv, BusTypeOK', UNCHANGED <<epoch, topic, buffer>>, NEW c,
           \A d \in Clients : d # c => Untouched(d),
           c \in Clients => /\ cursor'[c][1] <= epoch
                            /\ Current(c)' => History(c)'
                            /\ c \in connected' => Backlog(c)'
    PROVE  BusInv'
<1>1. BusTypeOK /\ Retained /\ sequence \in Nat /\ Oldest \in Int
    BY ServerTypes DEF BusInv
<1>2. sequence' = sequence /\ Oldest' = Oldest
    BY DEF sequence, Oldest
<1>3. Grows
    BY <1>1, <1>2 DEF Grows
<1>4. Retained'
    BY <1>1, <1>2 DEF Retained
<1>5. \A n \in (sequence + 1)..sequence' : FALSE
    BY <1>1, <1>2
<1>6. ASSUME NEW d \in Clients, d # c
      PROVE  cursor'[d][1] <= epoch' /\ (Current(d)' => History(d)') /\ (d \in connected' => Backlog(d)')
  <2>1. Untouched(d)
      BY <1>6
  <2>2. cursor'[d][1] <= epoch'
      BY <2>1 DEF Untouched, BusInv
  <2>3. Current(d)' => Current(d) /\ History(d)
      BY <2>1 DEF Untouched, Current, BusInv
  <2>4. Current(d)' => History(d)'
      BY <1>1, <1>3, <2>1, <2>3, HistoryFrame DEF Untouched
  <2>5. ASSUME d \in connected' PROVE Backlog(d)'
    <3>1. Backlog(d) /\ History(d)
        BY <2>1, <2>5 DEF Untouched, BusInv, Current
    <3>  QED  BY <1>1, <1>3, <1>5, <2>1, <3>1, BacklogFrame DEF Untouched
  <2>  QED  BY <2>2, <2>4, <2>5
<1>7. \A d \in Clients : cursor'[d][1] <= epoch' /\ (Current(d)' => History(d)')
    BY <1>6
<1>8. \A d \in connected' : Backlog(d)'
  <2>1. connected' \subseteq Clients
      BY DEF BusTypeOK
  <2>  QED  BY <1>6, <2>1
<1>  QED  BY <1>4, <1>7, <1>8 DEF BusInv

\* A stream that starts here: nothing before it counts, and nothing is queued
\* but at most a marker.
LEMMA StartsHere ==
    ASSUME BusTypeOK, BusTypeOK', NEW c \in Clients, UNCHANGED <<epoch, topic, buffer>>,
           cursor'[c][1] # epoch, since'[c] = sequence, seen'[c] = <<>>, missed'[c] = {},
           queue'[c] = <<>> \/ queue'[c] = <<ResumedForeign>>
    PROVE  History(c)' /\ Backlog(c)'
<1>1. sequence \in Nat /\ sequence' = sequence /\ Low(c)' = sequence
    BY ServerTypes DEF sequence, Low
<1>2. ToSet(seen'[c]) = {} /\ Len(seen'[c]) = 0
    BY DEF ToSet
<1>3. \A i \in 1..Len(queue'[c]) : i = 1 /\ queue'[c][i] = ResumedForeign
  <2>1. CASE queue'[c] = <<>>
      BY <2>1
  <2>2. CASE queue'[c] = <<ResumedForeign>>
    <3>1. Len(queue'[c]) = 1 /\ queue'[c][1] = ResumedForeign
        BY <2>2
    <3>  QED  BY <3>1
  <2>  QED  BY <2>1, <2>2
<1>4. ResumedForeign.kind = "foreign" /\ ResumedForeign.n = 0
    BY DEF ResumedForeign
<1>5. Pending(c)' = {} /\ Markers(c)' /\ Losses(c)' = {}
    BY <1>3, <1>4 DEF Pending, Markers, Losses
<1>6. History(c)'
    BY <1>1, <1>2 DEF History
<1>7. Backlog(c)'
    BY <1>1, <1>5 DEF Backlog
<1>  QED  BY <1>6, <1>7

LEMMA SubscribeInv ==
    ASSUME BusInv, NEW c \in Clients, NEW f \in SUBSET Topics, Subscribe(c, f)
    PROVE  BusInv'
<1>1. BusTypeOK /\ sequence \in 0..MaxEvents
    BY ServerTypes DEF BusInv, BusTypeOK, sequence
<1>2. /\ connected' = connected \cup {c}
      /\ filter' = [filter EXCEPT ![c] = f] /\ queue' = [queue EXCEPT ![c] = <<>>]
      /\ cursor' = [cursor EXCEPT ![c] = NoCursor] /\ since' = [since EXCEPT ![c] = sequence]
      /\ seen' = [seen EXCEPT ![c] = <<>>] /\ missed' = [missed EXCEPT ![c] = {}]
      /\ attached' = TRUE
      /\ UNCHANGED <<epoch, topic, size, buffer, handoff>>
    BY DEF Subscribe
<1>3. NoCursor \in (0..MaxEpochs) \X (0..MaxEvents) /\ NoCursor[1] = 0
    BY EventBusAssumption DEF NoCursor
<1>4. BusTypeOK'
    BY <1>1, <1>2, <1>3, EmptySeq DEF BusTypeOK
<1>5. \A d \in Clients : d # c => Untouched(d)
    BY <1>1, <1>2 DEF BusTypeOK, Untouched
<1>6. /\ cursor'[c] = NoCursor /\ since'[c] = sequence /\ seen'[c] = <<>> /\ missed'[c] = {} /\ queue'[c] = <<>>
    BY <1>1, <1>2 DEF BusTypeOK
<1>7. cursor'[c][1] # epoch /\ cursor'[c][1] <= epoch
    BY <1>1, <1>3, <1>6, EventBusAssumption DEF BusTypeOK
<1>8. History(c)' /\ Backlog(c)'
    BY <1>1, <1>2, <1>4, <1>6, <1>7, StartsHere
<1>  QED  BY <1>2, <1>4, <1>5, <1>7, <1>8, OneClient

LEMMA ResumeForeignInv ==
    ASSUME BusInv, NEW c \in Clients, ResumeForeign(c)
    PROVE  BusInv'
<1>1. BusTypeOK /\ sequence \in 0..MaxEvents
    BY ServerTypes DEF BusInv, BusTypeOK, sequence
<1>2. /\ cursor[c][1] # epoch /\ connected' = connected \cup {c}
      /\ queue' = [queue EXCEPT ![c] = <<ResumedForeign>>]
      /\ since' = [since EXCEPT ![c] = sequence]
      /\ seen' = [seen EXCEPT ![c] = <<>>] /\ missed' = [missed EXCEPT ![c] = {}]
      /\ attached' = TRUE
      /\ UNCHANGED <<epoch, topic, size, buffer, handoff, filter, cursor>>
    BY DEF ResumeForeign
<1>3. <<ResumedForeign>> \in Seq(Items)
  <2>1. ResumedForeign \in Items
      BY EventBusAssumption DEF ResumedForeign, Items
  <2>  QED  BY <2>1
<1>4. BusTypeOK'
    BY <1>1, <1>2, <1>3, EmptySeq DEF BusTypeOK
<1>5. \A d \in Clients : d # c => Untouched(d)
    BY <1>1, <1>2 DEF BusTypeOK, Untouched
<1>6. /\ since'[c] = sequence /\ seen'[c] = <<>> /\ missed'[c] = {} /\ queue'[c] = <<ResumedForeign>>
      /\ cursor'[c] = cursor[c]
    BY <1>1, <1>2 DEF BusTypeOK
<1>7. cursor'[c][1] # epoch /\ cursor'[c][1] <= epoch
    BY <1>2, <1>6 DEF BusInv
<1>8. History(c)' /\ Backlog(c)'
    BY <1>1, <1>2, <1>4, <1>6, <1>7, StartsHere
<1>  QED  BY <1>2, <1>4, <1>5, <1>7, <1>8, OneClient

LEMMA UnsubscribeInv ==
    ASSUME BusInv, NEW c \in Clients, Unsubscribe(c)
    PROVE  BusInv'
<1>1. BusTypeOK
    BY DEF BusInv
<1>2. /\ connected' = connected \ {c} /\ queue' = [queue EXCEPT ![c] = <<>>]
      /\ UNCHANGED <<epoch, attached, topic, size, buffer, handoff, filter, cursor, since, seen, missed>>
    BY DEF Unsubscribe, server
<1>3. BusTypeOK'
    BY <1>1, <1>2, EmptySeq DEF BusTypeOK
<1>4. \A d \in Clients : d # c => Untouched(d)
    BY <1>1, <1>2 DEF BusTypeOK, Untouched
<1>5. sequence' = sequence /\ Oldest' = Oldest /\ sequence \in Nat /\ Oldest \in Int
    BY <1>1, <1>2, ServerTypes DEF sequence, Oldest
<1>6. Grows
    BY <1>2, <1>5 DEF Grows
<1>7. Current(c)' => History(c)'
  <2>1. Current(c)' => History(c)
      BY <1>2 DEF Current, BusInv
  <2>  QED  BY <1>1, <1>2, <1>3, <1>6, <2>1, HistoryFrame
<1>8. cursor'[c][1] <= epoch /\ c \notin connected'
    BY <1>2 DEF BusInv
<1>  QED  BY <1>2, <1>3, <1>4, <1>7, <1>8, OneClient

-----------------------------------------------------------------------------
(* Resuming.                                                               *)

\* The replay: the retained events after the cursor that the filter admits,
\* each once and in order.
LEMMA ReplayFacts ==
    ASSUME BusTypeOK, Retained, NEW c \in Clients, NEW s \in Nat
    PROVE  LET r == Replay(c, s) IN
           /\ r \in Seq(1..MaxEvents) /\ Len(r) \in Nat
           /\ \A k, l \in 1..Len(r) : k < l => r[k] < r[l]
           /\ \A k \in 1..Len(r) : /\ r[k] \in Nat /\ r[k] > s /\ r[k] <= sequence /\ r[k] >= Oldest
                                   /\ topic[r[k]] \in filter[c]
           /\ \A n \in Oldest..sequence :
                n \in Nat /\ n > s /\ topic[n] \in filter[c] => \E k \in 1..Len(r) : r[k] = n
<1>  DEFINE A == {n \in 1..sequence : n > s /\ topic[n] \in filter[c]}
            r == Filter(buffer, A)
<1>1. sequence \in Nat /\ Len(buffer) \in Nat /\ Oldest \in Int /\ Len(buffer) <= sequence /\ Oldest + Len(buffer) = sequence + 1
    BY ServerTypes DEF Retained, Oldest
<1>2. buffer \in Seq(1..MaxEvents)
    BY DEF BusTypeOK
<1>3. r \in Seq(1..MaxEvents) /\ Kept(r, buffer, A, Len(buffer))
    BY <1>2, FilterKept
<1>4. Len(r) \in Nat
    BY <1>3, LenProperties
<1>5. PICK e : Places(e, r, buffer, A, Len(buffer))
    BY <1>3 DEF Kept
<1>  HIDE DEF A, r
<1>6. \A i \in 1..Len(buffer) : buffer[i] = Oldest + i - 1
    BY DEF Retained
<1>7. \A k \in 1..Len(r) : e[k] \in 1..Len(buffer) /\ r[k] = Oldest + e[k] - 1 /\ r[k] \in A
    BY <1>5, <1>6 DEF Places
<1>8. \A k, l \in 1..Len(r) : k < l => r[k] < r[l]
  <2>1. ASSUME NEW k \in 1..Len(r), NEW l \in 1..Len(r), k < l PROVE r[k] < r[l]
    <3>1. e[k] < e[l] /\ e[k] \in Int /\ e[l] \in Int
        BY <1>5, <1>7, <2>1 DEF Places
    <3>  QED  BY <1>1, <1>7, <3>1
  <2>  QED  BY <2>1
<1>9. \A k \in 1..Len(r) : /\ r[k] \in Nat /\ r[k] > s /\ r[k] <= sequence /\ r[k] >= Oldest
                           /\ topic[r[k]] \in filter[c]
  <2>1. ASSUME NEW k \in 1..Len(r)
        PROVE  /\ r[k] \in Nat /\ r[k] > s /\ r[k] <= sequence /\ r[k] >= Oldest
               /\ topic[r[k]] \in filter[c]
    <3>1. r[k] \in A /\ e[k] \in 1..Len(buffer) /\ r[k] = Oldest + e[k] - 1
        BY <1>7
    <3>2. r[k] \in 1..sequence /\ r[k] > s /\ topic[r[k]] \in filter[c]
        BY <3>1 DEF A
    <3>3. r[k] >= Oldest
        BY <1>1, <3>1
    <3>  QED  BY <1>1, <3>2, <3>3
  <2>  QED  BY <2>1
<1>10. ASSUME NEW n \in Oldest..sequence, n \in Nat, n > s, topic[n] \in filter[c]
       PROVE  \E k \in 1..Len(r) : r[k] = n
  <2>  DEFINE j == n - Oldest + 1
  <2>1. j \in 1..Len(buffer) /\ Oldest + j - 1 = n
      BY <1>1, <1>10
  <2>2. n \in A
      BY <1>1, <1>10 DEF A
  <2>  HIDE DEF j
  <2>3. buffer[j] = n
      BY <1>6, <2>1
  <2>4. PICK k \in 1..Len(r) : e[k] = j
      BY <1>5, <2>1, <2>2, <2>3 DEF Places
  <2>  QED  BY <1>7, <2>1, <2>4
<1>  QED  BY <1>3, <1>4, <1>8, <1>9, <1>10 DEF Replay, r, A

LEMMA LostFacts ==
    ASSUME BusTypeOK, Retained, NEW s \in Nat, s <= sequence
    PROVE  /\ Lost(s) \in Nat /\ Lost(s) <= sequence
           /\ Oldest > s + 1 => s + Lost(s) = Oldest - 1
           /\ ~(Oldest > s + 1) => Lost(s) = 0
<1>1. sequence \in Nat /\ Len(buffer) \in Nat /\ Oldest \in Int /\ Oldest <= sequence + 1
    BY ServerTypes
<1>2. OldestRetained = Oldest
  <2>1. CASE buffer = <<>>
      BY <1>1, <2>1 DEF OldestRetained, Oldest
  <2>2. CASE buffer # <<>>
    <3>1. Len(buffer) \in Nat \ {0} /\ Head(buffer) = buffer[1]
        BY <2>2, EmptySeq, HeadTailProperties DEF BusTypeOK
    <3>2. buffer[1] = Oldest + 1 - 1
        BY <3>1 DEF Retained
    <3>  QED  BY <1>1, <2>2, <3>1, <3>2 DEF OldestRetained
  <2>  QED  BY <2>1, <2>2
<1>3. Lost(s) = IF Oldest - s - 1 > 0 THEN Oldest - s - 1 ELSE 0
    BY <1>2 DEF Lost
<1>  QED  BY <1>1, <1>3

\* The marker and the replay cover everything after the cursor.
LEMMA ResumeBacklog ==
    ASSUME BusTypeOK, BusTypeOK', Retained, NEW c \in Clients, History(c), cursor[c][1] = epoch, Resume(c)
    PROVE  Backlog(c)'
<1>  DEFINE s == cursor[c][2]
            r == Replay(c, s)
            m == Resumed(Lost(s))
            q == [i \in 1..Len(r) |-> Event(r[i])]
            N == Len(r)
<1>1. /\ s \in Nat /\ s <= sequence /\ sequence \in Nat /\ Oldest \in Int
      /\ missed[c] \subseteq Nat /\ \A n \in missed[c] : n < Oldest
    BY ServerTypes, ClientTypes DEF Resume, History
<1>2. /\ Lost(s) \in Nat /\ Lost(s) <= sequence
      /\ Oldest > s + 1 => s + Lost(s) = Oldest - 1
      /\ ~(Oldest > s + 1) => Lost(s) = 0
    BY <1>1, LostFacts
<1>3. /\ r \in Seq(1..MaxEvents) /\ N \in Nat
      /\ \A k, l \in 1..N : k < l => r[k] < r[l]
      /\ \A k \in 1..N : /\ r[k] \in Nat /\ r[k] > s /\ r[k] <= sequence /\ r[k] >= Oldest
                         /\ topic[r[k]] \in filter[c]
      /\ \A n \in Oldest..sequence :
            n \in Nat /\ n > s /\ topic[n] \in filter[c] => \E k \in 1..N : r[k] = n
    BY <1>1, ReplayFacts
<1>4. /\ queue'[c] = <<m>> \o q
      /\ sequence' = sequence /\ Oldest' = Oldest /\ Low(c)' = s /\ filter'[c] = filter[c] /\ topic' = topic
      /\ cursor'[c][1] = epoch' /\ cursor'[c][2] = s /\ missed'[c] = missed[c]
    BY DEF Resume, BusTypeOK, sequence, Oldest, Low
<1>5. /\ Len(queue'[c]) = N + 1 /\ queue'[c][1] = m
      /\ \A k \in 1..N : queue'[c][k + 1] = Event(r[k])
  <2>1. q \in Seq({Event(n) : n \in Nat}) /\ Len(q) = N /\ \A k \in 1..N : q[k] = Event(r[k])
      BY <1>3
  <2>2. <<m>> \in Seq({m} \cup {Event(n) : n \in Nat}) /\ q \in Seq({m} \cup {Event(n) : n \in Nat})
        /\ Len(<<m>>) = 1 /\ <<m>>[1] = m
      BY <2>1, SeqMonotonic
  <2>  HIDE DEF m, q, r, N
  <2>3. /\ Len(<<m>> \o q) = 1 + N
        /\ \A i \in 1..(1 + N) : (<<m>> \o q)[i] = IF i <= 1 THEN <<m>>[i] ELSE q[i - 1]
      BY <2>1, <2>2, ConcatProperties
  <2>4. (<<m>> \o q)[1] = m
      BY <1>3, <2>2, <2>3
  <2>5. \A k \in 1..N : (<<m>> \o q)[k + 1] = q[k]
      BY <1>3, <2>3
  <2>  QED  BY <1>3, <1>4, <2>1, <2>3, <2>4, <2>5
<1>6. m.kind = "resumed" /\ m.n = Lost(s) /\ \A n : Event(n).kind = "event" /\ Event(n).n = n
    BY DEF Resumed, Event
<1>  HIDE DEF s, r, m, q, N
<1>7. \A i \in 1..(N + 1) : i = 1 \/ (i - 1 \in 1..N /\ queue'[c][i] = Event(r[i - 1]))
  <2>1. ASSUME NEW i \in 1..(N + 1), i # 1 PROVE i - 1 \in 1..N /\ queue'[c][i] = Event(r[i - 1])
    <3>1. i - 1 \in 1..N /\ (i - 1) + 1 = i
        BY <1>3, <2>1
    <3>  QED  BY <1>5, <3>1
  <2>  QED  BY <2>1
<1>8. Pending(c)' = 2..(N + 1)
  <2>1. Pending(c)' = {i \in 1..(N + 1) : queue'[c][i].kind = "event"}
      BY <1>5 DEF Pending
  <2>  QED  BY <1>3, <1>5, <1>6, <1>7, <2>1
<1>9. \A i \in Pending(c)' : i - 1 \in 1..N /\ queue'[c][i].n = r[i - 1]
    BY <1>3, <1>6, <1>7, <1>8
<1>10. Markers(c)'
  <2>1. ASSUME NEW i \in 1..(N + 1)
        PROVE  /\ i > 1 => queue'[c][i].kind = "event"
               /\ queue'[c][i].kind = "foreign" => queue'[c][i].n = 0
               /\ queue'[c][i].kind = "resumed" =>
                    /\ cursor'[c][1] = epoch'
                    /\ queue'[c][i].n > 0 => cursor'[c][2] + queue'[c][i].n < Oldest'
    <3>1. CASE i = 1
      <4>1. queue'[c][i].kind = "resumed" /\ queue'[c][i].n = Lost(s)
          BY <1>5, <1>6, <3>1
      <4>2. Lost(s) > 0 => s + Lost(s) < Oldest
          BY <1>1, <1>2
      <4>  QED  BY <1>4, <3>1, <4>1, <4>2
    <3>2. CASE i # 1
        BY <1>6, <1>7, <3>2
    <3>  QED  BY <3>1, <3>2
  <2>  QED  BY <1>5, <2>1 DEF Markers
<1>11. Losses(c)' = missed[c] \cup {n \in 1..sequence : n > s /\ n <= s + Lost(s)}
  <2>1. ASSUME NEW n
        PROVE  (\E i \in 1..Len(queue'[c]) :
                  /\ queue'[c][i].kind = "resumed"
                  /\ n > cursor'[c][2] /\ n <= cursor'[c][2] + queue'[c][i].n
                  /\ cursor'[c][1] = epoch')
               <=> n > s /\ n <= s + Lost(s)
    <3>1. \A i \in 1..(N + 1) : queue'[c][i].kind = "resumed" => i = 1
        BY <1>6, <1>7
    <3>2. 1 \in 1..(N + 1)
        BY <1>3
    <3>  QED  BY <1>4, <1>5, <1>6, <3>1, <3>2
  <2>  QED  BY <1>4, <2>1 DEF Losses
<1>12. \A i, j \in Pending(c)' : i < j => queue'[c][i].n < queue'[c][j].n
  <2>1. ASSUME NEW i \in Pending(c)', NEW j \in Pending(c)', i < j PROVE i - 1 < j - 1
      BY <1>3, <1>8, <2>1
  <2>  QED  BY <1>3, <1>9, <2>1
<1>13. ASSUME NEW i \in Pending(c)'
       PROVE  /\ Low(c)' < queue'[c][i].n /\ queue'[c][i].n <= sequence'
              /\ topic'[queue'[c][i].n] \in filter'[c]
              /\ queue'[c][i].n \notin Losses(c)'
  <2>1. PICK k \in 1..N : queue'[c][i].n = r[k]
      BY <1>9
  <2>2. r[k] \notin missed[c] /\ ~(r[k] > s /\ r[k] <= s + Lost(s))
      BY <1>1, <1>2, <1>3
  <2>  QED  BY <1>1, <1>3, <1>4, <1>11, <2>1, <2>2
<1>14. ASSUME NEW n \in (Low(c)' + 1)..sequence', topic'[n] \in filter'[c]
       PROVE  n \in Losses(c)' \/ \E i \in Pending(c)' : queue'[c][i].n = n
  <2>1. n \in Nat /\ n > s /\ n \in 1..sequence /\ topic[n] \in filter[c]
      BY <1>1, <1>4, <1>14
  <2>2. CASE n < Oldest
    <3>1. n <= s + Lost(s)
        BY <1>1, <1>2, <2>1, <2>2
    <3>  QED  BY <1>11, <2>1, <3>1
  <2>3. CASE ~(n < Oldest)
    <3>1. n \in Oldest..sequence
        BY <1>1, <2>1, <2>3
    <3>2. PICK k \in 1..N : r[k] = n
        BY <1>3, <2>1, <3>1
    <3>3. k + 1 \in Pending(c)' /\ queue'[c][k + 1].n = r[k]
        BY <1>3, <1>5, <1>6, <1>8
    <3>  QED  BY <3>2, <3>3
  <2>  QED  BY <2>2, <2>3
<1>  QED  BY <1>10, <1>12, <1>13, <1>14 DEF Backlog

LEMMA ResumeInv ==
    ASSUME BusInv, NEW c \in Clients, Resume(c)
    PROVE  BusInv'
<1>  DEFINE s == cursor[c][2]
            r == Replay(c, s)
            m == Resumed(Lost(s))
            q == [i \in 1..Len(r) |-> Event(r[i])]
<1>1. BusTypeOK /\ Retained /\ sequence \in Nat /\ sequence <= MaxEvents /\ MaxEvents \in Nat
    BY ServerTypes, EventBusAssumption DEF BusInv, BusTypeOK, sequence
<1>2. /\ cursor[c][1] = epoch /\ s <= sequence /\ connected' = connected \cup {c}
      /\ queue' = [queue EXCEPT ![c] = <<m>> \o q] /\ attached' = TRUE
      /\ UNCHANGED <<epoch, topic, size, buffer, handoff, filter, cursor, since, seen, missed>>
    BY DEF Resume
<1>3. s \in Nat /\ History(c)
    BY <1>1, <1>2, ClientTypes DEF BusInv, Current
<1>4. r \in Seq(1..MaxEvents) /\ Len(r) \in Nat
    BY <1>1, <1>3, ReplayFacts
<1>5. m \in Items
  <2>1. Lost(s) \in 0..MaxEvents
      BY <1>1, <1>2, <1>3, LostFacts
  <2>  QED  BY <2>1 DEF Items, Resumed
<1>6. \A i \in 1..Len(r) : Event(r[i]) \in Items
  <2>1. \A i \in 1..Len(r) : r[i] \in 1..MaxEvents
      BY <1>4, ElementOfSeq
  <2>  QED  BY <1>1, <2>1 DEF Items, Event
<1>  HIDE DEF r, m, s
<1>7. q \in Seq(Items) /\ <<m>> \in Seq(Items)
    BY <1>4, <1>5, <1>6
<1>  HIDE DEF q
<1>8. <<m>> \o q \in Seq(Items)
    BY <1>7, ConcatProperties
<1>9. BusTypeOK'
    BY <1>1, <1>2, <1>8 DEF BusTypeOK
<1>10. \A d \in Clients : d # c => Untouched(d)
    BY <1>1, <1>2 DEF BusTypeOK, Untouched
<1>11. Grows
  <2>1. sequence' = sequence /\ Oldest' = Oldest /\ Oldest \in Int
      BY <1>1, <1>2, ServerTypes DEF sequence, Oldest
  <2>  QED  BY <1>1, <1>2, <2>1 DEF Grows
<1>12. History(c)'
    BY <1>1, <1>2, <1>3, <1>9, <1>11, HistoryFrame
<1>13. Backlog(c)'
    BY <1>1, <1>2, <1>3, <1>9, ResumeBacklog
<1>14. cursor'[c][1] <= epoch
    BY <1>2 DEF BusInv
<1>  QED  BY <1>2, <1>9, <1>10, <1>12, <1>13, <1>14, OneClient

-----------------------------------------------------------------------------
(* Reading the next frame.                                                 *)

\* The rest of the queue.
LEMMA GetQueue ==
    ASSUME BusTypeOK, NEW c \in Clients, Markers(c), Get(c)
    PROVE  LET N == Len(queue[c]) IN
           /\ N \in Nat /\ N > 0 /\ Head(queue[c]) = queue[c][1] /\ Head(queue[c]) \in Items
           /\ queue' = [queue EXCEPT ![c] = Tail(queue[c])]
           /\ queue' \in [Clients -> Seq(Items)]
           /\ Len(queue'[c]) = N - 1
           /\ \A i \in 1..(N - 1) : /\ i + 1 \in 1..N /\ queue'[c][i] = queue[c][i + 1]
                                    /\ queue'[c][i].kind = "event"
           /\ Pending(c)' = 1..(N - 1)
           /\ \A i \in 2..N : i \in Pending(c) /\ i - 1 \in Pending(c)' /\ queue'[c][i - 1] = queue[c][i]
           /\ Pending(c) \subseteq 1..N
           /\ Markers(c)' /\ Losses(c)' = missed'[c]
<1>  DEFINE N == Len(queue[c])
<1>1. queue[c] \in Seq(Items) /\ queue[c] # <<>>
    BY DEF BusTypeOK, Get
<1>2. N \in Nat /\ N > 0 /\ Head(queue[c]) = queue[c][1]
    BY <1>1, EmptySeq, HeadTailProperties
<1>3. Head(queue[c]) \in Items
    BY <1>1, <1>2, ElementOfSeq
<1>4. queue' = [queue EXCEPT ![c] = Tail(queue[c])]
    BY DEF Get
<1>5. Tail(queue[c]) \in Seq(Items) /\ Len(Tail(queue[c])) = N - 1 /\ \A i \in 1..(N - 1) : Tail(queue[c])[i] = queue[c][i + 1]
    BY <1>1, HeadTailProperties
<1>6. queue' \in [Clients -> Seq(Items)] /\ queue'[c] = Tail(queue[c])
    BY <1>4, <1>5 DEF BusTypeOK
<1>7. Len(queue'[c]) = N - 1 /\ \A i \in 1..(N - 1) : queue'[c][i] = queue[c][i + 1]
    BY <1>5, <1>6
<1>8. \A i \in 1..N : i > 1 => queue[c][i].kind = "event"
    BY DEF Markers
<1>9. \A i \in 1..(N - 1) : i + 1 \in 1..N /\ queue'[c][i].kind = "event"
  <2>1. ASSUME NEW i \in 1..(N - 1) PROVE i + 1 \in 1..N /\ i + 1 > 1
      BY <1>2, <2>1
  <2>  QED  BY <1>7, <1>8, <2>1
<1>10. Pending(c)' = 1..(N - 1)
    BY <1>7, <1>9 DEF Pending
<1>11. ASSUME NEW i \in 2..N
       PROVE  i \in Pending(c) /\ i - 1 \in Pending(c)' /\ queue'[c][i - 1] = queue[c][i]
  <2>1. i \in 1..N /\ i > 1 /\ i - 1 \in 1..(N - 1) /\ (i - 1) + 1 = i
      BY <1>2, <1>11
  <2>  QED  BY <1>7, <1>8, <1>10, <2>1 DEF Pending
<1>12. Markers(c)' /\ Losses(c)' = missed'[c] /\ Pending(c) \subseteq 1..N
    BY <1>7, <1>9 DEF Markers, Losses, Pending
<1>  QED  BY <1>2, <1>3, <1>4, <1>6, <1>7, <1>9, <1>10, <1>11, <1>12

\* An event: it was the next the filter admits after what the client has.
LEMMA GetEvent ==
    ASSUME BusInv, NEW c \in Clients, Get(c), Head(queue[c]).kind = "event"
    PROVE  BusInv'
<1>  DEFINE N == Len(queue[c])
            x == Head(queue[c]).n
<1>1. BusTypeOK /\ Retained /\ History(c) /\ Backlog(c) /\ Markers(c)
    BY DEF BusInv, Current, Get, Backlog
<1>2. /\ N \in Nat /\ N > 0 /\ Head(queue[c]) = queue[c][1] /\ Head(queue[c]) \in Items
      /\ queue' = [queue EXCEPT ![c] = Tail(queue[c])]
      /\ queue' \in [Clients -> Seq(Items)]
      /\ Pending(c)' = 1..(N - 1)
      /\ \A i \in 1..(N - 1) : i + 1 \in 1..N /\ queue'[c][i] = queue[c][i + 1]
      /\ \A i \in 2..N : i \in Pending(c) /\ i - 1 \in Pending(c)' /\ queue'[c][i - 1] = queue[c][i]
      /\ Pending(c) \subseteq 1..N
      /\ Markers(c)' /\ Losses(c)' = missed'[c]
    BY <1>1, GetQueue
<1>3. /\ cursor' = [cursor EXCEPT ![c] = <<epoch, x>>] /\ seen' = [seen EXCEPT ![c] = Append(seen[c], x)]
      /\ UNCHANGED <<missed, epoch, attached, topic, size, buffer, handoff, connected, filter, since>>
    BY DEF Get, server
<1>4. /\ sequence \in Nat /\ sequence <= MaxEvents /\ MaxEvents \in Nat /\ Oldest \in Int
      /\ since[c] \in Nat /\ Low(c) \in Nat /\ x \in Nat
      /\ seen[c] \in Seq(1..MaxEvents) /\ Len(seen[c]) \in Nat
      /\ \A i \in 1..Len(seen[c]) : seen[c][i] \in Nat
      /\ ToSet(seen[c]) \subseteq Nat /\ missed[c] \subseteq Nat
      /\ \A i \in 1..N : queue[c][i].n \in Nat
  <2>1. sequence <= MaxEvents /\ MaxEvents \in Nat /\ seen[c] \in Seq(1..MaxEvents)
      BY <1>1, EventBusAssumption DEF BusTypeOK, sequence
  <2>2. 1 \in 1..N
      BY <1>2
  <2>3. x \in Nat
      BY <1>1, <1>2, <2>2, ClientTypes
  <2>4. \A i \in 1..N : queue[c][i].n \in Nat
      BY <1>1, ClientTypes
  <2>  HIDE DEF x, N
  <2>5. /\ sequence \in Nat /\ Oldest \in Int /\ since[c] \in Nat /\ Low(c) \in Nat /\ Len(seen[c]) \in Nat
        /\ \A i \in 1..Len(seen[c]) : seen[c][i] \in Nat
        /\ ToSet(seen[c]) \subseteq Nat /\ missed[c] \subseteq Nat
      BY <1>1, ServerTypes, ClientTypes
  <2>  QED  BY <2>1, <2>3, <2>4, <2>5
<1>5. 1 \in Pending(c) /\ queue[c][1].n = x
    BY <1>2 DEF Pending
<1>6. Losses(c) = missed[c]
  <2>1. \A i \in 1..N : queue[c][i].kind = "event"
      BY <1>1, <1>2 DEF Markers
  <2>  QED  BY <2>1 DEF Losses
<1>7. Low(c) < x /\ x <= sequence /\ topic[x] \in filter[c] /\ x \notin missed[c] /\ x \in 1..MaxEvents
  <2>1. Low(c) < x /\ x <= sequence /\ topic[x] \in filter[c] /\ x \notin missed[c]
      BY <1>1, <1>5, <1>6 DEF Backlog
  <2>  QED  BY <1>4, <2>1
<1>  HIDE DEF N, x
<1>8. BusTypeOK'
  <2>1. seen' \in [Clients -> Seq(1..MaxEvents)]
      BY <1>1, <1>3, <1>4, <1>7, AppendProperties DEF BusTypeOK
  <2>2. cursor' \in [Clients -> (0..MaxEpochs) \X (0..MaxEvents)]
    <3>1. <<epoch, x>> \in (0..MaxEpochs) \X (0..MaxEvents)
        BY <1>1, <1>4, <1>7, EventBusAssumption DEF BusTypeOK
    <3>  QED  BY <1>1, <1>3, <3>1 DEF BusTypeOK
  <2>  QED  BY <1>1, <1>2, <1>3, <2>1, <2>2 DEF BusTypeOK
<1>9. \A d \in Clients : d # c => Untouched(d)
    BY <1>1, <1>2, <1>3 DEF BusTypeOK, Untouched
<1>10. /\ cursor'[c] = <<epoch, x>> /\ seen'[c] = Append(seen[c], x) /\ missed'[c] = missed[c]
       /\ since'[c] = since[c] /\ filter'[c] = filter[c]
    BY <1>1, <1>3 DEF BusTypeOK
<1>11. sequence' = sequence /\ Oldest' = Oldest /\ Low(c)' = x /\ cursor'[c][1] <= epoch
    BY <1>1, <1>3, <1>10 DEF sequence, Oldest, Low, BusTypeOK
<1>12. /\ ToSet(seen'[c]) = ToSet(seen[c]) \cup {x} /\ Len(seen'[c]) = Len(seen[c]) + 1
       /\ seen'[c][Len(seen[c]) + 1] = x /\ \A i \in 1..Len(seen[c]) : seen'[c][i] = seen[c][i]
  <2>1. seen[c] \in Seq(1..MaxEvents) /\ x \in 1..MaxEvents
      BY <1>4, <1>7
  <2>2. ToSet(seen'[c]) = ToSet(seen[c]) \cup {x}
    <3>  DEFINE E == 1..MaxEvents
    <3>1. seen[c] \in Seq(E) /\ x \in E
        BY <2>1
    <3>  HIDE DEF E
    <3>2. ToSet(Append(seen[c], x)) = ToSet(seen[c]) \cup {x}
        BY <3>1, AppendRange
    <3>  QED  BY <1>10, <3>2
  <2>3. /\ Len(seen'[c]) = Len(seen[c]) + 1 /\ seen'[c][Len(seen[c]) + 1] = x
        /\ \A i \in 1..Len(seen[c]) : seen'[c][i] = seen[c][i]
      BY <1>10, <2>1, AppendProperties
  <2>  QED  BY <2>2, <2>3
<1>13. \A i \in 1..Len(seen[c]) : seen[c][i] \in ToSet(seen[c]) /\ seen[c][i] < x
  <2>1. \A i \in 1..Len(seen[c]) : seen[c][i] \in ToSet(seen[c])
      BY <1>4, LenProperties DEF ToSet
  <2>2. \A m \in ToSet(seen[c]) : m <= Low(c)
      BY <1>1 DEF History
  <2>  QED  BY <1>4, <1>7, <2>1, <2>2
<1>14. History(c)'
  <2>1. since'[c] <= Low(c)' /\ Low(c)' <= sequence'
      BY <1>1, <1>4, <1>7, <1>10, <1>11 DEF History
  <2>2. \A i, j \in 1..Len(seen'[c]) : i < j => seen'[c][i] < seen'[c][j]
    <3>1. ASSUME NEW i \in 1..Len(seen'[c]), NEW j \in 1..Len(seen'[c]), i < j
          PROVE  seen'[c][i] < seen'[c][j]
      <4>1. i \in 1..Len(seen[c])
          BY <1>4, <1>12, <3>1
      <4>2. CASE j = Len(seen[c]) + 1
          BY <1>12, <1>13, <4>1, <4>2
      <4>3. CASE j # Len(seen[c]) + 1
        <5>1. j \in 1..Len(seen[c])
            BY <1>4, <1>12, <3>1, <4>3
        <5>  QED  BY <1>1, <1>12, <3>1, <4>1, <5>1 DEF History
      <4>  QED  BY <4>2, <4>3
    <3>  QED  BY <3>1
  <2>3. \A m \in ToSet(seen'[c]) : since'[c] < m /\ m <= Low(c)' /\ topic'[m] \in filter'[c]
    <3>1. \A m \in ToSet(seen[c]) : m \in Nat /\ since[c] < m /\ m <= Low(c) /\ topic[m] \in filter[c]
        BY <1>1, <1>4 DEF History
    <3>2. since[c] < x
        BY <1>1, <1>4, <1>7 DEF History
    <3>3. topic' = topic
        BY <1>3
    <3>  QED  BY <1>4, <1>7, <1>10, <1>11, <1>12, <3>1, <3>2, <3>3
  <2>4. \A n \in missed'[c] : n < Oldest' /\ n \notin ToSet(seen'[c])
      BY <1>1, <1>7, <1>10, <1>11, <1>12 DEF History
  <2>5. ASSUME NEW n \in (since'[c] + 1)..Low(c)', topic'[n] \in filter'[c]
        PROVE  n \in missed'[c] \cup ToSet(seen'[c])
    <3>1. n \in (since[c] + 1)..x /\ topic[n] \in filter[c]
        BY <1>3, <1>10, <1>11, <2>5
    <3>2. CASE n <= Low(c)
      <4>1. n \in (since[c] + 1)..Low(c)
          BY <1>4, <3>1, <3>2
      <4>  QED  BY <1>1, <1>10, <1>12, <3>1, <4>1 DEF History
    <3>3. CASE ~(n <= Low(c))
      <4>1. n \in (Low(c) + 1)..sequence
          BY <1>4, <1>7, <3>1, <3>3
      <4>2. n \in missed[c] \/ \E i \in Pending(c) : queue[c][i].n = n
          BY <1>1, <1>6, <3>1, <4>1 DEF Backlog
      <4>3. ASSUME NEW i \in Pending(c), queue[c][i].n = n PROVE n = x
        <5>1. i \in 1..N
            BY <1>2
        <5>2. CASE i = 1
            BY <1>5, <4>3, <5>2
        <5>3. CASE i # 1
          <6>1. x < n
              BY <1>1, <1>2, <1>5, <4>3, <5>1, <5>3 DEF Backlog
          <6>  QED  BY <1>4, <3>1, <6>1
        <5>  QED  BY <5>2, <5>3
      <4>  QED  BY <1>10, <1>12, <4>2, <4>3
    <3>  QED  BY <3>2, <3>3
  <2>  QED  BY <2>1, <2>2, <2>3, <2>4, <2>5 DEF History
<1>15. \A i \in Pending(c)' : i \in Nat /\ i + 1 \in Pending(c) /\ i + 1 > 1 /\ queue'[c][i] = queue[c][i + 1]
  <2>1. ASSUME NEW i \in Pending(c)' PROVE i \in Nat /\ i + 1 \in 2..N /\ i + 1 > 1 /\ i \in 1..(N - 1)
      BY <1>2, <2>1
  <2>  QED  BY <1>2, <2>1
<1>16. Backlog(c)'
  <2>1. \A i, j \in Pending(c)' : i < j => queue'[c][i].n < queue'[c][j].n
    <3>1. ASSUME NEW i \in Pending(c)', NEW j \in Pending(c)', i < j PROVE i + 1 < j + 1
        BY <1>15, <3>1
    <3>  QED  BY <1>1, <1>15, <3>1 DEF Backlog
  <2>2. ASSUME NEW i \in Pending(c)'
        PROVE  /\ Low(c)' < queue'[c][i].n /\ queue'[c][i].n <= sequence'
               /\ topic'[queue'[c][i].n] \in filter'[c]
               /\ queue'[c][i].n \notin Losses(c)'
    <3>1. x < queue[c][i + 1].n
        BY <1>1, <1>5, <1>15 DEF Backlog
    <3>2. /\ queue[c][i + 1].n <= sequence /\ topic[queue[c][i + 1].n] \in filter[c]
          /\ queue[c][i + 1].n \notin missed[c]
        BY <1>1, <1>6, <1>15 DEF Backlog
    <3>3. topic' = topic /\ Losses(c)' = missed[c] /\ queue'[c][i] = queue[c][i + 1]
        BY <1>2, <1>3, <1>10, <1>15
    <3>  QED  BY <1>10, <1>11, <3>1, <3>2, <3>3
  <2>3. ASSUME NEW n \in (Low(c)' + 1)..sequence', topic'[n] \in filter'[c]
        PROVE  n \in Losses(c)' \/ \E i \in Pending(c)' : queue'[c][i].n = n
    <3>1. n \in (Low(c) + 1)..sequence /\ topic[n] \in filter[c] /\ n > x
        BY <1>3, <1>4, <1>7, <1>10, <1>11, <2>3
    <3>2. n \in missed[c] \/ \E i \in Pending(c) : queue[c][i].n = n
        BY <1>1, <1>6, <3>1 DEF Backlog
    <3>3. ASSUME NEW i \in Pending(c), queue[c][i].n = n
          PROVE  \E k \in Pending(c)' : queue'[c][k].n = n
      <4>1. i # 1
          BY <1>4, <1>5, <3>1, <3>3
      <4>2. i \in 2..N
          BY <1>2, <3>3, <4>1
      <4>  QED  BY <1>2, <3>3, <4>2
    <3>  QED  BY <1>2, <1>10, <3>2, <3>3
  <2>  QED  BY <1>2, <2>1, <2>2, <2>3 DEF Backlog
<1>17. UNCHANGED <<epoch, topic, buffer>>
    BY <1>3
<1>  QED  BY <1>8, <1>9, <1>11, <1>14, <1>16, <1>17, OneClient

\* A marker: what it reports lost is now in missed, and was in Losses before.
LEMMA GetMarker ==
    ASSUME BusInv, NEW c \in Clients, Get(c), Head(queue[c]).kind # "event"
    PROVE  BusInv'
<1>  DEFINE N == Len(queue[c])
            x == Head(queue[c]).n
            gap == {n \in 1..sequence : n > cursor[c][2] /\ n <= cursor[c][2] + x}
<1>1. BusTypeOK /\ Retained /\ History(c) /\ Backlog(c) /\ Markers(c)
    BY DEF BusInv, Current, Get, Backlog
<1>2. /\ N \in Nat /\ N > 0 /\ Head(queue[c]) = queue[c][1] /\ Head(queue[c]) \in Items
      /\ queue' = [queue EXCEPT ![c] = Tail(queue[c])]
      /\ queue' \in [Clients -> Seq(Items)]
      /\ Pending(c)' = 1..(N - 1)
      /\ \A i \in 1..(N - 1) : i + 1 \in 1..N /\ queue'[c][i] = queue[c][i + 1]
      /\ \A i \in 2..N : i \in Pending(c) /\ i - 1 \in Pending(c)' /\ queue'[c][i - 1] = queue[c][i]
      /\ Pending(c) \subseteq 1..N
      /\ Markers(c)' /\ Losses(c)' = missed'[c]
    BY <1>1, GetQueue
<1>3. /\ missed' = [missed EXCEPT ![c] = missed[c] \cup gap]
      /\ UNCHANGED <<cursor, seen, epoch, attached, topic, size, buffer, handoff, connected, filter, since>>
    BY DEF Get, server
<1>4. /\ sequence \in Nat /\ sequence <= MaxEvents /\ MaxEvents \in Nat /\ Oldest \in Int
      /\ cursor[c][1] \in Nat /\ cursor[c][2] \in Nat /\ since[c] \in Nat /\ Low(c) \in Nat /\ x \in Nat
      /\ ToSet(seen[c]) \subseteq Nat /\ missed[c] \subseteq Nat
      /\ Head(queue[c]).kind \in {"resumed", "foreign"}
  <2>1. sequence <= MaxEvents /\ MaxEvents \in Nat
      BY <1>1, EventBusAssumption DEF BusTypeOK, sequence
  <2>2. 1 \in 1..N
      BY <1>2
  <2>3. x \in Nat /\ Head(queue[c]).kind \in {"event", "resumed", "foreign"}
      BY <1>1, <1>2, <2>2, ClientTypes
  <2>  HIDE DEF x, N, gap
  <2>4. /\ sequence \in Nat /\ Oldest \in Int
        /\ cursor[c][1] \in Nat /\ cursor[c][2] \in Nat /\ since[c] \in Nat /\ Low(c) \in Nat
        /\ ToSet(seen[c]) \subseteq Nat /\ missed[c] \subseteq Nat
      BY <1>1, ServerTypes, ClientTypes
  <2>  QED  BY <2>1, <2>3, <2>4
<1>5. gap = {} \/ (cursor[c][1] = epoch /\ queue[c][1].kind = "resumed" /\ cursor[c][2] + x < Oldest)
  <2>1. 1 \in 1..N
      BY <1>2
  <2>2. CASE x = 0
      BY <1>4, <2>2
  <2>3. CASE x # 0
    <3>1. queue[c][1].kind = "resumed" /\ queue[c][1].n = x
        BY <1>1, <1>2, <1>4, <2>1, <2>3 DEF Markers
    <3>  QED  BY <1>1, <1>4, <2>1, <2>3, <3>1 DEF Markers
  <2>  QED  BY <2>2, <2>3
<1>6. Losses(c) = missed[c] \cup gap
  <2>  DEFINE G(n) == \E i \in 1..N : /\ queue[c][i].kind = "resumed"
                                      /\ n > cursor[c][2] /\ n <= cursor[c][2] + queue[c][i].n
                                      /\ cursor[c][1] = epoch
  <2>1. Losses(c) = missed[c] \cup {n \in 1..sequence : G(n)}
      BY DEF Losses
  <2>2. \A i \in 1..N : queue[c][i].kind = "resumed" => i = 1
    <3>1. \A i \in 1..N : i > 1 => queue[c][i].kind = "event"
        BY <1>1 DEF Markers
    <3>  QED  BY <1>2, <3>1
  <2>3. ASSUME NEW n \in 1..sequence PROVE G(n) <=> n \in gap
    <3>1. 1 \in 1..N
        BY <1>2
    <3>2. G(n) => n \in gap
        BY <1>2, <2>2
    <3>3. n \in gap => G(n)
        BY <1>2, <1>5, <3>1
    <3>  QED  BY <3>2, <3>3
  <2>  QED  BY <2>1, <2>3
<1>7. gap \subseteq 1..MaxEvents /\ gap \subseteq Nat
    BY <1>4
<1>8. \A n \in gap : n < Oldest /\ n \notin ToSet(seen[c])
  <2>1. ASSUME NEW n \in gap PROVE n < Oldest /\ n \notin ToSet(seen[c])
    <3>1. cursor[c][1] = epoch /\ cursor[c][2] + x < Oldest /\ n > cursor[c][2] /\ n <= cursor[c][2] + x /\ n \in Nat
        BY <1>5, <1>7, <2>1
    <3>2. \A m \in ToSet(seen[c]) : m <= cursor[c][2]
        BY <1>1, <3>1 DEF History, Low
    <3>  QED  BY <1>4, <3>1, <3>2
  <2>  QED  BY <2>1
<1>  HIDE DEF N, x, gap
<1>9. BusTypeOK'
  <2>1. missed' \in [Clients -> SUBSET (1..MaxEvents)]
      BY <1>1, <1>3, <1>7 DEF BusTypeOK
  <2>  QED  BY <1>1, <1>2, <1>3, <2>1 DEF BusTypeOK
<1>10. \A d \in Clients : d # c => Untouched(d)
    BY <1>1, <1>2, <1>3 DEF BusTypeOK, Untouched
<1>11. /\ missed'[c] = missed[c] \cup gap /\ Losses(c)' = Losses(c)
       /\ sequence' = sequence /\ Oldest' = Oldest /\ Low(c)' = Low(c)
    BY <1>1, <1>2, <1>3, <1>6 DEF BusTypeOK, sequence, Oldest, Low
<1>12. History(c)'
  <2>1. \A n \in missed'[c] : n < Oldest' /\ n \notin ToSet(seen'[c])
      BY <1>1, <1>3, <1>8, <1>11 DEF History
  <2>2. \A n \in (since'[c] + 1)..Low(c)' : topic'[n] \in filter'[c] => n \in missed'[c] \cup ToSet(seen'[c])
      BY <1>1, <1>3, <1>11 DEF History
  <2>  QED  BY <1>1, <1>3, <1>11, <2>1, <2>2 DEF History
<1>13. Pending(c) = 2..N
  <2>1. 1 \notin Pending(c)
      BY <1>2 DEF Pending
  <2>2. \A i \in 2..N : i \in Pending(c)
      BY <1>2
  <2>3. ASSUME NEW i \in Pending(c) PROVE i \in 2..N
    <3>1. i \in 1..N /\ i # 1 /\ N \in Nat
        BY <1>2, <2>1, <2>3
    <3>  QED  BY <3>1
  <2>  QED  BY <2>2, <2>3
<1>14. \A i \in Pending(c)' : i \in Nat /\ i + 1 \in Pending(c) /\ queue'[c][i] = queue[c][i + 1]
  <2>1. ASSUME NEW i \in Pending(c)' PROVE i \in 1..(N - 1) /\ i \in Nat /\ i + 1 \in 2..N
    <3>1. i \in 1..(N - 1) /\ N \in Nat
        BY <1>2, <2>1
    <3>  QED  BY <3>1
  <2>  QED  BY <1>2, <1>13, <2>1
<1>15. Backlog(c)'
  <2>1. \A i, j \in Pending(c)' : i < j => queue'[c][i].n < queue'[c][j].n
    <3>1. ASSUME NEW i \in Pending(c)', NEW j \in Pending(c)', i < j PROVE i + 1 < j + 1
        BY <1>14, <3>1
    <3>  QED  BY <1>1, <1>14, <3>1 DEF Backlog
  <2>2. \A i \in Pending(c)' : /\ Low(c)' < queue'[c][i].n /\ queue'[c][i].n <= sequence'
                               /\ topic'[queue'[c][i].n] \in filter'[c]
                               /\ queue'[c][i].n \notin Losses(c)'
      BY <1>1, <1>3, <1>11, <1>14 DEF Backlog
  <2>3. ASSUME NEW n \in (Low(c)' + 1)..sequence', topic'[n] \in filter'[c]
        PROVE  n \in Losses(c)' \/ \E i \in Pending(c)' : queue'[c][i].n = n
    <3>1. n \in Losses(c) \/ \E i \in Pending(c) : queue[c][i].n = n
        BY <1>1, <1>3, <1>11, <2>3 DEF Backlog
    <3>  QED  BY <1>2, <1>11, <1>13, <3>1
  <2>  QED  BY <1>2, <2>1, <2>2, <2>3 DEF Backlog
<1>16. cursor'[c][1] <= epoch /\ UNCHANGED <<epoch, topic, buffer>>
    BY <1>3 DEF BusInv
<1>  QED  BY <1>9, <1>10, <1>12, <1>15, <1>16, OneClient

-----------------------------------------------------------------------------
(* The invariant.                                                          *)

\* Another thread hands an event over, or start-up attaches the loop.
LEMMA QuietBus ==
    ASSUME BusInv, BusTypeOK', UNCHANGED <<epoch, topic, buffer, connected, filter, queue, cursor, since, seen, missed>>
    PROVE  BusInv'
<1>1. \A d \in Clients : Untouched(d)
    BY DEF Untouched
<1>2. PICK c : c \notin Clients
    BY NoSetContainsEverything
<1>  QED  BY <1>1, <1>2, OneClient

\* A new bus: nobody is connected, and no cursor is of this lifetime.
LEMMA RestartInv ==
    ASSUME BusInv, Restart
    PROVE  BusInv'
<1>1. BusTypeOK /\ \A c \in Clients : cursor[c][1] \in Nat /\ cursor[c][1] <= epoch
    BY ClientTypes DEF BusInv
<1>2. /\ epoch < MaxEpochs /\ epoch' = epoch + 1 /\ attached' = FALSE /\ topic' = <<>> /\ buffer' = <<>>
      /\ handoff' = <<>> /\ connected' = {} /\ queue' = [c \in Clients |-> <<>>]
      /\ UNCHANGED <<size, filter, cursor, since, seen, missed>>
    BY DEF Restart
<1>3. epoch \in Nat /\ MaxEpochs \in Nat /\ MaxEvents \in Nat /\ size \in Nat
    BY <1>1, EventBusAssumption DEF BusTypeOK
<1>4. BusTypeOK'
  <2>1. epoch' \in 1..MaxEpochs
      BY <1>1, <1>2, <1>3 DEF BusTypeOK
  <2>2. Len(<<>>) <= MaxEvents /\ Len(<<>>) <= size
      BY <1>3
  <2>  QED  BY <1>1, <1>2, <2>1, <2>2, EmptySeq DEF BusTypeOK
<1>5. Retained'
    BY <1>2 DEF Retained, sequence
<1>6. \A c \in Clients : cursor'[c][1] <= epoch' /\ ~Current(c)'
    BY <1>1, <1>2, <1>3 DEF Current
<1>  QED  BY <1>2, <1>4, <1>5, <1>6 DEF BusInv

LEMMA InitBusInv == BusInit => BusInv
<1>  SUFFICES ASSUME BusInit PROVE BusInv
    OBVIOUS
<1>1. NoCursor \in (0..MaxEpochs) \X (0..MaxEvents) /\ NoCursor[1] = 0
    BY EventBusAssumption DEF NoCursor
<1>2. MaxEvents \in Nat /\ 1 \in 1..MaxEpochs /\ size \in Nat
    BY EventBusAssumption DEF BusInit
<1>3. Len(<<>>) <= MaxEvents /\ Len(<<>>) <= size
    BY <1>2
<1>4. BusTypeOK
  <2>1. <<>> \in Seq(Topics) /\ <<>> \in Seq(Items) /\ <<>> \in Seq(1..MaxEvents) /\ 0 \in 0..MaxEvents
      BY <1>2, EmptySeq
  <2>2. /\ filter \in [Clients -> SUBSET Topics] /\ missed \in [Clients -> SUBSET (1..MaxEvents)]
        /\ connected \subseteq Clients
      BY DEF BusInit
  <2>3. /\ queue \in [Clients -> Seq(Items)] /\ since \in [Clients -> 0..MaxEvents]
        /\ seen \in [Clients -> Seq(1..MaxEvents)] /\ cursor \in [Clients -> (0..MaxEpochs) \X (0..MaxEvents)]
      BY <1>1, <2>1 DEF BusInit
  <2>4. /\ epoch \in 1..MaxEpochs /\ attached \in BOOLEAN /\ topic \in Seq(Topics) /\ Len(topic) <= MaxEvents
        /\ size \in BufferSizes /\ buffer \in Seq(1..MaxEvents) /\ Len(buffer) <= size /\ handoff \in Seq(Topics)
      BY <1>2, <1>3, <2>1 DEF BusInit
  <2>  QED  BY <2>2, <2>3, <2>4 DEF BusTypeOK
<1>5. Retained
    BY DEF BusInit, Retained, sequence
<1>6. \A c \in Clients : cursor[c][1] <= epoch /\ ~Current(c)
    BY <1>1 DEF BusInit, Current
<1>7. connected = {}
    BY DEF BusInit
<1>  QED  BY <1>4, <1>5, <1>6, <1>7 DEF BusInv

LEMMA NextBusInv == BusInv /\ [BusNext]_busVars => BusInv'
<1>  SUFFICES ASSUME BusInv, [BusNext]_busVars PROVE BusInv'
    OBVIOUS
<1>1. BusTypeOK
    BY DEF BusInv
<1>2. ASSUME NEW t \in Topics, Publish(t) PROVE BusInv'
  <2>1. handoff' \in Seq(Topics) /\ attached' \in BOOLEAN
      BY <1>1, <1>2 DEF Publish, BusTypeOK
  <2>  QED  BY <1>2, <2>1, PublishInv DEF Publish
<1>3. ASSUME NEW t \in Topics, PublishThreadsafe(t) PROVE BusInv'
  <2>1. Append(handoff, t) \in Seq(Topics)
      BY <1>1, AppendProperties DEF BusTypeOK
  <2>2. BusTypeOK'
      BY <1>1, <1>3, <2>1 DEF PublishThreadsafe, BusTypeOK, client
  <2>  QED  BY <1>3, <2>2, QuietBus DEF PublishThreadsafe, client
<1>4. CASE PublishNowait
  <2>1. Head(handoff) \in Topics /\ Tail(handoff) \in Seq(Topics)
      BY <1>1, <1>4, HeadTailProperties, EmptySeq, ElementOfSeq DEF BusTypeOK, PublishNowait
  <2>2. attached' \in BOOLEAN /\ handoff' \in Seq(Topics)
      BY <1>1, <1>4, <2>1 DEF PublishNowait, BusTypeOK
  <2>  QED  BY <1>4, <2>1, <2>2, PublishInv DEF PublishNowait
<1>5. CASE AttachLoop
  <2>1. BusTypeOK'
      BY <1>1, <1>5 DEF AttachLoop, BusTypeOK, client
  <2>  QED  BY <1>5, <2>1, QuietBus DEF AttachLoop, client
<1>6. CASE UNCHANGED busVars
  <2>1. BusTypeOK'
      BY <1>1, <1>6 DEF busVars, server, client, BusTypeOK
  <2>  QED  BY <1>6, <2>1, QuietBus DEF busVars, server, client
<1>  QED  BY <1>2, <1>3, <1>4, <1>5, <1>6, SubscribeInv, ResumeInv, ResumeForeignInv, GetEvent, GetMarker,
             UnsubscribeInv, RestartInv DEF BusNext

\* The inductive invariant holds of every behaviour.
THEOREM BusInvariant == BusSpec => []BusInv
<1>1. BusInit => BusInv
    BY InitBusInv
<1>2. BusInv /\ [BusNext]_busVars => BusInv'
    BY NextBusInv
<1>  QED  BY <1>1, <1>2, PTL DEF BusSpec

\* For a connected client every event its filter admits, since its stream
\* began and however often it reconnected, is seen, queued, or reported lost by
\* the marker of a resumption: with any buffer, a disabled one included.
THEOREM NoEventIsSilentlyLost == BusSpec => []NothingSilentlyLost
<1>1. ASSUME BusInv PROVE NothingSilentlyLost
  <2>1. ASSUME NEW c \in connected, NEW n \in (since[c] + 1)..sequence, topic[n] \in filter[c]
        PROVE  n \in Losses(c) \cup Delivered(c)
    <3>1. c \in Clients /\ History(c) /\ Backlog(c) /\ BusTypeOK
        BY <1>1 DEF BusInv, Current, BusTypeOK
    <3>2. Low(c) \in Nat /\ since[c] \in Nat /\ sequence \in Nat
        BY <3>1, ClientTypes, ServerTypes
    <3>3. CASE n <= Low(c)
      <4>1. n \in (since[c] + 1)..Low(c)
          BY <2>1, <3>2, <3>3
      <4>2. n \in missed[c] \cup ToSet(seen[c])
          BY <2>1, <3>1, <4>1 DEF History
      <4>  QED  BY <4>2 DEF Losses, Delivered
    <3>4. CASE ~(n <= Low(c))
      <4>1. n \in (Low(c) + 1)..sequence
          BY <2>1, <3>2, <3>4
      <4>2. n \in Losses(c) \/ \E i \in Pending(c) : queue[c][i].n = n
          BY <2>1, <3>1, <4>1 DEF Backlog
      <4>  QED  BY <4>2 DEF Delivered
    <3>  QED  BY <3>3, <3>4
  <2>  QED  BY <1>1, <2>1 DEF NothingSilentlyLost, BusInv
<1>  QED  BY <1>1, BusInvariant, PTL

\* What a connected client has seen and will see is strictly increasing across
\* replays and live events, within its filter, and disjoint from the losses it
\* was told of.
THEOREM EventsArriveInOrderOnce == BusSpec => []InOrderOnce
<1>1. ASSUME BusInv PROVE InOrderOnce
  <2>1. ASSUME NEW c \in connected
        PROVE  /\ \A i, j \in 1..Len(seen[c]) : i < j => seen[c][i] < seen[c][j]
               /\ \A i, j \in Pending(c) : i < j => queue[c][i].n < queue[c][j].n
               /\ \A m \in ToSet(seen[c]), i \in Pending(c) : m < queue[c][i].n
               /\ \A n \in Delivered(c) : topic[n] \in filter[c] /\ n \notin missed[c]
    <3>1. c \in Clients /\ History(c) /\ Backlog(c) /\ BusTypeOK
        BY <1>1 DEF BusInv, Current, BusTypeOK
    <3>2. /\ Low(c) \in Nat /\ ToSet(seen[c]) \subseteq Nat
          /\ \A i \in Pending(c) : queue[c][i].n \in Nat
        BY <3>1, ClientTypes
    <3>3. \A m \in ToSet(seen[c]), i \in Pending(c) : m < queue[c][i].n
        BY <3>1, <3>2 DEF History, Backlog
    <3>4. \A n \in Delivered(c) : topic[n] \in filter[c] /\ n \notin missed[c]
        BY <3>1 DEF Delivered, History, Backlog, Losses
    <3>  QED  BY <3>1, <3>3, <3>4 DEF History, Backlog
  <2>  QED  BY <2>1 DEF InOrderOnce
<1>  QED  BY <1>1, BusInvariant, PTL
=============================================================================
