-------------------------- MODULE OperationsProofs --------------------------
(***************************************************************************)
(* Theorems about Residency, and about Operations, which extends it with   *)
(* the records and tasks of drains, for all sets of keys, users, callers   *)
(* and operations.                                                         *)
(*                                                                         *)
(* The first part is about the residency manager alone (specification      *)
(* Spec).  The second shows that the composition (OpsSpec) implements it,  *)
(* so that the first part carries over, and proves what the records add.   *)
(***************************************************************************)
EXTENDS Operations, FiniteSetTheorems, TLAPS

USE DEF record, backend, userVars, adminVars, closeVars, drift

LEMMA OneFewerType == ASSUME NEW n \in Nat PROVE OneFewer(n) \in Nat
BY DEF OneFewer

RecordType ==
    /\ state \in [Keys -> RecordStates]
    /\ pending \in [Keys -> Nat]
    /\ active \in [Keys -> Nat]
    /\ idle \in [Keys -> BOOLEAN]

LEMMA DropPromiseType ==
    ASSUME TypeOK, NEW k \in Keys, NEW m, DropPromise(k, m)
    PROVE  RecordType'
<1>1. CASE state[k] = "absent"
  BY <1>1 DEF DropPromise, TypeOK, RecordType
<1>2. CASE state[k] # "absent"
  <2>1. pending' \in [Keys -> Nat]
    BY <1>2, OneFewerType DEF DropPromise, TypeOK
  <2>2. idle' \in [Keys -> BOOLEAN]
    <3> DEFINE x == idle[k] \/ (m /\ OneFewer(pending[k]) = 0 /\ active[k] = 0)
    <3>1. x \in BOOLEAN
      OBVIOUS
    <3>2. idle' = [idle EXCEPT ![k] = x]
      BY <1>2 DEF DropPromise
    <3> HIDE DEF x
    <3> QED
      BY <3>1, <3>2 DEF TypeOK
  <2> QED
    BY <1>2, <2>1, <2>2 DEF DropPromise, TypeOK, RecordType
<1> QED
  BY <1>1, <1>2

LEMMA NotifiedType ==
    ASSUME TypeOK, NEW k \in Keys
    PROVE  Notified(k) \in [Unloaders -> AdminStates]
BY DEF Notified, TypeOK, AdminStates

LEMMA UserTypeStep ==
    ASSUME TypeOK, NEW u \in Users, UserStep(u)
    PROVE  TypeOK'
<1> USE DEF RecordStates, UserStates
<1>1. ASSUME NEW k \in Keys, AcquireReady(u, k) PROVE TypeOK'
  BY <1>1 DEF AcquireReady, Call, TypeOK
<1>2. ASSUME NEW k \in Keys, AdoptAndAcquire(u, k) PROVE TypeOK'
  BY <1>2 DEF AdoptAndAcquire, Call, TypeOK
<1>3. ASSUME NEW k \in Keys, AdoptOnly(u, k) PROVE TypeOK'
  BY <1>3 DEF AdoptOnly, Call, TypeOK
<1>4. ASSUME NEW k \in Keys, NEW h \in BOOLEAN, JoinLoad(u, k, h) PROVE TypeOK'
  BY <1>4 DEF JoinLoad, Call, TypeOK
<1>5. ASSUME NEW k \in Keys, NEW h \in BOOLEAN, StartLoad(u, k, h) PROVE TypeOK'
  BY <1>5 DEF StartLoad, Call, TypeOK
<1>6. ASSUME ConvertPromise(u) PROVE TypeOK'
  <2>1. ukey[u] \in Keys
    BY DEF TypeOK
  <2>2. pending' \in [Keys -> Nat]
    BY <1>6, <2>1, OneFewerType DEF ConvertPromise, TypeOK
  <2> QED
    BY <1>6, <2>1, <2>2 DEF ConvertPromise, TypeOK
<1>7. ASSUME ReturnUnleased(u) \/ ReleasePending(u) PROVE TypeOK'
  <2>1. PICK m : DropPromise(ukey[u], m)
    BY <1>7 DEF ReturnUnleased, ReleasePending
  <2>2. RecordType'
    BY <2>1, DropPromiseType DEF TypeOK
  <2> QED
    BY <1>7, <2>2 DEF ReturnUnleased, ReleasePending, Return, TypeOK, RecordType
<1>8. ASSUME ReleaseLease(u) PROVE TypeOK'
  <2>1. ukey[u] \in Keys
    BY DEF TypeOK
  <2>2. active' \in [Keys -> Nat]
    BY <1>8, <2>1, OneFewerType DEF ReleaseLease, TypeOK
  <2>3. idle' \in [Keys -> BOOLEAN]
    <3> DEFINE j == ukey[u]
               x == idle[j] \/ (OneFewer(active[j]) = 0 /\ pending[j] = 0)
    <3>1. x \in BOOLEAN
      OBVIOUS
    <3>2. idle' = idle \/ idle' = [idle EXCEPT ![j] = x]
      BY <1>8 DEF ReleaseLease
    <3> HIDE DEF x
    <3> QED
      BY <2>1, <3>1, <3>2 DEF TypeOK
  <2> QED
    BY <1>8, <2>2, <2>3 DEF ReleaseLease, Return, TypeOK
<1> QED
  BY <1>1, <1>2, <1>3, <1>4, <1>5, <1>6, <1>7, <1>8
  DEF UserStep, EnsureLoaded, AfterLoad, LoadErrorSeen, WaitCancelled

LEMMA LoadTypeStep ==
    ASSUME TypeOK, NEW k \in Keys, LoadEnds(k) \/ DirectUnload(k) \/ DirectLoad(k)
    PROVE  TypeOK'
<1> USE DEF RecordStates, UserStates
<1>1. CASE LoadSucceeds(k)
  <2>1. idle' \in [Keys -> BOOLEAN]
    <3> DEFINE x == idle[k] \/ pending[k] = 0
    <3>1. x \in BOOLEAN
      OBVIOUS
    <3>2. idle' = [idle EXCEPT ![k] = x]
      BY <1>1 DEF LoadSucceeds
    <3> HIDE DEF x
    <3> QED
      BY <3>1, <3>2 DEF TypeOK
  <2> QED
    BY <1>1, <2>1 DEF LoadSucceeds, TypeOK
<1>2. CASE LoadFails(k)
  BY <1>2 DEF LoadFails, TypeOK
<1>3. CASE DirectUnload(k)
  BY <1>3 DEF DirectUnload, TypeOK
<1>4. CASE DirectLoad(k)
  BY <1>4 DEF DirectLoad, TypeOK
<1> QED
  BY <1>1, <1>2, <1>3, <1>4 DEF LoadEnds

LEMMA EnterTypes ==
    ASSUME TypeOK, NEW a \in Unloaders, NEW k \in Keys, NEW d \in BOOLEAN,
           UnloadCall(a, k, d)
    PROVE  /\ RecordType'
           /\ apc' \in [Unloaders -> AdminStates]
           /\ akey' \in [Unloaders -> Keys]
           /\ drain' \in [Unloaders -> BOOLEAN]
<1> USE DEF RecordStates, AdminStates
<1>1. CASE UnloadUntracked(a, k, d)
  BY <1>1 DEF UnloadUntracked, Enter, TypeOK, RecordType
<1>2. CASE JoinTransition(a, k, d) \/ LeaveUnload(a, k, d)
  BY <1>2 DEF JoinTransition, LeaveUnload, Enter, TypeOK, RecordType
<1>3. CASE d /\ BeginDrain(a, k)
  BY <1>3 DEF BeginDrain, Enter, TypeOK, RecordType
<1>4. CASE ~d /\ UnloadUnused(a, k)
  BY <1>4 DEF UnloadUnused, Enter, TypeOK, RecordType
<1> QED
  BY <1>1, <1>2, <1>3, <1>4 DEF UnloadCall

LEMMA AdminTypeStep ==
    ASSUME TypeOK, NEW a \in Unloaders, AdminStep(a)
    PROVE  TypeOK'
<1> USE DEF RecordStates, AdminStates
<1>0. akey[a] \in Keys /\ Notified(akey[a]) \in [Unloaders -> AdminStates]
  BY NotifiedType DEF TypeOK
<1>1. ASSUME NEW k \in Keys, NEW d \in BOOLEAN, Unload(a, k, d) PROVE TypeOK'
  <2>1. RecordType' /\ apc' \in [Unloaders -> AdminStates]
        /\ akey' \in [Unloaders -> Keys] /\ drain' \in [Unloaders -> BOOLEAN]
    BY <1>1, EnterTypes DEF Unload
  <2> QED
    BY <1>1, <2>1 DEF Unload, TypeOK, RecordType
<1>2. CASE DrainIdle(a)
  BY <1>0, <1>2 DEF DrainIdle, TypeOK
<1>3. CASE DrainAbandoned(a)
  BY <1>0, <1>3 DEF DrainAbandoned, TypeOK
<1>4. CASE JoinCancelled(a)
  BY <1>4 DEF JoinCancelled, TypeOK
<1>5. CASE UnloadSucceeds(a)
  BY <1>0, <1>5 DEF UnloadSucceeds, PopRecord, TypeOK
<1>6. CASE UnloadRaises(a)
  <2>1. loaded' \in [Keys -> BOOLEAN]
    <3>1. PICK l \in BOOLEAN : loaded' = [loaded EXCEPT ![akey[a]] = l /\ loaded[akey[a]]]
      BY <1>6 DEF UnloadRaises
    <3> DEFINE x == l /\ loaded[akey[a]]
    <3>2. x \in BOOLEAN
      OBVIOUS
    <3>3. loaded' = [loaded EXCEPT ![akey[a]] = x]
      BY <3>1
    <3> HIDE DEF x
    <3> QED
      BY <1>0, <3>2, <3>3 DEF TypeOK
  <2>2. state' \in [Keys -> RecordStates]
    BY <1>0, <1>6 DEF UnloadRaises, TypeOK
  <2> QED
    BY <1>0, <1>6, <2>1, <2>2 DEF UnloadRaises, TypeOK
<1>7. CASE UnloadCancelled(a)
  <2>1. apc' \in [Unloaders -> AdminStates]
    BY <1>0, <1>7 DEF UnloadCancelled
  <2>2. RecordType' /\ loaded' \in [Keys -> BOOLEAN]
    <3> DEFINE k == akey[a]
    <3>1. CASE /\ state' = [state EXCEPT ![k] = IF @ = "absent" THEN @ ELSE "ready"]
               /\ UNCHANGED <<pending, active, idle, loaded>>
      BY <1>0, <3>1 DEF TypeOK, RecordType
    <3>2. CASE loaded' = [loaded EXCEPT ![k] = FALSE] /\ PopRecord(k)
      BY <1>0, <3>2 DEF PopRecord, TypeOK, RecordType
    <3> QED
      BY <1>7, <3>1, <3>2 DEF UnloadCancelled
  <2> QED
    BY <1>7, <2>1, <2>2 DEF UnloadCancelled, TypeOK, RecordType
<1> QED
  BY <1>1, <1>2, <1>3, <1>4, <1>5, <1>6, <1>7 DEF AdminStep, BackendUnloadEnds

LEMMA ShutdownTypeStep == ASSUME TypeOK, Shutdown PROVE TypeOK'
<1> USE DEF Phases
<1>1. CASE ShutdownBegin \/ ShutdownList \/ ShutdownEnd
  BY <1>1 DEF ShutdownBegin, ShutdownList, ShutdownEnd, TypeOK
<1>2. ASSUME NEW k \in Keys, ShutdownNext(k) PROVE TypeOK'
  <2>1. CASE UNCHANGED <<record, adminVars>>
    BY <1>2, <2>1 DEF ShutdownNext, TypeOK
  <2>2. CASE JoinTransition(Closer, k, TRUE) \/ BeginDrain(Closer, k)
    <3>1. RecordType' /\ apc' \in [Unloaders -> AdminStates]
          /\ akey' \in [Unloaders -> Keys] /\ drain' \in [Unloaders -> BOOLEAN]
      <4>1. UnloadCall(Closer, k, TRUE) /\ Closer \in Unloaders /\ TRUE \in BOOLEAN
        BY <2>2 DEF UnloadCall, Unloaders
      <4> QED
        BY <4>1, EnterTypes
    <3> QED
      BY <1>2, <3>1 DEF ShutdownNext, TypeOK, RecordType
  <2> QED
    BY <1>2, <2>1, <2>2 DEF ShutdownNext
<1> QED
  BY <1>1, <1>2 DEF Shutdown

LEMMA TypeInit == Init => TypeOK
<1> SUFFICES ASSUME Init PROVE TypeOK
  OBVIOUS
<1>1. RecordType
  BY DEF Init, RecordType, RecordStates
<1>2. loads \in [Keys -> Nat] /\ loaded \in [Keys -> BOOLEAN]
  BY DEF Init
<1>3. upc \in [Users -> UserStates] /\ ukey \in [Users -> Keys] /\ hold \in [Users -> BOOLEAN]
  BY DEF Init, UserStates
<1>4. apc \in [Unloaders -> AdminStates] /\ akey \in [Unloaders -> Keys] /\ drain \in [Unloaders -> BOOLEAN]
  BY DEF Init, AdminStates
<1>5. closing \in BOOLEAN /\ phase \in Phases /\ todo \in SUBSET Keys
      /\ directUnloads \in Nat /\ directLoads \in Nat
  BY DEF Init, Phases
<1> QED
  BY <1>1, <1>2, <1>3, <1>4, <1>5 DEF TypeOK, RecordType

LEMMA TypeStep == TypeOK /\ [Next]_vars => TypeOK'
<1> SUFFICES ASSUME TypeOK, [Next]_vars PROVE TypeOK'
  OBVIOUS
<1>1. CASE UNCHANGED vars
  BY <1>1 DEF vars, TypeOK
<1>2. CASE AtRest
  BY <1>2 DEF AtRest, vars, TypeOK
<1> QED
  BY <1>1, <1>2, UserTypeStep, LoadTypeStep, AdminTypeStep, ShutdownTypeStep DEF Next

\* Every variable keeps its type; in particular no count goes below zero.
THEOREM TypeCorrect == Spec => []TypeOK
BY TypeInit, TypeStep, PTL DEF Spec

-----------------------------------------------------------------------------
(* OneTransition is inductive with the types.                              *)

\* Nothing it speaks of changes.
LEMMA TransitionKept ==
    ASSUME OneTransition, UNCHANGED <<state, loads, apc, akey>>
    PROVE  OneTransition'
BY DEF OneTransition, Working

\* No transition is under way on k, and its record moves between two states
\* that nobody owns.
LEMMA TransitionElsewhere ==
    ASSUME TypeOK, OneTransition, NEW k \in Keys, NEW s \in {"ready", "failed", "absent"},
           state[k] \notin {"loading", "draining", "unloading"},
           state' = [state EXCEPT ![k] = s], UNCHANGED <<loads, apc, akey>>
    PROVE  OneTransition'
BY DEF OneTransition, Working, TypeOK, AdminStates

\* Caller a, busy on no key, becomes the owner of a transition of k.
LEMMA TransitionTaken ==
    ASSUME TypeOK, OneTransition, NEW k \in Keys, NEW a \in Unloaders,
           NEW s \in {"draining", "unloading"},
           state[k] \in {"ready", "failed", "absent"},
           apc[a] \notin {"draining", "unloading"},
           state' = [state EXCEPT ![k] = s],
           apc' = [apc EXCEPT ![a] = s], akey' = [akey EXCEPT ![a] = k],
           UNCHANGED loads
    PROVE  OneTransition'
BY DEF OneTransition, Working, TypeOK, AdminStates

\* A caller that owns no transition moves between states that own none.
LEMMA TransitionBystander ==
    ASSUME TypeOK, OneTransition, NEW a \in Unloaders, NEW k \in Keys,
           NEW s \in {"out", "joining", "joined"},
           apc[a] \notin {"draining", "unloading"},
           apc' = [apc EXCEPT ![a] = s], akey' = [akey EXCEPT ![a] = k],
           UNCHANGED <<state, loads>>
    PROVE  OneTransition'
BY DEF OneTransition, Working, TypeOK, AdminStates

\* The owner of a transition ends it and wakes those that joined.
LEMMA TransitionEnded ==
    ASSUME TypeOK, OneTransition, NEW a \in Unloaders,
           apc[a] \in {"draining", "unloading"},
           NEW s \in {"ready", "failed", "absent"},
           state' = [state EXCEPT ![akey[a]] = s],
           apc' = [Notified(akey[a]) EXCEPT ![a] = "out"],
           UNCHANGED <<loads, akey>>
    PROVE  OneTransition'
<1>1. \A b \in Unloaders : \A k \in Keys : Working(b, k)' => b # a /\ Working(b, k) /\ apc'[b] = apc[b]
  BY DEF Working, Notified, TypeOK
<1>2. \A b \in Unloaders : \A k \in Keys : b # a /\ Working(b, k) => Working(b, k)'
  BY DEF Working, Notified, TypeOK
<1>3. akey[a] \in Keys /\ Working(a, akey[a]) /\ state[akey[a]] = apc[a]
  BY DEF Working, TypeOK, OneTransition
<1>4. \A k \in Keys : k # akey[a] => state'[k] = state[k] /\ ~Working(a, k)
  BY DEF Working, TypeOK
<1>5. state'[akey[a]] = s
  BY <1>3 DEF TypeOK
<1>6. ASSUME NEW k \in Keys PROVE loads'[k] = (IF state'[k] = "loading" THEN 1 ELSE 0)
  BY <1>3, <1>4, <1>5 DEF OneTransition
<1>7. ASSUME NEW k \in Keys, NEW b \in Unloaders, Working(b, k)' PROVE state'[k] = apc'[b]
  BY <1>1, <1>3, <1>4, <1>7 DEF OneTransition
<1>8. ASSUME NEW k \in Keys, NEW b \in Unloaders, NEW c \in Unloaders, Working(b, k)', Working(c, k)'
      PROVE  b = c
  BY <1>1, <1>8 DEF OneTransition
<1>9. ASSUME NEW k \in Keys, state'[k] \in {"draining", "unloading"}
      PROVE  \E b \in Unloaders : Working(b, k)'
  <2>1. k # akey[a] /\ state[k] \in {"draining", "unloading"}
    BY <1>3, <1>4, <1>5, <1>9
  <2>2. PICK b \in Unloaders : Working(b, k)
    BY <2>1 DEF OneTransition
  <2> QED
    BY <1>2, <1>4, <2>1, <2>2
<1> QED
  BY <1>6, <1>7, <1>8, <1>9 DEF OneTransition

\* The owner of a drain goes on to unload.
LEMMA TransitionDrained ==
    ASSUME TypeOK, OneTransition, NEW a \in Unloaders, DrainIdle(a)
    PROVE  OneTransition'
<1>1. akey[a] \in Keys /\ Working(a, akey[a]) /\ state[akey[a]] = "draining"
  BY DEF Working, TypeOK, OneTransition, DrainIdle
<1>2. /\ state' = [state EXCEPT ![akey[a]] = "unloading"]
      /\ apc' = [apc EXCEPT ![a] = "unloading"]
      /\ UNCHANGED <<loads, akey>>
  BY <1>1 DEF DrainIdle
<1>3. \A b \in Unloaders : \A k \in Keys : Working(b, k)' <=> Working(b, k)
  BY <1>1, <1>2 DEF Working, TypeOK
<1>4. \A b \in Unloaders : b # a => apc'[b] = apc[b] /\ ~Working(b, akey[a])
  BY <1>1, <1>2 DEF OneTransition, TypeOK
<1>5. ASSUME NEW k \in Keys, NEW b \in Unloaders, Working(b, k)' PROVE state'[k] = apc'[b]
  <2>1. CASE b = a
    BY <1>2, <1>3, <1>5, <2>1 DEF Working, TypeOK
  <2>2. CASE b # a
    BY <1>2, <1>3, <1>4, <1>5, <2>2 DEF OneTransition, TypeOK
  <2> QED
    BY <2>1, <2>2
<1>6. \A k \in Keys : loads'[k] = (IF state'[k] = "loading" THEN 1 ELSE 0)
  BY <1>1, <1>2 DEF OneTransition, TypeOK
<1>7. \A k \in Keys : state'[k] \in {"draining", "unloading"} => \E b \in Unloaders : Working(b, k)'
  BY <1>1, <1>2, <1>3 DEF OneTransition, TypeOK
<1> QED
  BY <1>3, <1>5, <1>6, <1>7 DEF OneTransition

LEMMA OneTransitionStep == TypeOK /\ OneTransition /\ [Next]_vars => OneTransition'
<1> SUFFICES ASSUME TypeOK, OneTransition, [Next]_vars PROVE OneTransition'
  OBVIOUS
<1>1. ASSUME NEW u \in Users, UserStep(u) PROVE OneTransition'
  <2>1. ASSUME NEW k \in Keys, AdoptAndAcquire(u, k) \/ AdoptOnly(u, k) PROVE OneTransition'
    <3>1. /\ state[k] \notin {"loading", "draining", "unloading"}
          /\ state' = [state EXCEPT ![k] = "ready"]
          /\ UNCHANGED <<loads, apc, akey>>
      BY <2>1 DEF AdoptAndAcquire, AdoptOnly
    <3> QED
      BY <3>1, TransitionElsewhere
  <2>2. ASSUME NEW k \in Keys, NEW h \in BOOLEAN, StartLoad(u, k, h) PROVE OneTransition'
    BY <2>2 DEF StartLoad, NeedsLoad, OneTransition, Working, TypeOK
  <2>3. ASSUME NEW k \in Keys, NEW h \in BOOLEAN, AcquireReady(u, k) \/ JoinLoad(u, k, h)
        PROVE  OneTransition'
    BY <2>3, TransitionKept DEF AcquireReady, JoinLoad
  <2>4. CASE AfterLoad(u) \/ WaitCancelled(u) \/ ReleaseLease(u)
    BY <2>4, TransitionKept DEF AfterLoad, WaitCancelled, ReleaseLease, ConvertPromise,
       ReturnUnleased, LoadErrorSeen, ReleasePending, DropPromise
  <2> QED
    BY <1>1, <2>1, <2>2, <2>3, <2>4 DEF UserStep, EnsureLoaded
<1>2. ASSUME NEW k \in Keys, LoadEnds(k) PROVE OneTransition'
  <2>1. /\ state[k] = "loading" /\ loads[k] = 1
        /\ loads' = [loads EXCEPT ![k] = @ - 1]
        /\ \E s \in {"ready", "failed"} : state' = [state EXCEPT ![k] = s]
        /\ UNCHANGED <<apc, akey>>
    BY <1>2 DEF LoadEnds, LoadSucceeds, LoadFails, OneTransition
  <2> QED
    BY <2>1 DEF OneTransition, Working, TypeOK
<1>3. ASSUME NEW k \in Keys, DirectUnload(k) \/ DirectLoad(k) PROVE OneTransition'
  BY <1>3, TransitionKept DEF DirectUnload, DirectLoad
<1>4. ASSUME NEW a \in Unloaders, NEW k \in Keys, NEW d \in BOOLEAN, UnloadCall(a, k, d),
             apc[a] \in {"out", "joined"}, UNCHANGED loads
      PROVE  OneTransition'
  <2>1. CASE UnloadUntracked(a, k, d)
    BY <1>4, <2>1, TransitionTaken DEF UnloadUntracked, Enter
  <2>2. CASE JoinTransition(a, k, d)
    BY <1>4, <2>2, TransitionBystander DEF JoinTransition, Enter
  <2>3. CASE LeaveUnload(a, k, d)
    BY <1>4, <2>3, TransitionBystander DEF LeaveUnload, Enter
  <2>4. CASE BeginDrain(a, k)
    BY <1>4, <2>4, TransitionTaken DEF BeginDrain, Enter
  <2>5. CASE UnloadUnused(a, k)
    BY <1>4, <2>5, TransitionTaken DEF UnloadUnused, Enter
  <2> QED
    BY <1>4, <2>1, <2>2, <2>3, <2>4, <2>5 DEF UnloadCall
<1>5. ASSUME NEW a \in Unloaders, AdminStep(a) PROVE OneTransition'
  <2>0. akey[a] \in Keys /\ (apc[a] \in {"draining", "unloading"} => state[akey[a]] = apc[a])
    BY DEF TypeOK, OneTransition, Working
  <2>1. ASSUME NEW k \in Keys, NEW d \in BOOLEAN, Unload(a, k, d) PROVE OneTransition'
    BY <1>4, <2>1 DEF Unload, Entering
  <2>2. CASE DrainIdle(a)
    BY <2>2, TransitionDrained
  <2>3. CASE DrainAbandoned(a)
    BY <2>0, <2>3, TransitionEnded DEF DrainAbandoned
  <2>4. CASE JoinCancelled(a)
    <3>1. akey' = [akey EXCEPT ![a] = akey[a]]
      BY <2>4 DEF JoinCancelled, TypeOK
    <3> QED
      BY <2>0, <2>4, <3>1, TransitionBystander DEF JoinCancelled
  <2>5. CASE UnloadSucceeds(a)
    BY <2>0, <2>5, TransitionEnded DEF UnloadSucceeds, PopRecord
  <2>6. CASE UnloadRaises(a)
    <3>1. state' = [state EXCEPT ![akey[a]] = "failed"]
      BY <2>0, <2>6 DEF UnloadRaises
    <3> QED
      BY <2>0, <2>6, <3>1, TransitionEnded DEF UnloadRaises
  <2>7. CASE UnloadCancelled(a)
    <3>1. \E s \in {"ready", "absent"} : state' = [state EXCEPT ![akey[a]] = s]
      BY <2>0, <2>7 DEF UnloadCancelled, PopRecord
    <3> QED
      BY <2>0, <2>7, <3>1, TransitionEnded DEF UnloadCancelled
  <2> QED
    BY <1>5, <2>1, <2>2, <2>3, <2>4, <2>5, <2>6, <2>7 DEF AdminStep, BackendUnloadEnds
<1>6. CASE Shutdown
  <2>1. ASSUME NEW k \in Keys, ShutdownNext(k) PROVE OneTransition'
    <3>1. CASE UNCHANGED <<record, adminVars>>
      BY <2>1, <3>1, TransitionKept DEF ShutdownNext
    <3>2. CASE JoinTransition(Closer, k, TRUE) \/ BeginDrain(Closer, k)
      <4>1. UnloadCall(Closer, k, TRUE) /\ Closer \in Unloaders /\ TRUE \in BOOLEAN
        BY <3>2 DEF UnloadCall, Unloaders
      <4> QED
        BY <1>4, <2>1, <4>1 DEF ShutdownNext
    <3> QED
      BY <2>1, <3>1, <3>2 DEF ShutdownNext
  <2>2. CASE ShutdownBegin \/ ShutdownList \/ ShutdownEnd
    BY <2>2, TransitionKept DEF ShutdownBegin, ShutdownList, ShutdownEnd
  <2> QED
    BY <1>6, <2>1, <2>2 DEF Shutdown
<1>7. CASE AtRest \/ UNCHANGED vars
  BY <1>7, TransitionKept DEF AtRest, vars
<1> QED
  BY <1>1, <1>2, <1>3, <1>5, <1>6, <1>7 DEF Next

LEMMA OneTransitionInit == Init => OneTransition
BY DEF Init, OneTransition, Working

\* One transition at a time, for any number of models, users and callers: a
\* load, a drain and an unload of one model never overlap, and a record in
\* transition has the task that will take it out.
THEOREM OneTransitionHolds == Spec => []OneTransition
BY TypeInit, TypeStep, OneTransitionInit, OneTransitionStep, PTL DEF Spec

-----------------------------------------------------------------------------
(* The idle event is set whenever a record is out of use.                  *)

\* Inductive strengthening of DrainNotStranded: the same must hold of the
\* ready records a drain starts from, of the failed ones whatever they count,
\* and of the unloading ones a cancelled unload turns back into ready ones.
IdleComplete ==
    \A k \in Keys :
        /\ state[k] \in {"failed", "unloading"} => idle[k]
        /\ state[k] \in {"ready", "draining"} /\ active[k] = 0 /\ pending[k] = 0 => idle[k]

LEMMA IdleKept ==
    ASSUME IdleComplete, UNCHANGED record PROVE IdleComplete'
BY DEF IdleComplete

LEMMA IdleAfterDrop ==
    ASSUME TypeOK, IdleComplete, NEW k \in Keys, NEW m \in BOOLEAN,
           DropPromise(k, m), m \/ state[k] = "loading"
    PROVE  IdleComplete'
BY DEF IdleComplete, DropPromise, OneFewer, TypeOK

LEMMA IdleCompleteStep ==
    TypeOK /\ OneTransition /\ IdleComplete /\ [Next]_vars => IdleComplete'
<1> SUFFICES ASSUME TypeOK, OneTransition, IdleComplete, [Next]_vars PROVE IdleComplete'
  OBVIOUS
<1>1. ASSUME NEW u \in Users, UserStep(u) PROVE IdleComplete'
  <2>0. ukey[u] \in Keys
    BY DEF TypeOK
  <2>1. ASSUME NEW k \in Keys, AcquireReady(u, k) \/ AdoptAndAcquire(u, k) \/ AdoptOnly(u, k)
        PROVE  IdleComplete'
    <3>1. CASE AcquireReady(u, k)
      BY <3>1 DEF AcquireReady, IdleComplete, TypeOK
    <3>2. CASE AdoptAndAcquire(u, k)
      BY <3>2 DEF AdoptAndAcquire, IdleComplete, TypeOK
    <3>3. CASE AdoptOnly(u, k)
      BY <3>3 DEF AdoptOnly, IdleComplete, TypeOK
    <3> QED
      BY <2>1, <3>1, <3>2, <3>3
  <2>2. ASSUME NEW k \in Keys, NEW h \in BOOLEAN, StartLoad(u, k, h) \/ JoinLoad(u, k, h)
        PROVE  IdleComplete'
    BY <2>2 DEF StartLoad, JoinLoad, IdleComplete, TypeOK
  <2>3. CASE ConvertPromise(u)
    BY <2>0, <2>3 DEF ConvertPromise, IdleComplete, TypeOK
  <2>4. CASE ReturnUnleased(u)
    BY <2>0, <2>4, IdleAfterDrop DEF ReturnUnleased
  <2>5. CASE ReleasePending(u)
    <3> DEFINE m == state[ukey[u]] # "loading"
    <3>1. m \in BOOLEAN /\ DropPromise(ukey[u], m) /\ (m \/ state[ukey[u]] = "loading")
      BY <2>5 DEF ReleasePending
    <3> HIDE DEF m
    <3> QED
      BY <2>0, <3>1, IdleAfterDrop
  <2>6. CASE ReleaseLease(u)
    BY <2>0, <2>6 DEF ReleaseLease, OneFewer, IdleComplete, TypeOK
  <2> QED
    BY <1>1, <2>1, <2>2, <2>3, <2>4, <2>5, <2>6
    DEF UserStep, EnsureLoaded, AfterLoad, LoadErrorSeen, WaitCancelled
<1>2. ASSUME NEW k \in Keys, LoadEnds(k) PROVE IdleComplete'
  BY <1>2 DEF LoadEnds, LoadSucceeds, LoadFails, IdleComplete, TypeOK
<1>3. ASSUME NEW k \in Keys, DirectUnload(k) \/ DirectLoad(k) PROVE IdleComplete'
  BY <1>3, IdleKept DEF DirectUnload, DirectLoad
<1>4. ASSUME NEW a \in Unloaders, NEW k \in Keys, NEW d \in BOOLEAN, UnloadCall(a, k, d)
      PROVE  IdleComplete'
  <2>1. CASE UnloadUntracked(a, k, d)
    BY <2>1 DEF UnloadUntracked, IdleComplete, TypeOK
  <2>2. CASE JoinTransition(a, k, d) \/ LeaveUnload(a, k, d)
    BY <2>2, IdleKept DEF JoinTransition, LeaveUnload
  <2>3. CASE BeginDrain(a, k)
    BY <2>3 DEF BeginDrain, IdleComplete, TypeOK
  <2>4. CASE UnloadUnused(a, k)
    BY <2>4 DEF UnloadUnused, InUse, IdleComplete, TypeOK
  <2> QED
    BY <1>4, <2>1, <2>2, <2>3, <2>4 DEF UnloadCall
<1>5. ASSUME NEW a \in Unloaders, AdminStep(a) PROVE IdleComplete'
  <2>0. akey[a] \in Keys /\ (apc[a] \in {"draining", "unloading"} => state[akey[a]] = apc[a])
    BY DEF TypeOK, OneTransition, Working
  <2>1. ASSUME NEW k \in Keys, NEW d \in BOOLEAN, Unload(a, k, d) PROVE IdleComplete'
    BY <1>4, <2>1 DEF Unload
  <2>2. CASE DrainIdle(a) \/ DrainAbandoned(a)
    BY <2>0, <2>2 DEF DrainIdle, DrainAbandoned, IdleComplete, TypeOK
  <2>3. CASE JoinCancelled(a)
    BY <2>3, IdleKept DEF JoinCancelled
  <2>4. CASE UnloadSucceeds(a) \/ UnloadRaises(a) \/ UnloadCancelled(a)
    <3>1. CASE PopRecord(akey[a])
      BY <2>0, <3>1 DEF PopRecord, IdleComplete, TypeOK
    <3>2. CASE /\ state[akey[a]] = "unloading"
               /\ \E s \in {"ready", "failed"} : state' = [state EXCEPT ![akey[a]] = s]
               /\ UNCHANGED <<pending, active, idle>>
      BY <2>0, <3>2 DEF IdleComplete, TypeOK
    <3>3. apc[a] = "unloading"
      BY <2>4 DEF UnloadSucceeds, UnloadRaises, UnloadCancelled
    <3> QED
      BY <2>0, <2>4, <3>1, <3>2, <3>3 DEF UnloadSucceeds, UnloadRaises, UnloadCancelled
  <2> QED
    BY <1>5, <2>1, <2>2, <2>3, <2>4 DEF AdminStep, BackendUnloadEnds
<1>6. CASE Shutdown
  <2>1. ASSUME NEW k \in Keys, ShutdownNext(k) PROVE IdleComplete'
    <3>1. CASE UNCHANGED <<record, adminVars>>
      BY <3>1, IdleKept
    <3>2. CASE JoinTransition(Closer, k, TRUE) \/ BeginDrain(Closer, k)
      <4>1. UnloadCall(Closer, k, TRUE) /\ Closer \in Unloaders /\ TRUE \in BOOLEAN
        BY <3>2 DEF UnloadCall, Unloaders
      <4> QED
        BY <1>4, <4>1
    <3> QED
      BY <2>1, <3>1, <3>2 DEF ShutdownNext
  <2>2. CASE ShutdownBegin \/ ShutdownList \/ ShutdownEnd
    BY <2>2, IdleKept DEF ShutdownBegin, ShutdownList, ShutdownEnd
  <2> QED
    BY <1>6, <2>1, <2>2 DEF Shutdown
<1>7. CASE AtRest \/ UNCHANGED vars
  BY <1>7, IdleKept DEF AtRest, vars
<1> QED
  BY <1>1, <1>2, <1>3, <1>5, <1>6, <1>7 DEF Next

LEMMA IdleCompleteInit == Init => IdleComplete
BY DEF Init, IdleComplete

\* A drain is never left waiting for an event that the last user to go has
\* not set, whatever the backend, the callers and their cancellations do.
THEOREM DrainNotStrandedHolds == Spec => []DrainNotStranded
<1>1. IdleComplete => DrainNotStranded
  BY DEF IdleComplete, DrainNotStranded
<1> QED
  BY TypeInit, TypeStep, OneTransitionInit, OneTransitionStep,
     IdleCompleteInit, IdleCompleteStep, <1>1, PTL DEF Spec

-----------------------------------------------------------------------------
(* Leases.                                                                 *)

\* The inductive invariant behind LeaseProtected and UsageCounted, of one
\* key: a record that can be in use stands for a loaded model, its count is
\* right, and the idle event is not set while it is in use.
LeaseAt(k) ==
    /\ state[k] \in {"ready", "draining"} => loaded[k]
    /\ Holders(k) # {} => state[k] \in {"ready", "draining"}
    /\ active[k] = Cardinality(Holders(k))
    /\ idle[k] => active[k] = 0

LeaseInv == Undisturbed => \A k \in Keys : LeaseAt(k)

Invariant == TypeOK /\ OneTransition /\ IdleComplete /\ LeaseInv

LEMMA HoldersFinite ==
    ASSUME NEW k
    PROVE  /\ IsFiniteSet(Holders(k))
           /\ Cardinality(Holders(k)) \in Nat
           /\ Cardinality(Holders(k)) = 0 <=> Holders(k) = {}
<1>1. Holders(k) \subseteq Users
  BY DEF Holders
<1>2. IsFiniteSet(Holders(k))
  BY <1>1, ResidencyAssumption, FS_Subset
<1> QED
  BY <1>2, FS_CardinalityType, FS_EmptySet

\* Nobody takes or gives back a lease.
LeasesKept ==
    \A u \in Users : /\ upc'[u] = "leased" <=> upc[u] = "leased"
                     /\ upc[u] = "leased" => ukey'[u] = ukey[u]

LEMMA HoldersKept ==
    ASSUME LeasesKept, NEW k \in Keys PROVE Holders(k)' = Holders(k)
BY DEF LeasesKept, Holders

LEMMA HolderAdded ==
    ASSUME TypeOK, NEW u \in Users, NEW k \in Keys, upc[u] # "leased",
           upc' = [upc EXCEPT ![u] = "leased"], ukey' = [ukey EXCEPT ![u] = k]
    PROVE  /\ \A j \in Keys : j # k => Holders(j)' = Holders(j)
           /\ Holders(k)' # {}
           /\ Cardinality(Holders(k)') = Cardinality(Holders(k)) + 1
<1>1. \A j \in Keys : j # k => Holders(j)' = Holders(j)
  BY DEF Holders, TypeOK
<1>2. Holders(k)' = Holders(k) \cup {u} /\ u \notin Holders(k)
  BY DEF Holders, TypeOK
<1>3. Cardinality(Holders(k) \cup {u}) = Cardinality(Holders(k)) + 1
  BY <1>2, HoldersFinite, FS_AddElement
<1> QED
  BY <1>1, <1>2, <1>3

LEMMA HolderRemoved ==
    ASSUME TypeOK, NEW u \in Users, NEW k \in Keys, upc[u] = "leased", ukey[u] = k,
           upc' = [upc EXCEPT ![u] = "out"], UNCHANGED ukey
    PROVE  /\ \A j \in Keys : j # k => Holders(j)' = Holders(j)
           /\ Holders(k) # {}
           /\ Holders(k)' # {} => Cardinality(Holders(k)) > 1
           /\ Cardinality(Holders(k)') = Cardinality(Holders(k)) - 1
<1>1. \A j \in Keys : j # k => Holders(j)' = Holders(j)
  BY DEF Holders, TypeOK
<1>2. Holders(k)' = Holders(k) \ {u} /\ u \in Holders(k)
  BY DEF Holders, TypeOK
<1>3. Cardinality(Holders(k) \ {u}) = Cardinality(Holders(k)) - 1
      /\ IsFiniteSet(Holders(k) \ {u})
  BY <1>2, HoldersFinite, FS_RemoveElement
<1>4. Holders(k) \ {u} # {} => Cardinality(Holders(k) \ {u}) # 0
  BY <1>3, FS_EmptySet
<1>5. Cardinality(Holders(k) \ {u}) \in Nat /\ Cardinality(Holders(k)) \in Nat
  BY <1>3, HoldersFinite, FS_CardinalityType
<1> QED
  BY <1>1, <1>2, <1>3, <1>4, <1>5

\* A step that touches neither records nor leases, and whose backend keeps
\* every model a record in use stands for.
LEMMA LeaseKept ==
    ASSUME LeaseInv, LeasesKept, UNCHANGED record, directUnloads' = 0 => directUnloads = 0,
           directUnloads' = 0 => \A k \in Keys : loaded[k] => loaded'[k]
    PROVE  LeaseInv'
<1> SUFFICES ASSUME Undisturbed', NEW k \in Keys PROVE LeaseAt(k)'
  BY DEF LeaseInv
<1>1. LeaseAt(k) /\ Holders(k)' = Holders(k) /\ (loaded[k] => loaded'[k])
  BY HoldersKept DEF LeaseInv, Undisturbed
<1> QED
  BY <1>1 DEF LeaseAt

\* A step changes one record, without a lease changing hands.
LEMMA LeaseKeptExcept ==
    ASSUME LeaseInv, LeasesKept, UNCHANGED directUnloads, NEW k \in Keys,
           \A j \in Keys : j # k => /\ state'[j] = state[j] /\ active'[j] = active[j]
                                   /\ idle'[j] = idle[j] /\ loaded'[j] = loaded[j],
           Undisturbed /\ LeaseAt(k) /\ Holders(k)' = Holders(k) => LeaseAt(k)'
    PROVE  LeaseInv'
<1> SUFFICES ASSUME Undisturbed', NEW j \in Keys PROVE LeaseAt(j)'
  BY DEF LeaseInv
<1>1. Undisturbed /\ LeaseAt(j) /\ LeaseAt(k)
  BY DEF LeaseInv, Undisturbed
<1>2. Holders(j)' = Holders(j)
  BY HoldersKept
<1>3. CASE j = k
  BY <1>1, <1>2, <1>3
<1>4. CASE j # k
  BY <1>1, <1>2, <1>4 DEF LeaseAt
<1> QED
  BY <1>3, <1>4

LEMMA UserLeaseStep ==
    ASSUME Invariant, NEW u \in Users, UserStep(u)
    PROVE  LeaseInv'
<1> USE DEF Invariant
<1>0. TypeOK /\ OneTransition /\ LeaseInv /\ ukey[u] \in Keys
  BY DEF TypeOK
\* Taking a lease: one more holder and one more use of a loaded, ready model.
<1>1. ASSUME NEW k \in Keys, upc[u] # "leased",
             upc' = [upc EXCEPT ![u] = "leased"], ukey' = [ukey EXCEPT ![u] = k],
             active' = [active EXCEPT ![k] = @ + 1], idle' = [idle EXCEPT ![k] = FALSE],
             state' = [state EXCEPT ![k] = "ready"], loaded' = loaded,
             Undisturbed /\ LeaseAt(k) => loaded[k], UNCHANGED directUnloads
      PROVE  LeaseInv'
  <2> SUFFICES ASSUME Undisturbed', NEW j \in Keys PROVE LeaseAt(j)'
    BY DEF LeaseInv
  <2>1. Undisturbed /\ LeaseAt(j) /\ LeaseAt(k)
    BY <1>0, <1>1 DEF LeaseInv, Undisturbed
  <2>2. /\ j # k => Holders(j)' = Holders(j)
        /\ Holders(k)' # {}
        /\ Cardinality(Holders(k)') = Cardinality(Holders(k)) + 1
    BY <1>0, <1>1, HolderAdded
  <2>3. CASE j = k
    <3>1. /\ state'[k] = "ready" /\ loaded'[k] /\ ~idle'[k]
          /\ active'[k] = active[k] + 1
      BY <1>0, <1>1, <2>1 DEF TypeOK
    <3> QED
      BY <2>1, <2>2, <2>3, <3>1 DEF LeaseAt
  <2>4. CASE j # k
    <3>1. /\ state'[j] = state[j] /\ loaded'[j] = loaded[j] /\ idle'[j] = idle[j]
          /\ active'[j] = active[j]
      BY <1>0, <1>1, <2>4 DEF TypeOK
    <3> QED
      BY <2>1, <2>2, <2>4, <3>1 DEF LeaseAt
  <2> QED
    BY <2>3, <2>4
<1>2. ASSUME NEW k \in Keys, AcquireReady(u, k) PROVE LeaseInv'
  <2>1. state' = [state EXCEPT ![k] = "ready"]
    BY <1>0, <1>2 DEF AcquireReady, TypeOK
  <2> QED
    BY <1>1, <1>2, <2>1 DEF AcquireReady, Call
<1>3. ASSUME NEW k \in Keys, AdoptAndAcquire(u, k) PROVE LeaseInv'
  BY <1>1, <1>3 DEF AdoptAndAcquire, Call
<1>4. CASE ConvertPromise(u)
  <2>1. /\ state' = [state EXCEPT ![ukey[u]] = "ready"]
        /\ ukey' = [ukey EXCEPT ![u] = ukey[u]]
    BY <1>0, <1>4 DEF ConvertPromise, TypeOK
  <2>2. Undisturbed /\ LeaseAt(ukey[u]) => loaded[ukey[u]]
    BY <1>4 DEF ConvertPromise, LeaseAt
  <2> QED
    BY <1>0, <1>1, <1>4, <2>1, <2>2 DEF ConvertPromise
<1>5. ASSUME NEW k \in Keys, AdoptOnly(u, k) PROVE LeaseInv'
  <2>1. LeasesKept
    BY <1>0, <1>5 DEF AdoptOnly, Call, LeasesKept, TypeOK
  <2>2. Undisturbed /\ LeaseAt(k) /\ Holders(k)' = Holders(k) => LeaseAt(k)'
    <3>1. /\ state'[k] = "ready" /\ loaded'[k] /\ active'[k] = active[k]
          /\ state[k] \notin {"ready", "draining"}
      BY <1>0, <1>5 DEF AdoptOnly, TypeOK
    <3> QED
      BY <3>1, HoldersFinite DEF LeaseAt
  <2> QED
    BY <1>0, <1>5, <2>1, <2>2, LeaseKeptExcept DEF AdoptOnly, TypeOK
<1>6. ASSUME NEW k \in Keys, NEW h \in BOOLEAN, JoinLoad(u, k, h) PROVE LeaseInv'
  <2>1. LeasesKept
    BY <1>0, <1>6 DEF JoinLoad, Call, LeasesKept, TypeOK
  <2>2. Undisturbed /\ LeaseAt(k) /\ Holders(k)' = Holders(k) => LeaseAt(k)'
    BY <1>6 DEF LeaseAt, JoinLoad
  <2> QED
    BY <1>0, <1>6, <2>1, <2>2, LeaseKeptExcept DEF JoinLoad
<1>7. ASSUME NEW k \in Keys, NEW h \in BOOLEAN, StartLoad(u, k, h) PROVE LeaseInv'
  <2>1. LeasesKept
    BY <1>0, <1>7 DEF StartLoad, Call, LeasesKept, TypeOK
  <2>2. Undisturbed /\ LeaseAt(k) /\ Holders(k)' = Holders(k) => LeaseAt(k)'
    <3>1. /\ state'[k] = "loading" /\ ~idle'[k] /\ active'[k] = active[k] /\ ~loaded[k]
      BY <1>0, <1>7 DEF StartLoad, NeedsLoad, TypeOK
    <3> QED
      BY <3>1 DEF LeaseAt
  <2> QED
    BY <1>0, <1>7, <2>1, <2>2, LeaseKeptExcept DEF StartLoad, TypeOK
\* Giving a promise back.
<1>8. ASSUME NEW m, DropPromise(ukey[u], m), Return(u), upc[u] # "leased",
             UNCHANGED <<loaded, directUnloads>>
      PROVE  LeaseInv'
  <2>0. PICK k \in Keys : k = ukey[u]
    BY <1>0
  <2>1. LeasesKept
    BY <1>0, <1>8 DEF Return, LeasesKept, TypeOK
  <2>2. /\ state' = state /\ active' = active
        /\ \A j \in Keys : j # k => idle'[j] = idle[j]
        /\ idle'[k] => idle[k] \/ active[k] = 0
    BY <1>0, <1>8, <2>0 DEF DropPromise, TypeOK
  <2>3. Undisturbed /\ LeaseAt(k) /\ Holders(k)' = Holders(k) => LeaseAt(k)'
    BY <1>8, <2>2 DEF LeaseAt
  <2> QED
    BY <1>0, <1>8, <2>1, <2>2, <2>3, LeaseKeptExcept
<1>9. CASE ReturnUnleased(u) \/ LoadErrorSeen(u) \/ WaitCancelled(u)
  <2>1. PICK m : DropPromise(ukey[u], m)
    BY <1>9 DEF ReturnUnleased, LoadErrorSeen, WaitCancelled, ReleasePending
  <2>2. /\ Return(u) /\ upc[u] # "leased" /\ UNCHANGED <<loaded, directUnloads>>
    BY <1>9 DEF ReturnUnleased, LoadErrorSeen, WaitCancelled, ReleasePending
  <2> QED
    BY <1>8, <2>1, <2>2
\* Giving a lease back.
<1>10. CASE ReleaseLease(u)
  <2>0. PICK k \in Keys : k = ukey[u]
    BY <1>0
  <2> SUFFICES ASSUME Undisturbed', NEW j \in Keys PROVE LeaseAt(j)'
    BY DEF LeaseInv
  <2>1. Undisturbed /\ LeaseAt(j) /\ LeaseAt(k)
    BY <1>0, <1>10 DEF LeaseInv, Undisturbed, ReleaseLease
  <2>2. /\ j # k => Holders(j)' = Holders(j)
        /\ Holders(k) # {}
        /\ Holders(k)' # {} => Cardinality(Holders(k)) > 1
        /\ Cardinality(Holders(k)') = Cardinality(Holders(k)) - 1
    <3>1. /\ upc[u] = "leased" /\ upc' = [upc EXCEPT ![u] = "out"] /\ UNCHANGED ukey
      BY <1>10 DEF ReleaseLease, Return
    <3> QED
      BY <1>0, <2>0, <3>1, HolderRemoved
  <2>3. state[k] \in {"ready", "draining"} /\ state' = state /\ loaded' = loaded
    BY <1>10, <2>0, <2>1, <2>2 DEF LeaseAt, ReleaseLease
  <2>4. /\ active' = [active EXCEPT ![k] = OneFewer(@)]
        /\ idle' = [idle EXCEPT ![k] = @ \/ (OneFewer(active[k]) = 0 /\ pending[k] = 0)]
    BY <1>10, <2>0, <2>3 DEF ReleaseLease
  <2>5. CASE j = k
    <3>1. active[k] \in Nat /\ active[k] # 0
      BY <1>0, <2>1, <2>2, HoldersFinite DEF LeaseAt, TypeOK
    <3>2. active'[k] = active[k] - 1
      BY <1>0, <2>4, <3>1 DEF OneFewer, TypeOK
    <3>3. idle'[k] => idle[k] \/ active'[k] = 0
      BY <1>0, <2>4, <3>1, <3>2 DEF OneFewer, TypeOK
    <3> QED
      BY <2>1, <2>2, <2>3, <2>5, <3>1, <3>2, <3>3 DEF LeaseAt
  <2>6. CASE j # k
    <3>1. active'[j] = active[j] /\ idle'[j] = idle[j]
      BY <1>0, <2>4, <2>6 DEF TypeOK
    <3> QED
      BY <2>1, <2>2, <2>3, <2>6, <3>1 DEF LeaseAt
  <2> QED
    BY <2>5, <2>6
<1> QED
  BY <1>2, <1>3, <1>4, <1>5, <1>6, <1>7, <1>9, <1>10 DEF UserStep, EnsureLoaded, AfterLoad

LEMMA LoadLeaseStep ==
    ASSUME Invariant, NEW k \in Keys, LoadEnds(k)
    PROVE  LeaseInv'
<1>0. TypeOK /\ OneTransition /\ LeaseInv
  BY DEF Invariant
<1>1. state[k] = "loading"
  BY <1>0 DEF LoadEnds, LoadSucceeds, LoadFails, OneTransition
<1>2. LeasesKept
  BY <1>0 DEF LoadEnds, LoadSucceeds, LoadFails, Waiters, LeasesKept, TypeOK
<1>3. Undisturbed /\ LeaseAt(k) /\ Holders(k)' = Holders(k) => LeaseAt(k)'
  <2>1. /\ active'[k] = active[k]
        /\ (state'[k] = "ready" /\ loaded'[k]) \/ state'[k] = "failed"
    BY <1>0 DEF LoadEnds, LoadSucceeds, LoadFails, TypeOK
  <2> QED
    BY <1>1, <2>1, HoldersFinite DEF LeaseAt
<1>4. /\ \A j \in Keys : j # k => /\ state'[j] = state[j] /\ active'[j] = active[j]
                                 /\ idle'[j] = idle[j] /\ loaded'[j] = loaded[j]
      /\ UNCHANGED directUnloads
  BY <1>0 DEF LoadEnds, LoadSucceeds, LoadFails, TypeOK
<1> QED
  BY <1>0, <1>2, <1>3, <1>4, LeaseKeptExcept

\* An unload or a drain starts on k, or is joined: a record whose event is set
\* or whose counts are zero has no holder.
LEMMA UnloadLeaseStep ==
    ASSUME Invariant, NEW a \in Unloaders, NEW k \in Keys, NEW d \in BOOLEAN,
           UnloadCall(a, k, d), UNCHANGED <<backend, userVars, drift>>
    PROVE  LeaseInv'
<1>0. TypeOK /\ IdleComplete /\ LeaseInv
  BY DEF Invariant
<1>1. LeasesKept
  BY DEF LeasesKept
<1>2. Undisturbed /\ LeaseAt(k) /\ Holders(k)' = Holders(k) => LeaseAt(k)'
  <2> SUFFICES ASSUME Undisturbed, LeaseAt(k), Holders(k)' = Holders(k) PROVE LeaseAt(k)'
    OBVIOUS
  <2>0. Holders(k) = {} <=> active[k] = 0
    BY HoldersFinite DEF LeaseAt
  <2>1. CASE UnloadUntracked(a, k, d)
    <3>1. /\ state[k] = "absent" /\ state'[k] = "unloading" /\ active'[k] = active[k]
      BY <1>0, <2>1 DEF UnloadUntracked, TypeOK
    <3> QED
      BY <2>0, <3>1 DEF LeaseAt
  <2>2. CASE JoinTransition(a, k, d) \/ LeaveUnload(a, k, d)
    BY <2>2 DEF JoinTransition, LeaveUnload, LeaseAt
  <2>3. CASE BeginDrain(a, k)
    <3>1. CASE idle[k]
      <4>1. state'[k] = "unloading" /\ active'[k] = active[k] /\ idle'[k] = idle[k]
        BY <1>0, <2>3, <3>1 DEF BeginDrain, TypeOK
      <4> QED
        BY <2>0, <3>1, <4>1 DEF LeaseAt
    <3>2. CASE ~idle[k]
      <4>1. state[k] = "ready"
        BY <1>0, <2>3, <3>2 DEF BeginDrain, IdleComplete
      <4>2. state'[k] = "draining" /\ active'[k] = active[k] /\ idle'[k] = idle[k]
            /\ loaded'[k] = loaded[k]
        BY <1>0, <2>3, <3>2 DEF BeginDrain, TypeOK
      <4> QED
        BY <4>1, <4>2 DEF LeaseAt
    <3> QED
      BY <3>1, <3>2
  <2>4. CASE UnloadUnused(a, k)
    <3>1. /\ active[k] = 0 /\ state'[k] = "unloading" /\ active'[k] = active[k]
      BY <1>0, <2>4 DEF UnloadUnused, InUse, TypeOK
    <3> QED
      BY <2>0, <3>1 DEF LeaseAt
  <2> QED
    BY <2>1, <2>2, <2>3, <2>4 DEF UnloadCall
<1>3. \A j \in Keys : j # k => /\ state'[j] = state[j] /\ active'[j] = active[j]
                              /\ idle'[j] = idle[j] /\ loaded'[j] = loaded[j]
  BY <1>0 DEF UnloadCall, UnloadUntracked, JoinTransition, LeaveUnload, BeginDrain, UnloadUnused, TypeOK
<1> QED
  BY <1>0, <1>1, <1>2, <1>3, LeaseKeptExcept

LEMMA AdminLeaseStep ==
    ASSUME Invariant, NEW a \in Unloaders, AdminStep(a)
    PROVE  LeaseInv'
<1>0. TypeOK /\ OneTransition /\ IdleComplete /\ LeaseInv
  BY DEF Invariant
<1>1. ASSUME NEW k \in Keys, NEW d \in BOOLEAN, Unload(a, k, d) PROVE LeaseInv'
  BY <1>1, UnloadLeaseStep DEF Unload
<1>2. PICK k \in Keys : k = akey[a]
  BY <1>0 DEF TypeOK
<1>3. apc[a] \in {"draining", "unloading"} => state[k] = apc[a]
  BY <1>0, <1>2 DEF OneTransition, Working
<1>4. CASE DrainIdle(a) \/ DrainAbandoned(a)
  <2>1. LeasesKept
    BY <1>4 DEF DrainIdle, DrainAbandoned, LeasesKept
  <2>2. /\ state[k] = "draining"
        /\ \/ state' = [state EXCEPT ![k] = "unloading"] /\ idle[k]
           \/ state' = [state EXCEPT ![k] = "ready"]
        /\ UNCHANGED <<active, idle, loaded, directUnloads>>
    BY <1>2, <1>3, <1>4 DEF DrainIdle, DrainAbandoned
  <2>3. Undisturbed /\ LeaseAt(k) /\ Holders(k)' = Holders(k) => LeaseAt(k)'
    <3>1. (state'[k] = "unloading" /\ idle[k]) \/ state'[k] = "ready"
      BY <1>0, <2>2 DEF TypeOK
    <3> QED
      BY <2>2, <3>1, HoldersFinite DEF LeaseAt
  <2>4. \A j \in Keys : j # k => state'[j] = state[j]
    BY <1>0, <2>2 DEF TypeOK
  <2> QED
    BY <1>0, <2>1, <2>2, <2>3, <2>4, LeaseKeptExcept
<1>5. CASE JoinCancelled(a)
  <2>1. LeasesKept
    BY <1>5 DEF JoinCancelled, LeasesKept
  <2> QED
    BY <1>0, <1>5, <2>1, LeaseKept DEF JoinCancelled
<1>6. CASE UnloadSucceeds(a) \/ UnloadRaises(a) \/ UnloadCancelled(a)
  <2>1. LeasesKept
    BY <1>6 DEF UnloadSucceeds, UnloadRaises, UnloadCancelled, LeasesKept
  <2>2. /\ state[k] = "unloading"
        /\ \/ PopRecord(k)
           \/ state' = [state EXCEPT ![k] = "failed"] /\ UNCHANGED <<active, idle>>
           \/ state' = [state EXCEPT ![k] = "ready"] /\ loaded[k] /\ UNCHANGED <<active, idle, loaded>>
        /\ UNCHANGED directUnloads
    BY <1>2, <1>3, <1>6 DEF UnloadSucceeds, UnloadRaises, UnloadCancelled
  <2>3. \A j \in Keys : j # k => loaded'[j] = loaded[j]
    BY <1>0, <1>2, <1>6 DEF UnloadSucceeds, UnloadRaises, UnloadCancelled, TypeOK
  <2>4. Undisturbed /\ LeaseAt(k) /\ Holders(k)' = Holders(k) => LeaseAt(k)'
    <3>1. CASE PopRecord(k)
      <4>1. state'[k] = "absent" /\ active'[k] = 0
        BY <1>0, <3>1 DEF PopRecord, TypeOK
      <4> QED
        BY <2>2, <4>1, HoldersFinite DEF LeaseAt
    <3>2. CASE state' = [state EXCEPT ![k] = "failed"] /\ UNCHANGED <<active, idle>>
      <4>1. state'[k] = "failed" /\ active'[k] = active[k]
        BY <1>0, <3>2 DEF TypeOK
      <4> QED
        BY <2>2, <4>1, HoldersFinite DEF LeaseAt
    <3>3. CASE state' = [state EXCEPT ![k] = "ready"] /\ loaded[k] /\ UNCHANGED <<active, idle, loaded>>
      <4>1. state'[k] = "ready" /\ active'[k] = active[k] /\ loaded'[k]
        BY <1>0, <3>3 DEF TypeOK
      <4> QED
        BY <2>2, <4>1, HoldersFinite DEF LeaseAt
    <3> QED
      BY <2>2, <3>1, <3>2, <3>3
  <2>5. \A j \in Keys : j # k => state'[j] = state[j] /\ active'[j] = active[j] /\ idle'[j] = idle[j]
    BY <1>0, <2>2 DEF PopRecord, TypeOK
  <2> QED
    BY <1>0, <2>1, <2>2, <2>3, <2>4, <2>5, LeaseKeptExcept
<1> QED
  BY <1>1, <1>4, <1>5, <1>6 DEF AdminStep, BackendUnloadEnds

LEMMA LeaseStep == Invariant /\ [Next]_vars => LeaseInv'
<1> SUFFICES ASSUME Invariant, [Next]_vars PROVE LeaseInv'
  OBVIOUS
<1>0. TypeOK /\ LeaseInv
  BY DEF Invariant
<1>1. ASSUME NEW k \in Keys, DirectUnload(k) \/ DirectLoad(k) PROVE LeaseInv'
  <2>1. LeasesKept /\ UNCHANGED record
    BY <1>1 DEF DirectUnload, DirectLoad, LeasesKept
  <2>2. CASE DirectUnload(k)
    BY <1>0, <2>2 DEF DirectUnload, LeaseInv, Undisturbed, TypeOK
  <2>3. CASE DirectLoad(k)
    <3>1. directUnloads' = directUnloads /\ \A j \in Keys : loaded[j] => loaded'[j]
      BY <1>0, <2>3 DEF DirectLoad, TypeOK
    <3> QED
      BY <1>0, <2>1, <3>1, LeaseKept
  <2> QED
    BY <1>1, <2>2, <2>3
<1>2. ASSUME NEW k \in Keys, ShutdownNext(k) PROVE LeaseInv'
  <2>1. CASE UNCHANGED <<record, adminVars>>
    <3>1. LeasesKept
      BY <1>2 DEF ShutdownNext, LeasesKept
    <3> QED
      BY <1>0, <1>2, <2>1, <3>1, LeaseKept DEF ShutdownNext
  <2>2. CASE JoinTransition(Closer, k, TRUE) \/ BeginDrain(Closer, k)
    <3>1. UnloadCall(Closer, k, TRUE) /\ Closer \in Unloaders /\ TRUE \in BOOLEAN
      BY <2>2 DEF UnloadCall, Unloaders
    <3> QED
      BY <1>2, <3>1, UnloadLeaseStep DEF ShutdownNext
  <2> QED
    BY <1>2, <2>1, <2>2 DEF ShutdownNext
<1>3. CASE ShutdownBegin \/ ShutdownList \/ ShutdownEnd \/ AtRest \/ UNCHANGED vars
  <2>1. LeasesKept /\ UNCHANGED <<record, backend, drift>>
    BY <1>3 DEF ShutdownBegin, ShutdownList, ShutdownEnd, AtRest, vars, LeasesKept
  <2> QED
    BY <1>0, <2>1, LeaseKept
<1> QED
  BY <1>1, <1>2, <1>3, UserLeaseStep, LoadLeaseStep, AdminLeaseStep DEF Next, Shutdown

LEMMA LeaseInit == Init => LeaseInv
<1> SUFFICES ASSUME Init, NEW k \in Keys PROVE LeaseAt(k)
  BY DEF LeaseInv
<1>1. Holders(k) = {} /\ Cardinality({}) = 0
  BY FS_EmptySet DEF Init, Holders
<1> QED
  BY <1>1 DEF Init, LeaseAt

LEMMA InvariantHolds == Spec => []Invariant
<1>1. Init => Invariant
  BY TypeInit, OneTransitionInit, IdleCompleteInit, LeaseInit DEF Invariant
<1>2. Invariant /\ [Next]_vars => Invariant'
  BY TypeStep, OneTransitionStep, IdleCompleteStep, LeaseStep DEF Invariant
<1> QED
  BY <1>1, <1>2, PTL DEF Spec

\* For any number of models, users and callers: as long as nobody unloads
\* behind the manager's back, a leased model stays loaded and is neither
\* unloaded nor reloaded under its lease.
THEOREM LeaseProtectedHolds == Spec => []LeaseProtected
<1>1. Invariant => LeaseProtected
  BY DEF Invariant, LeaseInv, LeaseAt, LeaseProtected
<1> QED
  BY <1>1, InvariantHolds, PTL

\* Under the same proviso active_usage_count is the number of leases held.
THEOREM UsageCountedHolds == Spec => []UsageCounted
<1>1. Invariant => UsageCounted
  BY DEF Invariant, LeaseInv, LeaseAt, UsageCounted
<1> QED
  BY <1>1, InvariantHolds, PTL

-----------------------------------------------------------------------------
(* New use of a model that is leaving.                                     *)

NewUse(k) == {u \in Users : upc'[u] = "leased" /\ ukey'[u] = k}

LEMMA NoNewUseKept ==
    ASSUME LeasesKept, NEW k \in Keys PROVE NewUse(k) \subseteq Holders(k)
BY DEF LeasesKept, Holders, NewUse

LEMMA UserLeasesKept ==
    ASSUME TypeOK, NEW u \in Users, NEW k \in Keys, state[k] \in {"draining", "unloading"},
           UserStep(u)
    PROVE  NewUse(k) \subseteq Holders(k)
<1>1. ASSUME NEW j \in Keys, j # k, upc' = [upc EXCEPT ![u] = "leased"],
             ukey' = [ukey EXCEPT ![u] = j]
      PROVE  NewUse(k) \subseteq Holders(k)
  BY <1>1 DEF Holders, NewUse, TypeOK
<1>2. ASSUME NEW j \in Keys, AcquireReady(u, j) \/ AdoptAndAcquire(u, j)
      PROVE  NewUse(k) \subseteq Holders(k)
  BY <1>1, <1>2 DEF AcquireReady, AdoptAndAcquire, Call
<1>3. CASE ConvertPromise(u)
  <2>1. ukey[u] \in Keys /\ ukey[u] # k /\ ukey' = [ukey EXCEPT ![u] = ukey[u]]
    BY <1>3 DEF ConvertPromise, TypeOK
  <2> QED
    BY <1>1, <1>3, <2>1 DEF ConvertPromise
<1>4. ASSUME NEW j \in Keys, NEW h \in BOOLEAN,
             AdoptOnly(u, j) \/ JoinLoad(u, j, h) \/ StartLoad(u, j, h)
      PROVE  NewUse(k) \subseteq Holders(k)
  <2>1. PICK w \in {"out", "waiting"} : Call(u, j, h, w) \/ Call(u, j, FALSE, w)
    BY <1>4 DEF AdoptOnly, JoinLoad, StartLoad
  <2> QED
    BY <2>1 DEF Call, Holders, NewUse, TypeOK
<1>5. CASE ReturnUnleased(u) \/ LoadErrorSeen(u) \/ WaitCancelled(u) \/ ReleaseLease(u)
  <2>1. Return(u)
    BY <1>5 DEF ReturnUnleased, LoadErrorSeen, WaitCancelled, ReleaseLease, ReleasePending
  <2> QED
    BY <2>1 DEF Return, Holders, NewUse, TypeOK
<1> QED
  BY <1>2, <1>3, <1>4, <1>5 DEF UserStep, EnsureLoaded, AfterLoad

LEMMA NoNewUseStep ==
    ASSUME TypeOK, [Next]_vars, NEW k \in Keys, state[k] \in {"draining", "unloading"}
    PROVE  NewUse(k) \subseteq Holders(k)
<1>1. ASSUME NEW j \in Keys, LoadEnds(j) PROVE LeasesKept
  BY <1>1 DEF LoadEnds, LoadSucceeds, LoadFails, Waiters, LeasesKept, TypeOK
<1>2. ASSUME NEW j \in Keys, DirectUnload(j) \/ DirectLoad(j) PROVE LeasesKept
  BY <1>2 DEF DirectUnload, DirectLoad, LeasesKept
<1>3. ASSUME NEW a \in Unloaders, AdminStep(a) PROVE LeasesKept
  BY <1>3 DEF AdminStep, BackendUnloadEnds, Unload, DrainIdle, DrainAbandoned, JoinCancelled,
     UnloadSucceeds, UnloadRaises, UnloadCancelled, LeasesKept
<1>4. ASSUME Shutdown \/ AtRest \/ UNCHANGED vars PROVE LeasesKept
  BY <1>4 DEF Shutdown, ShutdownBegin, ShutdownList, ShutdownNext, ShutdownEnd, AtRest, vars, LeasesKept
<1> QED
  BY <1>1, <1>2, <1>3, <1>4, NoNewUseKept, UserLeasesKept DEF Next

\* No step ever grants a lease on a draining or unloading model, also when
\* models are unloaded behind the manager's back.
THEOREM NoNewUseHolds == Spec => NoNewUseWhileLeaving
<1>1. TypeOK /\ [Next]_vars =>
        [\A k \in Keys : state[k] \in {"draining", "unloading"} =>
          {u \in Users : upc'[u] = "leased" /\ ukey'[u] = k} \subseteq Holders(k)]_vars
  BY NoNewUseStep DEF NewUse
<1> QED
  BY <1>1, TypeInit, TypeStep, PTL DEF Spec, NoNewUseWhileLeaving

-----------------------------------------------------------------------------
(* Promises.                                                               *)

Waiting(w) == w \in {"waiting", "loadDone", "loadFailed"}

LEMMA PromisedFinite ==
    ASSUME NEW k
    PROVE  IsFiniteSet(Promised(k)) /\ Cardinality(Promised(k)) \in Nat
<1>1. Promised(k) \subseteq Users
  BY DEF Promised
<1> QED
  BY <1>1, ResidencyAssumption, FS_Subset, FS_CardinalityType

\* The promises of a key stay within its waiters when both stay as they are,
\* when the record is gone, ...
LEMMA PromisesKept ==
    ASSUME TypeOK, PromisesNotLeaked,
           \A u \in Users : /\ Waiting(upc'[u]) <=> Waiting(upc[u])
                            /\ Waiting(upc[u]) => ukey'[u] = ukey[u],
           \A k \in Keys : pending'[k] = pending[k] \/ pending'[k] = 0
    PROVE  PromisesNotLeaked'
<1> SUFFICES ASSUME NEW k \in Keys PROVE pending'[k] <= Cardinality(Promised(k)')
  BY DEF PromisesNotLeaked
<1>1. Promised(k)' = Promised(k)
  BY DEF Promised, Waiting
<1> QED
  BY <1>1, PromisedFinite DEF PromisesNotLeaked, TypeOK

\* ... when a caller starts to wait and is counted, ...
LEMMA PromiseMade ==
    ASSUME TypeOK, PromisesNotLeaked, NEW u \in Users, NEW k \in Keys, upc[u] = "out",
           upc' = [upc EXCEPT ![u] = "waiting"], ukey' = [ukey EXCEPT ![u] = k],
           pending' = [pending EXCEPT ![k] = @ + 1]
    PROVE  PromisesNotLeaked'
<1> SUFFICES ASSUME NEW j \in Keys PROVE pending'[j] <= Cardinality(Promised(j)')
  BY DEF PromisesNotLeaked
<1>0. pending[j] \in Nat /\ pending[j] <= Cardinality(Promised(j)) /\ Cardinality(Promised(j)) \in Nat
  BY PromisedFinite DEF PromisesNotLeaked, TypeOK
<1>1. CASE j = k
  <2>1. Promised(j)' = Promised(j) \cup {u} /\ u \notin Promised(j)
    BY <1>1 DEF Promised, TypeOK
  <2>2. Cardinality(Promised(j)') = Cardinality(Promised(j)) + 1
    BY <2>1, PromisedFinite, FS_AddElement
  <2>3. pending'[j] = pending[j] + 1
    BY <1>1 DEF TypeOK
  <2> QED
    BY <1>0, <2>2, <2>3
<1>2. CASE j # k
  <2>1. Promised(j)' = Promised(j) /\ pending'[j] = pending[j]
    BY <1>2 DEF Promised, TypeOK
  <2> QED
    BY <1>0, <2>1
<1> QED
  BY <1>1, <1>2

\* ... and when a waiter leaves and is no longer counted, if it was at all.
LEMMA PromiseDropped ==
    ASSUME TypeOK, PromisesNotLeaked, NEW u \in Users, NEW k \in Keys, ukey[u] = k,
           Waiting(upc[u]), NEW w \in {"out", "leased"},
           upc' = [upc EXCEPT ![u] = w], ukey' = ukey,
           \/ pending' = [pending EXCEPT ![k] = OneFewer(@)]
           \/ pending' = pending /\ pending[k] = 0
    PROVE  PromisesNotLeaked'
<1> SUFFICES ASSUME NEW j \in Keys PROVE pending'[j] <= Cardinality(Promised(j)')
  BY DEF PromisesNotLeaked
<1>0. pending[j] \in Nat /\ pending[j] <= Cardinality(Promised(j)) /\ Cardinality(Promised(j)) \in Nat
  BY PromisedFinite DEF PromisesNotLeaked, TypeOK
<1>1. CASE j = k
  <2>1. Promised(j)' = Promised(j) \ {u} /\ u \in Promised(j)
    BY <1>1 DEF Promised, Waiting, TypeOK
  <2>2. Cardinality(Promised(j)') = Cardinality(Promised(j)) - 1
        /\ Cardinality(Promised(j)') \in Nat
    <3>1. /\ Cardinality(Promised(j) \ {u}) = Cardinality(Promised(j)) - 1
          /\ IsFiniteSet(Promised(j) \ {u})
      BY <2>1, PromisedFinite, FS_RemoveElement
    <3> QED
      BY <2>1, <3>1, FS_CardinalityType
  <2>3. pending'[j] = IF pending[j] = 0 THEN 0 ELSE pending[j] - 1
    BY <1>1 DEF TypeOK, OneFewer
  <2> QED
    BY <1>0, <2>2, <2>3
<1>2. CASE j # k
  <2>1. Promised(j)' = Promised(j) /\ pending'[j] = pending[j]
    BY <1>2 DEF Promised, TypeOK
  <2> QED
    BY <1>0, <2>1
<1> QED
  BY <1>1, <1>2

\* A key without a record counts nothing.
AbsentEmpty == \A k \in Keys : state[k] = "absent" => pending[k] = 0

PromiseInv == PromisesNotLeaked /\ AbsentEmpty

LEMMA PromiseStep == TypeOK /\ PromiseInv /\ [Next]_vars => PromiseInv'
<1> SUFFICES ASSUME TypeOK, PromisesNotLeaked, AbsentEmpty, [Next]_vars PROVE PromiseInv'
  BY DEF PromiseInv
<1>1. ASSUME NEW u \in Users, UserStep(u) PROVE PromiseInv'
  <2>0. ukey[u] \in Keys
    BY DEF TypeOK
  <2>1. ASSUME NEW k \in Keys, AcquireReady(u, k) \/ AdoptAndAcquire(u, k) \/ AdoptOnly(u, k)
        PROVE  PromiseInv'
    <3>1. AbsentEmpty'
      BY <2>1 DEF AcquireReady, AdoptAndAcquire, AdoptOnly, AbsentEmpty, TypeOK
    <3>2. /\ \A v \in Users : /\ Waiting(upc'[v]) <=> Waiting(upc[v])
                              /\ Waiting(upc[v]) => ukey'[v] = ukey[v]
          /\ pending' = pending
      BY <2>1 DEF AcquireReady, AdoptAndAcquire, AdoptOnly, Call, Waiting, TypeOK
    <3> QED
      BY <3>1, <3>2, PromisesKept DEF PromiseInv
  <2>2. ASSUME NEW k \in Keys, NEW h \in BOOLEAN, StartLoad(u, k, h) \/ JoinLoad(u, k, h)
        PROVE  PromiseInv'
    <3>1. AbsentEmpty'
      BY <2>2 DEF StartLoad, JoinLoad, AbsentEmpty, TypeOK
    <3>2. PromisesNotLeaked'
      BY <2>2, PromiseMade DEF StartLoad, JoinLoad, Call
    <3> QED
      BY <3>1, <3>2 DEF PromiseInv
  <2>3. CASE ConvertPromise(u)
    <3>1. AbsentEmpty'
      BY <2>0, <2>3 DEF ConvertPromise, AbsentEmpty, TypeOK
    <3>2. PromisesNotLeaked'
      BY <2>0, <2>3, PromiseDropped DEF ConvertPromise, Waiting
    <3> QED
      BY <3>1, <3>2 DEF PromiseInv
  <2>4. ASSUME NEW m, DropPromise(ukey[u], m), Return(u), Waiting(upc[u]) PROVE PromiseInv'
    <3>1. AbsentEmpty'
      BY <2>0, <2>4 DEF DropPromise, AbsentEmpty, TypeOK
    <3>2. /\ \/ pending' = [pending EXCEPT ![ukey[u]] = OneFewer(@)]
             \/ pending' = pending /\ pending[ukey[u]] = 0
          /\ upc' = [upc EXCEPT ![u] = "out"] /\ ukey' = ukey
      BY <2>0, <2>4 DEF DropPromise, Return, AbsentEmpty
    <3>3. PromisesNotLeaked'
      BY <2>0, <2>4, <3>2, PromiseDropped
    <3> QED
      BY <3>1, <3>3 DEF PromiseInv
  <2>5. CASE ReturnUnleased(u) \/ LoadErrorSeen(u) \/ WaitCancelled(u)
    <3>1. PICK m : DropPromise(ukey[u], m)
      BY <2>5 DEF ReturnUnleased, LoadErrorSeen, WaitCancelled, ReleasePending
    <3>2. Return(u) /\ Waiting(upc[u])
      BY <2>5 DEF ReturnUnleased, LoadErrorSeen, WaitCancelled, ReleasePending, Waiting
    <3> QED
      BY <2>4, <3>1, <3>2
  <2>6. CASE ReleaseLease(u)
    <3>1. AbsentEmpty'
      BY <2>6 DEF ReleaseLease, AbsentEmpty
    <3>2. /\ \A v \in Users : Waiting(upc'[v]) <=> Waiting(upc[v])
          /\ pending' = pending /\ ukey' = ukey
      BY <2>6 DEF ReleaseLease, Return, Waiting, TypeOK
    <3> QED
      BY <3>1, <3>2, PromisesKept DEF PromiseInv
  <2> QED
    BY <1>1, <2>1, <2>2, <2>3, <2>5, <2>6 DEF UserStep, EnsureLoaded, AfterLoad
<1>2. ASSUME NEW k \in Keys, LoadEnds(k) PROVE PromiseInv'
  <2>1. AbsentEmpty'
    BY <1>2 DEF LoadEnds, LoadSucceeds, LoadFails, AbsentEmpty, TypeOK
  <2>2. /\ \A v \in Users : Waiting(upc'[v]) <=> Waiting(upc[v])
        /\ pending' = pending /\ ukey' = ukey
    BY <1>2 DEF LoadEnds, LoadSucceeds, LoadFails, Waiters, Waiting, TypeOK
  <2> QED
    BY <2>1, <2>2, PromisesKept DEF PromiseInv
\* Steps that leave the users alone and set no count but that of a gone record.
<1>3. ASSUME UNCHANGED <<upc, ukey>>,
             \A k \in Keys : pending'[k] = pending[k] \/ pending'[k] = 0,
             \A k \in Keys : state'[k] = "absent" => state[k] = "absent" \/ pending'[k] = 0
      PROVE  PromiseInv'
  <2>1. AbsentEmpty'
    BY <1>3 DEF AbsentEmpty
  <2> QED
    BY <1>3, <2>1, PromisesKept DEF PromiseInv
<1>4. ASSUME NEW k \in Keys, DirectUnload(k) \/ DirectLoad(k) PROVE PromiseInv'
  BY <1>3, <1>4 DEF DirectUnload, DirectLoad
<1>5. ASSUME NEW a \in Unloaders, NEW k \in Keys, NEW d \in BOOLEAN, UnloadCall(a, k, d),
             UNCHANGED userVars
      PROVE  PromiseInv'
  <2>1. pending' = pending /\ \A j \in Keys : state'[j] = "absent" => state[j] = "absent"
    BY <1>5 DEF UnloadCall, UnloadUntracked, JoinTransition, LeaveUnload, BeginDrain, UnloadUnused, TypeOK
  <2> QED
    BY <1>3, <1>5, <2>1
<1>6. ASSUME NEW a \in Unloaders, AdminStep(a) PROVE PromiseInv'
  <2>0. akey[a] \in Keys
    BY DEF TypeOK
  <2>1. ASSUME NEW k \in Keys, NEW d \in BOOLEAN, Unload(a, k, d) PROVE PromiseInv'
    BY <1>5, <2>1 DEF Unload
  <2>2. CASE DrainIdle(a) \/ DrainAbandoned(a) \/ JoinCancelled(a)
    <3>1. /\ pending' = pending /\ UNCHANGED <<upc, ukey>>
          /\ \A j \in Keys : state'[j] = "absent" => state[j] = "absent"
      BY <2>0, <2>2 DEF DrainIdle, DrainAbandoned, JoinCancelled, TypeOK
    <3> QED
      BY <1>3, <3>1
  <2>3. CASE UnloadRaises(a)
    <3>1. /\ pending' = pending /\ UNCHANGED <<upc, ukey>>
          /\ \A j \in Keys : state'[j] = "absent" => state[j] = "absent"
      BY <2>0, <2>3 DEF UnloadRaises, TypeOK
    <3> QED
      BY <1>3, <3>1
  <2>4. CASE UnloadSucceeds(a) \/ UnloadCancelled(a)
    <3>1. UNCHANGED <<upc, ukey>>
      BY <2>4 DEF UnloadSucceeds, UnloadCancelled
    <3>2. CASE PopRecord(akey[a])
      BY <1>3, <2>0, <3>1, <3>2 DEF PopRecord, TypeOK
    <3>3. CASE /\ state' = [state EXCEPT ![akey[a]] = IF @ = "absent" THEN @ ELSE "ready"]
               /\ pending' = pending
      BY <1>3, <2>0, <3>1, <3>3 DEF TypeOK
    <3> QED
      BY <2>4, <3>2, <3>3 DEF UnloadSucceeds, UnloadCancelled
  <2> QED
    BY <1>6, <2>1, <2>2, <2>3, <2>4 DEF AdminStep, BackendUnloadEnds
<1>7. CASE Shutdown
  <2>1. ASSUME NEW k \in Keys, ShutdownNext(k) PROVE PromiseInv'
    <3>1. CASE UNCHANGED <<record, adminVars>>
      BY <1>3, <2>1, <3>1 DEF ShutdownNext
    <3>2. CASE JoinTransition(Closer, k, TRUE) \/ BeginDrain(Closer, k)
      <4>1. UnloadCall(Closer, k, TRUE) /\ Closer \in Unloaders /\ TRUE \in BOOLEAN
        BY <3>2 DEF UnloadCall, Unloaders
      <4> QED
        BY <1>5, <2>1, <4>1 DEF ShutdownNext
    <3> QED
      BY <2>1, <3>1, <3>2 DEF ShutdownNext
  <2>2. CASE ShutdownBegin \/ ShutdownList \/ ShutdownEnd
    BY <1>3, <2>2 DEF ShutdownBegin, ShutdownList, ShutdownEnd
  <2> QED
    BY <1>7, <2>1, <2>2 DEF Shutdown
<1>8. CASE AtRest \/ UNCHANGED vars
  BY <1>3, <1>8 DEF AtRest, vars
<1> QED
  BY <1>1, <1>2, <1>4, <1>6, <1>7, <1>8 DEF Next

LEMMA PromiseInit == Init => PromiseInv
<1> SUFFICES ASSUME Init, NEW k \in Keys PROVE pending[k] = 0
  BY PromisedFinite DEF PromiseInv, PromisesNotLeaked, AbsentEmpty
<1> QED
  BY DEF Init

\* No caller leaves ensure_loaded or acquire, by success, error or
\* cancellation, with its promise still counted: what is pending is waiting.
THEOREM PromisesNotLeakedHolds == Spec => []PromisesNotLeaked
<1>1. PromiseInv => PromisesNotLeaked
  BY DEF PromiseInv
<1> QED
  BY <1>1, TypeInit, TypeStep, PromiseInit, PromiseStep, PTL DEF Spec

(* active_usage_count is the number of leases, unless a model was unloaded    *)
(* behind the manager's back, and pending_lease_count is never too high.      *)
THEOREM CountsTrueHolds == Spec => []CountsTrue
<1>1. UsageCounted /\ PromisesNotLeaked => CountsTrue
  BY DEF CountsTrue
<1> QED
  BY <1>1, UsageCountedHolds, PromisesNotLeakedHolds, PTL

-----------------------------------------------------------------------------
(* Promises that are counted, and the cleanups that look at the count.     *)

\* As long as loads succeed and nobody unloads directly, every caller that
\* waits is counted, an idle record has no waiter, nor has one that is going or
\* gone, and a record that is loading is waited for by this load's callers only.
PromiseAt(k) ==
    /\ pending[k] = Cardinality(Promised(k))
    /\ idle[k] => pending[k] = 0
    /\ state[k] \in {"absent", "unloading", "failed"} => pending[k] = 0
    /\ state[k] = "loading" => ~idle[k] /\ \A u \in Promised(k) : upc[u] = "waiting"

Smooth == Undisturbed /\ ~LoadsMayFail

PromisesCounted == Smooth => \A k \in Keys : PromiseAt(k)

\* What a step of one caller does to the waiters of the keys.
LEMMA PromisedMoves ==
    ASSUME TypeOK, NEW u \in Users, NEW k \in Keys, NEW w, Waiting(upc[u]) => ukey[u] = k,
           upc' = [upc EXCEPT ![u] = w], ukey' = [ukey EXCEPT ![u] = k]
    PROVE  /\ \A j \in Keys : j # k => Promised(j)' = Promised(j)
           /\ Waiting(w) /\ ~Waiting(upc[u]) =>
                /\ Promised(k)' = Promised(k) \cup {u}
                /\ Cardinality(Promised(k)') = Cardinality(Promised(k)) + 1
           /\ ~Waiting(w) /\ Waiting(upc[u]) =>
                /\ Promised(k)' = Promised(k) \ {u} /\ u \in Promised(k)
                /\ Cardinality(Promised(k)) > 0
                /\ Cardinality(Promised(k)') = Cardinality(Promised(k)) - 1
           /\ ~Waiting(w) /\ ~Waiting(upc[u]) => Promised(k)' = Promised(k)
<1>1. \A v \in Users : /\ upc'[v] = IF v = u THEN w ELSE upc[v]
                       /\ ukey'[v] = IF v = u THEN k ELSE ukey[v]
  BY DEF TypeOK
<1>2. ASSUME NEW j \in Keys, j # k PROVE Promised(j)' = Promised(j)
  BY <1>1, <1>2 DEF Promised, Waiting
<1>3. ASSUME Waiting(w), ~Waiting(upc[u])
      PROVE  /\ Promised(k)' = Promised(k) \cup {u}
             /\ Cardinality(Promised(k)') = Cardinality(Promised(k)) + 1
  <2>1. Promised(k)' = Promised(k) \cup {u} /\ u \notin Promised(k)
    BY <1>1, <1>3 DEF Promised, Waiting
  <2> QED
    BY <2>1, PromisedFinite, FS_AddElement
<1>4. ASSUME ~Waiting(w), Waiting(upc[u])
      PROVE  /\ Promised(k)' = Promised(k) \ {u} /\ u \in Promised(k)
             /\ Cardinality(Promised(k)) > 0
             /\ Cardinality(Promised(k)') = Cardinality(Promised(k)) - 1
  <2>1. Promised(k)' = Promised(k) \ {u} /\ u \in Promised(k)
    BY <1>1, <1>4 DEF Promised, Waiting
  <2>2. /\ Cardinality(Promised(k) \ {u}) = Cardinality(Promised(k)) - 1
        /\ IsFiniteSet(Promised(k) \ {u})
    BY <2>1, PromisedFinite, FS_RemoveElement
  <2>3. Cardinality(Promised(k) \ {u}) \in Nat /\ Cardinality(Promised(k)) \in Nat
    BY <2>2, PromisedFinite, FS_CardinalityType
  <2> QED
    BY <2>1, <2>2, <2>3
<1>5. ASSUME ~Waiting(w), ~Waiting(upc[u]) PROVE Promised(k)' = Promised(k)
  BY <1>1, <1>5 DEF Promised, Waiting
<1> QED
  BY <1>2, <1>3, <1>4, <1>5

\* A record whose counts, waiters and event are left as they are, and that does
\* not start to load or to go.
LEMMA PromiseAtKept ==
    ASSUME NEW k \in Keys, PromiseAt(k), Promised(k)' = Promised(k), pending'[k] = pending[k],
           idle'[k] => idle[k] \/ (pending[k] = 0 /\ state'[k] # "loading"),
           state'[k] \in {"absent", "unloading", "failed"} => pending[k] = 0,
           state'[k] = "loading" => state[k] = "loading" /\ \A u \in Promised(k) : upc'[u] = upc[u]
    PROVE  PromiseAt(k)'
BY DEF PromiseAt

LEMMA UserCountedStep ==
    ASSUME Invariant, NEW u \in Users, UserStep(u), \A k \in Keys : PromiseAt(k), Undisturbed,
           NEW j \in Keys
    PROVE  PromiseAt(j)'
<1>0. TypeOK /\ ukey[u] \in Keys /\ \A k \in Keys : LeaseAt(k)
  BY DEF Invariant, LeaseInv, TypeOK
<1>a. \A k \in Keys : Cardinality(Promised(k)) \in Nat /\ pending[k] \in Nat
  BY <1>0, PromisedFinite DEF TypeOK
<1>1. ASSUME NEW k \in Keys, AcquireReady(u, k) \/ AdoptAndAcquire(u, k) \/ AdoptOnly(u, k)
      PROVE  PromiseAt(j)'
  <2>1. PICK w \in {"leased", "out"} : upc' = [upc EXCEPT ![u] = w] /\ ukey' = [ukey EXCEPT ![u] = k]
    BY <1>1 DEF AcquireReady, AdoptAndAcquire, AdoptOnly, Call
  <2>2. ~Waiting(w) /\ ~Waiting(upc[u])
    BY <1>1 DEF AcquireReady, AdoptAndAcquire, AdoptOnly, Waiting
  <2>3. Promised(j)' = Promised(j)
    BY <1>0, <2>1, <2>2, PromisedMoves
  <2>4. /\ pending' = pending
        /\ j # k => state'[j] = state[j] /\ idle'[j] = idle[j]
        /\ state'[k] = "ready" /\ (idle'[k] => idle[k] \/ state[k] \in {"absent", "failed"})
    BY <1>0, <1>1 DEF AcquireReady, AdoptAndAcquire, AdoptOnly, TypeOK
  <2>5. \A v \in Promised(j) : upc'[v] = upc[v]
    BY <1>0, <2>1, <2>2 DEF Promised, Waiting, TypeOK
  <2> QED
    BY <2>3, <2>4, <2>5, PromiseAtKept DEF PromiseAt
<1>2. ASSUME NEW k \in Keys, NEW h \in BOOLEAN, StartLoad(u, k, h) \/ JoinLoad(u, k, h)
      PROVE  PromiseAt(j)'
  <2>1. upc[u] = "out" /\ upc' = [upc EXCEPT ![u] = "waiting"] /\ ukey' = [ukey EXCEPT ![u] = k]
    BY <1>2 DEF StartLoad, JoinLoad, Call
  <2>2. Waiting("waiting") /\ ~Waiting(upc[u])
    BY <2>1 DEF Waiting
  <2>3. /\ j # k => Promised(j)' = Promised(j)
        /\ Promised(k)' = Promised(k) \cup {u}
        /\ Cardinality(Promised(k)') = Cardinality(Promised(k)) + 1
    BY <1>0, <2>1, <2>2, PromisedMoves
  <2>4. \A v \in Users : upc'[v] = IF v = u THEN "waiting" ELSE upc[v]
    BY <1>0, <2>1 DEF TypeOK
  <2>5. /\ j # k => state'[j] = state[j] /\ idle'[j] = idle[j] /\ pending'[j] = pending[j]
        /\ state'[k] = "loading" /\ pending'[k] = pending[k] + 1
    BY <1>0, <1>2 DEF StartLoad, JoinLoad, TypeOK
  <2>6. CASE j # k
    <3>1. \A v \in Promised(j) : upc'[v] = upc[v]
      BY <2>2, <2>4 DEF Promised, Waiting
    <3> QED
      BY <2>3, <2>5, <2>6, <3>1, PromiseAtKept DEF PromiseAt
  <2>7. CASE j = k
    <3>1. ~idle'[k]
      BY <1>0, <1>2 DEF StartLoad, JoinLoad, PromiseAt, TypeOK
    <3>2. \A v \in Promised(k) : upc[v] = "waiting"
      <4>1. CASE JoinLoad(u, k, h)
        BY <4>1 DEF JoinLoad, PromiseAt
      <4>2. CASE StartLoad(u, k, h)
        <5>1. state[k] \in {"absent", "failed"}
          BY <1>0, <4>2 DEF StartLoad, NeedsLoad, LeaseAt
        <5>2. Cardinality(Promised(k)) = 0
          BY <5>1 DEF PromiseAt
        <5> QED
          BY <5>2, PromisedFinite, FS_EmptySet
      <4> QED
        BY <1>2, <4>1, <4>2
    <3>3. \A v \in Promised(k)' : upc'[v] = "waiting"
      BY <2>3, <2>4, <3>2 DEF Promised
    <3> QED
      BY <2>3, <2>5, <2>7, <3>1, <3>3 DEF PromiseAt
  <2> QED
    BY <2>6, <2>7
\* A waiter that leaves, with or without a lease.
<1>3. ASSUME Waiting(upc[u]), NEW w \in {"out", "leased"}, upc' = [upc EXCEPT ![u] = w], ukey' = ukey,
             state' = state, pending' = [pending EXCEPT ![ukey[u]] = OneFewer(@)],
             \A k \in Keys : k # ukey[u] => idle'[k] = idle[k],
             idle'[ukey[u]] => \/ idle[ukey[u]]
                               \/ pending'[ukey[u]] = 0 /\ state[ukey[u]] # "loading"
      PROVE  PromiseAt(j)'
  <2> DEFINE k == ukey[u]
  <2>1. k \in Keys /\ ukey' = [ukey EXCEPT ![u] = k] /\ ~Waiting(w)
    BY <1>0, <1>3 DEF Waiting, TypeOK
  <2>2. /\ j # k => Promised(j)' = Promised(j)
        /\ Promised(k)' = Promised(k) \ {u} /\ u \in Promised(k) /\ Cardinality(Promised(k)) > 0
        /\ Cardinality(Promised(k)') = Cardinality(Promised(k)) - 1
    BY <1>0, <1>3, <2>1, PromisedMoves
  <2>3. \A v \in Users : v # u => upc'[v] = upc[v]
    BY <1>0, <1>3 DEF TypeOK
  <2>4. CASE j # k
    <3>1. \A v \in Promised(j) : upc'[v] = upc[v]
      BY <2>3, <2>4 DEF Promised
    <3>2. pending'[j] = pending[j] /\ idle'[j] = idle[j] /\ state'[j] = state[j]
      BY <1>0, <1>3, <2>4 DEF TypeOK
    <3> QED
      BY <2>2, <2>4, <3>1, <3>2, PromiseAtKept DEF PromiseAt
  <2>5. CASE j = k
    <3>1. pending[k] = Cardinality(Promised(k)) /\ pending[k] # 0
      BY <1>a, <2>1, <2>2 DEF PromiseAt
    <3>2. pending'[k] = pending[k] - 1
      BY <1>0, <1>3, <2>1, <3>1 DEF OneFewer, TypeOK
    <3>3. state[k] \notin {"absent", "unloading", "failed"} /\ ~idle[k]
      BY <2>1, <3>1 DEF PromiseAt
    <3>4. state[k] = "loading" => \A v \in Promised(k)' : upc'[v] = "waiting"
      BY <2>1, <2>2, <2>3 DEF Promised, PromiseAt
    <3> QED
      BY <1>3, <2>1, <2>2, <2>5, <3>1, <3>2, <3>3, <3>4 DEF PromiseAt
  <2> QED
    BY <2>4, <2>5
<1>4. CASE ConvertPromise(u)
  <2>1. Waiting(upc[u]) /\ upc' = [upc EXCEPT ![u] = "leased"] /\ ukey' = ukey /\ state' = state
    BY <1>4 DEF ConvertPromise, Waiting
  <2>2. /\ pending' = [pending EXCEPT ![ukey[u]] = OneFewer(@)]
        /\ \A k \in Keys : k # ukey[u] => idle'[k] = idle[k]
        /\ ~idle'[ukey[u]]
    BY <1>0, <1>4 DEF ConvertPromise, TypeOK
  <2> QED
    BY <1>3, <2>1, <2>2
<1>5. CASE ReturnUnleased(u) \/ LoadErrorSeen(u) \/ WaitCancelled(u)
  <2>1. Waiting(upc[u]) /\ upc' = [upc EXCEPT ![u] = "out"] /\ ukey' = ukey
    BY <1>5 DEF ReturnUnleased, LoadErrorSeen, WaitCancelled, ReleasePending, Return, Waiting
  <2>2. u \in Promised(ukey[u])
    BY <2>1 DEF Promised, Waiting
  <2>3. state[ukey[u]] # "absent"
    <3>1. Cardinality(Promised(ukey[u])) # 0
      BY <2>2, PromisedFinite, FS_EmptySet
    <3> QED
      BY <1>0, <3>1 DEF PromiseAt
  <2>4. CASE ReturnUnleased(u)
    <3>1. state[ukey[u]] # "loading"
      BY <1>0, <2>2, <2>4 DEF ReturnUnleased, PromiseAt
    <3>2. /\ pending' = [pending EXCEPT ![ukey[u]] = OneFewer(@)] /\ state' = state
          /\ \A k \in Keys : k # ukey[u] => idle'[k] = idle[k]
          /\ idle'[ukey[u]] => idle[ukey[u]] \/ pending'[ukey[u]] = 0
      BY <1>0, <2>3, <2>4 DEF ReturnUnleased, DropPromise, TypeOK
    <3> QED
      BY <1>3, <2>1, <3>1, <3>2
  <2>5. CASE ReleasePending(u)
    <3>1. /\ pending' = [pending EXCEPT ![ukey[u]] = OneFewer(@)] /\ state' = state
          /\ \A k \in Keys : k # ukey[u] => idle'[k] = idle[k]
          /\ idle'[ukey[u]] => idle[ukey[u]] \/ (pending'[ukey[u]] = 0 /\ state[ukey[u]] # "loading")
      BY <1>0, <2>3, <2>5 DEF ReleasePending, DropPromise, TypeOK
    <3> QED
      BY <1>3, <2>1, <3>1
  <2> QED
    BY <1>5, <2>4, <2>5 DEF LoadErrorSeen, WaitCancelled
<1>6. CASE ReleaseLease(u)
  <2>1. upc[u] = "leased" /\ upc' = [upc EXCEPT ![u] = "out"] /\ ukey' = [ukey EXCEPT ![u] = ukey[u]]
    BY <1>0, <1>6 DEF ReleaseLease, Return, TypeOK
  <2>2. ~Waiting("out") /\ ~Waiting(upc[u])
    BY <2>1 DEF Waiting
  <2>3. Promised(j)' = Promised(j)
    BY <1>0, <2>1, <2>2, PromisedMoves
  <2>4. \A v \in Promised(j) : upc'[v] = upc[v]
    BY <1>0, <2>1, <2>2 DEF Promised, Waiting, TypeOK
  <2>5. u \in Holders(ukey[u])
    BY <2>1 DEF Holders
  <2>6. state[ukey[u]] \in {"ready", "draining"}
    BY <1>0, <2>5 DEF LeaseAt
  <2>7. /\ pending' = pending /\ state' = state
        /\ j # ukey[u] => idle'[j] = idle[j]
        /\ idle'[ukey[u]] => idle[ukey[u]] \/ pending[ukey[u]] = 0
    BY <1>0, <1>6 DEF ReleaseLease, TypeOK
  <2> QED
    BY <2>3, <2>4, <2>6, <2>7, PromiseAtKept DEF PromiseAt
<1> QED
  BY <1>1, <1>2, <1>4, <1>5, <1>6 DEF UserStep, EnsureLoaded, AfterLoad

LEMMA UnloadCountedStep ==
    ASSUME TypeOK, NEW a \in Unloaders, NEW k \in Keys, NEW d \in BOOLEAN, UnloadCall(a, k, d),
           UNCHANGED userVars, NEW j \in Keys, PromiseAt(j)
    PROVE  PromiseAt(j)'
<1>1. Promised(j)' = Promised(j) /\ \A u \in Promised(j) : upc'[u] = upc[u]
  BY DEF Promised
<1>2. CASE UnloadUntracked(a, k, d)
  <2>1. /\ pending' = pending /\ (j # k => state'[j] = state[j] /\ idle'[j] = idle[j])
        /\ state[k] = "absent" /\ state'[k] = "unloading"
    BY <1>2 DEF UnloadUntracked, TypeOK
  <2> QED
    BY <1>1, <2>1, PromiseAtKept DEF PromiseAt
<1>3. CASE JoinTransition(a, k, d) \/ LeaveUnload(a, k, d)
  <2>1. UNCHANGED record
    BY <1>3 DEF JoinTransition, LeaveUnload
  <2> QED
    BY <1>1, <2>1, PromiseAtKept DEF PromiseAt
<1>4. CASE BeginDrain(a, k)
  <2>1. /\ UNCHANGED <<pending, idle>> /\ (j # k => state'[j] = state[j])
        /\ \/ idle[k] /\ state'[k] = "unloading"
           \/ state'[k] = "draining"
    BY <1>4 DEF BeginDrain, TypeOK
  <2> QED
    BY <1>1, <2>1, PromiseAtKept DEF PromiseAt
<1>5. CASE UnloadUnused(a, k)
  <2>1. /\ UNCHANGED <<pending, idle>> /\ (j # k => state'[j] = state[j])
        /\ state'[k] = "unloading" /\ pending[k] = 0
    BY <1>5 DEF UnloadUnused, InUse, TypeOK
  <2> QED
    BY <1>1, <2>1, PromiseAtKept DEF PromiseAt
<1> QED
  BY <1>2, <1>3, <1>4, <1>5 DEF UnloadCall

LEMMA AdminCountedStep ==
    ASSUME TypeOK, OneTransition, NEW a \in Unloaders, AdminStep(a),
           \A k \in Keys : PromiseAt(k), NEW j \in Keys
    PROVE  PromiseAt(j)'
<1>0. akey[a] \in Keys /\ (apc[a] \in {"draining", "unloading"} => state[akey[a]] = apc[a])
  BY DEF TypeOK, OneTransition, Working
<1>1. ASSUME NEW k \in Keys, NEW d \in BOOLEAN, Unload(a, k, d) PROVE PromiseAt(j)'
  BY <1>1, UnloadCountedStep DEF Unload
<1>2. ASSUME UNCHANGED <<upc, ukey>>
      PROVE  Promised(j)' = Promised(j) /\ \A u \in Promised(j) : upc'[u] = upc[u]
  BY <1>2 DEF Promised
<1>3. CASE DrainIdle(a)
  <2>1. /\ UNCHANGED <<upc, ukey, pending, idle>> /\ (j # akey[a] => state'[j] = state[j])
        /\ idle[akey[a]] /\ state'[akey[a]] = "unloading"
    BY <1>0, <1>3 DEF DrainIdle, TypeOK
  <2> QED
    BY <1>0, <1>2, <2>1, PromiseAtKept DEF PromiseAt
<1>4. CASE DrainAbandoned(a)
  <2>1. /\ UNCHANGED <<upc, ukey, pending, idle>> /\ (j # akey[a] => state'[j] = state[j])
        /\ state'[akey[a]] = "ready"
    BY <1>0, <1>4 DEF DrainAbandoned, TypeOK
  <2> QED
    BY <1>0, <1>2, <2>1, PromiseAtKept DEF PromiseAt
<1>5. CASE JoinCancelled(a)
  <2>1. UNCHANGED <<upc, ukey, pending, idle, state>>
    BY <1>5 DEF JoinCancelled
  <2> QED
    BY <1>2, <2>1, PromiseAtKept DEF PromiseAt
<1>6. CASE UnloadSucceeds(a) \/ UnloadRaises(a) \/ UnloadCancelled(a)
  <2>1. UNCHANGED <<upc, ukey>> /\ apc[a] = "unloading"
    BY <1>6 DEF UnloadSucceeds, UnloadRaises, UnloadCancelled
  <2>2. pending[akey[a]] = 0
    BY <1>0, <2>1 DEF PromiseAt
  <2>3. CASE PopRecord(akey[a])
    <3>1. /\ pending'[j] = pending[j] /\ (idle'[j] => idle[j])
          /\ j # akey[a] => state'[j] = state[j]
          /\ state'[akey[a]] = "absent"
      BY <1>0, <2>2, <2>3 DEF PopRecord, TypeOK
    <3> QED
      BY <1>2, <2>1, <2>2, <3>1, PromiseAtKept DEF PromiseAt
  <2>4. CASE UNCHANGED <<pending, idle>> /\ \E s \in {"ready", "failed"} : state' = [state EXCEPT ![akey[a]] = s]
    <3>1. /\ j # akey[a] => state'[j] = state[j]
          /\ state'[akey[a]] \in {"ready", "failed"}
      BY <1>0, <2>4 DEF TypeOK
    <3> QED
      BY <1>2, <2>1, <2>2, <2>4, <3>1, PromiseAtKept DEF PromiseAt
  <2> QED
    BY <1>0, <1>6, <2>1, <2>3, <2>4 DEF UnloadSucceeds, UnloadRaises, UnloadCancelled
<1> QED
  BY <1>1, <1>3, <1>4, <1>5, <1>6 DEF AdminStep, BackendUnloadEnds

\* Direct unloads are not forgotten.
LEMMA SmoothBefore == ASSUME TypeOK, [Next]_vars, Smooth' PROVE Smooth
<1>1. directUnloads' \in {directUnloads, directUnloads + 1} /\ directUnloads \in Nat
  BY DEF Next, vars, UserStep, EnsureLoaded, AfterLoad, AcquireReady, AdoptAndAcquire, AdoptOnly, JoinLoad,
     StartLoad, ConvertPromise, ReturnUnleased, LoadErrorSeen, WaitCancelled, ReleasePending, ReleaseLease,
     LoadEnds, LoadSucceeds, LoadFails, DirectUnload, DirectLoad, AdminStep, Unload, DrainIdle, DrainAbandoned,
     JoinCancelled, BackendUnloadEnds, UnloadSucceeds, UnloadRaises, UnloadCancelled,
     Shutdown, ShutdownBegin, ShutdownList, ShutdownNext, ShutdownEnd, AtRest, TypeOK
<1> QED
  BY <1>1 DEF Smooth, Undisturbed

LEMMA PromisesCountedStep == Invariant /\ PromisesCounted /\ [Next]_vars => PromisesCounted'
<1> SUFFICES ASSUME Invariant, PromisesCounted, [Next]_vars, Smooth', NEW j \in Keys PROVE PromiseAt(j)'
  BY DEF PromisesCounted
<1>0. TypeOK /\ OneTransition
  BY DEF Invariant
<1>1. ~LoadsMayFail /\ Undisturbed
  BY <1>0, SmoothBefore DEF Smooth
<1>2. \A k \in Keys : PromiseAt(k)
  BY <1>1 DEF PromisesCounted, Smooth
<1>3. ASSUME UNCHANGED <<upc, ukey, record>> PROVE PromiseAt(j)'
  <2>1. Promised(j)' = Promised(j) /\ \A u \in Promised(j) : upc'[u] = upc[u]
    BY <1>3 DEF Promised
  <2> QED
    BY <1>2, <1>3, <2>1, PromiseAtKept DEF PromiseAt
<1>4. ASSUME NEW u \in Users, UserStep(u) PROVE PromiseAt(j)'
  BY <1>1, <1>2, <1>4, UserCountedStep
<1>5. ASSUME NEW k \in Keys, LoadEnds(k) PROVE PromiseAt(j)'
  <2>1. LoadSucceeds(k)
    BY <1>1, <1>5 DEF LoadEnds, LoadFails
  <2>2. \A v \in Users : /\ Waiting(upc'[v]) <=> Waiting(upc[v])
                         /\ ukey[v] # k => upc'[v] = upc[v]
    BY <1>0, <2>1 DEF LoadSucceeds, Waiters, Waiting, TypeOK
  <2>3. ukey' = ukey /\ pending' = pending
    BY <2>1 DEF LoadSucceeds
  <2>4. Promised(j)' = Promised(j)
    BY <2>2, <2>3 DEF Promised, Waiting
  <2>5. j # k => \A v \in Promised(j) : upc'[v] = upc[v]
    BY <2>2 DEF Promised
  <2>6. /\ j # k => state'[j] = state[j] /\ idle'[j] = idle[j]
        /\ state'[k] = "ready" /\ (idle'[k] => idle[k] \/ pending[k] = 0)
    BY <1>0, <2>1 DEF LoadSucceeds, TypeOK
  <2> QED
    BY <1>2, <2>3, <2>4, <2>5, <2>6, PromiseAtKept DEF PromiseAt
<1>6. ASSUME NEW k \in Keys, DirectUnload(k) \/ DirectLoad(k) PROVE PromiseAt(j)'
  BY <1>3, <1>6 DEF DirectUnload, DirectLoad
<1>7. ASSUME NEW a \in Unloaders, AdminStep(a) PROVE PromiseAt(j)'
  BY <1>0, <1>2, <1>7, AdminCountedStep
<1>8. ASSUME NEW k \in Keys, ShutdownNext(k) PROVE PromiseAt(j)'
  <2>1. CASE UNCHANGED <<record, adminVars>>
    BY <1>3, <1>8, <2>1 DEF ShutdownNext
  <2>2. CASE JoinTransition(Closer, k, TRUE) \/ BeginDrain(Closer, k)
    <3>1. UnloadCall(Closer, k, TRUE) /\ Closer \in Unloaders /\ TRUE \in BOOLEAN
      BY <2>2 DEF UnloadCall, Unloaders
    <3> QED
      BY <1>0, <1>2, <1>8, <3>1, UnloadCountedStep DEF ShutdownNext
  <2> QED
    BY <1>8, <2>1, <2>2 DEF ShutdownNext
<1>9. CASE ShutdownBegin \/ ShutdownList \/ ShutdownEnd \/ AtRest \/ UNCHANGED vars
  BY <1>3, <1>9 DEF ShutdownBegin, ShutdownList, ShutdownEnd, AtRest, vars
<1> QED
  BY <1>4, <1>5, <1>6, <1>7, <1>8, <1>9 DEF Next, Shutdown

LEMMA PromisesCountedInit == Init => PromisesCounted
<1> SUFFICES ASSUME Init, NEW k \in Keys PROVE PromiseAt(k)
  BY DEF PromisesCounted
<1>1. Promised(k) = {}
  BY DEF Init, Promised
<1> QED
  BY <1>1, FS_EmptySet DEF Init, PromiseAt

\* As long as loads succeed and nobody unloads directly, no cleanup unloads a
\* model between the end of its load and the first lease of a caller that waited
\* for it, however callers are cancelled and cleanups, drains and shutdown meet.
THEOREM CleanupSparesPromisedHolds == Spec => [](Smooth => CleanupSparesPromised)
<1>1. Invariant /\ PromisesCounted => (Smooth => CleanupSparesPromised)
  <2> SUFFICES ASSUME Invariant, PromisesCounted, Smooth, NEW a \in Unloaders, apc[a] = "unloading",
                      NEW u \in Users, ukey[u] = akey[a]
               PROVE  upc[u] # "loadDone"
    BY DEF CleanupSparesPromised
  <2>1. akey[a] \in Keys /\ state[akey[a]] = "unloading"
    BY DEF Invariant, TypeOK, OneTransition, Working
  <2>2. Cardinality(Promised(akey[a])) = 0
    BY <2>1 DEF PromisesCounted, PromiseAt
  <2>3. Promised(akey[a]) = {}
    BY <2>2, PromisedFinite, FS_EmptySet
  <2> QED
    BY <2>3 DEF Promised
<1> QED
  BY <1>1, InvariantHolds, PromisesCountedInit, PromisesCountedStep, PTL DEF Spec

-----------------------------------------------------------------------------
(* Shutdown.                                                               *)

\* shutdown(): a model that is used or waited for has its turn in the sweep
\* before it, or it is the one the sweep is at.
Used(k)  == Holders(k) \cup Promised(k)
Swept(k) == k \in todo \/ (apc[Closer] # "out" /\ akey[Closer] = k)

SweepInv ==
    /\ phase # "open" => closing
    /\ apc[Closer] # "out" => drain[Closer]
    /\ phase \in {"sweep", "closed"} => \A k \in Keys : loads[k] = 0
    /\ phase = "closed" => todo = {} /\ apc[Closer] = "out"
    /\ Smooth /\ phase \in {"sweep", "closed"} =>
        \A k \in Keys : Used(k) # {} => Swept(k)

\* A record that is going or gone has neither leases nor waiters.
LEMMA GoneIsUnused ==
    ASSUME Invariant, PromisesCounted, Smooth, NEW k \in Keys, state[k] \in {"absent", "unloading"}
    PROVE  Used(k) = {}
<1>1. Holders(k) = {}
  BY DEF Invariant, LeaseInv, LeaseAt, Smooth
<1>2. Cardinality(Promised(k)) = 0
  BY DEF PromisesCounted, PromiseAt
<1>3. Promised(k) = {}
  BY <1>2, PromisedFinite, FS_EmptySet
<1> QED
  BY <1>1, <1>3 DEF Used

\* Steps that leave the sweep alone and take no new use of a model.
LEMMA SweepKept ==
    ASSUME SweepInv, UNCHANGED closeVars, Smooth' => Smooth,
           phase \in {"sweep", "closed"} => loads' = loads /\ \A k \in Keys : Used(k)' \subseteq Used(k),
           apc'[Closer] = "out" <=> apc[Closer] = "out",
           drain'[Closer] = drain[Closer], akey'[Closer] = akey[Closer]
    PROVE  SweepInv'
BY DEF SweepInv, Swept

\* After closing was set callers only leave, or turn their promise into a lease.
LEMMA UserSweepStep ==
    ASSUME TypeOK, SweepInv, NEW u \in Users, UserStep(u), Smooth' => Smooth
    PROVE  SweepInv'
<1>0. UNCHANGED <<adminVars, closeVars>>
  BY DEF UserStep, EnsureLoaded, AfterLoad, AcquireReady, AdoptAndAcquire, AdoptOnly, JoinLoad,
     StartLoad, ConvertPromise, ReturnUnleased, LoadErrorSeen, WaitCancelled, ReleasePending, ReleaseLease
<1>1. ASSUME phase \in {"sweep", "closed"}
      PROVE  loads' = loads /\ \A k \in Keys : Used(k)' \subseteq Used(k)
  <2>0. ~EnsureLoaded(u)
    BY <1>1 DEF SweepInv, EnsureLoaded, AcquireReady, AdoptAndAcquire, AdoptOnly, JoinLoad, StartLoad
  <2>1. /\ ukey' = ukey /\ loads' = loads
        /\ upc[u] # "out" /\ \E w \in {"out", "leased"} : upc' = [upc EXCEPT ![u] = w]
    BY <2>0 DEF UserStep, AfterLoad, ConvertPromise, ReturnUnleased, LoadErrorSeen, WaitCancelled,
       ReleasePending, ReleaseLease, Return
  <2>2. \A v \in Users : upc'[v] = upc[v] \/ (v = u /\ upc'[v] \in {"out", "leased"})
    BY <2>1 DEF TypeOK
  <2>3. upc[u] \in {"waiting", "loadDone", "loadFailed", "leased"}
    BY <2>1 DEF TypeOK, UserStates
  <2> QED
    BY <2>1, <2>2, <2>3 DEF Used, Holders, Promised
<1> QED
  BY <1>0, <1>1, SweepKept

LEMMA AdminSweepStep ==
    ASSUME Invariant, PromisesCounted, SweepInv, NEW a \in Unloaders, AdminStep(a), Smooth' => Smooth
    PROVE  SweepInv'
<1>0. TypeOK /\ OneTransition /\ Closer \in Unloaders
  BY DEF Invariant, Unloaders
<1>a. akey[a] \in Keys /\ (apc[a] \in {"draining", "unloading"} => state[akey[a]] = apc[a])
  BY <1>0 DEF TypeOK, OneTransition, Working
<1>1. UNCHANGED <<upc, ukey, closeVars, loads>>
  BY DEF AdminStep, Unload, DrainIdle, DrainAbandoned, JoinCancelled, BackendUnloadEnds,
     UnloadSucceeds, UnloadRaises, UnloadCancelled
<1>2. \A k \in Keys : Used(k)' = Used(k)
  BY <1>1 DEF Used, Holders, Promised
<1>3. ASSUME NEW k \in Keys PROVE Notified(k)[Closer] = "out" <=> apc[Closer] = "out"
  BY <1>0 DEF Notified
<1>4. CASE a # Closer
  <2>1. ASSUME NEW k \in Keys, NEW d \in BOOLEAN, Unload(a, k, d)
        PROVE  /\ apc'[Closer] = apc[Closer]
               /\ drain'[Closer] = drain[Closer] /\ akey'[Closer] = akey[Closer]
    <3>1. PICK w, e : Enter(a, k, e, w)
      BY <2>1 DEF Unload, UnloadCall, UnloadUntracked, JoinTransition, BeginDrain, UnloadUnused, LeaveUnload
    <3> QED
      BY <1>0, <1>4, <3>1 DEF Enter, TypeOK
  <2>2. ASSUME ~\E k \in Keys, d \in BOOLEAN : Unload(a, k, d)
        PROVE  /\ UNCHANGED <<drain, akey>>
               /\ \E w : apc' = [apc EXCEPT ![a] = w] \/ apc' = [Notified(akey[a]) EXCEPT ![a] = w]
    BY <2>2 DEF AdminStep, DrainIdle, DrainAbandoned, JoinCancelled, BackendUnloadEnds,
       UnloadSucceeds, UnloadRaises, UnloadCancelled
  <2>3. /\ apc'[Closer] = "out" <=> apc[Closer] = "out"
        /\ drain'[Closer] = drain[Closer] /\ akey'[Closer] = akey[Closer]
    <3>1. CASE \E k \in Keys, d \in BOOLEAN : Unload(a, k, d)
      BY <2>1, <3>1
    <3>2. CASE ~\E k \in Keys, d \in BOOLEAN : Unload(a, k, d)
      <4>1. PICK w : apc' = [apc EXCEPT ![a] = w] \/ apc' = [Notified(akey[a]) EXCEPT ![a] = w]
        BY <2>2, <3>2
      <4>2. apc'[Closer] = apc[Closer] \/ apc'[Closer] = Notified(akey[a])[Closer]
        BY <1>0, <1>4, <4>1 DEF Notified, TypeOK
      <4> QED
        BY <1>3, <1>a, <2>2, <3>2, <4>2
    <3> QED
      BY <3>1, <3>2
  <2> QED
    BY <1>1, <1>2, <2>3, SweepKept
<1>5. CASE a = Closer
  <2>1. apc[Closer] # "out" /\ drain[Closer] /\ Closer \notin Admins
    BY <1>5, ResidencyAssumption DEF AdminStep, Unload, Entering, DrainIdle, DrainAbandoned, JoinCancelled,
       BackendUnloadEnds, UnloadSucceeds, UnloadRaises, UnloadCancelled, SweepInv
  <2>2. phase # "closed"
    BY <2>1 DEF SweepInv
  \* The sweep goes on with the same model ...
  <2>3. ASSUME apc'[Closer] # "out", drain'[Closer] = drain[Closer], akey'[Closer] = akey[Closer]
        PROVE  SweepInv'
    BY <1>1, <1>2, <2>1, <2>3, SweepKept
  \* ... or leaves it unused.
  <2>4. ASSUME state[akey[Closer]] \in {"absent", "unloading"}, drain'[Closer] = drain[Closer],
               akey'[Closer] = akey[Closer]
        PROVE  SweepInv'
    <3>1. Smooth => Used(akey[Closer]) = {}
      BY <1>a, <1>5, <2>4, GoneIsUnused
    <3>2. ASSUME Smooth', phase' \in {"sweep", "closed"}, NEW k \in Keys, Used(k)' # {} PROVE Swept(k)'
      <4>1. k # akey[Closer] /\ Swept(k)
        BY <1>1, <1>2, <3>1, <3>2 DEF SweepInv
      <4> QED
        BY <1>1, <4>1 DEF Swept
    <3> QED
      BY <1>1, <2>1, <2>2, <2>4, <3>2 DEF SweepInv
  <2>5. ASSUME NEW k \in Keys, NEW d \in BOOLEAN, Unload(Closer, k, d) PROVE SweepInv'
    <3>1. apc[Closer] = "joined" /\ k = akey[Closer] /\ d = drain[Closer]
      BY <2>1, <2>5 DEF Unload, Entering
    <3>2. ASSUME NEW w, Enter(Closer, k, d, w)
          PROVE  drain'[Closer] = drain[Closer] /\ akey'[Closer] = akey[Closer] /\ apc'[Closer] = w
      BY <1>0, <3>1, <3>2 DEF Enter, TypeOK
    <3>3. CASE LeaveUnload(Closer, k, d)
      <4>1. state[k] = "absent" \/ state[k] = "loading"
        BY <2>1, <3>1, <3>3 DEF LeaveUnload
      <4>2. Enter(Closer, k, d, "out")
        BY <3>3 DEF LeaveUnload
      <4>3. CASE state[k] = "absent"
        BY <2>4, <3>1, <3>2, <4>2, <4>3
      <4>4. CASE state[k] = "loading"
        <5>1. loads[k] = 1
          BY <1>0, <4>4 DEF OneTransition
        <5>2. phase \notin {"sweep", "closed"}
          BY <5>1 DEF SweepInv
        <5> QED
          BY <1>1, <3>2, <4>2, <5>2 DEF SweepInv
      <4> QED
        BY <4>1, <4>3, <4>4
    <3>4. CASE UnloadUntracked(Closer, k, d) \/ JoinTransition(Closer, k, d) \/ (d /\ BeginDrain(Closer, k))
      <4>1. PICK w \in {"unloading", "joining", "draining"} : Enter(Closer, k, d, w)
        BY <2>1, <3>1, <3>4 DEF UnloadUntracked, JoinTransition, BeginDrain
      <4> QED
        BY <2>3, <3>2, <4>1
    <3> QED
      BY <2>1, <2>5, <3>1, <3>3, <3>4 DEF Unload, UnloadCall
  <2>6. CASE DrainIdle(Closer)
    <3>1. /\ apc'[Closer] = "unloading" /\ UNCHANGED <<drain, akey>>
      BY <1>0, <1>a, <1>5, <2>6 DEF DrainIdle, TypeOK
    <3> QED
      BY <2>3, <3>1
  <2>7. CASE UnloadSucceeds(Closer) \/ UnloadRaises(Closer)
    <3>1. apc[Closer] = "unloading" /\ UNCHANGED <<drain, akey>>
      BY <2>7 DEF UnloadSucceeds, UnloadRaises
    <3> QED
      BY <1>a, <1>5, <2>4, <3>1
  <2> QED
    BY <1>5, <2>5, <2>6, <2>7 DEF AdminStep, BackendUnloadEnds, DrainAbandoned, JoinCancelled, UnloadCancelled
<1> QED
  BY <1>4, <1>5

LEMMA ShutdownSweepStep ==
    ASSUME Invariant, PromisesCounted, SweepInv, Shutdown, Smooth' => Smooth
    PROVE  SweepInv'
<1>0. TypeOK /\ OneTransition /\ Closer \in Unloaders
  BY DEF Invariant, Unloaders
<1>1. UNCHANGED <<upc, ukey, loads>>
  BY DEF Shutdown, ShutdownBegin, ShutdownList, ShutdownNext, ShutdownEnd
<1>2. \A k \in Keys : Used(k)' = Used(k)
  BY <1>1 DEF Used, Holders, Promised
<1>3. CASE ShutdownBegin
  BY <1>3 DEF ShutdownBegin, SweepInv
<1>4. CASE ShutdownList
  <2>1. ASSUME Smooth', NEW k \in Keys, Used(k)' # {} PROVE Swept(k)'
    <3>1. state[k] # "absent"
      BY <1>2, <2>1, GoneIsUnused
    <3> QED
      BY <1>4, <3>1 DEF ShutdownList, Swept
  <2> QED
    BY <1>1, <1>4, <2>1 DEF ShutdownList, SweepInv
<1>5. ASSUME NEW j \in Keys, ShutdownNext(j) PROVE SweepInv'
  <2>1. phase = "sweep" /\ apc[Closer] = "out" /\ UNCHANGED <<phase, closing>> /\ todo' = todo \ {j}
    BY <1>5 DEF ShutdownNext
  <2>2. state[j] # "loading"
    BY <1>0, <2>1 DEF SweepInv, OneTransition
  <2>3. ASSUME Smooth', NEW k \in Keys, Used(k)' # {}, k # j PROVE Swept(k)'
    <3>1. k \in todo
      BY <1>2, <2>1, <2>3 DEF SweepInv, Swept
    <3> QED
      BY <2>1, <2>3, <3>1 DEF Swept
  <2>4. CASE state[j] = "absent"
    <3>1. UNCHANGED adminVars
      BY <1>5, <2>4 DEF ShutdownNext
    <3>2. Smooth' => Used(j)' = {}
      BY <1>2, <2>4, GoneIsUnused
    <3> QED
      BY <1>1, <2>1, <2>3, <3>1, <3>2 DEF SweepInv
  <2>5. CASE state[j] # "absent"
    <3>1. PICK w \in {"joining", "draining", "unloading"} : Enter(Closer, j, TRUE, w)
      BY <1>5, <2>2, <2>5 DEF ShutdownNext, JoinTransition, BeginDrain
    <3>2. apc'[Closer] = w /\ akey'[Closer] = j /\ drain'[Closer] = TRUE
      BY <1>0, <3>1 DEF Enter, TypeOK
    <3>3. Swept(j)'
      BY <3>2 DEF Swept
    <3> QED
      BY <1>1, <2>1, <2>3, <3>2, <3>3 DEF SweepInv
  <2> QED
    BY <2>4, <2>5
<1>6. CASE ShutdownEnd
  BY <1>1, <1>2, <1>6 DEF ShutdownEnd, SweepInv, Swept
<1> QED
  BY <1>3, <1>4, <1>5, <1>6 DEF Shutdown

LEMMA SweepStep == Invariant /\ PromisesCounted /\ SweepInv /\ [Next]_vars => SweepInv'
<1> SUFFICES ASSUME Invariant, PromisesCounted, SweepInv, [Next]_vars PROVE SweepInv'
  OBVIOUS
<1>0. TypeOK /\ OneTransition
  BY DEF Invariant
<1>1. Smooth' => Smooth
  BY <1>0, SmoothBefore
<1>2. ASSUME NEW u \in Users, UserStep(u) PROVE SweepInv'
  BY <1>0, <1>1, <1>2, UserSweepStep
<1>3. ASSUME NEW k \in Keys, LoadEnds(k) PROVE SweepInv'
  <2>1. loads[k] > 0 /\ UNCHANGED <<adminVars, closeVars>>
    BY <1>3 DEF LoadEnds, LoadSucceeds, LoadFails
  <2>2. phase \notin {"sweep", "closed"}
    BY <2>1 DEF SweepInv
  <2> QED
    BY <1>1, <2>1, <2>2, SweepKept
<1>4. ASSUME UNCHANGED <<upc, ukey, loads, adminVars, closeVars>> PROVE SweepInv'
  <2>1. \A k \in Keys : Used(k)' = Used(k)
    BY <1>4 DEF Used, Holders, Promised
  <2> QED
    BY <1>1, <1>4, <2>1, SweepKept
<1>5. ASSUME NEW k \in Keys, DirectUnload(k) \/ DirectLoad(k) PROVE SweepInv'
  BY <1>4, <1>5 DEF DirectUnload, DirectLoad
<1>6. ASSUME NEW a \in Unloaders, AdminStep(a) PROVE SweepInv'
  BY <1>1, <1>6, AdminSweepStep
<1>7. CASE Shutdown
  BY <1>1, <1>7, ShutdownSweepStep
<1>8. CASE AtRest \/ UNCHANGED vars
  BY <1>4, <1>8 DEF AtRest, vars
<1> QED
  BY <1>2, <1>3, <1>5, <1>6, <1>7, <1>8 DEF Next

LEMMA SweepInit == Init => SweepInv
BY DEF Init, SweepInv, Unloaders

\* As long as loads succeed and nobody unloads directly, a model is unloaded only
\* with no lease on it, and when shutdown() returns nobody holds a lease, those
\* included that waiters took after closing was set: the sweep comes to every
\* model that is used or waited for, and leaves it unused.
THEOREM DrainsCompleteHolds == Spec => [](Smooth => DrainsComplete)
<1>1. Invariant /\ PromisesCounted /\ SweepInv => (Smooth => DrainsComplete)
  <2> SUFFICES ASSUME Invariant, PromisesCounted, SweepInv, Smooth PROVE DrainsComplete
    OBVIOUS
  <2>1. ASSUME NEW k \in Keys, state[k] = "unloading" PROVE active[k] = 0
    <3>1. active[k] = Cardinality(Holders(k)) /\ Holders(k) = {}
      BY <2>1, GoneIsUnused DEF Invariant, LeaseInv, LeaseAt, Smooth, Used
    <3> QED
      BY <3>1, FS_EmptySet
  <2>2. ASSUME phase = "closed", NEW k \in Keys PROVE Holders(k) = {}
    BY <2>2 DEF SweepInv, Swept, Used
  <2> QED
    BY <2>1, <2>2 DEF DrainsComplete, DrainWaitsForZero, ShutdownDrained
<1> QED
  BY <1>1, InvariantHolds, PromisesCountedInit, PromisesCountedStep, SweepInit, SweepStep, PTL DEF Spec

-----------------------------------------------------------------------------
(* Operations.                                                             *)

ModelType == model \in [Ops -> Keys]

LEMMA ModelTypeInit == OpsInit => ModelType
BY DEF OpsInit, ModelType

LEMMA ModelTypeStep == ModelType /\ [OpsNext]_allVars => ModelType'
<1> SUFFICES ASSUME ModelType, [OpsNext]_allVars PROVE ModelType'
  OBVIOUS
<1> USE DEF ModelType, rest, opVars
<1>1. ASSUME NEW o \in Ops, NEW k \in Keys, NEW i, Record(o, k, i) PROVE ModelType'
  BY <1>1 DEF Record
<1>2. ASSUME NEW o \in Ops, NEW k \in Keys, NEW i \in IdemKeys \cup {NoKey}, SubmitDrain(o, k, i)
      PROVE ModelType'
  BY <1>1, <1>2 DEF SubmitDrain
<1>3. ASSUME NEW o \in Ops, OpStep(o) PROVE ModelType'
  BY <1>3 DEF OpStep, RunDrain, CancelledUnstarted, DrainStep, CancelledInDrain
<1>4. ASSUME NEW c \in Callers, CallerStep(c) PROVE ModelType'
  <2>1. ASSUME NEW o \in Ops, NEW k \in Keys, NEW i \in IdemKeys \cup {NoKey}, SubmitAndWait(c, o, k, i)
        PROVE ModelType'
    BY <1>1, <2>1 DEF SubmitAndWait
  <2>2. CASE \E i \in IdemKeys : ReplayAndWait(c, i)
    BY <2>2 DEF ReplayAndWait
  <2>3. CASE \E o \in Ops : Cancel(c, o)
    BY <2>3 DEF Cancel
  <2>4. CASE WaitReturns(c) \/ WaitCancelledByCaller(c) \/ CancelReturns(c)
             \/ CancelAbandoned(c) \/ CancelLeaves(c)
    BY <2>4 DEF WaitReturns, WaitCancelledByCaller, CancelReturns, CancelAbandoned, CancelLeaves
  <2> QED
    BY <1>4, <2>1, <2>2, <2>3, <2>4 DEF CallerStep
<1>5. CASE OpsShutdown \/ OpsShutdownEnd \/ ResidencyStep \/ OpsAtRest
  BY <1>5 DEF OpsShutdown, OpsShutdownEnd, ResidencyStep, OpsAtRest
<1>6. CASE UNCHANGED allVars
  BY <1>6 DEF allVars
<1> QED
  BY <1>2, <1>3, <1>4, <1>5, <1>6 DEF OpsNext

LEMMA OpIsAdmin == ASSUME NEW o \in Ops PROVE o \in Admins /\ o \in Unloaders /\ o # Closer
BY OperationsAssumption, ResidencyAssumption DEF Unloaders

\* A step of an operation is a step of a caller of unload(), or touches the
\* operation manager only.
LEMMA OpStepMaps ==
    ASSUME ModelType, NEW o \in Ops, OpStep(o)
    PROVE  AdminStep(o) \/ UNCHANGED vars
<1>1. model[o] \in Keys
  BY DEF ModelType
<1>2. CASE RunDrain(o)
  BY <1>1, <1>2 DEF RunDrain, AdminStep
<1>3. CASE CancelledUnstarted(o)
  BY <1>3 DEF CancelledUnstarted
<1>4. CASE DrainStep(o)
  BY <1>1, <1>4 DEF DrainStep, AdminStep, BackendUnloadEnds
<1>5. CASE CancelledInDrain(o)
  BY <1>5 DEF CancelledInDrain, AdminStep
<1> QED
  BY <1>2, <1>3, <1>4, <1>5 DEF OpStep

LEMMA StepMaps == ModelType /\ [OpsNext]_allVars => [Next]_vars
<1> SUFFICES ASSUME ModelType, [OpsNext]_allVars PROVE [Next]_vars
  OBVIOUS
<1>1. ASSUME NEW o \in Ops, NEW k \in Keys, NEW i \in IdemKeys \cup {NoKey}, SubmitDrain(o, k, i)
      PROVE UNCHANGED vars
  BY <1>1 DEF SubmitDrain
<1>2. ASSUME NEW o \in Ops, OpStep(o) PROVE [Next]_vars
  BY <1>2, OpStepMaps, OpIsAdmin DEF Next
<1>3. ASSUME NEW c \in Callers, CallerStep(c) PROVE UNCHANGED vars
  BY <1>3 DEF CallerStep, SubmitAndWait, ReplayAndWait, Cancel, WaitReturns,
              WaitCancelledByCaller, CancelReturns, CancelAbandoned, CancelLeaves
<1>4. CASE OpsShutdown \/ OpsShutdownEnd
  BY <1>4 DEF OpsShutdown, OpsShutdownEnd
<1>5. CASE ResidencyStep
  BY <1>5 DEF ResidencyStep, Next
<1>6. CASE OpsAtRest
  BY <1>6 DEF OpsAtRest, Next
<1>7. CASE UNCHANGED allVars
  BY <1>7 DEF allVars
<1> QED
  BY <1>1, <1>2, <1>3, <1>4, <1>5, <1>6, <1>7 DEF OpsNext

\* The composition of operations and residency implements the residency
\* manager: submissions, cancellations and the shutdown order add no behaviour
\* to unload(), drain and leases.
THEOREM OpsImplementsResidency == OpsSpec => ImplementsResidency
<1>1. OpsInit => Init
  BY DEF OpsInit
<1>2. OpsInit => ModelType
  BY ModelTypeInit
<1>3. ModelType /\ [OpsNext]_allVars => ModelType'
  BY ModelTypeStep
<1>4. ModelType /\ [OpsNext]_allVars => [Next]_vars
  BY StepMaps
<1> QED
  BY <1>1, <1>2, <1>3, <1>4, PTL DEF OpsSpec, ImplementsResidency, Spec

\* Leases hold while operations drain, time out and are cancelled.
THEOREM OpsLeaseProtected == OpsSpec => []LeaseProtected
BY OpsImplementsResidency, LeaseProtectedHolds, PTL DEF ImplementsResidency

-----------------------------------------------------------------------------
(* The inductive invariant of the operation manager.                       *)

Statuses == {"none"} \cup Active \cup Terminal
Tasks    == {"none", "new", "running", "ended", "cancelled"}

OwnType ==
    /\ status \in [Ops -> Statuses]
    /\ model \in [Ops -> Keys]
    /\ okey \in [Ops -> IdemKeys \cup {NoKey}]
    /\ bound \in [IdemKeys -> Ops \cup {NoOp}]
    /\ task \in [Ops -> Tasks]
    /\ cancelReq \in [Ops -> BOOLEAN]
    /\ cpc \in [Callers -> {"out", "waiting", "cancelling", "leaving"}]
    /\ cop \in [Callers -> Ops]
    /\ seen \in [Callers -> {"none", "raised"} \cup Active \cup Terminal]
    /\ opsPhase \in {"open", "gather", "closed"}
    /\ abandoned \in BOOLEAN

\* Record and task move together, except that a task cancelled before its
\* first step leaves a pending record.
Paired(s, t) ==
    \/ s = "none" /\ t = "none"
    \/ s = "pending" /\ t \in {"new", "cancelled"}
    \/ s = "running" /\ t = "running"
    \/ s \in Terminal /\ t \in {"ended", "cancelled"}

Shape == \A o \in Ops : Paired(status[o], task[o])

NoneWhenClosed == opsPhase = "closed" => \A o \in Ops : status[o] \notin Active

\* Whoever asked a pending operation to cancel is still there to end it.
Owner(o) ==
    \/ \E c \in Callers : cpc[c] = "cancelling" /\ cop[c] = o
    \/ opsPhase = "gather"
    \/ abandoned

Owned ==
    \A o \in Ops :
        status[o] = "pending" /\ (cancelReq[o] \/ task[o] = "cancelled") => Owner(o)

KeyBound ==
    \A o \in Ops :
        /\ status[o] = "none" => okey[o] = NoKey /\ ~cancelReq[o]
        /\ okey[o] \in IdemKeys => bound[okey[o]] = o

OpInv == OwnType /\ Shape /\ NoneWhenClosed /\ Owned /\ KeyBound /\ ReturnedIsTerminal

LEMMA OpInvInit == OpsInit => OpInv
<1> SUFFICES ASSUME OpsInit PROVE OpInv
  OBVIOUS
<1> USE OperationsAssumption DEF OpsInit
<1>1. OwnType
  BY DEF OwnType, Statuses, Tasks
<1>2. Shape /\ NoneWhenClosed /\ Owned
  BY DEF Shape, Paired, NoneWhenClosed, Owned
<1>3. KeyBound /\ ReturnedIsTerminal
  BY DEF KeyBound, ReturnedIsTerminal, Active
<1> QED
  BY <1>1, <1>2, <1>3 DEF OpInv

\* Steps that change status and task of one operation only.
LEMMA FinishInv ==
    ASSUME OpInv, NEW o \in Ops, NEW s \in Statuses, NEW t \in Tasks,
           Finish(o, s, t), UNCHANGED rest, Paired(s, t), s # "none",
           opsPhase = "closed" => s \notin Active,
           s = "pending" => Owner(o)
    PROVE  OpInv'
<1> USE DEF OpInv, rest, Finish
<1>1. OwnType'
  BY DEF OwnType
<1>2. /\ \A p \in Ops : p # o => status'[p] = status[p] /\ task'[p] = task[p]
      /\ status'[o] = s /\ task'[o] = t
  BY DEF OwnType
<1>3. Shape'
  BY <1>2 DEF Shape
<1>4. NoneWhenClosed'
  BY <1>2 DEF NoneWhenClosed
<1>5. Owned'
  BY <1>2 DEF Owned, Owner
<1>6. KeyBound'
  BY <1>2 DEF KeyBound
<1>7. ReturnedIsTerminal'
  BY DEF ReturnedIsTerminal
<1> QED
  BY <1>1, <1>3, <1>4, <1>5, <1>6, <1>7

LEMMA OpStepInv == ASSUME OpInv, NEW o \in Ops, OpStep(o) PROVE OpInv'
<1> USE DEF Active, Terminal, Statuses, Tasks
<1>0. opsPhase = "closed" => status[o] \notin Active
  BY DEF OpInv, NoneWhenClosed
<1>1. Paired(status[o], task[o])
  BY DEF OpInv, Shape
<1>2. CASE RunDrain(o)
  <2>1. opsPhase # "closed"
    BY <1>0, <1>1, <1>2 DEF RunDrain, Paired
  <2>2. UNCHANGED rest
    BY <1>2 DEF RunDrain
  <2>3. \/ Finish(o, "running", "running")
        \/ Finish(o, "succeeded", "ended")
        \/ Finish(o, "failed", "ended")
    BY <1>2 DEF RunDrain
  <2> QED
    BY <2>1, <2>2, <2>3, FinishInv DEF Paired
<1>3. CASE CancelledUnstarted(o)
  <2>1. status[o] = "pending" /\ cancelReq[o] /\ UNCHANGED rest
    BY <1>1, <1>3 DEF CancelledUnstarted, Paired
  <2>2. Owner(o)
    BY <2>1 DEF OpInv, Owned
  <2>3. Finish(o, "pending", "cancelled")
    BY <1>3, <2>1 DEF CancelledUnstarted, Finish, OpInv, OwnType
  <2> QED
    BY <1>0, <2>1, <2>2, <2>3, FinishInv DEF Paired
<1>4. CASE DrainStep(o)
  <2>1. opsPhase # "closed"
    BY <1>0, <1>1, <1>4 DEF DrainStep, Paired
  <2>2. UNCHANGED rest
    BY <1>4 DEF DrainStep
  <2>3. \/ UNCHANGED <<status, task>>
        \/ Finish(o, "succeeded", "ended")
        \/ Finish(o, "failed", "ended")
    BY <1>4 DEF DrainStep, OutOrOn
  <2>4. CASE UNCHANGED <<status, task>>
    BY <2>2, <2>4 DEF OpInv, OwnType, Shape, NoneWhenClosed, Owned, Owner, KeyBound,
                      ReturnedIsTerminal, rest
  <2> QED
    BY <2>1, <2>2, <2>3, <2>4, FinishInv DEF Paired
<1>5. CASE CancelledInDrain(o)
  <2>1. opsPhase # "closed"
    BY <1>0, <1>1, <1>5 DEF CancelledInDrain, Paired
  <2> QED
    BY <1>5, <2>1, FinishInv DEF CancelledInDrain, Paired
<1> QED
  BY <1>2, <1>3, <1>4, <1>5 DEF OpStep

LEMMA RecordInv ==
    ASSUME OpInv, NEW o \in Ops, NEW k \in Keys, NEW i \in IdemKeys \cup {NoKey},
           Record(o, k, i), UNCHANGED <<cancelReq, opsPhase, abandoned, seen>>,
           cpc' \in [Callers -> {"out", "waiting", "cancelling", "leaving"}],
           cop' \in [Callers -> Ops],
           \A c \in Callers : cpc[c] = "cancelling" => cpc'[c] = cpc[c] /\ cop'[c] = cop[c]
    PROVE  OpInv'
<1> USE DEF OpInv, Active, Terminal
<1>1. OwnType'
  BY DEF OwnType, Record, Statuses, Tasks
<1>2. /\ \A p \in Ops : p # o => status'[p] = status[p] /\ task'[p] = task[p] /\ okey'[p] = okey[p]
      /\ status'[o] = "pending" /\ task'[o] = "new" /\ okey'[o] = i
  BY DEF OwnType, Record
<1>3. Shape'
  BY <1>2 DEF Shape, Paired
<1>4. NoneWhenClosed'
  BY DEF NoneWhenClosed, Record
<1>5. Owned'
  <2>1. ~cancelReq[o]
    BY DEF KeyBound, Record
  <2> QED
    BY <1>2, <2>1 DEF Owned, Owner
<1>6. KeyBound'
  <2> SUFFICES ASSUME NEW p \in Ops
               PROVE  /\ status'[p] = "none" => okey'[p] = NoKey /\ ~cancelReq'[p]
                      /\ okey'[p] \in IdemKeys => bound'[okey'[p]] = p
    BY DEF KeyBound
  <2>1. CASE p = o
    BY <1>2, <2>1 DEF Record
  <2>2. CASE p # o
    <3>1. okey[p] \in IdemKeys => bound[okey[p]] = p
      BY DEF KeyBound
    <3>2. okey[p] \in IdemKeys => okey[p] # i
      BY <3>1, OperationsAssumption DEF Record, Fresh
    <3> QED
      BY <1>2, <2>2, <3>1, <3>2 DEF Record, KeyBound
  <2> QED
    BY <2>1, <2>2
<1>7. ReturnedIsTerminal'
  BY DEF ReturnedIsTerminal
<1> QED
  BY <1>1, <1>3, <1>4, <1>5, <1>6, <1>7

\* Steps of callers that change neither records nor tasks.
LEMMA CallerMovesInv ==
    ASSUME OpInv, UNCHANGED <<status, model, okey, bound, task, cancelReq, opsPhase>>,
           abandoned' \in BOOLEAN, abandoned => abandoned',
           cpc' \in [Callers -> {"out", "waiting", "cancelling", "leaving"}],
           cop' \in [Callers -> Ops],
           seen' \in [Callers -> {"none", "raised"} \cup Active \cup Terminal],
           \A c \in Callers : seen'[c] \notin Active,
           ~abandoned' => \A c \in Callers :
               cpc[c] = "cancelling" => cpc'[c] = cpc[c] /\ cop'[c] = cop[c]
    PROVE  OpInv'
<1> USE DEF OpInv
<1>1. OwnType'
  BY DEF OwnType
<1>2. Shape' /\ NoneWhenClosed' /\ KeyBound' /\ ReturnedIsTerminal'
  BY DEF Shape, NoneWhenClosed, KeyBound, ReturnedIsTerminal
<1>3. Owned'
  BY DEF Owned, Owner
<1> QED
  BY <1>1, <1>2, <1>3

LEMMA CallerStepInv == ASSUME OpInv, NEW c \in Callers, CallerStep(c) PROVE OpInv'
<1> USE DEF OpInv
<1>0. cop[c] \in Ops
  BY DEF OwnType
<1>1. ASSUME NEW o \in Ops, NEW k \in Keys, NEW i \in IdemKeys \cup {NoKey}, SubmitAndWait(c, o, k, i)
      PROVE OpInv'
  <2>1. /\ cpc' \in [Callers -> {"out", "waiting", "cancelling", "leaving"}]
        /\ cop' \in [Callers -> Ops]
        /\ \A d \in Callers : cpc[d] = "cancelling" => cpc'[d] = cpc[d] /\ cop'[d] = cop[d]
    BY <1>1 DEF SubmitAndWait, OwnType
  <2> QED
    BY <1>1, <2>1, RecordInv DEF SubmitAndWait
<1>2. ASSUME NEW i \in IdemKeys, ReplayAndWait(c, i) PROVE OpInv'
  <2>1. bound[i] \in Ops
    BY <1>2 DEF ReplayAndWait, OwnType
  <2>2. CASE status[bound[i]] \in Active
    BY <1>2, <2>1, <2>2, CallerMovesInv DEF ReplayAndWait, OwnType, ReturnedIsTerminal
  <2>3. CASE status[bound[i]] \notin Active
    <3>1. status[bound[i]] \in {"none"} \cup Terminal
      BY <2>1, <2>3 DEF OwnType, Statuses
    <3> QED
      BY <1>2, <2>1, <2>3, <3>1, CallerMovesInv DEF ReplayAndWait, OwnType, ReturnedIsTerminal
  <2> QED
    BY <2>2, <2>3
<1>3. ASSUME NEW o \in Ops, Cancel(c, o) PROVE OpInv'
  <2>1. OwnType'
    <3> DEFINE x == ~TaskOver(o)
    <3>1. x \in BOOLEAN
      OBVIOUS
    <3>2. cancelReq' = [cancelReq EXCEPT ![o] = x]
      BY <1>3 DEF Cancel
    <3> HIDE DEF x
    <3> QED
      BY <1>3, <3>1, <3>2 DEF Cancel, OwnType
  <2>2. Shape' /\ NoneWhenClosed' /\ ReturnedIsTerminal'
    BY <1>3 DEF Cancel, Shape, NoneWhenClosed, ReturnedIsTerminal
  <2>3. KeyBound'
    BY <1>3 DEF Cancel, KeyBound, OwnType, Active
  <2>4. Owner(o)'
    BY <1>3 DEF Cancel, Owner, OwnType
  <2>5. ASSUME NEW p \in Ops, p # o, Owner(p) PROVE Owner(p)'
    BY <1>3, <2>5 DEF Cancel, Owner, OwnType
  <2>6. \A p \in Ops : p # o => cancelReq'[p] = cancelReq[p]
    BY <1>3 DEF Cancel, OwnType
  <2>7. Owned'
    BY <1>3, <2>4, <2>5, <2>6 DEF Cancel, Owned
  <2> QED
    BY <2>1, <2>2, <2>3, <2>7
<1>4. CASE WaitReturns(c)
  <2>1. task[cop[c]] = "ended" => status[cop[c]] \in Terminal
    BY <1>0 DEF Shape, Paired
  <2>2. \A s \in Terminal : s \notin Active
    BY DEF Active, Terminal
  <2>3. /\ seen' \in [Callers -> {"none", "raised"} \cup Active \cup Terminal]
        /\ \A d \in Callers : seen'[d] \notin Active
    BY <1>4, <2>1, <2>2 DEF WaitReturns, OwnType, ReturnedIsTerminal, Active
  <2> QED
    BY <1>4, <2>3, CallerMovesInv DEF WaitReturns, OwnType
<1>5. CASE WaitCancelledByCaller(c)
  BY <1>5, CallerMovesInv DEF WaitCancelledByCaller, OwnType, ReturnedIsTerminal
<1>6. CASE CancelReturns(c)
  <2> DEFINE o == cop[c]
             s == FinishCancelledIfActive(o)
  <2>0. /\ status' = [status EXCEPT ![o] = s]
        /\ seen' = [seen EXCEPT ![c] = s]
        /\ cpc' = [cpc EXCEPT ![c] = "out"]
        /\ UNCHANGED <<model, okey, bound, task, cancelReq, cop, opsPhase, abandoned>>
        /\ cpc[c] = "cancelling"
    BY <1>6 DEF CancelReturns
  <2>1. Paired(status[o], task[o]) /\ task[o] \in {"ended", "cancelled"}
    BY <1>0, <1>6 DEF Shape, CancelReturns, TaskOver
  <2>2. /\ s \in Statuses /\ s \notin Active /\ s # "none" /\ Paired(s, task[o])
        /\ s \in Terminal
    BY <2>1 DEF FinishCancelledIfActive, Paired, Active, Terminal, Statuses
  <2>3. o \in Ops
    BY <1>0
  <2> HIDE DEF o, s
  <2>4. OwnType'
    BY <2>0, <2>2, <2>3 DEF OwnType
  <2>5. status'[o] = s /\ \A p \in Ops : p # o => status'[p] = status[p]
    BY <2>0, <2>3 DEF OwnType
  <2>6. Shape' /\ NoneWhenClosed' /\ KeyBound'
    BY <2>0, <2>2, <2>5 DEF Shape, NoneWhenClosed, KeyBound
  <2>7. ReturnedIsTerminal'
    BY <2>0, <2>2 DEF ReturnedIsTerminal, OwnType
  <2>8. ASSUME NEW p \in Ops, p # o, Owner(p) PROVE Owner(p)'
    BY <2>0, <2>8 DEF Owner, OwnType, o
  <2>9. Owned'
    BY <2>0, <2>2, <2>5, <2>8 DEF Owned, Active
  <2> QED
    BY <2>4, <2>6, <2>7, <2>9
<1>7. CASE CancelAbandoned(c)
  BY <1>7, CallerMovesInv DEF CancelAbandoned, OwnType, ReturnedIsTerminal
<1>8. CASE CancelLeaves(c)
  <2>1. \A d \in Callers : seen'[d] \notin Active
    BY <1>8 DEF CancelLeaves, OwnType, ReturnedIsTerminal, Active
  <2> QED
    BY <1>8, <2>1, CallerMovesInv DEF CancelLeaves, OwnType
<1> QED
  BY <1>1, <1>2, <1>3, <1>4, <1>5, <1>6, <1>7, <1>8 DEF CallerStep

LEMMA ShutdownInv == ASSUME OpInv, OpsShutdown \/ OpsShutdownEnd PROVE OpInv'
<1> USE DEF OpInv
<1>1. CASE OpsShutdown
  <2>1. OwnType'
    BY <1>1 DEF OpsShutdown, OwnType
  <2>2. Shape' /\ NoneWhenClosed' /\ ReturnedIsTerminal' /\ Owned'
    BY <1>1 DEF OpsShutdown, Shape, NoneWhenClosed, ReturnedIsTerminal, Owned, Owner
  <2>3. KeyBound'
    BY <1>1 DEF OpsShutdown, KeyBound, Active
  <2> QED
    BY <2>1, <2>2, <2>3
<1>2. CASE OpsShutdownEnd
  <2>1. ASSUME NEW o \in Ops
        PROVE  /\ FinishCancelledIfActive(o) \in Statuses \ Active
               /\ Paired(FinishCancelledIfActive(o), task[o])
               /\ FinishCancelledIfActive(o) = "none" => status[o] = "none"
    <3>1. Paired(status[o], task[o]) /\ status[o] \in Statuses
      BY DEF Shape, OwnType
    <3>2. status[o] \in Active => task[o] \in {"ended", "cancelled"}
      BY <1>2 DEF OpsShutdownEnd, TaskOver
    <3> QED
      BY <3>1, <3>2 DEF FinishCancelledIfActive, Statuses, Active, Terminal, Paired
  <2>2. status' = [o \in Ops |-> FinishCancelledIfActive(o)]
    BY <1>2 DEF OpsShutdownEnd
  <2>3. OwnType'
    BY <1>2, <2>1, <2>2 DEF OpsShutdownEnd, OwnType
  <2>4. Shape' /\ NoneWhenClosed' /\ ReturnedIsTerminal'
    BY <1>2, <2>1, <2>2 DEF OpsShutdownEnd, Shape, NoneWhenClosed, ReturnedIsTerminal
  <2>5. Owned'
    BY <1>2, <2>1, <2>2 DEF OpsShutdownEnd, Owned, Active
  <2>6. KeyBound'
    BY <1>2, <2>1, <2>2 DEF OpsShutdownEnd, KeyBound
  <2> QED
    BY <2>3, <2>4, <2>5, <2>6
<1> QED
  BY <1>1, <1>2

LEMMA OpInvStep == OpInv /\ [OpsNext]_allVars => OpInv'
<1> SUFFICES ASSUME OpInv, [OpsNext]_allVars PROVE OpInv'
  OBVIOUS
<1>1. ASSUME NEW o \in Ops, NEW k \in Keys, NEW i \in IdemKeys \cup {NoKey}, SubmitDrain(o, k, i)
      PROVE OpInv'
  <2>1. /\ cpc' \in [Callers -> {"out", "waiting", "cancelling", "leaving"}]
        /\ cop' \in [Callers -> Ops]
    BY <1>1 DEF SubmitDrain, OpInv, OwnType
  <2> QED
    BY <1>1, <2>1, RecordInv DEF SubmitDrain
<1>2. CASE UNCHANGED opVars
  BY <1>2 DEF OpInv, OwnType, Shape, NoneWhenClosed, Owned, Owner, KeyBound,
              ReturnedIsTerminal, opVars
<1>3. CASE ResidencyStep \/ OpsAtRest \/ UNCHANGED allVars
  BY <1>2, <1>3 DEF ResidencyStep, OpsAtRest, allVars
<1> QED
  BY <1>1, <1>3, OpStepInv, CallerStepInv, ShutdownInv DEF OpsNext

LEMMA OpInvHolds == OpsSpec => []OpInv
BY OpInvInit, OpInvStep, PTL DEF OpsSpec

\* Type correctness of the composition.
THEOREM OpsTypeCorrect == OpsSpec => []OpsTypeOK
<1>1. OpInv /\ TypeOK => OpsTypeOK
  BY DEF OpInv, OwnType, OpsTypeOK, Statuses, Tasks
<1> QED
  BY <1>1, OpInvHolds, OpsImplementsResidency, TypeCorrect, PTL DEF ImplementsResidency

\* An active record always has somebody to end it, unless a canceller was
\* cancelled, and then it never started.
THEOREM ActiveIsOwnedHolds == OpsSpec => []ActiveIsOwned
<1>1. OpInv => ActiveIsOwned
  BY DEF OpInv, Shape, Paired, Owned, Owner, ActiveIsOwned, TaskOver, Active, Terminal
<1> QED
  BY <1>1, OpInvHolds, PTL

\* An idempotency key names one operation.
THEOREM OneOperationPerKeyHolds == OpsSpec => []OneOperationPerKey
<1>1. OpInv => OneOperationPerKey
  BY DEF OpInv, OwnType, KeyBound, OneOperationPerKey
<1> QED
  BY <1>1, OpInvHolds, PTL

\* What cancel() and submit_drain_and_wait() return is terminal.
THEOREM ReturnedIsTerminalHolds == OpsSpec => []ReturnedIsTerminal
<1>1. OpInv => ReturnedIsTerminal
  BY DEF OpInv
<1> QED
  BY <1>1, OpInvHolds, PTL

-----------------------------------------------------------------------------
(* A terminal status is final.                                             *)

LEMMA TerminalStep ==
    ASSUME OpInv, [OpsNext]_allVars, NEW o \in Ops, status[o] \in Terminal
    PROVE  status'[o] = status[o]
<1> USE DEF Terminal, rest, opVars
<1>1. task[o] \in {"ended", "cancelled"}
  BY DEF OpInv, Shape, Paired
<1>2. ASSUME NEW p \in Ops, NEW k \in Keys, NEW i, Record(p, k, i) PROVE status'[o] = status[o]
  BY <1>2 DEF Record, OpInv, OwnType
<1>3. ASSUME NEW p \in Ops, OpStep(p) PROVE status'[o] = status[o]
  <2>1. CASE p = o
    BY <1>1, <1>3, <2>1 DEF OpStep, RunDrain, CancelledUnstarted, DrainStep, CancelledInDrain
  <2>2. CASE p # o
    BY <1>3, <2>2 DEF OpStep, RunDrain, CancelledUnstarted, DrainStep, CancelledInDrain,
                      Finish, OutOrOn, OpInv, OwnType
  <2> QED
    BY <2>1, <2>2
<1>4. ASSUME NEW c \in Callers, CallerStep(c) PROVE status'[o] = status[o]
  <2>1. CASE CancelReturns(c)
    BY <2>1 DEF CancelReturns, FinishCancelledIfActive, Active, OpInv, OwnType
  <2>2. CASE ~CancelReturns(c)
    BY <1>2, <1>4, <2>2 DEF CallerStep, SubmitAndWait, ReplayAndWait, Cancel, WaitReturns,
                            WaitCancelledByCaller, CancelAbandoned, CancelLeaves
  <2> QED
    BY <2>1, <2>2
<1>5. CASE OpsShutdown \/ OpsShutdownEnd
  BY <1>5 DEF OpsShutdown, OpsShutdownEnd, FinishCancelledIfActive, Active
<1>6. CASE ResidencyStep \/ OpsAtRest \/ UNCHANGED allVars
  BY <1>6 DEF ResidencyStep, OpsAtRest, allVars
<1> QED
  BY <1>2, <1>3, <1>4, <1>5, <1>6 DEF OpsNext, SubmitDrain

\* No late canceller, second canceller or shutdown rewrites an outcome.
THEOREM TerminalIsFinalHolds == OpsSpec => TerminalIsFinal
<1>1. OpInv /\ [OpsNext]_allVars
        => [\A o \in Ops : status[o] \in Terminal => status'[o] = status[o]]_allVars
  BY TerminalStep
<1> QED
  BY <1>1, OpInvHolds, PTL DEF OpsSpec, TerminalIsFinal

-----------------------------------------------------------------------------
(* Running records and unload() calls.                                     *)

USE DEF record, backend, userVars, adminVars, closeVars, drift

\* Nobody else's step takes a caller of unload() in or out.
LEMMA OthersStay ==
    ASSUME TypeOK, NEW a \in Unloaders, NEW b \in Unloaders, a # b, AdminStep(a)
    PROVE  apc'[b] = "out" <=> apc[b] = "out"
<1>1. akey[a] \in Keys /\ apc \in [Unloaders -> AdminStates]
  BY DEF TypeOK
<1>2. ASSUME NEW k PROVE Notified(k)[b] = "out" <=> apc[b] = "out"
  BY <1>1 DEF Notified
<1>3. ASSUME NEW k \in Keys, NEW d \in BOOLEAN, Unload(a, k, d) PROVE apc'[b] = apc[b]
  BY <1>1, <1>3 DEF Unload, UnloadCall, UnloadUntracked, JoinTransition, BeginDrain,
                    UnloadUnused, LeaveUnload, Enter
<1>4. CASE DrainIdle(a)
  BY <1>1, <1>4 DEF DrainIdle
<1>5. CASE DrainAbandoned(a)
  <2>1. apc' = [apc EXCEPT ![a] = "out"] \/ apc' = [Notified(akey[a]) EXCEPT ![a] = "out"]
    BY <1>5 DEF DrainAbandoned
  <2> QED
    BY <1>1, <1>2, <2>1 DEF Notified
<1>6. CASE JoinCancelled(a)
  BY <1>1, <1>6 DEF JoinCancelled
<1>7. CASE UnloadSucceeds(a) \/ UnloadRaises(a) \/ UnloadCancelled(a)
  <2>1. apc' = [Notified(akey[a]) EXCEPT ![a] = "out"]
    BY <1>7 DEF UnloadSucceeds, UnloadRaises, UnloadCancelled
  <2> QED
    BY <1>2, <2>1 DEF Notified
<1> QED
  BY <1>3, <1>4, <1>5, <1>6, <1>7 DEF AdminStep, BackendUnloadEnds

\* The sweep of shutdown() moves only its own caller.
LEMMA SweepStays ==
    ASSUME TypeOK, NEW o \in Ops, Shutdown
    PROVE  apc'[o] = apc[o]
<1>1. o \in Unloaders /\ o # Closer /\ Closer \in Unloaders
  BY OpIsAdmin DEF Unloaders
<1> QED
  BY <1>1 DEF Shutdown, ShutdownBegin, ShutdownList, ShutdownNext, ShutdownEnd,
              JoinTransition, BeginDrain, Enter, TypeOK

LEMMA RunningInit == OpsInit => RunningIffDraining
BY OpIsAdmin DEF OpsInit, Init, RunningIffDraining

\* The operation's own step.
LEMMA RunningOwn ==
    ASSUME TypeOK, OpInv, RunningIffDraining, NEW o \in Ops, OpStep(o)
    PROVE  status'[o] = "running" <=> apc'[o] # "out"
<1>1. /\ o \in Unloaders
      /\ apc \in [Unloaders -> AdminStates] /\ status \in [Ops -> Statuses]
      /\ (status[o] = "running" <=> apc[o] # "out")
      /\ Paired(status[o], task[o])
  BY OpIsAdmin DEF TypeOK, OpInv, OwnType, Shape, RunningIffDraining
<1>2. CASE RunDrain(o)
  <2>1. apc[o] = "out"
    BY <1>1, <1>2 DEF RunDrain, Paired, Terminal
  <2>2. CASE Unload(o, model[o], TRUE) /\ Finish(o, "running", "running")
    BY <1>1, <2>1, <2>2 DEF Finish, Unload, UnloadCall, UnloadUntracked, JoinTransition,
                            BeginDrain, UnloadUnused, LeaveUnload, Enter
  <2>3. CASE (Finish(o, "succeeded", "ended") \/ Finish(o, "failed", "ended")) /\ UNCHANGED vars
    BY <1>1, <2>1, <2>3 DEF Finish, vars
  <2> QED
    BY <1>2, <2>2, <2>3 DEF RunDrain
<1>3. CASE CancelledUnstarted(o)
  BY <1>1, <1>3 DEF CancelledUnstarted, vars
<1>4. CASE DrainStep(o)
  <2>1. status[o] = "running"
    BY <1>1, <1>4 DEF DrainStep, Paired
  <2>2. \/ OutOrOn(o, "succeeded")
        \/ OutOrOn(o, "failed")
    BY <1>4 DEF DrainStep
  <2> QED
    BY <1>1, <2>1, <2>2 DEF OutOrOn, Finish
<1>5. CASE CancelledInDrain(o)
  <2>1. status'[o] = "cancelled"
    BY <1>1, <1>5 DEF CancelledInDrain, Finish
  <2>2. ASSUME NEW k PROVE [Notified(k) EXCEPT ![o] = "out"][o] = "out"
    BY <1>1 DEF Notified
  <2>3. apc'[o] = "out"
    BY <1>1, <1>5, <2>2 DEF CancelledInDrain, DrainAbandoned, JoinCancelled, UnloadCancelled
  <2> QED
    BY <2>1, <2>3
<1> QED
  BY <1>2, <1>3, <1>4, <1>5 DEF OpStep

LEMMA RunningStep ==
    TypeOK /\ OpInv /\ RunningIffDraining /\ ModelType /\ [OpsNext]_allVars => RunningIffDraining'
<1> SUFFICES ASSUME TypeOK, OpInv, RunningIffDraining, ModelType, [OpsNext]_allVars, NEW o \in Ops
             PROVE  status'[o] = "running" <=> apc'[o] # "out"
  BY DEF RunningIffDraining
<1> USE DEF opVars, rest
<1>1. /\ (status[o] = "running" <=> apc[o] # "out")
      /\ status \in [Ops -> Statuses]
      /\ o \in Unloaders /\ Paired(status[o], task[o])
  BY OpIsAdmin DEF RunningIffDraining, OpInv, OwnType, Shape
<1>2. ASSUME NEW p \in Ops, NEW k \in Keys, NEW i, Record(p, k, i), UNCHANGED vars
      PROVE status'[o] = "running" <=> apc'[o] # "out"
  BY <1>1, <1>2 DEF Record, vars
<1>3. ASSUME NEW p \in Ops, OpStep(p) PROVE status'[o] = "running" <=> apc'[o] # "out"
  <2>1. CASE p = o
    BY <1>3, <2>1, RunningOwn
  <2>2. CASE p # o
    <3>1. status'[o] = status[o]
      BY <1>1, <1>3, <2>2 DEF OpStep, RunDrain, CancelledUnstarted, DrainStep, CancelledInDrain,
                              Finish, OutOrOn
    <3>2. apc'[o] = "out" <=> apc[o] = "out"
      BY <1>1, <1>3, <2>2, OpStepMaps, OthersStay, OpIsAdmin DEF vars
    <3> QED
      BY <1>1, <3>1, <3>2
  <2> QED
    BY <2>1, <2>2
<1>4. ASSUME NEW c \in Callers, CallerStep(c) PROVE status'[o] = "running" <=> apc'[o] # "out"
  <2>1. CASE CancelReturns(c)
    <3>1. apc' = apc /\ TaskOver(cop[c])
      BY <2>1 DEF CancelReturns, vars
    <3>2. CASE cop[c] = o
      BY <1>1, <2>1, <3>1, <3>2 DEF CancelReturns, TaskOver, Paired, FinishCancelledIfActive,
                                    Active, Terminal
    <3>3. CASE cop[c] # o
      BY <1>1, <2>1, <3>1, <3>3 DEF CancelReturns
    <3> QED
      BY <3>2, <3>3
  <2>2. CASE ~CancelReturns(c)
    BY <1>1, <1>2, <1>4, <2>2 DEF CallerStep, SubmitAndWait, ReplayAndWait, Cancel, WaitReturns,
                                  WaitCancelledByCaller, CancelAbandoned, CancelLeaves, vars
  <2> QED
    BY <2>1, <2>2
<1>5. CASE OpsShutdown
  BY <1>1, <1>5 DEF OpsShutdown, vars
<1>6. CASE OpsShutdownEnd
  <2>1. status[o] \in Active => task[o] \in {"ended", "cancelled"}
    BY <1>6 DEF OpsShutdownEnd, TaskOver
  <2>2. status[o] # "running"
    BY <1>1, <2>1 DEF Paired, Active, Terminal
  <2> QED
    BY <1>1, <1>6, <2>2 DEF OpsShutdownEnd, FinishCancelledIfActive, vars
<1>7. CASE ResidencyStep
  <2>0. status' = status
    BY <1>7 DEF ResidencyStep
  <2>1. CASE \E u \in Users : UserStep(u)
    <3>1. apc' = apc
      BY <2>1 DEF UserStep, EnsureLoaded, AfterLoad, AcquireReady, AdoptAndAcquire, AdoptOnly,
                  JoinLoad, StartLoad, ConvertPromise, ReturnUnleased, LoadErrorSeen,
                  WaitCancelled, ReleasePending, ReleaseLease
    <3> QED
      BY <1>1, <2>0, <3>1
  <2>2. CASE \E k \in Keys : LoadEnds(k)
    BY <1>1, <2>0, <2>2 DEF LoadEnds, LoadSucceeds, LoadFails
  <2>3. CASE \E a \in Unloaders \ Ops : AdminStep(a)
    BY <1>1, <2>0, <2>3, OthersStay
  <2>4. CASE Shutdown
    BY <1>1, <2>0, <2>4, SweepStays
  <2> QED
    BY <1>7, <2>1, <2>2, <2>3, <2>4 DEF ResidencyStep
<1>8. CASE OpsAtRest \/ UNCHANGED allVars
  BY <1>1, <1>8 DEF OpsAtRest, AtRest, allVars, vars
<1> QED
  BY <1>2, <1>3, <1>4, <1>5, <1>6, <1>7, <1>8 DEF OpsNext, SubmitDrain

\* A record is running exactly while its task is inside unload().
THEOREM RunningIffDrainingHolds == OpsSpec => []RunningIffDraining
<1>1. OpsSpec => []TypeOK
  BY OpsImplementsResidency, TypeCorrect, PTL DEF ImplementsResidency
<1>2. OpsSpec => []ModelType
  BY ModelTypeInit, ModelTypeStep, PTL DEF OpsSpec
<1> QED
  BY <1>1, <1>2, OpInvHolds, RunningInit, RunningStep, PTL DEF OpsSpec

\* When the operation manager has shut down, no operation is active and none
\* is inside unload().
THEOREM OpsClosedCleanHolds == OpsSpec => []OpsClosedClean
<1>1. OpInv /\ RunningIffDraining => OpsClosedClean
  BY DEF OpInv, NoneWhenClosed, Shape, Paired, RunningIffDraining, OpsClosedClean, Active, Terminal
<1> QED
  BY <1>1, OpInvHolds, RunningIffDrainingHolds, PTL

(* The records, tasks, keys and unload() calls of the operation manager agree *)
(* in every reachable state.                                                  *)
THEOREM OpsSoundHolds == OpsSpec => []OpsSound
<1>1. OpsTypeOK /\ RunningIffDraining /\ ActiveIsOwned /\ OneOperationPerKey /\ OpsClosedClean
        => OpsSound
  BY DEF OpsSound
<1> QED
  BY <1>1, OpsTypeCorrect, RunningIffDrainingHolds, ActiveIsOwnedHolds,
     OneOperationPerKeyHolds, OpsClosedCleanHolds, PTL

-----------------------------------------------------------------------------
(* Cancelling a drain restores a still-loaded residency.                   *)

\* The call of unload() is about the model of the record.
SameModel == \A o \in Ops : apc[o] # "out" => akey[o] = model[o]

\* Only its own steps, or the sweep for its own caller, set a caller's key.
LEMMA OthersKey ==
    ASSUME TypeOK, NEW a \in Unloaders, NEW b \in Unloaders, a # b, AdminStep(a)
    PROVE  akey'[b] = akey[b]
<1>1. akey \in [Unloaders -> Keys]
  BY DEF TypeOK
<1>2. ASSUME NEW k \in Keys, NEW d \in BOOLEAN, Unload(a, k, d) PROVE akey'[b] = akey[b]
  BY <1>1, <1>2 DEF Unload, UnloadCall, UnloadUntracked, JoinTransition, BeginDrain,
                    UnloadUnused, LeaveUnload, Enter
<1>3. CASE DrainIdle(a) \/ DrainAbandoned(a) \/ JoinCancelled(a)
  BY <1>3 DEF DrainIdle, DrainAbandoned, JoinCancelled
<1>4. CASE UnloadSucceeds(a) \/ UnloadRaises(a) \/ UnloadCancelled(a)
  BY <1>4 DEF UnloadSucceeds, UnloadRaises, UnloadCancelled
<1> QED
  BY <1>2, <1>3, <1>4 DEF AdminStep, BackendUnloadEnds

LEMMA SweepKeepsKey == ASSUME TypeOK, NEW o \in Ops, Shutdown PROVE akey'[o] = akey[o]
<1>1. o \in Unloaders /\ o # Closer /\ Closer \in Unloaders
  BY OpIsAdmin DEF Unloaders
<1> QED
  BY <1>1 DEF Shutdown, ShutdownBegin, ShutdownList, ShutdownNext, ShutdownEnd,
              JoinTransition, BeginDrain, Enter, TypeOK

LEMMA OpKeepsModel ==
    ASSUME TypeOK, NEW o \in Ops, OpStep(o), apc[o] # "out" => akey[o] = model[o]
    PROVE  apc'[o] # "out" => akey'[o] = model'[o]
<1>1. o \in Unloaders /\ apc \in [Unloaders -> AdminStates] /\ akey \in [Unloaders -> Keys]
  BY OpIsAdmin DEF TypeOK
<1>2. model' = model
  BY DEF OpStep, RunDrain, CancelledUnstarted, DrainStep, CancelledInDrain, rest
<1>3. CASE Unload(o, model[o], TRUE)
  BY <1>1, <1>2, <1>3 DEF Unload, UnloadCall, UnloadUntracked, JoinTransition, BeginDrain,
                          UnloadUnused, LeaveUnload, Enter
<1>4. CASE UNCHANGED vars
  BY <1>2, <1>4 DEF vars
<1>5. CASE DrainIdle(o)
  BY <1>1, <1>2, <1>5 DEF DrainIdle
<1>6. CASE DrainAbandoned(o) \/ JoinCancelled(o) \/ UnloadCancelled(o)
           \/ UnloadSucceeds(o) \/ UnloadRaises(o)
  <2>1. ASSUME NEW k PROVE [Notified(k) EXCEPT ![o] = "out"][o] = "out"
    BY <1>1 DEF Notified
  <2>2. apc'[o] = "out"
    BY <1>1, <1>6, <2>1 DEF DrainAbandoned, JoinCancelled, UnloadCancelled, UnloadSucceeds, UnloadRaises
  <2> QED
    BY <2>2
<1> QED
  BY <1>3, <1>4, <1>5, <1>6 DEF OpStep, RunDrain, CancelledUnstarted, DrainStep, CancelledInDrain

LEMMA SameModelStep ==
    TypeOK /\ OpInv /\ ModelType /\ RunningIffDraining /\ SameModel /\ [OpsNext]_allVars => SameModel'
<1> SUFFICES ASSUME TypeOK, OpInv, ModelType, RunningIffDraining, SameModel, [OpsNext]_allVars,
                    NEW o \in Ops
             PROVE  apc'[o] # "out" => akey'[o] = model'[o]
  BY DEF SameModel
<1> USE DEF opVars, rest
<1>1. /\ o \in Unloaders /\ (apc[o] # "out" => akey[o] = model[o])
      /\ (status[o] = "running" <=> apc[o] # "out")
  BY OpIsAdmin DEF SameModel, RunningIffDraining
<1>2. ASSUME NEW p \in Ops, NEW k \in Keys, NEW i, Record(p, k, i), UNCHANGED vars
      PROVE apc'[o] # "out" => akey'[o] = model'[o]
  BY <1>1, <1>2 DEF Record, vars, ModelType
<1>3. ASSUME NEW p \in Ops, OpStep(p) PROVE apc'[o] # "out" => akey'[o] = model'[o]
  <2>1. CASE p = o
    BY <1>1, <1>3, <2>1, OpKeepsModel
  <2>2. CASE p # o
    <3>1. model' = model
      BY <1>3 DEF OpStep, RunDrain, CancelledUnstarted, DrainStep, CancelledInDrain
    <3>2. (apc'[o] = "out" <=> apc[o] = "out") /\ akey'[o] = akey[o]
      BY <1>1, <1>3, <2>2, OpStepMaps, OthersStay, OthersKey, OpIsAdmin DEF vars
    <3> QED
      BY <1>1, <3>1, <3>2
  <2> QED
    BY <2>1, <2>2
<1>4. ASSUME NEW c \in Callers, CallerStep(c) PROVE apc'[o] # "out" => akey'[o] = model'[o]
  BY <1>1, <1>2, <1>4 DEF CallerStep, SubmitAndWait, ReplayAndWait, Cancel, WaitReturns,
        CancelReturns, WaitCancelledByCaller, CancelAbandoned, CancelLeaves, vars
<1>5. CASE OpsShutdown \/ OpsShutdownEnd \/ OpsAtRest \/ UNCHANGED allVars
  BY <1>1, <1>5 DEF OpsShutdown, OpsShutdownEnd, OpsAtRest, AtRest, allVars, vars
<1>6. CASE ResidencyStep
  <2>0. model' = model
    BY <1>6 DEF ResidencyStep
  <2>1. CASE \E u \in Users : UserStep(u)
    <3>1. apc' = apc /\ akey' = akey
      BY <2>1 DEF UserStep, EnsureLoaded, AfterLoad, AcquireReady, AdoptAndAcquire, AdoptOnly,
                  JoinLoad, StartLoad, ConvertPromise, ReturnUnleased, LoadErrorSeen,
                  WaitCancelled, ReleasePending, ReleaseLease
    <3> QED
      BY <1>1, <2>0, <3>1
  <2>2. CASE \E k \in Keys : LoadEnds(k)
    BY <1>1, <2>0, <2>2 DEF LoadEnds, LoadSucceeds, LoadFails
  <2>3. CASE \E a \in Unloaders \ Ops : AdminStep(a)
    BY <1>1, <2>0, <2>3, OthersStay, OthersKey
  <2>4. CASE Shutdown
    BY <1>1, <2>0, <2>4, SweepStays, SweepKeepsKey
  <2> QED
    BY <1>6, <2>1, <2>2, <2>3, <2>4 DEF ResidencyStep
<1> QED
  BY <1>2, <1>3, <1>4, <1>5, <1>6 DEF OpsNext, SubmitDrain

\* The only step from running to cancelled is the one in which unload() ends
\* with the cancellation.
LEMMA CancelIsDelivered ==
    ASSUME OpInv, NEW o \in Ops, [OpsNext]_allVars,
           status[o] = "running", status'[o] = "cancelled"
    PROVE  CancelledInDrain(o)
<1> USE DEF opVars, rest
<1>1. status \in [Ops -> Statuses] /\ Paired(status[o], task[o])
  BY DEF OpInv, OwnType, Shape
<1>2. task[o] = "running"
  BY <1>1 DEF Paired, Terminal
<1>3. ASSUME NEW p \in Ops, OpStep(p) PROVE CancelledInDrain(o)
  <2>1. CASE p = o
    BY <1>1, <1>2, <1>3, <2>1 DEF OpStep, RunDrain, CancelledUnstarted, DrainStep, OutOrOn, Finish
  <2>2. CASE p # o
    BY <1>1, <1>3, <2>2 DEF OpStep, RunDrain, CancelledUnstarted, DrainStep, CancelledInDrain,
                            Finish, OutOrOn
  <2> QED
    BY <2>1, <2>2
<1>4. ASSUME NEW p \in Ops, NEW k \in Keys, NEW i, Record(p, k, i) PROVE FALSE
  BY <1>1, <1>4 DEF Record
<1>5. ASSUME NEW c \in Callers, CallerStep(c) PROVE FALSE
  <2>1. CASE CancelReturns(c)
    BY <1>1, <1>2, <2>1 DEF CancelReturns, TaskOver
  <2>2. CASE ~CancelReturns(c)
    BY <1>4, <1>5, <2>2 DEF CallerStep, SubmitAndWait, ReplayAndWait, Cancel, WaitReturns,
                            WaitCancelledByCaller, CancelAbandoned, CancelLeaves
  <2> QED
    BY <2>1, <2>2
<1>6. CASE OpsShutdown \/ OpsShutdownEnd
  BY <1>2, <1>6 DEF OpsShutdown, OpsShutdownEnd, TaskOver, Active
<1>7. CASE ResidencyStep \/ OpsAtRest \/ UNCHANGED allVars
  BY <1>7 DEF ResidencyStep, OpsAtRest, allVars
<1> QED
  BY <1>3, <1>4, <1>5, <1>6, <1>7 DEF OpsNext, SubmitDrain

LEMMA RestoreStep ==
    ASSUME TypeOK, OneTransition, SameModel, NEW o \in Ops, CancelledInDrain(o),
           apc[o] \in {"draining", "unloading"}, loaded'[model[o]]
    PROVE  state'[model[o]] = "ready"
<1> DEFINE k == akey[o]
<1>1. /\ o \in Unloaders /\ k \in Keys /\ k = model[o]
      /\ state \in [Keys -> RecordStates] /\ loaded \in [Keys -> BOOLEAN]
  BY OpIsAdmin DEF TypeOK, SameModel
<1>2. state[k] = apc[o]
  BY <1>1 DEF OneTransition, Working
<1>3. CASE DrainAbandoned(o)
  BY <1>1, <1>2, <1>3 DEF DrainAbandoned
<1>4. CASE UnloadCancelled(o)
  BY <1>1, <1>2, <1>4 DEF UnloadCancelled
<1>5. ~JoinCancelled(o)
  BY DEF JoinCancelled
<1> QED
  BY <1>3, <1>4, <1>5 DEF CancelledInDrain

\* A cancelled drain leaves a model that is still loaded ready for use, never
\* stuck in draining, whether the cancellation came from cancel() or shutdown().
THEOREM CancelRestoresReadyHolds == OpsSpec => CancelRestoresReady
<1>1. OpsSpec => [](TypeOK /\ OneTransition)
  BY OpsImplementsResidency, TypeCorrect, OneTransitionHolds, PTL DEF ImplementsResidency
<1>2. OpsSpec => []ModelType
  BY ModelTypeInit, ModelTypeStep, PTL DEF OpsSpec
<1>3. OpsInit => SameModel
  BY OpIsAdmin DEF OpsInit, Init, SameModel
<1>4. OpsSpec => []SameModel
  BY <1>1, <1>2, <1>3, OpInvHolds, RunningIffDrainingHolds, SameModelStep, PTL DEF OpsSpec
<1>5. TypeOK /\ OneTransition /\ SameModel /\ OpInv /\ [OpsNext]_allVars =>
        [\A o \in Ops :
            /\ status[o] = "running" /\ status'[o] = "cancelled"
            /\ apc[o] \in {"draining", "unloading"}
            /\ loaded'[model[o]]
            => state'[model[o]] = "ready"]_allVars
  BY CancelIsDelivered, RestoreStep
<1> QED
  BY <1>1, <1>4, <1>5, OpInvHolds, PTL DEF OpsSpec, CancelRestoresReady
=============================================================================
