---------------------------- MODULE SequenceFacts ----------------------------
(***************************************************************************)
(* What Filter returns for every sequence and every set, and the elements  *)
(* of the sequences that queues and tables are updated with.               *)
(*                                                                         *)
(* The induction over the length is by least counterexample: a non-empty   *)
(* set of naturals has a least element (theorem WFMin of the library), so  *)
(* a set that holds 0 and is closed under successor holds every natural.   *)
(***************************************************************************)
EXTENDS SequenceFilter, SequencesExt, TLAPS, SequenceTheorems, FiniteSetTheorems, WellFoundedInduction

\* A non-empty set of naturals has a least element.
LEMMA LeastNatural ==
    ASSUME NEW T, T \subseteq Nat, T # {}
    PROVE  \E x \in T : \A y \in T : x <= y
<1>1. \E x \in T : \A y \in T : <<y, x>> \notin OpToRel(<, Nat)
    BY NatLessThanWellFounded, WFMin
<1>2. \E x \in T : \A y \in T : ~(y < x)
    BY <1>1 DEF OpToRel
<1>  QED  BY <1>2

\* Induction over the naturals, for a set.
LEMMA SetInduction ==
    ASSUME NEW T, 0 \in T, \A n \in Nat : n \in T => n + 1 \in T
    PROVE  Nat \subseteq T
<1>  SUFFICES ASSUME Nat \ T # {} PROVE FALSE
    OBVIOUS
<1>1. PICK x \in Nat \ T : \A y \in Nat \ T : x <= y
    BY LeastNatural
<1>2. x - 1 \in Nat /\ x - 1 \in T
    BY <1>1
<1>  QED  BY <1>1, <1>2

-----------------------------------------------------------------------------
(* The recursive function in Filter exists.                                *)

KeptAt(kept, s, A, i) ==
    IF i = 0 THEN <<>>
    ELSE IF s[i] \in A THEN Append(kept[i - 1], s[i]) ELSE kept[i - 1]

\* The first n values of the recursion.
Keeps(kept, S, s, A, n) ==
    /\ kept \in [0..n -> Seq(S)]
    /\ \A i \in 0..n : kept[i] = KeptAt(kept, s, A, i)

\* One more value of the recursion.
LEMMA KeepsOneMore ==
    ASSUME NEW S, NEW s \in Seq(S), NEW A, NEW n \in Nat, n + 1 <= Len(s),
           NEW kept, Keeps(kept, S, s, A, n)
    PROVE  \E more : Keeps(more, S, s, A, n + 1)
<1>  DEFINE last == IF s[n + 1] \in A THEN Append(kept[n], s[n + 1]) ELSE kept[n]
            more == [i \in 0..(n + 1) |-> IF i <= n THEN kept[i] ELSE last]
<1>1. s[n + 1] \in S
    BY ElementOfSeq
<1>2. kept[n] \in Seq(S)
    BY DEF Keeps
<1>3. last \in Seq(S)
    BY <1>1, <1>2, AppendProperties
<1>4. more \in [0..(n + 1) -> Seq(S)]
  <2>  HIDE DEF last
  <2>  QED  BY <1>3 DEF Keeps
<1>5. ASSUME NEW i \in 0..(n + 1) PROVE more[i] = KeptAt(more, s, A, i)
  <2>1. CASE i <= n
    <3>1. i \in 0..n
        BY <2>1
    <3>2. more[i] = kept[i] /\ kept[i] = KeptAt(kept, s, A, i)
        BY <3>1 DEF Keeps
    <3>3. i = 0 \/ more[i - 1] = kept[i - 1]
        BY <3>1
    <3>  HIDE DEF more
    <3>  QED  BY <3>2, <3>3 DEF KeptAt
  <2>2. CASE i = n + 1
    <3>1. more[i] = last /\ more[i - 1] = kept[n] /\ i # 0
        BY <2>2
    <3>  HIDE DEF more
    <3>  QED  BY <2>2, <3>1 DEF KeptAt
  <2>  QED  BY <2>1, <2>2
<1>  QED  BY <1>4, <1>5 DEF Keeps

\* Filter is the last value of the recursion.
LEMMA FilterDefined ==
    ASSUME NEW S, NEW s \in Seq(S), NEW A
    PROVE  \E kept : Keeps(kept, S, s, A, Len(s)) /\ Filter(s, A) = kept[Len(s)]
<1>  DEFINE T == {n \in Nat : n <= Len(s) => \E kept : Keeps(kept, S, s, A, n)}
            F == CHOOSE kept : kept = [i \in 0..Len(s) |->
                     IF i = 0 THEN <<>>
                     ELSE IF s[i] \in A THEN Append(kept[i - 1], s[i]) ELSE kept[i - 1]]
<1>1. 0 \in T
  <2>  DEFINE kept == [i \in 0..0 |-> <<>>]
  <2>1. Keeps(kept, S, s, A, 0)
      BY DEF Keeps, KeptAt
  <2>  QED  BY <2>1
<1>2. \A n \in Nat : n \in T => n + 1 \in T
    BY KeepsOneMore, LenProperties
<1>3. Nat \subseteq T
  <2>  HIDE DEF T
  <2>  QED  BY <1>1, <1>2, SetInduction
<1>4. PICK kept : Keeps(kept, S, s, A, Len(s))
    BY <1>3, LenProperties
<1>5. kept = [i \in 0..Len(s) |-> KeptAt(kept, s, A, i)]
    BY <1>4 DEF Keeps
<1>6. F = [i \in 0..Len(s) |-> KeptAt(F, s, A, i)]
    BY <1>5 DEF KeptAt
<1>7. Filter(s, A) = F[Len(s)]
    BY DEF Filter
<1>8. \A n \in 0..Len(s) : F[n] = kept[n]
  <2>  HIDE DEF F
  <2>  DEFINE U == {n \in Nat : n <= Len(s) => F[n] = kept[n]}
  <2>1. 0 \in U
      BY <1>5, <1>6, LenProperties DEF KeptAt
  <2>2. ASSUME NEW n \in Nat, n \in U PROVE n + 1 \in U
    <3>  SUFFICES ASSUME n + 1 <= Len(s) PROVE F[n + 1] = kept[n + 1]
        OBVIOUS
    <3>1. n + 1 \in 0..Len(s) /\ F[n] = kept[n]
        BY <2>2, LenProperties
    <3>2. F[n + 1] = KeptAt(F, s, A, n + 1) /\ kept[n + 1] = KeptAt(kept, s, A, n + 1)
        BY <1>5, <1>6, <3>1
    <3>  QED  BY <3>1, <3>2 DEF KeptAt
  <2>3. Nat \subseteq U
    <3>  HIDE DEF U
    <3>  QED  BY <2>1, <2>2, SetInduction
  <2>  QED  BY <2>3, LenProperties
<1>  HIDE DEF F
<1>  QED  BY <1>4, <1>7, <1>8, LenProperties

-----------------------------------------------------------------------------
(* What Filter returns.                                                    *)

\* t is what is kept of the first n elements of s: e[k] is the place in s of
\* the k-th element of t.
Places(e, t, s, A, n) ==
    /\ e \in [1..Len(t) -> 1..n]
    /\ \A k \in 1..Len(t) : t[k] = s[e[k]] /\ s[e[k]] \in A
    /\ \A k, l \in 1..Len(t) : k < l => e[k] < e[l]
    /\ \A j \in 1..n : s[j] \in A => \E k \in 1..Len(t) : e[k] = j

Kept(t, s, A, n) ==
    /\ \E e : Places(e, t, s, A, n)
    /\ Len(t) <= n
    /\ (\E j \in 1..n : s[j] \notin A) => Len(t) < n

LEMMA KeptOneMore ==
    ASSUME NEW S, NEW s \in Seq(S), NEW A, NEW n \in Nat, n + 1 <= Len(s),
           NEW t \in Seq(S), Kept(t, s, A, n)
    PROVE  /\ s[n + 1] \in A => Kept(Append(t, s[n + 1]), s, A, n + 1)
           /\ s[n + 1] \notin A => Kept(t, s, A, n + 1)
<1>1. PICK e : Places(e, t, s, A, n)
    BY DEF Kept
<1>2. Len(t) \in Nat /\ Len(t) <= n
    BY LenProperties DEF Kept
<1>3. s[n + 1] \in S
    BY ElementOfSeq
<1>4. ASSUME s[n + 1] \in A PROVE Kept(Append(t, s[n + 1]), s, A, n + 1)
  <2>  DEFINE u == Append(t, s[n + 1])
              f == [k \in 1..(Len(t) + 1) |-> IF k <= Len(t) THEN e[k] ELSE n + 1]
  <2>1. /\ Len(u) = Len(t) + 1
        /\ u[Len(t) + 1] = s[n + 1]
        /\ \A k \in 1..Len(t) : u[k] = t[k]
      BY <1>3, AppendProperties, LenProperties
  <2>2. f \in [1..Len(u) -> 1..(n + 1)]
      BY <1>1, <1>2, <2>1 DEF Places
  <2>3. f[Len(t) + 1] = n + 1 /\ \A k \in 1..Len(t) : f[k] = e[k] /\ e[k] \in 1..n
      BY <1>1, <1>2 DEF Places
  <2>4. \A k \in 1..Len(u) : u[k] = s[f[k]] /\ s[f[k]] \in A
    <3>  HIDE DEF u, f
    <3>  QED  BY <1>1, <1>2, <1>4, <2>1, <2>3 DEF Places
  <2>5. ASSUME NEW k \in 1..Len(u), NEW l \in 1..Len(u), k < l PROVE f[k] < f[l]
    <3>  HIDE DEF u, f
    <3>1. k \in 1..Len(t) /\ f[k] = e[k] /\ e[k] \in 1..n
        BY <1>2, <2>1, <2>3, <2>5
    <3>2. CASE l = Len(t) + 1
      <4>1. f[l] = n + 1
          BY <2>3, <3>2
      <4>  QED  BY <3>1, <4>1
    <3>3. CASE l \in 1..Len(t)
        BY <1>1, <2>3, <2>5, <3>1, <3>3 DEF Places
    <3>  QED  BY <1>2, <2>1, <3>2, <3>3
  <2>6. ASSUME NEW j \in 1..(n + 1), s[j] \in A PROVE \E k \in 1..Len(u) : f[k] = j
    <3>  HIDE DEF u, f
    <3>1. CASE j = n + 1
        BY <1>2, <2>1, <2>3, <3>1
    <3>2. CASE j \in 1..n
      <4>1. PICK k \in 1..Len(t) : e[k] = j
          BY <1>1, <2>6, <3>2 DEF Places
      <4>2. k \in 1..Len(u) /\ f[k] = j
          BY <1>2, <2>1, <2>3, <4>1
      <4>  QED  BY <4>2
    <3>  QED  BY <3>1, <3>2
  <2>7. Places(f, u, s, A, n + 1)
      BY <2>2, <2>4, <2>5, <2>6 DEF Places
  <2>8. (\E j \in 1..(n + 1) : s[j] \notin A) => Len(t) < n
      BY <1>4 DEF Kept
  <2>  HIDE DEF u, f
  <2>9. Len(u) <= n + 1 /\ ((\E j \in 1..(n + 1) : s[j] \notin A) => Len(u) < n + 1)
      BY <1>2, <2>1, <2>8
  <2>10. Kept(u, s, A, n + 1)
      BY <2>7, <2>9 DEF Kept
  <2>  QED  BY <2>10 DEF u
<1>5. ASSUME s[n + 1] \notin A PROVE Kept(t, s, A, n + 1)
  <2>1. Places(e, t, s, A, n + 1)
      BY <1>1, <1>2, <1>5 DEF Places
  <2>2. Len(t) < n + 1
      BY <1>2
  <2>  QED  BY <1>2, <2>1, <2>2 DEF Kept
<1>  QED  BY <1>4, <1>5

\* Filter keeps the elements in the set, each at its place, and nothing else.
LEMMA FilterKept ==
    ASSUME NEW S, NEW s \in Seq(S), NEW A
    PROVE  Filter(s, A) \in Seq(S) /\ Kept(Filter(s, A), s, A, Len(s))
<1>1. PICK kept : Keeps(kept, S, s, A, Len(s)) /\ Filter(s, A) = kept[Len(s)]
    BY FilterDefined
<1>  DEFINE T == {n \in Nat : n <= Len(s) => kept[n] \in Seq(S) /\ Kept(kept[n], s, A, n)}
<1>2. 0 \in T
  <2>1. kept[0] = <<>>
      BY <1>1, LenProperties DEF Keeps, KeptAt
  <2>2. Len(<<>>) = 0 /\ <<>> \in Seq(S)
      OBVIOUS
  <2>3. [k \in 1..0 |-> k] \in [1..0 -> 1..0]
      OBVIOUS
  <2>4. PICK e : e \in [1..0 -> 1..0]
      BY <2>3
  <2>5. Places(e, <<>>, s, A, 0)
      BY <2>2, <2>4 DEF Places
  <2>6. Kept(<<>>, s, A, 0)
      BY <2>2, <2>5 DEF Kept
  <2>  QED  BY <2>1, <2>2, <2>6
<1>3. ASSUME NEW n \in Nat, n \in T PROVE n + 1 \in T
  <2>  SUFFICES ASSUME n + 1 <= Len(s) PROVE kept[n + 1] \in Seq(S) /\ Kept(kept[n + 1], s, A, n + 1)
      OBVIOUS
  <2>1. kept[n] \in Seq(S) /\ Kept(kept[n], s, A, n)
      BY <1>3, LenProperties
  <2>2. kept[n + 1] = IF s[n + 1] \in A THEN Append(kept[n], s[n + 1]) ELSE kept[n]
    <3>1. n + 1 \in 0..Len(s) /\ n + 1 # 0 /\ (n + 1) - 1 = n
        BY LenProperties
    <3>2. kept[n + 1] = KeptAt(kept, s, A, n + 1)
        BY <1>1, <3>1 DEF Keeps
    <3>  QED  BY <3>1, <3>2 DEF KeptAt
  <2>3. kept[n + 1] \in Seq(S)
      BY <1>1, LenProperties DEF Keeps
  <2>4. /\ s[n + 1] \in A => Kept(Append(kept[n], s[n + 1]), s, A, n + 1)
        /\ s[n + 1] \notin A => Kept(kept[n], s, A, n + 1)
      BY <2>1, KeptOneMore
  <2>  QED  BY <2>2, <2>3, <2>4
<1>4. Nat \subseteq T
  <2>  HIDE DEF T
  <2>  QED  BY <1>2, <1>3, SetInduction
<1>  QED  BY <1>1, <1>4, LenProperties

\* The elements of what Filter returns.
LEMMA FilterRange ==
    ASSUME NEW S, NEW s \in Seq(S), NEW A
    PROVE  ToSet(Filter(s, A)) = ToSet(s) \cap A
<1>  DEFINE t == Filter(s, A)
<1>1. t \in Seq(S)
    BY FilterKept
<1>2. PICK e : Places(e, t, s, A, Len(s))
    BY FilterKept DEF Kept
<1>3. DOMAIN t = 1..Len(t) /\ DOMAIN s = 1..Len(s)
    BY <1>1, LenProperties
<1>  HIDE DEF t
<1>4. ToSet(t) \subseteq ToSet(s) \cap A
    BY <1>2, <1>3 DEF Places, ToSet
<1>5. ToSet(s) \cap A \subseteq ToSet(t)
    BY <1>2, <1>3 DEF Places, ToSet
<1>  QED  BY <1>4, <1>5 DEF t

\* Filter returns a sequence that is no longer, and shorter if it drops anything.
LEMMA FilterLength ==
    ASSUME NEW S, NEW s \in Seq(S), NEW A
    PROVE  /\ Filter(s, A) \in Seq(S)
           /\ Len(Filter(s, A)) \in Nat
           /\ Len(Filter(s, A)) <= Len(s)
           /\ ToSet(s) \ A # {} => Len(Filter(s, A)) < Len(s)
<1>1. Filter(s, A) \in Seq(S) /\ Kept(Filter(s, A), s, A, Len(s))
    BY FilterKept
<1>2. Len(Filter(s, A)) \in Nat /\ DOMAIN s = 1..Len(s)
    BY <1>1, LenProperties
<1>3. ToSet(s) \ A # {} => \E j \in 1..Len(s) : s[j] \notin A
    BY <1>2 DEF ToSet
<1>  QED  BY <1>1, <1>2, <1>3 DEF Kept

-----------------------------------------------------------------------------
(* Appending, and dropping the first.                                      *)

LEMMA AppendRange ==
    ASSUME NEW S, NEW s \in Seq(S), NEW x \in S
    PROVE  /\ Append(s, x) \in Seq(S)
           /\ Len(Append(s, x)) = Len(s) + 1
           /\ ToSet(Append(s, x)) = ToSet(s) \cup {x}
<1>  DEFINE t == Append(s, x)
<1>1. /\ t \in Seq(S) /\ Len(t) = Len(s) + 1 /\ Len(s) \in Nat
      /\ DOMAIN t = 1..(Len(s) + 1) /\ DOMAIN s = 1..Len(s)
      /\ t[Len(s) + 1] = x /\ \A i \in 1..Len(s) : t[i] = s[i]
    BY AppendProperties, LenProperties
<1>  HIDE DEF t
<1>2. ToSet(t) = ToSet(s) \cup {x}
    BY <1>1 DEF ToSet
<1>  QED  BY <1>1, <1>2 DEF t

LEMMA TailRange ==
    ASSUME NEW S, NEW s \in Seq(S), s # <<>>
    PROVE  /\ Tail(s) \in Seq(S)
           /\ Len(Tail(s)) = Len(s) - 1
           /\ ToSet(Tail(s)) \subseteq ToSet(s)
           /\ ToSet(s) = {Head(s)} \cup ToSet(Tail(s))
<1>  DEFINE t == Tail(s)
<1>1. /\ t \in Seq(S) /\ Len(t) = Len(s) - 1 /\ Len(s) \in Nat \ {0}
      /\ DOMAIN t = 1..(Len(s) - 1) /\ DOMAIN s = 1..Len(s)
      /\ Head(s) = s[1] /\ \A i \in 1..(Len(s) - 1) : t[i] = s[i + 1]
    BY HeadTailProperties, LenProperties, EmptySeq
<1>  HIDE DEF t
<1>2. ToSet(t) \subseteq ToSet(s)
    BY <1>1 DEF ToSet
<1>3. ToSet(s) = {Head(s)} \cup ToSet(t)
  <2>1. ASSUME NEW i \in DOMAIN s PROVE s[i] = Head(s) \/ s[i] \in ToSet(t)
    <3>1. CASE i = 1
        BY <1>1, <3>1
    <3>2. CASE i # 1
      <4>1. i - 1 \in DOMAIN t /\ t[i - 1] = s[i]
          BY <1>1, <3>2
      <4>  QED  BY <4>1 DEF ToSet
    <3>  QED  BY <3>1, <3>2
  <2>2. Head(s) \in ToSet(s)
      BY <1>1 DEF ToSet
  <2>  QED  BY <1>2, <2>1, <2>2 DEF ToSet
<1>  QED  BY <1>1, <1>2, <1>3 DEF t

\* No element occurs twice.
Distinct(s) == \A i, j \in 1..Len(s) : s[i] = s[j] => i = j

LEMMA AppendDistinct ==
    ASSUME NEW S, NEW s \in Seq(S), Distinct(s), NEW x \in S, x \notin ToSet(s)
    PROVE  Distinct(Append(s, x))
<1>  DEFINE t == Append(s, x)
<1>1. /\ Len(t) = Len(s) + 1 /\ Len(s) \in Nat /\ DOMAIN s = 1..Len(s)
      /\ t[Len(s) + 1] = x /\ \A i \in 1..Len(s) : t[i] = s[i]
    BY AppendProperties, LenProperties
<1>2. \A i \in 1..Len(s) : s[i] # x
    BY <1>1 DEF ToSet
<1>  HIDE DEF t
<1>3. Distinct(t)
    BY <1>1, <1>2 DEF Distinct
<1>  QED  BY <1>3 DEF t

\* A sequence cut in two.
LEMMA Cut ==
    ASSUME NEW S, NEW s \in Seq(S), NEW n \in 0..Len(s)
    PROVE  LET a == SubSeq(s, 1, n)
               b == SubSeq(s, n + 1, Len(s))
           IN  /\ a \in Seq(S) /\ b \in Seq(S) /\ Len(a) = n /\ Len(b) = Len(s) - n
               /\ ToSet(s) = ToSet(a) \cup ToSet(b)
               /\ Distinct(s) => ToSet(a) \cap ToSet(b) = {} /\ Distinct(b)
               /\ n > 0 => Head(a) \in ToSet(a)
<1>  DEFINE a == SubSeq(s, 1, n)
            b == SubSeq(s, n + 1, Len(s))
<1>1. Len(s) \in Nat /\ DOMAIN s = 1..Len(s) /\ \A i \in 1..Len(s) : s[i] \in S
    BY LenProperties, ElementOfSeq
<1>2. /\ a \in Seq(S) /\ Len(a) = n /\ DOMAIN a = 1..n
      /\ \A i \in 1..n : a[i] = s[i]
    BY <1>1, SubSeqProperties, LenProperties
<1>3. /\ b \in Seq(S) /\ Len(b) = Len(s) - n /\ DOMAIN b = 1..(Len(s) - n)
      /\ \A i \in 1..(Len(s) - n) : b[i] = s[n + i]
  <2>1. n + 1 \in Int /\ Len(s) \in Int /\ \A i \in (n + 1)..Len(s) : s[i] \in S
      BY <1>1
  <2>2. /\ b \in Seq(S)
        /\ Len(b) = (IF n + 1 <= Len(s) THEN Len(s) - (n + 1) + 1 ELSE 0)
        /\ \A i \in 1..(Len(s) - (n + 1) + 1) : b[i] = s[n + 1 + i - 1]
      BY <1>1, <2>1, SubSeqProperties
  <2>  HIDE DEF b
  <2>3. Len(b) = Len(s) - n
    <3>1. CASE n + 1 <= Len(s)
      <4>1. Len(b) = Len(s) - (n + 1) + 1
          BY <2>2, <3>1
      <4>2. Len(s) - (n + 1) + 1 = Len(s) - n
          BY <1>1
      <4>  QED  BY <4>1, <4>2
    <3>2. CASE ~(n + 1 <= Len(s))
      <4>1. Len(b) = 0
          BY <2>2, <3>2
      <4>2. n \in Nat /\ n <= Len(s) /\ Len(s) \in Nat
          BY <1>1
      <4>3. n = Len(s)
          BY <3>2, <4>2
      <4>  QED  BY <4>1, <4>2, <4>3
    <3>  QED  BY <3>1, <3>2
  <2>4. DOMAIN b = 1..Len(b)
      BY <2>2, LenProperties
  <2>5. \A i \in 1..(Len(s) - n) : n + 1 + i - 1 = n + i /\ i \in 1..(Len(s) - (n + 1) + 1)
      BY <1>1
  <2>  QED  BY <2>2, <2>3, <2>4, <2>5
<1>  HIDE DEF a, b
<1>4. ToSet(a) \subseteq ToSet(s) /\ ToSet(b) \subseteq ToSet(s)
  <2>1. \A i \in 1..n : i \in 1..Len(s)
      BY <1>1
  <2>2. \A i \in 1..(Len(s) - n) : n + i \in 1..Len(s)
      BY <1>1
  <2>3. ToSet(a) \subseteq ToSet(s)
      BY <1>1, <1>2, <2>1 DEF ToSet
  <2>4. ToSet(b) \subseteq ToSet(s)
      BY <1>1, <1>3, <2>2 DEF ToSet
  <2>  QED  BY <2>3, <2>4
<1>5. ASSUME NEW i \in 1..Len(s) PROVE s[i] \in ToSet(a) \cup ToSet(b)
  <2>1. CASE i <= n
      BY <1>2, <2>1 DEF ToSet
  <2>2. CASE i > n
    <3>1. i - n \in DOMAIN b /\ b[i - n] = s[i]
        BY <1>1, <1>3, <2>2
    <3>  QED  BY <3>1 DEF ToSet
  <2>  QED  BY <1>1, <2>1, <2>2
<1>6. ToSet(s) = ToSet(a) \cup ToSet(b)
    BY <1>1, <1>4, <1>5 DEF ToSet
<1>7. ASSUME Distinct(s) PROVE ToSet(a) \cap ToSet(b) = {} /\ Distinct(b)
  <2>1. ASSUME NEW i \in 1..n, NEW j \in 1..(Len(s) - n) PROVE a[i] # b[j]
    <3>1. a[i] = s[i] /\ b[j] = s[n + j] /\ i \in 1..Len(s) /\ n + j \in 1..Len(s) /\ i # n + j
        BY <1>1, <1>2, <1>3
    <3>  QED  BY <1>7, <3>1 DEF Distinct
  <2>2. ASSUME NEW i \in 1..Len(b), NEW j \in 1..Len(b), b[i] = b[j] PROVE i = j
    <3>1. b[i] = s[n + i] /\ b[j] = s[n + j] /\ n + i \in 1..Len(s) /\ n + j \in 1..Len(s)
        BY <1>1, <1>3
    <3>2. n + i = n + j
        BY <1>7, <2>2, <3>1 DEF Distinct
    <3>  QED  BY <1>3, <3>2
  <2>  QED  BY <1>2, <1>3, <2>1, <2>2 DEF ToSet, Distinct
<1>8. n > 0 => Head(a) \in ToSet(a)
  <2>1. n > 0 => a # <<>> /\ Head(a) = a[1] /\ 1 \in DOMAIN a
      BY <1>2, EmptySeq, HeadTailProperties
  <2>  QED  BY <2>1 DEF ToSet
<1>  QED  BY <1>2, <1>3, <1>6, <1>7, <1>8 DEF a, b

-----------------------------------------------------------------------------
(* Sequences without repeats.                                              *)

\* Filter keeps a sequence without repeats free of them.
LEMMA FilterDistinct ==
    ASSUME NEW S, NEW s \in Seq(S), NEW A, Distinct(s)
    PROVE  Distinct(Filter(s, A))
<1>  DEFINE t == Filter(s, A)
<1>1. t \in Seq(S) /\ Len(t) \in Nat
    BY FilterLength
<1>2. PICK e : Places(e, t, s, A, Len(s))
    BY FilterKept DEF Kept
<1>  HIDE DEF t
<1>3. ASSUME NEW i \in 1..Len(t), NEW j \in 1..Len(t), t[i] = t[j], i < j PROVE FALSE
  <2>1. e[i] \in 1..Len(s) /\ e[j] \in 1..Len(s) /\ s[e[i]] = s[e[j]] /\ e[i] < e[j]
      BY <1>2, <1>3 DEF Places
  <2>2. e[i] = e[j]
      BY <2>1 DEF Distinct
  <2>  QED  BY <2>1, <2>2
<1>4. ASSUME NEW i \in 1..Len(t), NEW j \in 1..Len(t), t[i] = t[j] PROVE i = j
  <2>1. i \in Int /\ j \in Int
      OBVIOUS
  <2>2. ~(i < j)
      BY <1>3, <1>4
  <2>3. ~(j < i)
      BY <1>3, <1>4
  <2>  QED  BY <2>1, <2>2, <2>3
<1>5. Distinct(t)
    BY <1>4 DEF Distinct
<1>  QED  BY <1>5 DEF t

\* One sequence after another.
LEMMA ConcatRange ==
    ASSUME NEW S, NEW s \in Seq(S), NEW t \in Seq(S)
    PROVE  /\ s \o t \in Seq(S)
           /\ Len(s \o t) = Len(s) + Len(t)
           /\ ToSet(s \o t) = ToSet(s) \cup ToSet(t)
           /\ Distinct(s) /\ Distinct(t) /\ ToSet(s) \cap ToSet(t) = {} => Distinct(s \o t)
<1>  DEFINE u == s \o t
<1>1. /\ u \in Seq(S) /\ Len(u) = Len(s) + Len(t)
      /\ \A i \in 1..(Len(s) + Len(t)) : u[i] = IF i <= Len(s) THEN s[i] ELSE t[i - Len(s)]
    BY ConcatProperties
<1>2. Len(s) \in Nat /\ Len(t) \in Nat /\ DOMAIN s = 1..Len(s) /\ DOMAIN t = 1..Len(t) /\ DOMAIN u = 1..Len(u)
    BY <1>1, LenProperties
<1>  HIDE DEF u
<1>3. \A i \in 1..Len(s) : i \in 1..Len(u) /\ u[i] = s[i]
    BY <1>1, <1>2
<1>4. \A i \in 1..Len(t) : Len(s) + i \in 1..Len(u) /\ u[Len(s) + i] = t[i]
  <2>  TAKE i \in 1..Len(t)
  <2>1. Len(s) + i \in 1..(Len(s) + Len(t)) /\ ~(Len(s) + i <= Len(s)) /\ (Len(s) + i) - Len(s) = i
      BY <1>2
  <2>  QED  BY <1>1, <2>1
<1>5. \A i \in 1..Len(u) : i \in 1..Len(s) \/ (i - Len(s) \in 1..Len(t) /\ i > Len(s) /\ u[i] = t[i - Len(s)])
    BY <1>1, <1>2
<1>6. ToSet(u) = ToSet(s) \cup ToSet(t)
  <2>1. ToSet(s) \subseteq ToSet(u)
      BY <1>2, <1>3 DEF ToSet
  <2>2. ToSet(t) \subseteq ToSet(u)
      BY <1>2, <1>4 DEF ToSet
  <2>3. ToSet(u) \subseteq ToSet(s) \cup ToSet(t)
      BY <1>2, <1>3, <1>5 DEF ToSet
  <2>  QED  BY <2>1, <2>2, <2>3
<1>7. ASSUME Distinct(s), Distinct(t), ToSet(s) \cap ToSet(t) = {} PROVE Distinct(u)
  <2>1. \A i \in 1..Len(s), j \in 1..Len(t) : s[i] # t[j]
      BY <1>2, <1>7 DEF ToSet
  <2>2. ASSUME NEW i \in 1..Len(u), NEW j \in 1..Len(u), u[i] = u[j] PROVE i = j
    <3>1. CASE i \in 1..Len(s) /\ j \in 1..Len(s)
        BY <1>3, <1>7, <2>2, <3>1 DEF Distinct
    <3>2. CASE i \in 1..Len(s) /\ j \notin 1..Len(s)
        BY <1>3, <1>5, <2>1, <2>2, <3>2
    <3>3. CASE i \notin 1..Len(s) /\ j \in 1..Len(s)
        BY <1>3, <1>5, <2>1, <2>2, <3>3
    <3>4. CASE i \notin 1..Len(s) /\ j \notin 1..Len(s)
      <4>1. /\ i - Len(s) \in 1..Len(t) /\ j - Len(s) \in 1..Len(t)
            /\ u[i] = t[i - Len(s)] /\ u[j] = t[j - Len(s)]
          BY <1>5, <3>4
      <4>2. i - Len(s) = j - Len(s)
          BY <1>7, <2>2, <4>1 DEF Distinct
      <4>  QED  BY <1>2, <4>2
    <3>  QED  BY <3>1, <3>2, <3>3, <3>4
  <2>  QED  BY <2>2 DEF Distinct
<1>  QED  BY <1>1, <1>6, <1>7 DEF u

\* A sequence without repeats is as long as the set of its elements.
LEMMA DistinctCardinality ==
    ASSUME NEW S, NEW s \in Seq(S)
    PROVE  /\ IsFiniteSet(ToSet(s))
           /\ Distinct(s) => Cardinality(ToSet(s)) = Len(s)
<1>1. Len(s) \in Nat /\ DOMAIN s = 1..Len(s)
    BY LenProperties
<1>2. IsFiniteSet(1..Len(s)) /\ Cardinality(1..Len(s)) = Len(s)
    BY <1>1, FS_Interval
<1>  DEFINE f == [i \in 1..Len(s) |-> s[i]]
<1>3. f \in Surjection(1..Len(s), ToSet(s))
  <2>1. f \in [1..Len(s) -> ToSet(s)]
      BY <1>1 DEF ToSet
  <2>2. \A y \in ToSet(s) : \E i \in 1..Len(s) : f[i] = y
      BY <1>1 DEF ToSet
  <2>  QED  BY <2>1, <2>2 DEF Surjection
<1>4. IsFiniteSet(ToSet(s))
    BY <1>2, <1>3, FS_Surjection
<1>5. Distinct(s) => f \in Injection(1..Len(s), ToSet(s))
    BY <1>3 DEF Distinct, Injection, IsInjective, Surjection
<1>6. Cardinality(ToSet(s)) = Cardinality(1..Len(s)) <=> f \in Injection(1..Len(s), ToSet(s))
  <2>  HIDE DEF f
  <2>  QED  BY <1>2, <1>3, FS_Surjection
<1>  QED  BY <1>2, <1>4, <1>5, <1>6

\* SetToSeq lists a finite set, each element once.
LEMMA SetToSeqFacts ==
    ASSUME NEW S, IsFiniteSet(S)
    PROVE  /\ SetToSeq(S) \in Seq(S)
           /\ Len(SetToSeq(S)) = Cardinality(S)
           /\ ToSet(SetToSeq(S)) = S
           /\ Distinct(SetToSeq(S))
<1>  DEFINE n == Cardinality(S)
            t == SetToSeq(S)
<1>1. n \in Nat /\ ExistsBijection(1..n, S)
    BY FS_CardinalityType
<1>2. PICK f : f \in Bijection(1..n, S)
    BY <1>1 DEF ExistsBijection
<1>3. f \in [1..n -> S] /\ IsInjective(f)
    BY <1>2 DEF Bijection, Injection, IsInjective
<1>4. t \in [1..n -> S] /\ IsInjective(t)
    BY <1>3 DEF SetToSeq
<1>  HIDE DEF t
<1>5. t \in Injection(1..n, S)
    BY <1>4 DEF Injection, IsInjective
<1>6. IsFiniteSet(1..n) /\ Cardinality(1..n) = n
    BY <1>1, FS_Interval
<1>7. t \in Surjection(1..n, S)
    BY <1>5, <1>6, FS_Injection
<1>8. DOMAIN t = 1..n /\ t \in Seq(S) /\ Len(t) = n
  <2>  HIDE DEF n
  <2>1. t \in Seq(S)
      BY <1>1, <1>4, SeqDef
  <2>2. DOMAIN t = 1..n
      BY <1>4
  <2>  QED  BY <1>1, <2>1, <2>2, LenProperties
<1>9. ToSet(t) = S
  <2>1. \A y \in S : \E i \in 1..n : t[i] = y
      BY <1>7 DEF Surjection
  <2>  HIDE DEF n
  <2>  QED  BY <1>4, <1>8, <2>1 DEF ToSet
<1>10. Distinct(t)
  <2>  HIDE DEF n
  <2>  QED  BY <1>4, <1>8 DEF Distinct, IsInjective
<1>  QED  BY <1>8, <1>9, <1>10 DEF t

-----------------------------------------------------------------------------
(* Sequences of sequences, laid end to end.                                *)

\* A function defined by recursion over 1..n exists: G gives its next value
\* from the one before and the place.
Steps(V, n) == [V \X (1..n) -> V]
Unfolds(f, V, v0, G, n) ==
    /\ f \in [1..n -> V]
    /\ \A i \in 1..n : f[i] = IF i = 1 THEN v0 ELSE G[<<f[i - 1], i>>]

LEMMA RecursionExists ==
    ASSUME NEW V, NEW v0 \in V, NEW n \in Nat, NEW G \in Steps(V, n)
    PROVE  \E f : Unfolds(f, V, v0, G, n)
<1>0. G \in [V \X (1..n) -> V]
    BY DEF Steps
<1>  DEFINE Good(f, m) == f \in [1..m -> V] /\ \A i \in 1..m : f[i] = IF i = 1 THEN v0 ELSE G[<<f[i - 1], i>>]
            T == {m \in Nat : m <= n => \E f : Good(f, m)}
<1>1. 0 \in T
  <2>1. Good([i \in 1..0 |-> v0], 0)
      OBVIOUS
  <2>  QED  BY <2>1
<1>2. ASSUME NEW m \in Nat, m \in T PROVE m + 1 \in T
  <2>  SUFFICES ASSUME m + 1 <= n PROVE \E f : Good(f, m + 1)
      OBVIOUS
  <2>1. PICK f : Good(f, m)
      BY <1>2
  <2>  DEFINE last == IF m = 0 THEN v0 ELSE G[<<f[m], m + 1>>]
              g == [i \in 1..(m + 1) |-> IF i <= m THEN f[i] ELSE last]
  <2>2. last \in V
    <3>1. CASE m = 0
        BY <3>1
    <3>2. CASE m # 0
      <4>1. f[m] \in V /\ m + 1 \in 1..n
          BY <2>1, <3>2
      <4>2. <<f[m], m + 1>> \in V \X (1..n)
          BY <4>1
      <4>3. G[<<f[m], m + 1>>] \in V
          BY <1>0, <4>2
      <4>  QED  BY <3>2, <4>3
    <3>  QED  BY <3>1, <3>2
  <2>3. g \in [1..(m + 1) -> V]
    <3>  HIDE DEF last
    <3>  QED  BY <2>1, <2>2
  <2>4. ASSUME NEW i \in 1..(m + 1) PROVE g[i] = IF i = 1 THEN v0 ELSE G[<<g[i - 1], i>>]
    <3>1. CASE i <= m
      <4>1. i \in 1..m /\ g[i] = f[i]
          BY <3>1
      <4>2. i = 1 \/ g[i - 1] = f[i - 1]
          BY <3>1
      <4>3. f[i] = IF i = 1 THEN v0 ELSE G[<<f[i - 1], i>>]
          BY <2>1, <4>1
      <4>  HIDE DEF g
      <4>  QED  BY <4>1, <4>2, <4>3
    <3>2. CASE i = m + 1
      <4>1. g[i] = last
          BY <3>2
      <4>2. m = 0 \/ g[i - 1] = f[m]
          BY <3>2
      <4>3. (i = 1) <=> (m = 0)
          BY <3>2
      <4>  HIDE DEF g
      <4>  QED  BY <3>2, <4>1, <4>2, <4>3
    <3>  QED  BY <3>1, <3>2
  <2>5. Good(g, m + 1)
    <3>  HIDE DEF g
    <3>  QED  BY <2>3, <2>4
  <2>  HIDE DEF Good
  <2>  QED  BY <2>5
<1>3. Nat \subseteq T
  <2>  HIDE DEF T
  <2>  QED  BY <1>1, <1>2, SetInduction
<1>4. PICK f : Good(f, n)
    BY <1>3
<1>  QED  BY <1>4 DEF Unfolds

\* offs[i] is where the i-th sequence begins when all are laid end to end.
Offsets(offs, ss) ==
    /\ offs \in [1..Len(ss) -> Nat]
    /\ \A j \in 1..Len(ss) : offs[j] = IF j = 1 THEN 0 ELSE offs[j - 1] + Len(ss[j - 1])

\* t holds the first n sequences of ss, each at its offset.
Laid(t, offs, ss, n) ==
    /\ Len(t) = offs[n] + Len(ss[n])
    /\ \A j \in 1..n : \A m \in 1..Len(ss[j]) : offs[j] + m \in 1..Len(t) /\ t[offs[j] + m] = ss[j][m]

LEMMA LaidOneMore ==
    ASSUME NEW S, NEW ss \in Seq(Seq(S)), NEW offs, Offsets(offs, ss), NEW n \in Nat, n # 0, n + 1 <= Len(ss),
           NEW t \in Seq(S), Laid(t, offs, ss, n)
    PROVE  t \o ss[n + 1] \in Seq(S) /\ Laid(t \o ss[n + 1], offs, ss, n + 1)
<1>  DEFINE u == t \o ss[n + 1]
<1>1. /\ Len(ss) \in Nat /\ ss[n + 1] \in Seq(S) /\ ss[n] \in Seq(S)
      /\ \A j \in 1..n : ss[j] \in Seq(S)
    BY LenProperties, ElementOfSeq
<1>2. /\ Len(t) \in Nat /\ Len(ss[n + 1]) \in Nat /\ Len(ss[n]) \in Nat
      /\ \A j \in 1..n : Len(ss[j]) \in Nat
    BY <1>1, LenProperties
<1>3. /\ u \in Seq(S) /\ Len(u) = Len(t) + Len(ss[n + 1])
      /\ \A i \in 1..(Len(t) + Len(ss[n + 1])) : u[i] = IF i <= Len(t) THEN t[i] ELSE ss[n + 1][i - Len(t)]
    BY <1>1, ConcatProperties
<1>  HIDE DEF u
<1>4. offs[n] \in Nat /\ offs[n + 1] = offs[n] + Len(ss[n])
  <2>1. n \in 1..Len(ss) /\ n + 1 \in 1..Len(ss) /\ n + 1 # 1 /\ (n + 1) - 1 = n
      BY <1>1
  <2>  QED  BY <2>1 DEF Offsets
<1>5. offs[n + 1] = Len(t)
    BY <1>4 DEF Laid
<1>6. ASSUME NEW j \in 1..(n + 1), NEW m \in 1..Len(ss[j])
      PROVE  offs[j] + m \in 1..Len(u) /\ u[offs[j] + m] = ss[j][m]
  <2>1. CASE j = n + 1
    <3>1. m \in Nat /\ 1 <= m /\ m <= Len(ss[n + 1])
        BY <1>2, <2>1
    <3>2. offs[j] + m = Len(t) + m
        BY <1>5, <2>1
    <3>3. Len(t) + m \in 1..(Len(t) + Len(ss[n + 1])) /\ ~(Len(t) + m <= Len(t)) /\ (Len(t) + m) - Len(t) = m
        BY <1>2, <3>1
    <3>4. u[Len(t) + m] = ss[n + 1][m]
        BY <1>3, <3>3
    <3>  QED  BY <1>3, <2>1, <3>2, <3>3, <3>4
  <2>2. CASE j \in 1..n
    <3>1. offs[j] + m \in 1..Len(t) /\ t[offs[j] + m] = ss[j][m]
        BY <2>2 DEF Laid
    <3>2. offs[j] + m \in 1..(Len(t) + Len(ss[n + 1])) /\ offs[j] + m <= Len(t)
        BY <1>2, <3>1
    <3>3. u[offs[j] + m] = t[offs[j] + m]
        BY <1>3, <3>2
    <3>  QED  BY <1>3, <3>1, <3>2, <3>3
  <2>  QED  BY <2>1, <2>2
<1>7. Laid(u, offs, ss, n + 1)
    BY <1>3, <1>5, <1>6 DEF Laid
<1>  QED  BY <1>3, <1>7 DEF u

\* What FlattenSeq returns: every sequence at its offset.
LEMMA FlattenLaid ==
    ASSUME NEW S, NEW ss \in Seq(Seq(S)), ss # <<>>, NEW offs, Offsets(offs, ss)
    PROVE  FlattenSeq(ss) \in Seq(S) /\ Laid(FlattenSeq(ss), offs, ss, Len(ss))
<1>  DEFINE N == Len(ss)
            F == CHOOSE f : f = [i \in 1..Len(ss) |-> IF i = 1 THEN ss[i] ELSE f[i - 1] \o ss[i]]
            G == [p \in Seq(S) \X (1..N) |-> p[1] \o ss[p[2]]]
<1>1. N \in Nat /\ N # 0 /\ \A i \in 1..N : ss[i] \in Seq(S)
    BY LenProperties, ElementOfSeq, EmptySeq
<1>2. G \in [Seq(S) \X (1..N) -> Seq(S)]
    BY <1>1, ConcatProperties
<1>3. ss[1] \in Seq(S)
    BY <1>1
<1>4. PICK f \in [1..N -> Seq(S)] : \A i \in 1..N : f[i] = IF i = 1 THEN ss[1] ELSE G[<<f[i - 1], i>>]
  <2>  DEFINE V == Seq(S)
              v0 == ss[1]
  <2>1. N \in Nat /\ v0 \in V /\ G \in Steps(V, N)
      BY <1>1, <1>2, <1>3 DEF Steps
  <2>  HIDE DEF G, N, V, v0
  <2>2. PICK f : Unfolds(f, V, v0, G, N)
      BY <2>1, RecursionExists
  <2>  QED  BY <2>2 DEF Unfolds, V, v0
<1>5. f = [i \in 1..Len(ss) |-> IF i = 1 THEN ss[i] ELSE f[i - 1] \o ss[i]]
  <2>1. ASSUME NEW i \in 1..N, i # 1 PROVE G[<<f[i - 1], i>>] = f[i - 1] \o ss[i]
    <3>1. i - 1 \in 1..N
        BY <1>1, <2>1
    <3>2. f[i - 1] \in Seq(S)
        BY <3>1
    <3>3. <<f[i - 1], i>> \in Seq(S) \X (1..N)
        BY <3>2
    <3>  QED  BY <3>3
  <2>2. \A i \in 1..N : f[i] = IF i = 1 THEN ss[i] ELSE f[i - 1] \o ss[i]
      BY <1>4, <2>1
  <2>  HIDE DEF G
  <2>  QED  BY <2>2
<1>6. F = [i \in 1..Len(ss) |-> IF i = 1 THEN ss[i] ELSE F[i - 1] \o ss[i]]
    BY <1>5
<1>7. FlattenSeq(ss) = F[N]
    BY <1>1 DEF FlattenSeq
<1>  HIDE DEF F, G
<1>  DEFINE T == {i \in Nat : i \in 1..N => F[i] \in Seq(S) /\ Laid(F[i], offs, ss, i)}
<1>8. 0 \in T
    OBVIOUS
<1>9. ASSUME NEW n \in Nat, n \in T PROVE n + 1 \in T
  <2>  SUFFICES ASSUME n + 1 \in 1..N PROVE F[n + 1] \in Seq(S) /\ Laid(F[n + 1], offs, ss, n + 1)
      OBVIOUS
  <2>1. CASE n = 0
    <3>1. F[1] = ss[1] /\ 1 \in 1..N
        BY <1>1, <1>6
    <3>2. offs[1] = 0
        BY <3>1 DEF Offsets
    <3>3. Len(ss[1]) \in Nat
        BY <1>3, LenProperties
    <3>4. Laid(ss[1], offs, ss, 1)
        BY <3>2, <3>3 DEF Laid
    <3>  QED  BY <1>3, <2>1, <3>1, <3>4
  <2>2. CASE n # 0
    <3>1. n \in 1..N /\ n + 1 <= Len(ss) /\ n + 1 # 1 /\ (n + 1) - 1 = n
        BY <1>1, <2>2
    <3>2. F[n] \in Seq(S) /\ Laid(F[n], offs, ss, n)
        BY <1>9, <3>1
    <3>3. F[n + 1] = F[n] \o ss[n + 1]
        BY <1>6, <3>1
    <3>4. F[n] \o ss[n + 1] \in Seq(S) /\ Laid(F[n] \o ss[n + 1], offs, ss, n + 1)
        BY <2>2, <3>1, <3>2, LaidOneMore
    <3>  QED  BY <3>3, <3>4
  <2>  QED  BY <2>1, <2>2
<1>10. Nat \subseteq T
  <2>  HIDE DEF T
  <2>  QED  BY <1>8, <1>9, SetInduction
<1>11. N \in 1..N
    BY <1>1
<1>  QED  BY <1>7, <1>10, <1>11

\* Cutting the flattened sequence at an offset gives back the sequence there.
LEMMA FlattenSlice ==
    ASSUME NEW S, NEW ss \in Seq(Seq(S)), NEW offs, Offsets(offs, ss), NEW i \in 1..Len(ss)
    PROVE  SubSeq(FlattenSeq(ss), offs[i] + 1, offs[i] + Len(ss[i])) = ss[i]
<1>  DEFINE t == FlattenSeq(ss)
            a == offs[i]
            l == Len(ss[i])
            b == SubSeq(t, a + 1, a + l)
<1>1. ss # <<>> /\ Len(ss) \in Nat /\ ss[i] \in Seq(S)
    BY LenProperties, ElementOfSeq, EmptySeq
<1>2. t \in Seq(S) /\ Laid(t, offs, ss, Len(ss))
    BY <1>1, FlattenLaid
<1>3. a \in Nat /\ l \in Nat
    BY <1>1, LenProperties DEF Offsets
<1>4. \A m \in 1..l : a + m \in 1..Len(t) /\ t[a + m] = ss[i][m]
    BY <1>2 DEF Laid
<1>5. \A m \in 1..l : t[a + m] \in S
    BY <1>2, <1>4, ElementOfSeq
<1>  HIDE DEF t, a, l
<1>6. \A j \in (a + 1)..(a + l) : t[j] \in S
  <2>  SUFFICES ASSUME NEW j \in (a + 1)..(a + l) PROVE t[j] \in S
      OBVIOUS
  <2>1. j - a \in 1..l /\ a + (j - a) = j
      BY <1>3
  <2>  QED  BY <1>5, <2>1
<1>7. a + 1 \in Int /\ a + l \in Int
    BY <1>3
<1>8. /\ b \in Seq(S)
      /\ Len(b) = (IF a + 1 <= a + l THEN (a + l) - (a + 1) + 1 ELSE 0)
      /\ \A j \in 1..((a + l) - (a + 1) + 1) : b[j] = t[(a + 1) + j - 1]
    BY <1>6, <1>7, SubSeqProperties
<1>  HIDE DEF b
<1>9. (a + l) - (a + 1) + 1 = l /\ Len(b) = l
  <2>1. (a + l) - (a + 1) + 1 = l
      BY <1>3
  <2>2. CASE a + 1 <= a + l
      BY <1>8, <2>1, <2>2
  <2>3. CASE ~(a + 1 <= a + l)
    <3>1. l = 0
        BY <1>3, <2>3
    <3>  QED  BY <1>8, <2>1, <2>3, <3>1
  <2>  QED  BY <2>2, <2>3
<1>10. ASSUME NEW j \in 1..l PROVE b[j] = ss[i][j]
  <2>1. (a + 1) + j - 1 = a + j /\ j \in 1..((a + l) - (a + 1) + 1)
      BY <1>3, <1>9
  <2>  QED  BY <1>4, <1>8, <2>1
<1>11. b = ss[i]
    BY <1>1, <1>8, <1>9, <1>10, SeqEqual DEF l
<1>  QED  BY <1>11 DEF t, a, l, b
=============================================================================
