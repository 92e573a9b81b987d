------------------------- MODULE TextBatchingProofs -------------------------
(***************************************************************************)
(* Proofs for module TextBatching and the books of PagedKV under it, for   *)
(* every set of requests and prompts, every page size and every limit: the *)
(* books add up, what is decoded is reserved, a cache at rest fits its     *)
(* limit, and nobody who waits is forgotten.                               *)
(***************************************************************************)
EXTENDS TextBatching, SequenceFacts

-----------------------------------------------------------------------------
(* Sums over finite sets: the recursion in SumFunctionOnSet has a solution *)
(* and the sum does not depend on the order in which elements are taken.   *)

\* The element a fold takes next, and one step of the sum's recursion.
OneOf(s) == CHOOSE x \in s : TRUE
SumStep(g, f, s) == IF s = {} THEN 0 ELSE f[OneOf(s)] + g[s \ {OneOf(s)}]

\* g solves the recursion on the subsets of U.
Solves(g, f, U) == \A s \in SUBSET U : g[s] = SumStep(g, f, s)
Sums(g, f, U)   == g \in [SUBSET U -> Nat] /\ Solves(g, f, U)

Weighted(f, U) == IsFiniteSet(U) /\ \A x \in U : f[x] \in Nat

LEMMA OneOfInside == ASSUME NEW s, s # {} PROVE OneOf(s) \in s
BY DEF OneOf

LEMMA RemoveOne ==
    ASSUME NEW s, IsFiniteSet(s), NEW x \in s, NEW n \in Nat, Cardinality(s) = n + 1
    PROVE  Cardinality(s \ {x}) = n
<1>1. Cardinality(s \ {x}) = Cardinality(s) - 1
    BY FS_RemoveElement
<1>  QED  BY <1>1

LEMMA SumsExist ==
    ASSUME NEW U, NEW f, Weighted(f, U)
    PROVE  \E g : Sums(g, f, U)
<1>0. IsFiniteSet(U) /\ \A x \in U : f[x] \in Nat
    BY DEF Weighted
<1>1. ASSUME NEW s \in SUBSET U
      PROVE  /\ IsFiniteSet(s) /\ Cardinality(s) \in Nat /\ (Cardinality(s) = 0 <=> s = {})
             /\ s # {} => /\ OneOf(s) \in s /\ s \ {OneOf(s)} \in SUBSET U
                          /\ f[OneOf(s)] \in Nat /\ Cardinality(s \ {OneOf(s)}) = Cardinality(s) - 1
  <2>1. IsFiniteSet(s)
      BY <1>0, FS_Subset
  <2>2. Cardinality(s) \in Nat /\ (Cardinality(s) = 0 <=> s = {})
      BY <2>1, FS_CardinalityType, FS_EmptySet
  <2>3. s # {} => OneOf(s) \in s
      BY OneOfInside
  <2>4. s # {} => Cardinality(s \ {OneOf(s)}) = Cardinality(s) - 1
      BY <2>1, <2>3, FS_RemoveElement
  <2>  QED  BY <1>0, <2>1, <2>2, <2>3, <2>4
<1>  DEFINE Good(g, n) == /\ g \in [SUBSET U -> Nat]
                          /\ \A s \in SUBSET U : Cardinality(s) <= n => g[s] = SumStep(g, f, s)
            T == {n \in Nat : \E g : Good(g, n)}
<1>2. 0 \in T
  <2>  DEFINE g == [s \in SUBSET U |-> 0]
  <2>1. g \in [SUBSET U -> Nat]
      OBVIOUS
  <2>2. ASSUME NEW s \in SUBSET U, Cardinality(s) <= 0 PROVE g[s] = SumStep(g, f, s)
    <3>0. Cardinality(s) \in Nat /\ (Cardinality(s) = 0 <=> s = {})
        BY <1>1
    <3>1. s = {}
        BY <2>2, <3>0
    <3>  QED  BY <3>1 DEF SumStep
  <2>3. Good(g, 0)
      BY <2>1, <2>2
  <2>  HIDE DEF Good
  <2>  QED  BY <2>3
<1>3. ASSUME NEW n \in Nat, n \in T PROVE n + 1 \in T
  <2>1. PICK g : Good(g, n)
      BY <1>3
  <2>  DEFINE h == [s \in SUBSET U |-> IF Cardinality(s) <= n THEN g[s] ELSE SumStep(g, f, s)]
  <2>2. ASSUME NEW s \in SUBSET U, s # {} PROVE SumStep(g, f, s) \in Nat
    <3>1. f[OneOf(s)] \in Nat /\ s \ {OneOf(s)} \in SUBSET U
        BY <1>1, <2>2
    <3>2. g[s \ {OneOf(s)}] \in Nat
        BY <2>1, <3>1
    <3>  QED  BY <2>2, <3>1, <3>2 DEF SumStep
  <2>3. ASSUME NEW s \in SUBSET U PROVE h[s] \in Nat
    <3>1. g[s] \in Nat
        BY <2>1
    <3>0. Cardinality(s) \in Nat /\ (Cardinality(s) = 0 <=> s = {})
        BY <1>1
    <3>2. ~(Cardinality(s) <= n) => s # {}
        BY <3>0
    <3>3. ~(Cardinality(s) <= n) => SumStep(g, f, s) \in Nat
        BY <2>2, <3>2
    <3>  QED  BY <3>1, <3>3
  <2>4. h \in [SUBSET U -> Nat]
      BY <2>3
  <2>5. ASSUME NEW s \in SUBSET U, Cardinality(s) <= n PROVE h[s] = g[s]
      BY <2>5
  <2>6. ASSUME NEW s \in SUBSET U, Cardinality(s) <= n + 1 PROVE h[s] = SumStep(h, f, s)
    <3>1. h[s] = SumStep(g, f, s)
      <4>1. Cardinality(s) <= n => g[s] = SumStep(g, f, s)
          BY <2>1
      <4>  QED  BY <4>1
    <3>  HIDE DEF h
    <3>2. CASE s = {}
        BY <3>1, <3>2 DEF SumStep
    <3>3. CASE s # {}
      <4>1. s \ {OneOf(s)} \in SUBSET U /\ Cardinality(s \ {OneOf(s)}) <= n
          BY <1>1, <2>6, <3>3
      <4>2. h[s \ {OneOf(s)}] = g[s \ {OneOf(s)}]
          BY <2>5, <4>1
      <4>  QED  BY <3>1, <3>3, <4>2 DEF SumStep
    <3>  QED  BY <3>2, <3>3
  <2>  HIDE DEF h
  <2>7. Good(h, n + 1)
      BY <2>4, <2>6
  <2>  HIDE DEF Good
  <2>  QED  BY <2>7
<1>4. Nat \subseteq T
  <2>  HIDE DEF T
  <2>  QED  BY <1>2, <1>3, SetInduction
<1>5. Cardinality(U) \in Nat
    BY <1>0, FS_CardinalityType
<1>6. PICK g : Good(g, Cardinality(U))
    BY <1>4, <1>5
<1>7. \A s \in SUBSET U : Cardinality(s) <= Cardinality(U)
    BY <1>0, FS_Subset
<1>8. Sums(g, f, U)
    BY <1>6, <1>7 DEF Sums, Solves
<1>  QED  BY <1>8

\* Two solutions agree where both are defined.
LEMMA SolutionsAgree ==
    ASSUME NEW U, IsFiniteSet(U), NEW f, NEW g, NEW h, Solves(g, f, U), Solves(h, f, U)
    PROVE  g[U] = h[U]
<1>  DEFINE T == {n \in Nat : \A u \in SUBSET U : Cardinality(u) = n => g[u] = h[u]}
<1>1. 0 \in T
  <2>  SUFFICES ASSUME NEW u \in SUBSET U, Cardinality(u) = 0 PROVE g[u] = h[u]
      OBVIOUS
  <2>1. u = {}
      BY FS_EmptySet, FS_Subset
  <2>2. g[u] = SumStep(g, f, u) /\ h[u] = SumStep(h, f, u)
      BY DEF Solves
  <2>  QED  BY <2>1, <2>2 DEF SumStep
<1>2. ASSUME NEW n \in Nat, n \in T PROVE n + 1 \in T
  <2>  SUFFICES ASSUME NEW u \in SUBSET U, Cardinality(u) = n + 1 PROVE g[u] = h[u]
      OBVIOUS
  <2>1. IsFiniteSet(u)
      BY FS_Subset
  <2>2. u # {}
      BY FS_EmptySet
  <2>3. OneOf(u) \in u
      BY <2>2, OneOfInside
  <2>4. u \ {OneOf(u)} \in SUBSET U /\ Cardinality(u \ {OneOf(u)}) = n
      BY <2>1, <2>3, RemoveOne
  <2>5. g[u \ {OneOf(u)}] = h[u \ {OneOf(u)}]
      BY <1>2, <2>4
  <2>6. g[u] = SumStep(g, f, u) /\ h[u] = SumStep(h, f, u)
      BY DEF Solves
  <2>  QED  BY <2>2, <2>5, <2>6 DEF SumStep
<1>3. Nat \subseteq T
  <2>  HIDE DEF T
  <2>  QED  BY <1>1, <1>2, SetInduction
<1>4. Cardinality(U) \in Nat
    BY FS_CardinalityType
<1>  QED  BY <1>3, <1>4

\* SumFunctionOnSet is the value of any solution.
LEMMA SumUnfolds ==
    ASSUME NEW U, NEW f, Weighted(f, U), NEW g, Sums(g, f, U), NEW S \in SUBSET U
    PROVE  SumFunctionOnSet(f, S) = g[S]
<1>  DEFINE G == CHOOSE h : h = [s \in SUBSET S |-> IF s = {} THEN 0
                     ELSE f[CHOOSE x \in s : TRUE] + h[s \ {CHOOSE x \in s : TRUE}]]
<1>1. IsFiniteSet(S) /\ Weighted(f, S)
    BY FS_Subset DEF Weighted
<1>2. PICK k : Sums(k, f, S)
    BY <1>1, SumsExist
<1>3. k = [s \in SUBSET S |-> SumStep(k, f, s)]
    BY <1>2 DEF Sums, Solves
<1>4. G = [s \in SUBSET S |-> SumStep(G, f, s)]
    BY <1>3 DEF SumStep, OneOf
<1>5. SumFunctionOnSet(f, S) = G[S]
    BY DEF SumFunctionOnSet, FoldFunctionOnSet, MapThenFoldSet
<1>  HIDE DEF G
<1>6. Solves(G, f, S)
    BY <1>4 DEF Solves
<1>7. Solves(g, f, S)
    BY DEF Sums, Solves
<1>8. G[S] = g[S]
    BY <1>1, <1>6, <1>7, SolutionsAgree
<1>  QED  BY <1>5, <1>8

\* One element more adds its weight, whichever element the fold takes first.
LEMMA SolutionAdds ==
    ASSUME NEW U, NEW f, Weighted(f, U), NEW g, Sums(g, f, U),
           NEW S \in SUBSET U, NEW x \in U \ S
    PROVE  g[S \cup {x}] = g[S] + f[x]
<1>  DEFINE T == {n \in Nat : \A u \in SUBSET U : \A z \in U \ u : Cardinality(u) = n => g[u \cup {z}] = g[u] + f[z]}
<1>0. g \in [SUBSET U -> Nat] /\ \A s \in SUBSET U : g[s] = SumStep(g, f, s)
    BY DEF Sums, Solves
<1>1. 0 \in T
  <2>  SUFFICES ASSUME NEW u \in SUBSET U, NEW z \in U \ u, Cardinality(u) = 0 PROVE g[u \cup {z}] = g[u] + f[z]
      OBVIOUS
  <2>1. u = {}
      BY FS_EmptySet, FS_Subset DEF Weighted
  <2>2. OneOf({z}) = z
      BY OneOfInside
  <2>3. g[{z}] = f[z] + g[{}]
    <3>1. {z} \in SUBSET U /\ {z} # {} /\ {z} \ {z} = {}
        OBVIOUS
    <3>  QED  BY <1>0, <2>2, <3>1 DEF SumStep
  <2>4. g[{}] = 0
      BY <1>0 DEF SumStep
  <2>5. f[z] \in Nat /\ u \cup {z} = {z}
      BY <2>1 DEF Weighted
  <2>  QED  BY <2>1, <2>3, <2>4, <2>5
<1>2. ASSUME NEW n \in Nat, n \in T PROVE n + 1 \in T
  <2>  SUFFICES ASSUME NEW u \in SUBSET U, NEW z \in U \ u, Cardinality(u) = n + 1 PROVE g[u \cup {z}] = g[u] + f[z]
      OBVIOUS
  <2>  DEFINE v == u \cup {z}
              y == OneOf(v)
  <2>1. IsFiniteSet(u) /\ v \in SUBSET U /\ v # {}
      BY FS_Subset DEF Weighted
  <2>2. y \in v
      BY <2>1, OneOfInside
  <2>3. g[v] = f[y] + g[v \ {y}]
      BY <1>0, <2>1 DEF SumStep
  <2>4. g[u] \in Nat /\ f[z] \in Nat /\ f[y] \in Nat
      BY <1>0, <2>1, <2>2 DEF Weighted
  <2>5. CASE y = z
    <3>1. v \ {y} = u
        BY <2>5
    <3>  HIDE DEF v, y
    <3>2. g[v] = f[z] + g[u]
        BY <2>3, <2>5, <3>1
    <3>3. g[v] = g[u] + f[z]
        BY <2>4, <3>2
    <3>  QED  BY <3>3 DEF v
  <2>6. CASE y # z
    <3>1. y \in u
        BY <2>2, <2>6
    <3>  DEFINE w == u \ {y}
    <3>2. w \in SUBSET U /\ z \in U \ w /\ y \in U \ w /\ Cardinality(w) = n
      <4>1. Cardinality(u \ {y}) = n
          BY <2>1, <3>1, RemoveOne
      <4>  QED  BY <3>1, <4>1
    <3>3. g[w \cup {z}] = g[w] + f[z] /\ g[w \cup {y}] = g[w] + f[y]
        BY <1>2, <3>2
    <3>4. w \cup {z} = v \ {y} /\ w \cup {y} = u
        BY <2>6, <3>1
    <3>5. g[w] \in Nat
        BY <1>0, <3>2
    <3>6. g[v \ {y}] = g[w] + f[z] /\ g[u] = g[w] + f[y]
        BY <3>3, <3>4
    <3>  HIDE DEF v, y, w
    <3>7. g[v] = g[u] + f[z]
        BY <2>3, <2>4, <3>5, <3>6
    <3>  QED  BY <3>7 DEF v
  <2>  QED  BY <2>5, <2>6
<1>3. Nat \subseteq T
  <2>  HIDE DEF T
  <2>  QED  BY <1>1, <1>2, SetInduction
<1>4. Cardinality(S) \in Nat
    BY FS_CardinalityType, FS_Subset DEF Weighted
<1>  QED  BY <1>3, <1>4

LEMMA SumFacts ==
    ASSUME NEW U, NEW f, Weighted(f, U), NEW S \in SUBSET U
    PROVE  /\ SumFunctionOnSet(f, S) \in Nat
           /\ SumFunctionOnSet(f, {}) = 0
           /\ \A x \in U \ S : SumFunctionOnSet(f, S \cup {x}) = SumFunctionOnSet(f, S) + f[x]
<1>1. PICK g : Sums(g, f, U)
    BY SumsExist
<1>2. SumFunctionOnSet(f, S) = g[S] /\ SumFunctionOnSet(f, {}) = g[{}]
    BY <1>1, SumUnfolds
<1>3. g[S] \in Nat /\ g[{}] = 0
    BY <1>1 DEF Sums, Solves, SumStep
<1>4. ASSUME NEW x \in U \ S PROVE SumFunctionOnSet(f, S \cup {x}) = SumFunctionOnSet(f, S) + f[x]
  <2>1. S \cup {x} \in SUBSET U
      OBVIOUS
  <2>2. SumFunctionOnSet(f, S \cup {x}) = g[S \cup {x}]
      BY <1>1, <2>1, SumUnfolds
  <2>3. g[S \cup {x}] = g[S] + f[x]
      BY <1>1, SolutionAdds
  <2>  QED  BY <1>2, <2>2, <2>3
<1>  QED  BY <1>2, <1>3, <1>4
\* Induction over the subsets of a finite set, for a set of subsets.
LEMMA SubsetInduction ==
    ASSUME NEW U, IsFiniteSet(U), NEW T, {} \in T,
           \A S \in SUBSET U : \A x \in U \ S : S \in T => S \cup {x} \in T
    PROVE  SUBSET U \subseteq T
<1>  DEFINE N == {n \in Nat : \A S \in SUBSET U : Cardinality(S) = n => S \in T}
<1>1. 0 \in N
  <2>1. ASSUME NEW S \in SUBSET U, Cardinality(S) = 0 PROVE S \in T
    <3>1. S = {}
        BY <2>1, FS_EmptySet, FS_Subset
    <3>  QED  BY <3>1
  <2>  QED  BY <2>1
<1>2. ASSUME NEW n \in Nat, n \in N PROVE n + 1 \in N
  <2>1. ASSUME NEW S \in SUBSET U, Cardinality(S) = n + 1 PROVE S \in T
    <3>1. IsFiniteSet(S)
        BY FS_Subset
    <3>0. S # {}
        BY <2>1, FS_EmptySet
    <3>2. PICK x \in S : TRUE
        BY <3>0
    <3>3. Cardinality(S \ {x}) = n
        BY <2>1, <3>1, <3>2, RemoveOne
    <3>4. S \ {x} \in SUBSET U /\ x \in U \ (S \ {x}) /\ (S \ {x}) \cup {x} = S
        BY <3>2
    <3>5. S \ {x} \in T
        BY <1>2, <3>3, <3>4
    <3>  QED  BY <3>4, <3>5
  <2>  QED  BY <2>1
<1>3. Nat \subseteq N
  <2>  HIDE DEF N
  <2>  QED  BY <1>1, <1>2, SetInduction
<1>4. \A S \in SUBSET U : Cardinality(S) \in Nat
    BY FS_CardinalityType, FS_Subset
<1>  QED  BY <1>3, <1>4

\* The sum over two sets without common element.
LEMMA SumDisjoint ==
    ASSUME NEW U, NEW f, Weighted(f, U), NEW A \in SUBSET U, NEW B \in SUBSET U, A \cap B = {}
    PROVE  SumFunctionOnSet(f, A \cup B) = SumFunctionOnSet(f, A) + SumFunctionOnSet(f, B)
<1>  DEFINE F(S) == SumFunctionOnSet(f, S)
            T == {S \in SUBSET U : A \cap S = {} => F(A \cup S) = F(A) + F(S)}
<1>0. \A S \in SUBSET U : F(S) \in Nat /\ \A x \in U \ S : F(S \cup {x}) = F(S) + f[x]
    BY SumFacts
<1>1. {} \in T
  <2>1. F({}) = 0 /\ F(A) \in Nat /\ A \cup {} = A
      BY SumFacts
  <2>  QED  BY <2>1
<1>  HIDE DEF F
<1>2. ASSUME NEW S \in SUBSET U, NEW x \in U \ S, S \in T PROVE S \cup {x} \in T
  <2>  SUFFICES ASSUME A \cap (S \cup {x}) = {} PROVE F(A \cup (S \cup {x})) = F(A) + F(S \cup {x})
      OBVIOUS
  <2>1. A \cap S = {} /\ x \in U \ (A \cup S) /\ A \cup S \in SUBSET U
      OBVIOUS
  <2>2. F(A \cup S) = F(A) + F(S)
      BY <1>2, <2>1
  <2>3. F((A \cup S) \cup {x}) = F(A \cup S) + f[x] /\ F(S \cup {x}) = F(S) + f[x]
      BY <1>0, <2>1
  <2>4. (A \cup S) \cup {x} = A \cup (S \cup {x})
      OBVIOUS
  <2>5. F(A) \in Nat /\ F(S) \in Nat /\ f[x] \in Nat
      BY <1>0 DEF Weighted
  <2>6. F(A \cup (S \cup {x})) = F(A) + F(S) + f[x]
      BY <2>2, <2>3, <2>4
  <2>7. F(A) + F(S) + f[x] = F(A) + (F(S) + f[x])
      BY <2>5
  <2>  QED  BY <2>3, <2>6, <2>7
<1>3. IsFiniteSet(U)
    BY DEF Weighted
<1>4. SUBSET U \subseteq T
  <2>  HIDE DEF T
  <2>  QED  BY <1>1, <1>2, <1>3, SubsetInduction
<1>  QED  BY <1>4 DEF F

\* Elements without weight do not count.
LEMMA SumZero ==
    ASSUME NEW U, NEW f, Weighted(f, U), NEW A \in SUBSET U, \A x \in A : f[x] = 0
    PROVE  SumFunctionOnSet(f, A) = 0
<1>  DEFINE F(S) == SumFunctionOnSet(f, S)
            T == {S \in SUBSET U : S \subseteq A => F(S) = 0}
<1>0. \A S \in SUBSET U : F(S) \in Nat /\ \A x \in U \ S : F(S \cup {x}) = F(S) + f[x]
    BY SumFacts
<1>1. {} \in T
  <2>1. F({}) = 0
      BY SumFacts
  <2>  QED  BY <2>1
<1>  HIDE DEF F
<1>2. ASSUME NEW S \in SUBSET U, NEW x \in U \ S, S \in T PROVE S \cup {x} \in T
    BY <1>0, <1>2
<1>3. IsFiniteSet(U)
    BY DEF Weighted
<1>4. SUBSET U \subseteq T
  <2>  HIDE DEF T
  <2>  QED  BY <1>1, <1>2, <1>3, SubsetInduction
<1>  QED  BY <1>4 DEF F

\* An element of the set counts with its weight.
LEMMA SumRemove ==
    ASSUME NEW U, NEW f, Weighted(f, U), NEW A \in SUBSET U, NEW x \in A
    PROVE  /\ SumFunctionOnSet(f, A \ {x}) \in Nat
           /\ SumFunctionOnSet(f, A) = SumFunctionOnSet(f, A \ {x}) + f[x]
<1>1. A \ {x} \in SUBSET U /\ x \in U \ (A \ {x}) /\ (A \ {x}) \cup {x} = A
    OBVIOUS
<1>  DEFINE F(S) == SumFunctionOnSet(f, S)
<1>2. F(A \ {x}) \in Nat /\ F((A \ {x}) \cup {x}) = F(A \ {x}) + f[x]
    BY <1>1, SumFacts
<1>  HIDE DEF F
<1>3. F(A \ {x}) \in Nat /\ F(A) = F(A \ {x}) + f[x]
    BY <1>1, <1>2
<1>  QED  BY <1>3 DEF F

-----------------------------------------------------------------------------
(* Pages.                                                                  *)

LEMMA MaxOfTwo ==
    ASSUME NEW a \in Int, NEW b \in Int
    PROVE  Max({a, b}) = IF a >= b THEN a ELSE b
BY DEF Max

LEMMA MinOfTwo ==
    ASSUME NEW a \in Int, NEW b \in Int
    PROVE  Min({a, b}) = IF a <= b THEN a ELSE b
BY DEF Min

\* The pages of a prompt: a sequence of pages of the request's model.
LEMMA PageKeysFacts ==
    ASSUME NEW r \in Requests
    PROVE  /\ PageKeys[r] \in Seq(Pages)
           /\ IsFiniteSet(DOMAIN PageKeys[r])
           /\ ToSet(PageKeys[r]) \subseteq Pages /\ IsFiniteSet(ToSet(PageKeys[r]))
           /\ \A p \in ToSet(PageKeys[r]) : p[1] = ModelOf[r]
<1>  DEFINE n == PagesFor(Len(Prompt[r]))
            Chunk(i) == SubSeq(Prompt[r], (i - 1) * PageSize + 1, Min({i * PageSize, Len(Prompt[r])}))
            s == PageKeys[r]
<1>1. n \in Int
  <2>1. Len(Prompt[r]) \in Nat /\ PageSize \in Nat /\ PageSize > 0
      BY KVAssumption, LenProperties
  <2>  QED  BY <2>1 DEF PagesFor
<1>2. s = [i \in 1..n |-> <<ModelOf[r], Chunk(i)>>]
    BY DEF PageKeys
<1>  HIDE DEF n, Chunk, s
<1>3. DOMAIN s = 1..n /\ \A i \in 1..n : s[i] = <<ModelOf[r], Chunk(i)>>
    BY <1>2
<1>4. ToSet(s) \subseteq Pages
    BY DEF s, Pages
<1>5. \A i \in 1..n : s[i] \in ToSet(s)
    BY <1>3 DEF ToSet
<1>6. s \in [1..n -> Pages]
    BY <1>2, <1>3, <1>4, <1>5
<1>7. \E m \in Nat : 1..n = 1..m
  <2>1. CASE n \in Nat
      BY <2>1
  <2>2. CASE n \notin Nat
    <3>1. 1..n = 1..0
        BY <1>1, <2>2
    <3>  QED  BY <3>1
  <2>  QED  BY <2>1, <2>2
<1>8. s \in Seq(Pages)
  <2>1. PICK m \in Nat : 1..n = 1..m
      BY <1>7
  <2>2. s \in [1..m -> Pages]
      BY <1>6, <2>1
  <2>  QED  BY <2>2, SeqDef
<1>9. IsFiniteSet(DOMAIN s)
    BY <1>1, <1>3, FS_Interval
<1>10. IsFiniteSet(ToSet(s))
    BY <1>8, DistinctCardinality
<1>11. \A p \in ToSet(s) : p[1] = ModelOf[r]
    BY <1>3 DEF ToSet
<1>  QED  BY <1>4, <1>8, <1>9, <1>10, <1>11 DEF s

\* A page's uses by a request, and the pages a request will decode.
LEMMA UsesFacts ==
    ASSUME NEW p \in Pages, NEW r \in Requests
    PROVE  Uses[p][r] \in Nat /\ (Uses[p][r] > 0 <=> p \in ToSet(PageKeys[r]))
<1>  DEFINE I == {i \in DOMAIN PageKeys[r] : PageKeys[r][i] = p}
<1>1. Uses[p][r] = Cardinality(I)
    BY DEF Uses
<1>2. IsFiniteSet(I)
  <2>1. IsFiniteSet(DOMAIN PageKeys[r]) /\ I \in SUBSET DOMAIN PageKeys[r]
      BY PageKeysFacts
  <2>  HIDE DEF I
  <2>  QED  BY <2>1, FS_Subset
<1>3. I # {} <=> p \in ToSet(PageKeys[r])
    BY DEF ToSet
<1>  HIDE DEF I
<1>4. Cardinality(I) \in Nat /\ (Cardinality(I) = 0 <=> I = {})
    BY <1>2, FS_CardinalityType, FS_EmptySet
<1>  QED  BY <1>1, <1>3, <1>4

LEMMA DecodeFacts ==
    ASSUME NEW r \in Requests
    PROVE  DecodePages[r] \in Nat /\ DecodePages[r] > 0
<1>1. MaxTokens[r] \in Nat /\ PageSize \in Nat /\ PageSize > 0
    BY KVAssumption
<1>2. PagesFor(MaxTokens[r]) \in Int
    BY <1>1 DEF PagesFor
<1>3. DecodePages[r] = Max({PagesFor(MaxTokens[r]), 1})
    BY DEF DecodePages
<1>4. DecodePages[r] = IF PagesFor(MaxTokens[r]) >= 1 THEN PagesFor(MaxTokens[r]) ELSE 1
    BY <1>2, <1>3, MaxOfTwo
<1>  QED  BY <1>2, <1>4

LEMMA Weights ==
    /\ Weighted(DecodePages, Requests)
    /\ \A p \in Pages : Weighted(Uses[p], Requests)
BY KVAssumption, DecodeFacts, UsesFacts DEF Weighted

-----------------------------------------------------------------------------
(* The order of the pages.                                                 *)

LEMMA InjectiveIsDistinct ==
    ASSUME NEW S, NEW s \in Seq(S)
    PROVE  IsInjective(s) <=> Distinct(s)
BY LenProperties DEF IsInjective, Distinct

LEMMA TouchFacts ==
    ASSUME NEW order \in Seq(Pages), Distinct(order), NEW S \in SUBSET Pages, IsFiniteSet(S)
    PROVE  /\ Touch(order, S) \in Seq(Pages)
           /\ Distinct(Touch(order, S))
           /\ ToSet(Touch(order, S)) = ToSet(order) \cup S
<1>  DEFINE old == Filter(order, Pages \ S)
            new == SetToSeq(S)
<1>1. old \in Seq(Pages) /\ ToSet(old) = ToSet(order) \cap (Pages \ S) /\ Distinct(old)
    BY FilterLength, FilterRange, FilterDistinct
<1>2. new \in Seq(S) /\ ToSet(new) = S /\ Distinct(new)
    BY SetToSeqFacts
<1>3. ToSet(order) \subseteq Pages
    BY LenProperties, ElementOfSeq DEF ToSet
<1>  HIDE DEF old, new
<1>4. new \in Seq(Pages)
    BY <1>2, SeqMonotonic
<1>5. ToSet(old) \cap ToSet(new) = {}
    BY <1>1, <1>2
<1>6. old \o new \in Seq(Pages) /\ Distinct(old \o new) /\ ToSet(old \o new) = ToSet(old) \cup ToSet(new)
    BY <1>1, <1>2, <1>4, <1>5, ConcatRange
<1>7. ToSet(old) \cup ToSet(new) = ToSet(order) \cup S
    BY <1>1, <1>2, <1>3
<1>  QED  BY <1>6, <1>7 DEF Touch, old, new

-----------------------------------------------------------------------------
(* Eviction.                                                               *)

\* The books as far as their types go.
Ordered(k) == k \in Books /\ Distinct(k.order)

LEMMA OrderedIsTyped ==
    ASSUME NEW k PROVE BooksTypeOK(k) <=> Ordered(k)
BY InjectiveIsDistinct DEF BooksTypeOK, Ordered, Books

LEMMA BooksFields ==
    ASSUME NEW k \in Books
    PROVE  /\ k.order \in Seq(Pages) /\ k.ref \in [Pages -> Nat] /\ k.lane \in [Pages -> Lanes]
           /\ k.transient \in [Lanes -> Nat] /\ k.held \in SUBSET Requests /\ k.twice \in SUBSET Pages
           /\ k.transient["decode"] \in Nat /\ k.transient["prefill"] \in Nat
           /\ Len(k.order) \in Nat /\ ToSet(k.order) \subseteq Pages /\ IsFiniteSet(ToSet(k.order))
           /\ IsFiniteSet(k.held)
<1>1. /\ k.order \in Seq(Pages) /\ k.ref \in [Pages -> Nat] /\ k.lane \in [Pages -> Lanes]
      /\ k.transient \in [Lanes -> Nat] /\ k.held \in SUBSET Requests /\ k.twice \in SUBSET Pages
    BY DEF Books
<1>2. k.transient["decode"] \in Nat /\ k.transient["prefill"] \in Nat
    BY <1>1 DEF Lanes
<1>3. Len(k.order) \in Nat /\ ToSet(k.order) \subseteq Pages /\ IsFiniteSet(ToSet(k.order))
    BY <1>1, LenProperties, ElementOfSeq, DistinctCardinality DEF ToSet
<1>4. IsFiniteSet(k.held)
    BY <1>1, KVAssumption, FS_Subset
<1>  QED  BY <1>1, <1>2, <1>3, <1>4

\* The unreferenced pages, prefill before decode.
Idle(k, l)    == Filter(k.order, {p \in Pages : k.ref[p] <= 0 /\ k.lane[p] = l})
Candidates(k) == Idle(k, "prefill") \o Idle(k, "decode")
Taking(k, n)  == ToSet(SubSeq(Candidates(k), 1, Min({n, Len(Candidates(k))})))

LEMMA CandidateFacts ==
    ASSUME NEW k, Ordered(k)
    PROVE  /\ Candidates(k) \in Seq(Pages) /\ Distinct(Candidates(k))
           /\ ToSet(Candidates(k)) = {p \in ToSet(k.order) : k.ref[p] = 0}
<1>0. k \in Books /\ Distinct(k.order)
    BY DEF Ordered
<1>1. k.order \in Seq(Pages) /\ k.ref \in [Pages -> Nat] /\ k.lane \in [Pages -> Lanes] /\ ToSet(k.order) \subseteq Pages
    BY <1>0, BooksFields
<1>2. ASSUME NEW l \in Lanes
      PROVE  /\ Idle(k, l) \in Seq(Pages) /\ Distinct(Idle(k, l))
             /\ ToSet(Idle(k, l)) = ToSet(k.order) \cap {p \in Pages : k.ref[p] <= 0 /\ k.lane[p] = l}
    BY <1>0, <1>1, FilterLength, FilterRange, FilterDistinct DEF Idle
<1>3. "prefill" \in Lanes /\ "decode" \in Lanes /\ \A l \in Lanes : l = "prefill" \/ l = "decode"
    BY DEF Lanes
<1>4. ToSet(Idle(k, "prefill")) \cap ToSet(Idle(k, "decode")) = {}
    BY <1>2, <1>3
<1>5. /\ Candidates(k) \in Seq(Pages) /\ Distinct(Candidates(k))
      /\ ToSet(Candidates(k)) = ToSet(Idle(k, "prefill")) \cup ToSet(Idle(k, "decode"))
    BY <1>2, <1>3, <1>4, ConcatRange DEF Candidates
<1>6. ASSUME NEW p \in ToSet(k.order)
      PROVE  p \in ToSet(Idle(k, "prefill")) \cup ToSet(Idle(k, "decode")) <=> k.ref[p] = 0
  <2>1. p \in Pages /\ k.ref[p] \in Nat /\ k.lane[p] \in Lanes
      BY <1>1
  <2>2. (k.ref[p] <= 0) <=> (k.ref[p] = 0)
      BY <2>1
  <2>3. k.lane[p] = "prefill" \/ k.lane[p] = "decode"
      BY <1>3, <2>1
  <2>  QED  BY <1>2, <1>3, <2>1, <2>2, <2>3
<1>7. ToSet(Idle(k, "prefill")) \cup ToSet(Idle(k, "decode")) \subseteq ToSet(k.order)
    BY <1>2, <1>3
<1>  QED  BY <1>5, <1>6, <1>7

\* The first n candidates, or all of them.
LEMMA TakingFacts ==
    ASSUME NEW k, Ordered(k), NEW n \in Int
    PROVE  /\ Taking(k, n) \subseteq ToSet(Candidates(k)) /\ IsFiniteSet(Taking(k, n))
           /\ n > 0 => Cardinality(Taking(k, n)) = n \/ Taking(k, n) = ToSet(Candidates(k))
<1>  DEFINE c == Candidates(k)
            m == Min({n, Len(c)})
            t == SubSeq(c, 1, m)
<1>1. c \in Seq(Pages) /\ Distinct(c) /\ Len(c) \in Nat
    BY CandidateFacts, LenProperties
<1>  HIDE DEF c
<1>2. m = IF n <= Len(c) THEN n ELSE Len(c)
    BY <1>1, MinOfTwo
<1>3. Taking(k, n) = ToSet(t)
    BY DEF Taking, c
<1>4. CASE n <= 0
  <2>1. m \in Int /\ m < 1
      BY <1>1, <1>2, <1>4
  <2>  HIDE DEF m
  <2>2. t = <<>>
      BY <2>1, SubSeqProperties, EmptySeq
  <2>  HIDE DEF t
  <2>3. ToSet(t) = {}
    <3>1. ToSet(<<>>) = {}
        BY DEF ToSet
    <3>  QED  BY <2>2, <3>1
  <2>4. IsFiniteSet(ToSet(t))
      BY <2>3, FS_EmptySet
  <2>  QED  BY <1>3, <1>4, <2>3, <2>4 DEF c
<1>5. CASE n > 0
  <2>1. m \in 0..Len(c) /\ (m = n \/ m = Len(c))
      BY <1>1, <1>2, <1>5
  <2>  HIDE DEF m
  <2>2. t \in Seq(Pages) /\ Len(t) = m /\ ToSet(c) = ToSet(t) \cup ToSet(SubSeq(c, m + 1, Len(c)))
      BY <1>1, <2>1, Cut
  <2>3. Distinct(t)
      BY <1>1, <2>1, SubSeqProperties DEF Distinct
  <2>4. IsFiniteSet(ToSet(t)) /\ Cardinality(ToSet(t)) = m
      BY <2>2, <2>3, DistinctCardinality
  <2>5. m = Len(c) => ToSet(t) = ToSet(c)
    <3>1. IsFiniteSet(ToSet(c)) /\ Cardinality(ToSet(c)) = Len(c)
        BY <1>1, DistinctCardinality
    <3>2. ToSet(t) \in SUBSET ToSet(c)
        BY <2>2
    <3>  QED  BY <2>4, <3>1, <3>2, FS_Subset
  <2>  QED  BY <1>3, <2>1, <2>2, <2>4, <2>5 DEF c
<1>  QED  BY <1>4, <1>5

\* Eviction only takes unreferenced pages, and takes enough or all of them.
LEMMA EvictFacts ==
    ASSUME NEW k, Ordered(k), NEW needed \in Nat
    PROVE  LET e == EvictToFit(k, needed)
           IN  /\ Ordered(e)
               /\ e.ref = k.ref /\ e.lane = k.lane /\ e.transient = k.transient
               /\ e.held = k.held /\ e.twice = k.twice
               /\ ToSet(e.order) \subseteq ToSet(k.order)
               /\ \A p \in ToSet(k.order) : k.ref[p] > 0 => p \in ToSet(e.order)
               /\ Total(e) \in Nat
               /\ Total(e) + needed <= MaxPages \/ \A p \in ToSet(e.order) : k.ref[p] > 0
<1>  DEFINE e == EvictToFit(k, needed)
            n == Total(k) + needed - MaxPages
            V == Taking(k, n)
<1>0. k \in Books /\ Distinct(k.order) /\ MaxPages \in Nat
    BY KVAssumption DEF Ordered
<1>1. /\ k.order \in Seq(Pages) /\ k.ref \in [Pages -> Nat] /\ ToSet(k.order) \subseteq Pages /\ IsFiniteSet(ToSet(k.order))
      /\ Len(k.order) \in Nat /\ k.transient["decode"] \in Nat /\ k.transient["prefill"] \in Nat
    BY <1>0, BooksFields
<1>2. e = [k EXCEPT !.order = Filter(k.order, Pages \ V)]
    BY <1>0 DEF EvictToFit, Evicting, Taking, Candidates, Idle
<1>3. Total(k) \in Nat /\ n \in Int
    BY <1>0, <1>1 DEF Total
<1>4. /\ V \subseteq {p \in ToSet(k.order) : k.ref[p] = 0} /\ IsFiniteSet(V)
      /\ n > 0 => Cardinality(V) = n \/ V = {p \in ToSet(k.order) : k.ref[p] = 0}
  <2>  HIDE DEF n
  <2>  QED  BY <1>3, TakingFacts, CandidateFacts
<1>5. /\ Filter(k.order, Pages \ V) \in Seq(Pages) /\ Distinct(Filter(k.order, Pages \ V))
      /\ ToSet(Filter(k.order, Pages \ V)) = ToSet(k.order) \cap (Pages \ V)
    BY <1>0, <1>1, FilterLength, FilterRange, FilterDistinct
<1>  HIDE DEF e, n, V
<1>6. /\ e \in Books /\ e.order = Filter(k.order, Pages \ V)
      /\ e.ref = k.ref /\ e.lane = k.lane /\ e.transient = k.transient
      /\ e.held = k.held /\ e.twice = k.twice
    BY <1>0, <1>2, <1>5 DEF Books
<1>7. ToSet(e.order) = ToSet(k.order) \ V /\ Distinct(e.order) /\ Ordered(e)
    BY <1>1, <1>5, <1>6 DEF Ordered
<1>8. \A p \in ToSet(k.order) : k.ref[p] > 0 => p \in ToSet(e.order)
    BY <1>4, <1>7
<1>9. Len(e.order) = Len(k.order) - Cardinality(V) /\ Cardinality(V) \in Nat /\ Len(e.order) \in Nat
  <2>1. Cardinality(ToSet(k.order)) = Len(k.order) /\ Cardinality(ToSet(e.order)) = Len(e.order)
      BY <1>0, <1>1, <1>5, <1>6, <1>7, DistinctCardinality
  <2>2. ToSet(k.order) \cap V = V
      BY <1>4
  <2>3. Cardinality(ToSet(k.order) \ V) = Cardinality(ToSet(k.order)) - Cardinality(ToSet(k.order) \cap V)
      BY <1>1, FS_Difference
  <2>4. Len(e.order) \in Nat
      BY <1>6, BooksFields
  <2>  QED  BY <1>4, <1>7, <2>1, <2>2, <2>3, <2>4, FS_CardinalityType
<1>10. Total(e) = Total(k) - Cardinality(V) /\ Total(e) \in Nat
  <2>1. /\ Total(k) = Len(k.order) + k.transient["decode"] + k.transient["prefill"]
        /\ Total(e) = Len(e.order) + k.transient["decode"] + k.transient["prefill"]
      BY <1>6 DEF Total
  <2>  DEFINE d == k.transient["decode"]
              f == k.transient["prefill"]
              v == Cardinality(V)
              x == Len(e.order)
              y == Len(k.order)
  <2>2. d \in Nat /\ f \in Nat /\ v \in Nat /\ x \in Nat /\ y \in Nat /\ x = y - v
      BY <1>1, <1>9
  <2>3. Total(k) = y + d + f /\ Total(e) = x + d + f
      BY <2>1
  <2>  HIDE DEF d, f, v, x, y
  <2>4. Total(e) = Total(k) - v /\ Total(e) \in Nat
      BY <2>2, <2>3
  <2>  QED  BY <2>4 DEF v
<1>11. Total(e) + needed <= MaxPages \/ \A p \in ToSet(e.order) : k.ref[p] > 0
  <2>1. CASE n <= 0
      BY <1>0, <1>3, <1>9, <1>10, <2>1 DEF n
  <2>2. CASE n > 0 /\ Cardinality(V) = n
      BY <1>0, <1>3, <1>9, <1>10, <2>2 DEF n
  <2>3. CASE V = {p \in ToSet(k.order) : k.ref[p] = 0}
    <3>1. \A p \in ToSet(e.order) : p \in Pages /\ k.ref[p] # 0
        BY <1>1, <1>7, <2>3
    <3>  QED  BY <1>1, <3>1
  <2>  QED  BY <1>3, <1>4, <2>1, <2>2, <2>3
<1>  QED  BY <1>6, <1>7, <1>8, <1>10, <1>11 DEF e

-----------------------------------------------------------------------------
(* What the manager's calls do to the books.                               *)

\* What holds of the books between two calls.
KVInv(k) == BooksTypeOK(k) /\ Balanced(k) /\ TightWhenOver(k)

LEMMA KVInvFacts ==
    ASSUME NEW k, KVInv(k)
    PROVE  /\ Ordered(k) /\ k \in Books /\ Distinct(k.order)
           /\ k.order \in Seq(Pages) /\ k.ref \in [Pages -> Nat] /\ k.lane \in [Pages -> Lanes]
           /\ k.transient \in [Lanes -> Nat] /\ k.held \in SUBSET Requests /\ k.twice \in SUBSET Pages
           /\ ToSet(k.order) \subseteq Pages /\ IsFiniteSet(ToSet(k.order)) /\ Len(k.order) \in Nat
           /\ \A l \in Lanes : k.transient[l] = SumFunctionOnSet(DecodePages, {r \in k.held : LaneOf[r] = l})
           /\ \A p \in Pages \ k.twice : /\ k.ref[p] = SumFunctionOnSet(Uses[p], k.held)
                                         /\ k.ref[p] > 0 => p \in ToSet(k.order)
           /\ Total(k) > MaxPages => \A p \in ToSet(k.order) : k.ref[p] > 0
<1>1. Ordered(k)
    BY OrderedIsTyped DEF KVInv
<1>2. k \in Books /\ Distinct(k.order)
    BY <1>1 DEF Ordered
<1>  QED  BY <1>1, <1>2, BooksFields DEF KVInv, Balanced, TightWhenOver

LEMMA EmptyBooksFacts ==
    KVInv(EmptyBooks) /\ EmptyBooks.held = {}
<1>  DEFINE k == EmptyBooks
<1>1. /\ k.order = <<>> /\ k.ref = [p \in Pages |-> 0] /\ k.lane = [p \in Pages |-> "decode"]
      /\ k.transient = [l \in Lanes |-> 0] /\ k.held = {} /\ k.twice = {}
    BY DEF EmptyBooks
<1>2. k \in Books
    BY DEF EmptyBooks, Books, Lanes
<1>3. Distinct(k.order) /\ ToSet(k.order) = {}
    BY <1>1 DEF Distinct, ToSet
<1>  HIDE DEF k
<1>4. BooksTypeOK(k)
    BY <1>2, <1>3, OrderedIsTyped DEF Ordered
<1>5. SumFunctionOnSet(DecodePages, {}) = 0 /\ \A p \in Pages : SumFunctionOnSet(Uses[p], {}) = 0
    BY Weights, SumFacts
<1>6. Balanced(k)
  <2>1. \A l \in Lanes : {r \in k.held : LaneOf[r] = l} = {} /\ k.transient[l] = 0
      BY <1>1
  <2>2. \A p \in Pages : k.ref[p] = 0
      BY <1>1
  <2>  QED  BY <1>1, <1>5, <2>1, <2>2 DEF Balanced
<1>7. TightWhenOver(k)
    BY <1>3 DEF TightWhenOver
<1>  QED  BY <1>1, <1>4, <1>6, <1>7 DEF KVInv, k

\* The distinct new pages of a prompt are no more than their places in it.
LEMMA FreshFits ==
    ASSUME NEW r \in Requests, NEW fresh \in SUBSET ToSet(PageKeys[r])
    PROVE  /\ Cardinality({i \in DOMAIN PageKeys[r] : PageKeys[r][i] \in fresh}) \in Nat
           /\ Cardinality(fresh) \in Nat /\ IsFiniteSet(fresh)
           /\ Cardinality(fresh) <= Cardinality({i \in DOMAIN PageKeys[r] : PageKeys[r][i] \in fresh})
<1>  DEFINE I == {i \in DOMAIN PageKeys[r] : PageKeys[r][i] \in fresh}
            f == [i \in I |-> PageKeys[r][i]]
<1>1. IsFiniteSet(I)
  <2>1. IsFiniteSet(DOMAIN PageKeys[r]) /\ I \in SUBSET DOMAIN PageKeys[r]
      BY PageKeysFacts
  <2>  QED  BY <2>1, FS_Subset
<1>2. \A p \in fresh : \E i \in I : f[i] = p
    BY DEF ToSet
<1>3. f \in [I -> fresh]
    OBVIOUS
<1>4. f \in Surjection(I, fresh)
    BY <1>2, <1>3 DEF Surjection
<1>  HIDE DEF I, f
<1>5. IsFiniteSet(fresh) /\ Cardinality(fresh) <= Cardinality(I)
    BY <1>1, <1>4, FS_Surjection
<1>6. Cardinality(I) \in Nat /\ Cardinality(fresh) \in Nat
    BY <1>1, <1>5, FS_CardinalityType
<1>  QED  BY <1>5, <1>6 DEF I

\* A reservation keeps the books in order and holds its request.
LEMMA ReserveFacts ==
    ASSUME NEW k, KVInv(k), NEW r \in Requests, r \notin k.held
    PROVE  KVInv(Reserve(k, r)) /\ Reserve(k, r).held = k.held \cup {r}
<1>  DEFINE keys   == ToSet(PageKeys[r])
            known  == keys \cap ToSet(k.order)
            fresh  == keys \ known
            listed == Cardinality({i \in DOMAIN PageKeys[r] : PageKeys[r][i] \in fresh})
            need   == listed + DecodePages[r]
            reused == [k EXCEPT !.ref  = [p \in Pages |-> IF p \in known THEN @[p] + Uses[p][r] ELSE @[p]],
                                !.lane = [p \in Pages |-> IF p \in keys THEN LaneOf[r] ELSE @[p]]]
            roomy  == EvictToFit(reused, need)
            out    == [roomy EXCEPT !.ref   = [p \in Pages |-> IF p \in fresh THEN 1 ELSE @[p]],
                                    !.order = Touch(@, keys),
                                    !.transient[LaneOf[r]] = @ + DecodePages[r],
                                    !.held  = @ \cup {r},
                                    !.twice = @ \cup {p \in fresh : Uses[p][r] > 1}]
<1>0. out = Reserve(k, r)
    BY DEF Reserve
<1>1. /\ Ordered(k) /\ k \in Books /\ Distinct(k.order)
      /\ k.order \in Seq(Pages) /\ k.ref \in [Pages -> Nat] /\ k.lane \in [Pages -> Lanes]
      /\ k.transient \in [Lanes -> Nat] /\ k.held \in SUBSET Requests /\ k.twice \in SUBSET Pages
      /\ ToSet(k.order) \subseteq Pages
    BY KVInvFacts
<1>2. keys \subseteq Pages /\ IsFiniteSet(keys) /\ LaneOf[r] \in Lanes
    BY PageKeysFacts, KVAssumption
<1>3. DecodePages[r] \in Nat /\ \A p \in Pages : Uses[p][r] \in Nat /\ (Uses[p][r] > 0 <=> p \in keys)
    BY DecodeFacts, UsesFacts
<1>4. listed \in Nat /\ Cardinality(fresh) \in Nat /\ IsFiniteSet(fresh) /\ Cardinality(fresh) <= listed
    BY FreshFits
<1>5. need \in Nat
    BY <1>3, <1>4
<1>6. /\ fresh \subseteq Pages /\ known \subseteq Pages /\ known \subseteq ToSet(k.order)
      /\ fresh \cap ToSet(k.order) = {} /\ known \cup fresh = keys /\ known \cap fresh = {}
    BY <1>2
<1>  HIDE DEF keys, known, fresh, listed, need
<1>7. /\ reused \in Books /\ reused.order = k.order
      /\ reused.ref = [p \in Pages |-> IF p \in known THEN k.ref[p] + Uses[p][r] ELSE k.ref[p]]
      /\ reused.transient = k.transient /\ reused.held = k.held /\ reused.twice = k.twice
  <2>1. [p \in Pages |-> IF p \in known THEN k.ref[p] + Uses[p][r] ELSE k.ref[p]] \in [Pages -> Nat]
      BY <1>1, <1>3
  <2>2. [p \in Pages |-> IF p \in keys THEN LaneOf[r] ELSE k.lane[p]] \in [Pages -> Lanes]
      BY <1>1, <1>2
  <2>  QED  BY <1>1, <2>1, <2>2 DEF Books
<1>8. Ordered(reused)
    BY <1>1, <1>7 DEF Ordered
<1>  HIDE DEF reused
<1>9. /\ Ordered(roomy)
      /\ roomy.ref = reused.ref /\ roomy.lane = reused.lane /\ roomy.transient = k.transient
      /\ roomy.held = k.held /\ roomy.twice = k.twice
      /\ ToSet(roomy.order) \subseteq ToSet(k.order)
      /\ \A p \in ToSet(k.order) : reused.ref[p] > 0 => p \in ToSet(roomy.order)
      /\ Total(roomy) \in Nat
      /\ Total(roomy) + need <= MaxPages \/ \A p \in ToSet(roomy.order) : reused.ref[p] > 0
    BY <1>5, <1>7, <1>8, EvictFacts
<1>10. roomy \in Books /\ roomy.order \in Seq(Pages) /\ Distinct(roomy.order)
    BY <1>9, BooksFields DEF Ordered
<1>  HIDE DEF roomy
<1>11. /\ Touch(roomy.order, keys) \in Seq(Pages) /\ Distinct(Touch(roomy.order, keys))
       /\ ToSet(Touch(roomy.order, keys)) = ToSet(roomy.order) \cup keys
    BY <1>2, <1>10, TouchFacts
<1>12. /\ out \in Books
       /\ out.ref = [p \in Pages |-> IF p \in fresh THEN 1 ELSE reused.ref[p]]
       /\ out.order = Touch(roomy.order, keys)
       /\ out.transient = [k.transient EXCEPT ![LaneOf[r]] = @ + DecodePages[r]]
       /\ out.held = k.held \cup {r}
       /\ out.twice = k.twice \cup {p \in fresh : Uses[p][r] > 1}
  <2>1. [p \in Pages |-> IF p \in fresh THEN 1 ELSE roomy.ref[p]] \in [Pages -> Nat]
      BY <1>7, <1>9, <1>10, BooksFields
  <2>2. [roomy.transient EXCEPT ![LaneOf[r]] = @ + DecodePages[r]] \in [Lanes -> Nat]
      BY <1>1, <1>2, <1>3, <1>9
  <2>3. roomy.held \cup {r} \in SUBSET Requests /\ roomy.twice \cup {p \in fresh : Uses[p][r] > 1} \in SUBSET Pages
      BY <1>1, <1>6, <1>9
  <2>  QED  BY <1>9, <1>10, <1>11, <2>1, <2>2, <2>3 DEF Books
<1>  HIDE DEF out
<1>13. \A p \in known : reused.ref[p] > 0 /\ p \in ToSet(roomy.order)
  <2>  SUFFICES ASSUME NEW p \in known PROVE reused.ref[p] > 0 /\ p \in ToSet(roomy.order)
      OBVIOUS
  <2>1. p \in Pages /\ p \in keys /\ k.ref[p] \in Nat /\ Uses[p][r] \in Nat /\ Uses[p][r] > 0
      BY <1>1, <1>3, <1>6
  <2>2. reused.ref[p] = k.ref[p] + Uses[p][r]
      BY <1>7, <2>1
  <2>3. reused.ref[p] > 0
      BY <2>1, <2>2
  <2>  QED  BY <1>6, <1>9, <2>3
<1>14. ToSet(out.order) = ToSet(roomy.order) \cup fresh /\ ToSet(roomy.order) \cap fresh = {}
    BY <1>6, <1>9, <1>11, <1>12, <1>13
<1>15. BooksTypeOK(out)
    BY <1>11, <1>12, OrderedIsTyped DEF Ordered
<1>16. Balanced(out)
  <2>1. ASSUME NEW l \in Lanes
        PROVE  out.transient[l] = SumFunctionOnSet(DecodePages, {q \in out.held : LaneOf[q] = l})
    <3>  DEFINE H == {q \in k.held : LaneOf[q] = l}
    <3>1. H \in SUBSET Requests /\ r \in Requests \ H
        BY <1>1
    <3>2. k.transient[l] = SumFunctionOnSet(DecodePages, H)
        BY KVInvFacts
    <3>3. SumFunctionOnSet(DecodePages, H \cup {r}) = SumFunctionOnSet(DecodePages, H) + DecodePages[r]
        BY <3>1, Weights, SumFacts
    <3>4. CASE l = LaneOf[r]
      <4>1. {q \in out.held : LaneOf[q] = l} = H \cup {r}
          BY <1>12, <3>4
      <4>2. out.transient[l] = k.transient[l] + DecodePages[r]
          BY <1>1, <1>12, <3>4
      <4>  QED  BY <3>2, <3>3, <4>1, <4>2
    <3>5. CASE l # LaneOf[r]
      <4>1. {q \in out.held : LaneOf[q] = l} = H
          BY <1>12, <3>5
      <4>2. out.transient[l] = k.transient[l]
          BY <1>1, <1>12, <3>5
      <4>  QED  BY <3>2, <4>1, <4>2
    <3>  QED  BY <3>4, <3>5
  <2>2. ASSUME NEW p \in Pages \ out.twice
        PROVE  /\ out.ref[p] = SumFunctionOnSet(Uses[p], out.held)
               /\ out.ref[p] > 0 => p \in ToSet(out.order)
    <3>  DEFINE sum == SumFunctionOnSet(Uses[p], k.held)
    <3>1. p \in Pages \ k.twice /\ (p \in fresh => ~(Uses[p][r] > 1))
        BY <1>12
    <3>2. k.ref[p] = sum /\ (k.ref[p] > 0 => p \in ToSet(k.order)) /\ k.ref[p] \in Nat
        BY <1>1, <3>1, KVInvFacts
    <3>3. SumFunctionOnSet(Uses[p], out.held) = sum + Uses[p][r]
      <4>1. Weighted(Uses[p], Requests) /\ k.held \in SUBSET Requests /\ r \in Requests \ k.held
          BY <1>1, <3>1, Weights
      <4>2. SumFunctionOnSet(Uses[p], k.held \cup {r}) = SumFunctionOnSet(Uses[p], k.held) + Uses[p][r]
          BY <4>1, SumFacts
      <4>  QED  BY <1>12, <4>2
    <3>4. Uses[p][r] \in Nat /\ (Uses[p][r] > 0 <=> p \in keys)
        BY <1>3
    <3>  HIDE DEF sum
    <3>5. CASE p \in fresh
      <4>1. p \notin ToSet(k.order) /\ p \in keys /\ out.ref[p] = 1
          BY <1>6, <1>12, <3>5
      <4>2. sum = 0 /\ Uses[p][r] = 1
          BY <3>1, <3>2, <3>4, <3>5, <4>1
      <4>  QED  BY <1>14, <3>3, <3>5, <4>1, <4>2
    <3>6. CASE p \in known
      <4>1. out.ref[p] = k.ref[p] + Uses[p][r]
          BY <1>6, <1>7, <1>12, <3>6
      <4>  QED  BY <1>13, <1>14, <3>2, <3>3, <3>6, <4>1
    <3>7. CASE p \notin keys
      <4>1. out.ref[p] = k.ref[p] /\ reused.ref[p] = k.ref[p]
          BY <1>6, <1>7, <1>12, <3>7
      <4>2. Uses[p][r] = 0
          BY <3>4, <3>7
      <4>3. out.ref[p] = SumFunctionOnSet(Uses[p], out.held)
          BY <3>2, <3>3, <4>1, <4>2
      <4>4. out.ref[p] > 0 => p \in ToSet(roomy.order)
          BY <1>9, <3>2, <4>1
      <4>  QED  BY <1>14, <4>3, <4>4
    <3>  QED  BY <1>6, <3>5, <3>6, <3>7
  <2>  QED  BY <2>1, <2>2 DEF Balanced
<1>17. TightWhenOver(out)
  <2>1. Total(out) <= Total(roomy) + need /\ Total(out) \in Nat
    <3>1. IsFiniteSet(ToSet(roomy.order)) /\ Cardinality(ToSet(roomy.order)) = Len(roomy.order)
        BY <1>10, DistinctCardinality
    <3>2. Cardinality(ToSet(out.order)) = Len(out.order)
        BY <1>11, <1>12, DistinctCardinality
    <3>3. Cardinality(ToSet(roomy.order) \cup fresh) = Cardinality(ToSet(roomy.order)) + Cardinality(fresh) - Cardinality(ToSet(roomy.order) \cap fresh)
        BY <1>4, <3>1, FS_Union
    <3>4. Cardinality(ToSet(roomy.order) \cap fresh) = 0
        BY <1>14, FS_EmptySet
    <3>  DEFINE d == k.transient["decode"]
                f == k.transient["prefill"]
                x == Len(roomy.order)
                y == Len(out.order)
                w == Cardinality(fresh)
                D == DecodePages[r]
    <3>5. d \in Nat /\ f \in Nat /\ x \in Nat /\ y \in Nat /\ D \in Nat /\ w \in Nat /\ listed \in Nat /\ w <= listed
        BY <1>1, <1>3, <1>4, <1>10, <1>12, BooksFields
    <3>6. y = x + w
        BY <1>14, <3>1, <3>2, <3>3, <3>4, <3>5
    <3>7. need = listed + D
        BY DEF need
    <3>8. Total(roomy) = x + d + f
        BY <1>9 DEF Total
    <3>9. Total(out) = y + out.transient["decode"] + out.transient["prefill"]
        BY DEF Total
    <3>10. \/ out.transient["decode"] = d + D /\ out.transient["prefill"] = f
           \/ out.transient["decode"] = d /\ out.transient["prefill"] = f + D
        BY <1>1, <1>2, <1>12 DEF Lanes
    <3>  DEFINE dd == out.transient["decode"]
                ff == out.transient["prefill"]
    <3>11. Total(out) = y + dd + ff /\ ((dd = d + D /\ ff = f) \/ (dd = d /\ ff = f + D))
        BY <3>9, <3>10
    <3>  HIDE DEF d, f, x, y, w, D, dd, ff
    <3>  QED  BY <3>5, <3>6, <3>7, <3>8, <3>11
  <2>2. ASSUME Total(out) > MaxPages, NEW p \in ToSet(out.order) PROVE out.ref[p] > 0
    <3>1. CASE p \in fresh
        BY <1>6, <1>12, <3>1
    <3>2. CASE p \notin fresh
      <4>1. p \in ToSet(roomy.order) /\ p \in Pages
          BY <1>1, <1>9, <1>14, <3>2
      <4>2. ~(Total(roomy) + need <= MaxPages)
          BY <1>5, <1>9, <2>1, <2>2, KVAssumption
      <4>3. reused.ref[p] > 0
          BY <1>9, <4>1, <4>2
      <4>  QED  BY <1>12, <3>2, <4>1, <4>3
    <3>  QED  BY <3>1, <3>2
  <2>  QED  BY <2>2 DEF TightWhenOver
<1>18. KVInv(out) /\ out.held = k.held \cup {r}
    BY <1>12, <1>15, <1>16, <1>17 DEF KVInv
<1>  QED  BY <1>0, <1>18

\* A release keeps the books in order and lets go of its request.
LEMMA ReleaseFacts ==
    ASSUME NEW k, KVInv(k), NEW r \in Requests
    PROVE  KVInv(Release(k, r)) /\ Release(k, r).held = k.held \ {r}
<1>1. CASE r \notin k.held
  <2>1. Release(k, r) = k /\ k.held = k.held \ {r}
      BY <1>1 DEF Release
  <2>  QED  BY <2>1
<1>2. CASE r \in k.held
  <2>  DEFINE keys == ToSet(PageKeys[r]) \cap ToSet(k.order)
              mid  == [k EXCEPT !.ref   = [p \in Pages |-> IF p \in keys THEN Max({0, @[p] - Uses[p][r]}) ELSE @[p]],
                                !.order = Touch(@, keys),
                                !.transient[LaneOf[r]] = Max({0, @ - DecodePages[r]}),
                                !.held  = @ \ {r}]
              out  == EvictToFit(mid, 0)
  <2>0. out = Release(k, r)
      BY <1>2 DEF Release
  <2>1. /\ Ordered(k) /\ k \in Books /\ Distinct(k.order)
        /\ k.order \in Seq(Pages) /\ k.ref \in [Pages -> Nat] /\ k.lane \in [Pages -> Lanes]
        /\ k.transient \in [Lanes -> Nat] /\ k.held \in SUBSET Requests /\ k.twice \in SUBSET Pages
        /\ ToSet(k.order) \subseteq Pages /\ IsFiniteSet(ToSet(k.order))
      BY KVInvFacts
  <2>2. keys \subseteq Pages /\ keys \subseteq ToSet(k.order) /\ IsFiniteSet(keys) /\ LaneOf[r] \in Lanes
    <3>1. keys \in SUBSET ToSet(k.order)
        OBVIOUS
    <3>  QED  BY <2>1, <3>1, FS_Subset, KVAssumption
  <2>3. DecodePages[r] \in Nat /\ \A p \in Pages : Uses[p][r] \in Nat /\ (Uses[p][r] > 0 <=> p \in ToSet(PageKeys[r]))
      BY DecodeFacts, UsesFacts
  <2>4. /\ Touch(k.order, keys) \in Seq(Pages) /\ Distinct(Touch(k.order, keys))
        /\ ToSet(Touch(k.order, keys)) = ToSet(k.order)
    <3>1. ToSet(k.order) \cup keys = ToSet(k.order)
        BY <2>2
    <3>  HIDE DEF keys
    <3>  QED  BY <2>1, <2>2, <3>1, TouchFacts
  <2>5. ASSUME NEW p \in Pages
        PROVE  Max({0, k.ref[p] - Uses[p][r]}) = IF k.ref[p] >= Uses[p][r] THEN k.ref[p] - Uses[p][r] ELSE 0
    <3>1. k.ref[p] \in Nat /\ Uses[p][r] \in Nat
        BY <2>1, <2>3
    <3>  DEFINE d == k.ref[p] - Uses[p][r]
    <3>2. d \in Int /\ (0 >= d <=> k.ref[p] <= Uses[p][r])
        BY <3>1
    <3>3. Max({0, d}) = IF 0 >= d THEN 0 ELSE d
        BY <3>2, MaxOfTwo
    <3>  QED  BY <3>1, <3>2, <3>3
  <2>6. ASSUME NEW l \in Lanes
        PROVE  Max({0, k.transient[l] - DecodePages[r]})
                 = IF k.transient[l] >= DecodePages[r] THEN k.transient[l] - DecodePages[r] ELSE 0
    <3>1. k.transient[l] \in Nat /\ DecodePages[r] \in Nat
        BY <2>1, <2>3
    <3>  DEFINE d == k.transient[l] - DecodePages[r]
    <3>2. d \in Int /\ (0 >= d <=> k.transient[l] <= DecodePages[r])
        BY <3>1
    <3>3. Max({0, d}) = IF 0 >= d THEN 0 ELSE d
        BY <3>2, MaxOfTwo
    <3>  QED  BY <3>1, <3>2, <3>3
  <2>  DEFINE Less(p) == Max({0, k.ref[p] - Uses[p][r]})
              Spent   == Max({0, k.transient[LaneOf[r]] - DecodePages[r]})
  <2>7. (\A p \in Pages : Less(p) \in Nat) /\ Spent \in Nat
    <3>1. \A p \in Pages : k.ref[p] \in Nat /\ Uses[p][r] \in Nat
        BY <2>1, <2>3
    <3>2. k.transient[LaneOf[r]] \in Nat
        BY <2>1, <2>2
    <3>  QED  BY <2>2, <2>3, <2>5, <2>6, <3>1, <3>2
  <2>  HIDE DEF keys
  <2>8. /\ mid \in Books
        /\ mid.ref = [p \in Pages |-> IF p \in keys THEN Less(p) ELSE k.ref[p]]
        /\ mid.order = Touch(k.order, keys)
        /\ mid.transient = [k.transient EXCEPT ![LaneOf[r]] = Spent]
        /\ mid.held = k.held \ {r} /\ mid.twice = k.twice
    <3>  HIDE DEF Less, Spent
    <3>1. [p \in Pages |-> IF p \in keys THEN Less(p) ELSE k.ref[p]] \in [Pages -> Nat]
        BY <2>1, <2>7
    <3>2. [k.transient EXCEPT ![LaneOf[r]] = Spent] \in [Lanes -> Nat]
        BY <2>1, <2>2, <2>7
    <3>3. mid = [k EXCEPT !.ref = [p \in Pages |-> IF p \in keys THEN Less(p) ELSE k.ref[p]],
                          !.order = Touch(k.order, keys),
                          !.transient = [k.transient EXCEPT ![LaneOf[r]] = Spent],
                          !.held = k.held \ {r}]
        BY DEF Less, Spent
    <3>4. k.held \ {r} \in SUBSET Requests
        BY <2>1
    <3>  HIDE DEF mid
    <3>  QED  BY <2>1, <2>4, <3>1, <3>2, <3>3, <3>4 DEF Books
  <2>9. Ordered(mid)
      BY <2>4, <2>8 DEF Ordered
  <2>  HIDE DEF mid, Less, Spent
  <2>10. /\ Ordered(out) /\ out.ref = mid.ref /\ out.transient = mid.transient
         /\ out.held = mid.held /\ out.twice = mid.twice
         /\ ToSet(out.order) \subseteq ToSet(mid.order)
         /\ \A p \in ToSet(mid.order) : mid.ref[p] > 0 => p \in ToSet(out.order)
         /\ Total(out) \in Nat
         /\ Total(out) + 0 <= MaxPages \/ \A p \in ToSet(out.order) : mid.ref[p] > 0
      BY <2>9, EvictFacts
  <2>  HIDE DEF out
  <2>11. BooksTypeOK(out)
      BY <2>10, OrderedIsTyped
  <2>12. ASSUME NEW l \in Lanes
         PROVE  out.transient[l] = SumFunctionOnSet(DecodePages, {q \in out.held : LaneOf[q] = l})
    <3>  DEFINE H == {q \in k.held : LaneOf[q] = l}
    <3>1. H \in SUBSET Requests
        BY <2>1
    <3>2. k.transient[l] = SumFunctionOnSet(DecodePages, H)
        BY KVInvFacts
    <3>4. CASE l = LaneOf[r]
      <4>0. r \in H
          BY <1>2, <3>4
      <4>1. {q \in out.held : LaneOf[q] = l} = H \ {r}
          BY <2>8, <2>10, <3>4
      <4>2. out.transient[l] = Spent
          BY <2>1, <2>8, <2>10, <3>4
      <4>3. /\ SumFunctionOnSet(DecodePages, H \ {r}) \in Nat
            /\ SumFunctionOnSet(DecodePages, H) = SumFunctionOnSet(DecodePages, H \ {r}) + DecodePages[r]
          BY <3>1, <4>0, Weights, SumRemove
      <4>  DEFINE z == SumFunctionOnSet(DecodePages, H \ {r})
      <4>4. Spent = IF k.transient[l] >= DecodePages[r] THEN k.transient[l] - DecodePages[r] ELSE 0
          BY <2>6, <3>4 DEF Spent
      <4>5. z \in Nat /\ k.transient[l] = z + DecodePages[r]
          BY <3>2, <4>3
      <4>  HIDE DEF z
      <4>6. Spent = z
          BY <2>3, <4>4, <4>5
      <4>  QED  BY <4>1, <4>2, <4>6 DEF z
    <3>5. CASE l # LaneOf[r]
      <4>1. {q \in out.held : LaneOf[q] = l} = H
          BY <2>8, <2>10, <3>5
      <4>2. out.transient[l] = k.transient[l]
          BY <2>1, <2>8, <2>10, <3>5
      <4>  QED  BY <3>2, <4>1, <4>2
    <3>  QED  BY <3>4, <3>5
  <2>13. ASSUME NEW p \in Pages \ out.twice
         PROVE  /\ out.ref[p] = SumFunctionOnSet(Uses[p], out.held)
                /\ out.ref[p] > 0 => p \in ToSet(out.order)
    <3>  DEFINE z == SumFunctionOnSet(Uses[p], out.held)
                u == Uses[p][r]
    <3>1. p \in Pages \ k.twice
        BY <2>8, <2>10
    <3>2. /\ k.ref[p] = SumFunctionOnSet(Uses[p], k.held)
          /\ k.ref[p] > 0 => p \in ToSet(k.order)
          /\ k.ref[p] \in Nat
        BY <2>1, <3>1, KVInvFacts
    <3>3. Weighted(Uses[p], Requests) /\ out.held = k.held \ {r}
        BY <2>8, <2>10, <3>1, Weights
    <3>4. z \in Nat /\ k.ref[p] = z + u
      <4>  DEFINE f == Uses[p]
                  A == k.held
      <4>1. Weighted(f, Requests) /\ A \in SUBSET Requests /\ r \in A
          BY <1>2, <2>1, <3>3
      <4>  HIDE DEF f, A
      <4>2. /\ SumFunctionOnSet(f, A \ {r}) \in Nat
            /\ SumFunctionOnSet(f, A) = SumFunctionOnSet(f, A \ {r}) + f[r]
          BY <4>1, SumRemove
      <4>  QED  BY <3>2, <3>3, <4>2 DEF f, A
    <3>5. u \in Nat /\ (u > 0 <=> p \in ToSet(PageKeys[r]))
        BY <2>3
    <3>6. Less(p) = IF k.ref[p] >= u THEN k.ref[p] - u ELSE 0
        BY <2>5 DEF Less
    <3>  HIDE DEF z, u
    <3>7. Less(p) = z
        BY <3>4, <3>5, <3>6
    <3>8. out.ref[p] = IF p \in keys THEN Less(p) ELSE k.ref[p]
        BY <2>8, <2>10
    <3>9. p \notin keys => k.ref[p] = z
      <4>  SUFFICES ASSUME p \notin keys PROVE k.ref[p] = z
          OBVIOUS
      <4>1. u = 0
        <5>  SUFFICES ASSUME u > 0 PROVE FALSE
            BY <3>5
        <5>1. k.ref[p] > 0
            BY <3>4, <3>5
        <5>  QED  BY <3>2, <3>5, <5>1 DEF keys
      <4>  QED  BY <3>4, <4>1
    <3>10. out.ref[p] = z
        BY <3>7, <3>8, <3>9
    <3>11. out.ref[p] > 0 => p \in ToSet(k.order)
        BY <3>2, <3>4, <3>5, <3>10
    <3>12. out.ref[p] > 0 => p \in ToSet(out.order)
        BY <2>4, <2>8, <2>10, <3>11
    <3>  QED  BY <3>10, <3>12 DEF z
  <2>14. Balanced(out)
      BY <2>12, <2>13 DEF Balanced
  <2>15. TightWhenOver(out)
    <3>1. Total(out) > MaxPages => ~(Total(out) + 0 <= MaxPages)
        BY <2>10, KVAssumption
    <3>  QED  BY <2>10, <3>1 DEF TightWhenOver
  <2>16. KVInv(out) /\ out.held = k.held \ {r}
      BY <2>8, <2>10, <2>11, <2>14, <2>15 DEF KVInv
  <2>  QED  BY <2>0, <2>16
<1>  QED  BY <1>1, <1>2

\* Unregistering a model keeps the books in order and lets go of its requests.
LEMMA UnregisterFacts ==
    ASSUME NEW k, KVInv(k), NEW m
    PROVE  /\ KVInv(UnregisterModel(k, m))
           /\ UnregisterModel(k, m).held = {r \in k.held : ModelOf[r] # m}
<1>  DEFINE gone  == {r \in k.held : ModelOf[r] = m}
            kept  == {r \in k.held : ModelOf[r] # m}
            In(S, l) == {r \in S : LaneOf[r] = l}
            Of(l) == SumFunctionOnSet(DecodePages, In(gone, l))
            Less(l) == Max({0, k.transient[l] - Of(l)})
            stay  == {p \in Pages : p[1] # m}
            out   == [k EXCEPT !.order = Filter(@, stay),
                               !.ref   = [p \in Pages |-> IF p[1] = m THEN 0 ELSE @[p]],
                               !.transient = [l \in Lanes |-> Max({0, @[l] - Of(l)})],
                               !.held  = @ \ gone,
                               !.twice = {p \in @ : p[1] # m}]
<1>0. out = UnregisterModel(k, m)
    BY DEF UnregisterModel
<1>1. /\ Ordered(k) /\ k \in Books /\ Distinct(k.order)
      /\ k.order \in Seq(Pages) /\ k.ref \in [Pages -> Nat] /\ k.lane \in [Pages -> Lanes]
      /\ k.transient \in [Lanes -> Nat] /\ k.held \in SUBSET Requests /\ k.twice \in SUBSET Pages
      /\ ToSet(k.order) \subseteq Pages /\ Len(k.order) \in Nat
    BY KVInvFacts
<1>2. ASSUME NEW l \in Lanes
      PROVE  /\ SumFunctionOnSet(DecodePages, In(kept, l)) = Less(l)
             /\ Less(l) \in Nat /\ Less(l) <= k.transient[l] /\ k.transient[l] \in Nat
  <2>1. /\ In(gone, l) \in SUBSET Requests /\ In(kept, l) \in SUBSET Requests
        /\ In(kept, l) \cap In(gone, l) = {} /\ In(k.held, l) = In(kept, l) \cup In(gone, l)
      BY <1>1
  <2>2. k.transient[l] = SumFunctionOnSet(DecodePages, In(k.held, l)) /\ k.transient[l] \in Nat
      BY <1>1, KVInvFacts
  <2>  DEFINE a == SumFunctionOnSet(DecodePages, In(kept, l))
              b == SumFunctionOnSet(DecodePages, In(gone, l))
              t == k.transient[l]
  <2>  HIDE DEF In
  <2>3. a \in Nat /\ b \in Nat
      BY <2>1, Weights, SumFacts
  <2>4. t = a + b
      BY <2>1, <2>2, Weights, SumDisjoint
  <2>5. Less(l) = Max({0, t - b})
      BY DEF In
  <2>  HIDE DEF a, b, t, Less
  <2>6. t - b \in Int /\ t - b = a
      BY <2>3, <2>4
  <2>7. Less(l) = a
      BY <2>3, <2>5, <2>6, MaxOfTwo
  <2>8. a <= t
      BY <2>3, <2>4
  <2>  QED  BY <2>2, <2>3, <2>7, <2>8 DEF a, t
<1>3. /\ Filter(k.order, stay) \in Seq(Pages) /\ Distinct(Filter(k.order, stay))
      /\ ToSet(Filter(k.order, stay)) = ToSet(k.order) \cap stay
      /\ Len(Filter(k.order, stay)) \in Nat /\ Len(Filter(k.order, stay)) <= Len(k.order)
    BY <1>1, FilterLength, FilterRange, FilterDistinct
<1>  HIDE DEF Less
<1>4. /\ out \in Books
      /\ out.order = Filter(k.order, stay)
      /\ out.ref = [p \in Pages |-> IF p[1] = m THEN 0 ELSE k.ref[p]]
      /\ out.transient = [l \in Lanes |-> Less(l)]
      /\ out.held = kept /\ out.twice = {p \in k.twice : p[1] # m}
  <2>1. [p \in Pages |-> IF p[1] = m THEN 0 ELSE k.ref[p]] \in [Pages -> Nat]
      BY <1>1
  <2>2. [l \in Lanes |-> Less(l)] \in [Lanes -> Nat]
      BY <1>2
  <2>3. k.held \ gone = kept /\ kept \in SUBSET Requests /\ {p \in k.twice : p[1] # m} \in SUBSET Pages
      BY <1>1
  <2>  DEFINE ord == Filter(k.order, stay)
              rf == [p \in Pages |-> IF p[1] = m THEN 0 ELSE k.ref[p]]
              tr == [l \in Lanes |-> Less(l)]
              tw == {p \in k.twice : p[1] # m}
  <2>4. out = [k EXCEPT !.order = ord, !.ref = rf, !.transient = tr, !.held = k.held \ gone, !.twice = tw]
      BY DEF Less
  <2>5. ord \in Seq(Pages) /\ rf \in [Pages -> Nat] /\ tr \in [Lanes -> Nat] /\ tw \in SUBSET Pages
      BY <1>3, <2>1, <2>2, <2>3
  <2>  HIDE DEF out, ord, rf, tr, tw, gone, kept
  <2>6. /\ out \in Books /\ out.order = ord /\ out.ref = rf /\ out.transient = tr /\ out.held = kept /\ out.twice = tw
      BY <1>1, <2>3, <2>4, <2>5 DEF Books
  <2>  QED  BY <2>6 DEF ord, rf, tr, tw
<1>  HIDE DEF out
<1>5. BooksTypeOK(out)
    BY <1>3, <1>4, OrderedIsTyped DEF Ordered
<1>6. ASSUME NEW p \in Pages \ out.twice
      PROVE  /\ out.ref[p] = SumFunctionOnSet(Uses[p], out.held)
             /\ out.ref[p] > 0 => p \in ToSet(out.order)
  <2>1. Weighted(Uses[p], Requests) /\ kept \in SUBSET Requests /\ gone \in SUBSET Requests
      BY <1>1, Weights
  <2>2. ASSUME NEW r \in Requests, p[1] # ModelOf[r] PROVE Uses[p][r] = 0
    <3>1. p \notin ToSet(PageKeys[r])
        BY <2>2, PageKeysFacts
    <3>  QED  BY <3>1, UsesFacts
  <2>3. CASE p[1] = m
    <3>1. \A r \in kept : Uses[p][r] = 0
        BY <2>1, <2>2, <2>3
    <3>2. SumFunctionOnSet(Uses[p], kept) = 0
        BY <2>1, <3>1, SumZero
    <3>3. out.ref[p] = 0
        BY <1>4, <2>3
    <3>  QED  BY <1>4, <3>2, <3>3
  <2>4. CASE p[1] # m
    <3>1. \A r \in gone : Uses[p][r] = 0
        BY <2>1, <2>2, <2>4
    <3>2. SumFunctionOnSet(Uses[p], gone) = 0
        BY <2>1, <3>1, SumZero
    <3>3. kept \cap gone = {} /\ kept \cup gone = k.held
        OBVIOUS
    <3>4. SumFunctionOnSet(Uses[p], kept) \in Nat
        BY <2>1, SumFacts
    <3>5. SumFunctionOnSet(Uses[p], k.held) = SumFunctionOnSet(Uses[p], kept) + SumFunctionOnSet(Uses[p], gone)
        BY <2>1, <3>3, SumDisjoint
    <3>  DEFINE a == SumFunctionOnSet(Uses[p], kept)
                b == SumFunctionOnSet(Uses[p], gone)
    <3>6. SumFunctionOnSet(Uses[p], k.held) = a + b /\ a \in Nat /\ b = 0
        BY <3>2, <3>4, <3>5
    <3>7. p \in Pages \ k.twice
        BY <1>4, <2>4
    <3>8. k.ref[p] = SumFunctionOnSet(Uses[p], k.held) /\ (k.ref[p] > 0 => p \in ToSet(k.order))
        BY <3>7, KVInvFacts
    <3>9. out.ref[p] = k.ref[p]
        BY <1>4, <2>4
    <3>  HIDE DEF a, b
    <3>10. out.ref[p] = a
        BY <3>6, <3>8, <3>9
    <3>11. out.ref[p] > 0 => p \in ToSet(out.order)
        BY <1>3, <1>4, <2>4, <3>8, <3>9
    <3>  QED  BY <1>4, <3>10, <3>11 DEF a
  <2>  QED  BY <2>3, <2>4
<1>7. Balanced(out)
  <2>1. \A l \in Lanes : out.transient[l] = SumFunctionOnSet(DecodePages, {r \in out.held : LaneOf[r] = l})
      BY <1>2, <1>4
  <2>  QED  BY <1>6, <2>1 DEF Balanced
<1>8. TightWhenOver(out)
  <2>1. Total(out) <= Total(k) /\ Total(out) \in Nat /\ Total(k) \in Nat
    <3>1. "decode" \in Lanes /\ "prefill" \in Lanes
        BY DEF Lanes
    <3>  DEFINE d == k.transient["decode"]
                f == k.transient["prefill"]
                dd == out.transient["decode"]
                ff == out.transient["prefill"]
                x == Len(k.order)
                y == Len(out.order)
    <3>2. dd = Less("decode") /\ ff = Less("prefill")
        BY <1>4, <3>1
    <3>3. d \in Nat /\ f \in Nat /\ dd \in Nat /\ ff \in Nat /\ dd <= d /\ ff <= f
        BY <1>2, <3>1, <3>2
    <3>4. x \in Nat /\ y \in Nat /\ y <= x
        BY <1>1, <1>3, <1>4
    <3>5. Total(k) = x + d + f /\ Total(out) = y + dd + ff
        BY DEF Total
    <3>  HIDE DEF d, f, dd, ff, x, y
    <3>  QED  BY <3>3, <3>4, <3>5
  <2>2. ASSUME Total(out) > MaxPages, NEW p \in ToSet(out.order) PROVE out.ref[p] > 0
    <3>1. Total(k) > MaxPages
        BY <2>1, <2>2, KVAssumption
    <3>2. p \in ToSet(k.order) /\ p \in Pages /\ p[1] # m
        BY <1>3, <1>4, <2>2
    <3>3. k.ref[p] > 0
        BY <3>1, <3>2, KVInvFacts
    <3>  QED  BY <1>4, <3>2, <3>3
  <2>  QED  BY <2>2 DEF TightWhenOver
<1>9. KVInv(out) /\ out.held = kept
    BY <1>4, <1>5, <1>7, <1>8 DEF KVInv
<1>  QED  BY <1>0, <1>9

-----------------------------------------------------------------------------
(* A batch of reservations, or of releases, one after the other.           *)

Move(way, k, r) == IF way = "reserve" THEN Reserve(k, r) ELSE Release(k, r)

MovedAt(way, k, s, books, i) == IF i = 0 THEN k ELSE Move(way, books[i - 1], s[i])

\* The first n values of the recursion.
Moves(way, k, s, books, n) == books = [i \in 0..n |-> MovedAt(way, k, s, books, i)]

LEMMA MovesOneMore ==
    ASSUME NEW way, NEW k, NEW s, NEW n \in Nat, NEW books, Moves(way, k, s, books, n)
    PROVE  \E more : Moves(way, k, s, more, n + 1)
<1>  DEFINE last == Move(way, books[n], s[n + 1])
            more == [i \in 0..(n + 1) |-> IF i <= n THEN books[i] ELSE last]
<1>1. ASSUME NEW i \in 0..(n + 1) PROVE more[i] = MovedAt(way, k, s, more, i)
  <2>1. CASE i <= n
    <3>1. i \in 0..n
        BY <2>1
    <3>2. more[i] = books[i] /\ books[i] = MovedAt(way, k, s, books, i)
        BY <3>1 DEF Moves
    <3>3. i = 0 \/ more[i - 1] = books[i - 1]
        BY <3>1
    <3>  HIDE DEF more
    <3>  QED  BY <3>2, <3>3 DEF MovedAt
  <2>2. CASE i = n + 1
    <3>1. more[i] = last /\ more[i - 1] = books[n] /\ i # 0
        BY <2>2
    <3>  HIDE DEF more
    <3>  QED  BY <2>2, <3>1 DEF MovedAt
  <2>  QED  BY <2>1, <2>2
<1>2. more = [i \in 0..(n + 1) |-> more[i]]
    OBVIOUS
<1>  HIDE DEF more
<1>3. Moves(way, k, s, more, n + 1)
    BY <1>1, <1>2 DEF Moves
<1>  QED  BY <1>3

LEMMA MovesExist ==
    ASSUME NEW way, NEW k, NEW s, NEW n \in Nat
    PROVE  \E books : Moves(way, k, s, books, n)
<1>  DEFINE T == {m \in Nat : \E books : Moves(way, k, s, books, m)}
<1>1. 0 \in T
  <2>  DEFINE books == [i \in 0..0 |-> k]
  <2>1. Moves(way, k, s, books, 0)
      BY DEF Moves, MovedAt
  <2>  QED  BY <2>1
<1>2. \A m \in Nat : m \in T => m + 1 \in T
    BY MovesOneMore
<1>3. Nat \subseteq T
  <2>  HIDE DEF T
  <2>  QED  BY <1>1, <1>2, SetInduction
<1>  QED  BY <1>3

\* What the books are, and who is held, after n of them.
HeldAfter(way, k, s, books, n) ==
    /\ KVInv(books[n])
    /\ books[n].held = IF way = "reserve" THEN k.held \cup ToSet(SubSeq(s, 1, n)) ELSE k.held \ ToSet(SubSeq(s, 1, n))

LEMMA PrefixRange ==
    ASSUME NEW S, NEW s \in Seq(S), NEW n \in Nat, n + 1 <= Len(s)
    PROVE  /\ ToSet(SubSeq(s, 1, n + 1)) = ToSet(SubSeq(s, 1, n)) \cup {s[n + 1]}
           /\ s[n + 1] \in S
           /\ Distinct(s) => s[n + 1] \notin ToSet(SubSeq(s, 1, n))
<1>1. Len(s) \in Nat /\ s[n + 1] \in S
    BY LenProperties, ElementOfSeq
<1>2. \A m \in 0..Len(s) : ToSet(SubSeq(s, 1, m)) = {s[i] : i \in 1..m}
  <2>  SUFFICES ASSUME NEW m \in 0..Len(s) PROVE ToSet(SubSeq(s, 1, m)) = {s[i] : i \in 1..m}
      OBVIOUS
  <2>  DEFINE t == SubSeq(s, 1, m)
  <2>1. Len(t) = m /\ t \in Seq(S)
      BY <1>1, Cut
  <2>2. \A i \in 1..m : t[i] = s[i]
      BY <1>1, SubSeqProperties
  <2>3. DOMAIN t = 1..m
      BY <2>1, LenProperties
  <2>  HIDE DEF t
  <2>4. ToSet(t) = {s[i] : i \in 1..m}
      BY <2>2, <2>3 DEF ToSet
  <2>  QED  BY <2>4 DEF t
<1>3. n \in 0..Len(s) /\ n + 1 \in 0..Len(s) /\ 1..(n + 1) = 1..n \cup {n + 1}
    BY <1>1
<1>4. {s[i] : i \in 1..(n + 1)} = {s[i] : i \in 1..n} \cup {s[n + 1]}
    BY <1>3
<1>5. Distinct(s) => \A i \in 1..n : s[i] # s[n + 1]
    BY <1>1, <1>3 DEF Distinct
<1>  QED  BY <1>1, <1>2, <1>3, <1>4, <1>5

LEMMA MovesFacts ==
    ASSUME NEW way \in {"reserve", "release"}, NEW k, KVInv(k), NEW s \in Seq(Requests), Distinct(s),
           way = "reserve" => ToSet(s) \cap k.held = {},
           NEW books, Moves(way, k, s, books, Len(s))
    PROVE  HeldAfter(way, k, s, books, Len(s))
<1>0. Len(s) \in Nat
    BY LenProperties
<1>  DEFINE T == {n \in Nat : n <= Len(s) => HeldAfter(way, k, s, books, n)}
<1>1. 0 \in T
  <2>1. books[0] = k
      BY <1>0 DEF Moves, MovedAt
  <2>2. SubSeq(s, 1, 0) = <<>> /\ ToSet(<<>>) = {}
      BY SubSeqProperties, EmptySeq DEF ToSet
  <2>3. ToSet(SubSeq(s, 1, 0)) = {}
      BY <2>2
  <2>4. k.held \cup {} = k.held /\ k.held \ {} = k.held
      OBVIOUS
  <2>5. HeldAfter(way, k, s, books, 0)
      BY <2>1, <2>3, <2>4 DEF HeldAfter
  <2>  QED  BY <2>5
<1>2. ASSUME NEW n \in Nat, n \in T PROVE n + 1 \in T
  <2>  SUFFICES ASSUME n + 1 <= Len(s) PROVE HeldAfter(way, k, s, books, n + 1)
      OBVIOUS
  <2>1. HeldAfter(way, k, s, books, n)
      BY <1>0, <1>2
  <2>2. books[n + 1] = Move(way, books[n], s[n + 1])
    <3>1. n + 1 \in 0..Len(s) /\ n + 1 # 0 /\ (n + 1) - 1 = n
        BY <1>0
    <3>2. books[n + 1] = MovedAt(way, k, s, books, n + 1)
        BY <3>1 DEF Moves
    <3>  QED  BY <3>1, <3>2 DEF MovedAt
  <2>  DEFINE done == ToSet(SubSeq(s, 1, n))
              next == ToSet(SubSeq(s, 1, n + 1))
              x    == s[n + 1]
  <2>3. next = done \cup {x} /\ x \in Requests /\ x \notin done
      BY PrefixRange
  <2>4. x \in ToSet(s)
      BY <1>0, LenProperties DEF ToSet
  <2>5. KVInv(books[n])
      BY <2>1 DEF HeldAfter
  <2>6. CASE way = "reserve"
    <3>1. books[n].held = k.held \cup done
        BY <2>1, <2>6 DEF HeldAfter
    <3>2. books[n + 1] = Reserve(books[n], x)
        BY <2>2, <2>6 DEF Move
    <3>  HIDE DEF done, next, x
    <3>3. x \notin books[n].held
        BY <2>3, <2>4, <2>6, <3>1
    <3>4. KVInv(books[n + 1]) /\ books[n + 1].held = books[n].held \cup {x}
        BY <2>3, <2>5, <3>2, <3>3, ReserveFacts
    <3>5. books[n + 1].held = k.held \cup next
        BY <2>3, <3>1, <3>4
    <3>  QED  BY <2>6, <3>4, <3>5 DEF HeldAfter, next
  <2>7. CASE way # "reserve"
    <3>1. books[n].held = k.held \ done
        BY <2>1, <2>7 DEF HeldAfter
    <3>2. books[n + 1] = Release(books[n], x)
        BY <2>2, <2>7 DEF Move
    <3>  HIDE DEF done, next, x
    <3>4. KVInv(books[n + 1]) /\ books[n + 1].held = books[n].held \ {x}
        BY <2>3, <2>5, <3>2, ReleaseFacts
    <3>5. books[n + 1].held = k.held \ next
        BY <2>3, <3>1, <3>4
    <3>  QED  BY <2>7, <3>4, <3>5 DEF HeldAfter, next
  <2>  QED  BY <2>6, <2>7
<1>3. Nat \subseteq T
  <2>  HIDE DEF T
  <2>  QED  BY <1>1, <1>2, SetInduction
<1>  QED  BY <1>0, <1>3

LEMMA WholeSeq ==
    ASSUME NEW S, NEW s \in Seq(S)
    PROVE  ToSet(SubSeq(s, 1, Len(s))) = ToSet(s)
<1>1. Len(s) \in Nat /\ Len(s) \in 0..Len(s)
    BY LenProperties
<1>2. SubSeq(s, Len(s) + 1, Len(s)) = <<>>
    BY <1>1, SubSeqProperties, EmptySeq
<1>3. ToSet(SubSeq(s, Len(s) + 1, Len(s))) = {}
  <2>1. ToSet(<<>>) = {}
      BY DEF ToSet
  <2>  QED  BY <1>2, <2>1
<1>4. ToSet(s) = ToSet(SubSeq(s, 1, Len(s))) \cup ToSet(SubSeq(s, Len(s) + 1, Len(s)))
    BY <1>1, Cut
<1>  QED  BY <1>3, <1>4

\* All of a batch is reserved.
LEMMA ReserveAllFacts ==
    ASSUME NEW k, KVInv(k), NEW s \in Seq(Requests), Distinct(s), ToSet(s) \cap k.held = {}
    PROVE  KVInv(ReserveAll(k, s)) /\ ReserveAll(k, s).held = k.held \cup ToSet(s)
<1>  DEFINE F == CHOOSE books : books = [n \in 0..Len(s) |-> IF n = 0 THEN k ELSE Reserve(books[n - 1], s[n])]
<1>1. PICK g : Moves("reserve", k, s, g, Len(s))
    BY MovesExist, LenProperties
<1>2. g = [n \in 0..Len(s) |-> IF n = 0 THEN k ELSE Reserve(g[n - 1], s[n])]
    BY <1>1 DEF Moves, MovedAt, Move
<1>3. F = [n \in 0..Len(s) |-> IF n = 0 THEN k ELSE Reserve(F[n - 1], s[n])]
    BY <1>2
<1>4. ReserveAll(k, s) = F[Len(s)]
    BY DEF ReserveAll
<1>  HIDE DEF F
<1>5. Moves("reserve", k, s, F, Len(s))
    BY <1>3 DEF Moves, MovedAt, Move
<1>6. HeldAfter("reserve", k, s, F, Len(s))
    BY <1>5, MovesFacts
<1>7. KVInv(F[Len(s)]) /\ F[Len(s)].held = k.held \cup ToSet(SubSeq(s, 1, Len(s)))
    BY <1>6 DEF HeldAfter
<1>  QED  BY <1>4, <1>7, WholeSeq

\* All of a batch is released.
LEMMA ReleaseAllFacts ==
    ASSUME NEW k, KVInv(k), NEW S \in SUBSET Requests
    PROVE  KVInv(ReleaseAll(k, S)) /\ ReleaseAll(k, S).held = k.held \ S
<1>  DEFINE s == SetToSeq(S)
            F == CHOOSE books : books = [n \in 0..Len(s) |-> IF n = 0 THEN k ELSE Release(books[n - 1], s[n])]
<1>0. IsFiniteSet(S)
    BY KVAssumption, FS_Subset
<1>1. s \in Seq(S) /\ ToSet(s) = S /\ Distinct(s) /\ s \in Seq(Requests)
    BY <1>0, SetToSeqFacts, SeqMonotonic
<1>4. ReleaseAll(k, S) = F[Len(s)]
    BY DEF ReleaseAll
<1>  HIDE DEF s
<1>5. PICK g : Moves("release", k, s, g, Len(s))
    BY <1>1, MovesExist, LenProperties
<1>2. g = [n \in 0..Len(s) |-> IF n = 0 THEN k ELSE Release(g[n - 1], s[n])]
    BY <1>5 DEF Moves, MovedAt, Move
<1>3. F = [n \in 0..Len(s) |-> IF n = 0 THEN k ELSE Release(F[n - 1], s[n])]
    BY <1>2
<1>  HIDE DEF F
<1>6. Moves("release", k, s, F, Len(s))
    BY <1>3 DEF Moves, MovedAt, Move
<1>7. HeldAfter("release", k, s, F, Len(s))
    BY <1>1, <1>6, MovesFacts
<1>8. KVInv(F[Len(s)]) /\ F[Len(s)].held = k.held \ ToSet(SubSeq(s, 1, Len(s)))
    BY <1>7 DEF HeldAfter
<1>9. ToSet(SubSeq(s, 1, Len(s))) = S
    BY <1>1, WholeSeq
<1>  QED  BY <1>4, <1>8, <1>9

-----------------------------------------------------------------------------
(* What a controller takes off its queue.                                  *)

LEMMA MaxInside ==
    ASSUME NEW n \in Nat, NEW T \in SUBSET (0..n), 0 \in T
    PROVE  Max(T) \in T
<1>  DEFINE D == {n - t : t \in T}
<1>1. D \subseteq Nat /\ D # {}
    OBVIOUS
<1>2. PICK d \in D : \A e \in D : d <= e
    BY <1>1, LeastNatural
<1>3. PICK x \in T : d = n - x
    OBVIOUS
<1>4. \A y \in T : x >= y
  <2>  SUFFICES ASSUME NEW y \in T PROVE x >= y
      OBVIOUS
  <2>1. x \in Nat /\ y \in Nat /\ n - y \in D
      OBVIOUS
  <2>2. n - x <= n - y
      BY <1>2, <1>3, <2>1
  <2>  QED  BY <2>1, <2>2
<1>  QED  BY <1>4 DEF Max

LEMMA PickFacts ==
    ASSUME NEW c, pending[c] \in Seq(Requests), Distinct(pending[c]),
           active[c] \in SUBSET Requests, Cardinality(active[c]) <= MaxBatch
    PROVE  /\ Picked(c) \in Seq(Requests) /\ Distinct(Picked(c))
           /\ Unpicked(c) \in Seq(Requests) /\ Distinct(Unpicked(c))
           /\ ToSet(Picked(c)) \subseteq ToSet(pending[c]) /\ ToSet(Unpicked(c)) \subseteq ToSet(pending[c])
           /\ ToSet(Picked(c)) \cap ToSet(Unpicked(c)) = {}
           /\ ToSet(Picked(c)) \subseteq Requests
           /\ \A r \in ToSet(pending[c]) : Live(r) => r \in ToSet(Picked(c)) \cup ToSet(Unpicked(c))
           /\ Cardinality(active[c] \cup ToSet(Picked(c))) <= MaxBatch
<1>  DEFINE s == pending[c]
            L == {r \in Requests : Live(r)}
            First(n) == {i \in 1 .. n : s[i] \in L}
            T == {n \in 0 .. Len(s) : n = 0 \/ Cardinality(First(n - 1)) < Capacity(c)}
            t == Taken(c)
            a == SubSeq(s, 1, t)
            b == SubSeq(s, t + 1, Len(s))
            p == Filter(a, L)
<1>0. /\ Len(s) \in Nat /\ DOMAIN s = 1..Len(s) /\ \A i \in 1..Len(s) : s[i] \in Requests
    BY LenProperties, ElementOfSeq
<1>1. t = Max(T)
  <2>1. \A n \in 0..Len(s) : {i \in 1 .. n - 1 : Live(s[i])} = First(n - 1)
      BY <1>0
  <2>2. T = {n \in 0 .. Len(s) : n = 0 \/ Cardinality({i \in 1 .. n - 1 : Live(s[i])}) < Capacity(c)}
      BY <2>1
  <2>  HIDE DEF T
  <2>  QED  BY <2>2 DEF Taken
<1>2. t \in 0..Len(s) /\ (t = 0 \/ Cardinality(First(t - 1)) < Capacity(c))
  <2>1. T \in SUBSET (0..Len(s)) /\ 0 \in T
      BY <1>0
  <2>2. Max(T) \in T
    <3>  HIDE DEF T
    <3>  QED  BY <1>0, <2>1, MaxInside
  <2>  QED  BY <1>1, <2>2
<1>3. Picked(c) = p /\ Unpicked(c) = b
    BY DEF Picked, Unpicked
<1>  HIDE DEF t, T
<1>4. /\ a \in Seq(Requests) /\ b \in Seq(Requests) /\ Len(a) = t
      /\ ToSet(s) = ToSet(a) \cup ToSet(b) /\ ToSet(a) \cap ToSet(b) = {} /\ Distinct(b)
    BY <1>2, Cut
<1>5. Distinct(a) /\ \A i \in 1..t : a[i] = s[i]
  <2>1. \A i \in 1..t : a[i] = s[i]
      BY <1>0, <1>2, SubSeqProperties
  <2>  HIDE DEF a
  <2>  QED  BY <1>0, <1>2, <1>4, <2>1 DEF Distinct
<1>6. ToSet(s) \subseteq Requests
    BY <1>0 DEF ToSet
<1>  HIDE DEF a, b, L
<1>7. p \in Seq(Requests) /\ Distinct(p) /\ ToSet(p) = ToSet(a) \cap L
    BY <1>4, <1>5, FilterLength, FilterRange, FilterDistinct
<1>8. Cardinality(active[c] \cup ToSet(p)) <= MaxBatch
  <2>1. IsFiniteSet(active[c]) /\ Cardinality(active[c]) \in Nat /\ MaxBatch \in Nat
    <3>1. IsFiniteSet(active[c])
        BY KVAssumption, FS_Subset
    <3>  QED  BY <3>1, FS_CardinalityType, TextAssumption
  <2>2. IsFiniteSet(ToSet(p)) /\ Cardinality(ToSet(p)) \in Nat
    <3>1. IsFiniteSet(ToSet(p))
        BY <1>7, DistinctCardinality
    <3>  QED  BY <3>1, FS_CardinalityType
  <2>3. Cardinality(ToSet(p)) <= Capacity(c) \/ ToSet(p) = {}
    <3>1. CASE t = 0
      <4>1. a = <<>>
          BY <1>4, <3>1, EmptySeq
      <4>2. ToSet(a) = {}
        <5>1. ToSet(<<>>) = {}
            BY DEF ToSet
        <5>  QED  BY <4>1, <5>1
      <4>  QED  BY <1>7, <4>2
    <3>2. CASE t # 0
      <4>  DEFINE f == [i \in First(t) |-> s[i]]
      <4>0. t \in Nat /\ t - 1 \in Nat /\ t <= Len(s)
          BY <1>0, <1>2, <3>2
      <4>1. IsFiniteSet(First(t)) /\ IsFiniteSet(First(t - 1))
        <5>0. 1 \in Int /\ t \in Int
            BY <4>0
        <5>1. IsFiniteSet(1..t)
            BY <5>0, FS_Interval
        <5>2. First(t) \in SUBSET (1..t) /\ First(t - 1) \in SUBSET (1..t)
            BY <4>0
        <5>  QED  BY <5>1, <5>2, FS_Subset
      <4>2. f \in Surjection(First(t), ToSet(p))
        <5>1. DOMAIN a = 1..t
            BY <1>4, LenProperties
        <5>2. ToSet(p) = {s[i] : i \in First(t)}
          <6>1. ToSet(a) = {a[i] : i \in 1..t}
              BY <5>1 DEF ToSet
          <6>  QED  BY <1>5, <1>7, <6>1
        <5>  QED  BY <5>2 DEF Surjection
      <4>3. Cardinality(ToSet(p)) <= Cardinality(First(t))
        <5>  HIDE DEF f, First
        <5>  QED  BY <4>1, <4>2, FS_Surjection
      <4>4. First(t) \subseteq First(t - 1) \cup {t}
          BY <4>0
      <4>5. Cardinality(First(t)) <= Cardinality(First(t - 1)) + 1
        <5>  HIDE DEF First
        <5>1. Cardinality(First(t - 1) \cup {t}) <= Cardinality(First(t - 1)) + 1 /\ IsFiniteSet(First(t - 1) \cup {t})
          <6>1. Cardinality(First(t - 1)) \in Nat
              BY <4>1, FS_CardinalityType
          <6>  DEFINE G == First(t - 1)
          <6>2. IsFiniteSet(G) /\ Cardinality(G) \in Nat
              BY <4>1, <6>1
          <6>  HIDE DEF G
          <6>3. IsFiniteSet(G \cup {t}) /\ Cardinality(G \cup {t}) = IF t \in G THEN Cardinality(G) ELSE Cardinality(G) + 1
              BY <6>2, FS_AddElement
          <6>4. Cardinality(G \cup {t}) <= Cardinality(G) + 1
              BY <6>2, <6>3
          <6>  QED  BY <6>3, <6>4 DEF G
        <5>2. Cardinality(First(t)) <= Cardinality(First(t - 1) \cup {t})
            BY <4>4, <5>1, FS_Subset
        <5>3. /\ Cardinality(First(t)) \in Nat /\ Cardinality(First(t - 1)) \in Nat
              /\ Cardinality(First(t - 1) \cup {t}) \in Nat
            BY <4>1, <5>1, FS_CardinalityType
        <5>  QED  BY <5>1, <5>2, <5>3
      <4>  HIDE DEF f, First
      <4>6. Cardinality(First(t - 1)) < Capacity(c) /\ Capacity(c) \in Int
          BY <1>2, <2>1, <3>2 DEF Capacity
      <4>7. Cardinality(First(t)) \in Nat /\ Cardinality(First(t - 1)) \in Nat
          BY <4>1, FS_CardinalityType
      <4>  QED  BY <2>2, <4>3, <4>5, <4>6, <4>7
    <3>  QED  BY <3>1, <3>2
  <2>4. CASE ToSet(p) = {}
    <3>1. active[c] \cup ToSet(p) = active[c]
        BY <2>4
    <3>  QED  BY <3>1
  <2>5. CASE Cardinality(ToSet(p)) <= Capacity(c)
    <3>  HIDE DEF p
    <3>1. Cardinality(active[c] \cup ToSet(p)) = Cardinality(active[c]) + Cardinality(ToSet(p)) - Cardinality(active[c] \cap ToSet(p))
        BY <2>1, <2>2, FS_Union
    <3>2. Cardinality(active[c] \cap ToSet(p)) \in Nat
      <4>1. IsFiniteSet(active[c] \cap ToSet(p))
          BY <2>1, FS_Subset
      <4>  QED  BY <4>1, FS_CardinalityType
    <3>3. Cardinality(ToSet(p)) <= MaxBatch - Cardinality(active[c])
        BY <2>5 DEF Capacity
    <3>  QED  BY <2>1, <2>2, <3>1, <3>2, <3>3
  <2>  QED  BY <2>3, <2>4, <2>5
<1>9. \A r \in ToSet(s) : Live(r) => r \in ToSet(p) \cup ToSet(b)
    BY <1>4, <1>6, <1>7 DEF L
<1>  HIDE DEF p
<1>  QED  BY <1>3, <1>4, <1>6, <1>7, <1>8, <1>9

-----------------------------------------------------------------------------
(* The inductive invariant.                                                *)

\* A controller's queue and batch.  A queued request is not reserved yet, and
\* whatever the controller has is a request of its own capability and model.
ControllerInv(c) ==
    /\ Cardinality(active[c]) <= MaxBatch
    /\ Open(c) => active[c] \subseteq kv.held
    /\ cpc[c] = "unused" => Mine(c) = {}
    /\ cpc[c] = "created" => active[c] = {}
    /\ Distinct(pending[c])
    /\ ToSet(pending[c]) \cap (kv.held \cup active[c]) = {}
    /\ \A r \in Mine(c) : rpc[r] # "new" /\ Key(r) = c[1]

\* No request is with two controllers.
Apart == \A c, d \in Controllers : c # d => Mine(c) \cap Mine(d) = {}

RequestInv(r) ==
    /\ rpc[r] = "new" => r \notin kv.held
    /\ rpc[r] = "streaming" => kind[r] = "direct"
    /\ rpc[r] = "batched" => kind[r] = "batch"
    /\ r \in kv.held \ leaked =>
        \/ rpc[r] \in {"streaming", "batched"}
        \/ \E c \in Controllers : r \in active[c] /\ Open(c)

TextInv ==
    /\ TypeOK
    /\ KVInv(kv)
    /\ \A c \in Controllers : ControllerInv(c)
    /\ Apart
    /\ \A r \in Requests : RequestInv(r)

LEMMA TextInvMeans ==
    TextInv => KVBooks /\ ReservedWhileDecoding
<1>  SUFFICES ASSUME TextInv PROVE KVBooks /\ ReservedWhileDecoding
    OBVIOUS
<1>1. KVBooks
    BY DEF TextInv, KVInv, KVBooks
<1>2. kv.held \subseteq Requests
    BY KVInvFacts DEF TextInv
<1>3. ReservedWhileDecoding
    BY <1>2 DEF TextInv, ControllerInv, RequestInv, ReservedWhileDecoding
<1>  QED  BY <1>1, <1>3

LEMMA TextInit == Init => TextInv
<1>  SUFFICES ASSUME Init PROVE TextInv
    OBVIOUS
<1>1. KVInv(kv) /\ kv.held = {}
    BY EmptyBooksFacts DEF Init
<1>2. TypeOK
    BY <1>1 DEF Init, TypeOK, KVInv, Stages, Outcomes
<1>3. ToSet(<<>>) = {} /\ Distinct(<<>>)
    BY DEF ToSet, Distinct
<1>4. \A c \in Controllers : Mine(c) = {}
    BY <1>3 DEF Mine, Init
<1>5. Cardinality({}) = 0 /\ 0 <= MaxBatch
    BY FS_EmptySet, TextAssumption
<1>6. \A c \in Controllers : ControllerInv(c)
    BY <1>1, <1>3, <1>4, <1>5 DEF ControllerInv, Init, Open
<1>7. Apart
    BY <1>4 DEF Apart
<1>8. \A r \in Requests : RequestInv(r)
    BY <1>1 DEF RequestInv, Init
<1>  QED  BY <1>1, <1>2, <1>6, <1>7, <1>8 DEF TextInv

-----------------------------------------------------------------------------
(* Steps that leave most of it alone.                                      *)

LEMMA MineInside ==
    ASSUME TypeOK, NEW c \in Controllers
    PROVE  /\ pending[c] \in Seq(Requests) /\ active[c] \in SUBSET Requests
           /\ ToSet(pending[c]) \subseteq Requests /\ Mine(c) \subseteq Requests
<1>1. pending[c] \in Seq(Requests) /\ active[c] \in SUBSET Requests
    BY DEF TypeOK
<1>2. ToSet(pending[c]) \subseteq Requests
    BY <1>1, LenProperties, ElementOfSeq DEF ToSet
<1>  QED  BY <1>1, <1>2 DEF Mine

\* A controller that a step leaves alone.
LEMMA OtherController ==
    ASSUME TextInv, NEW d \in Controllers, pending'[d] = pending[d], active'[d] = active[d], cpc'[d] = cpc[d],
           kind' = kind, \A r \in Requests : rpc[r] # "new" => rpc'[r] # "new",
           active[d] \cap kv.held \subseteq kv'.held, ToSet(pending[d]) \cap kv'.held = {}
    PROVE  ControllerInv(d)'
<1>1. ControllerInv(d) /\ Mine(d)' = Mine(d) /\ Open(d)' = Open(d)
    BY DEF TextInv, Mine, Open
<1>2. Mine(d) \subseteq Requests
    BY MineInside DEF TextInv
<1>3. Open(d)' => active'[d] \subseteq kv'.held
    BY <1>1 DEF ControllerInv
<1>4. ToSet(pending'[d]) \cap (kv'.held \cup active'[d]) = {}
    BY <1>1 DEF ControllerInv
<1>5. \A r \in Mine(d)' : rpc'[r] # "new" /\ Key(r)' = d[1]
    BY <1>1, <1>2 DEF ControllerInv, Key
<1>  QED  BY <1>1, <1>3, <1>4, <1>5 DEF ControllerInv

LEMMA StillApart ==
    ASSUME TextInv, \A c \in Controllers : Mine(c)' \subseteq Mine(c)
    PROVE  Apart'
BY DEF TextInv, Apart

\* What a step that only moves callers and opens controllers may do.
Quiet ==
    /\ UNCHANGED <<kv, pending, active, leaked, kind>>
    /\ \A c \in Controllers :
        /\ Open(c) => Open(c)'
        /\ Open(c)' => Open(c) \/ cpc[c] = "unused"
        /\ cpc'[c] = "unused" => cpc[c] = "unused"
        /\ cpc'[c] = "created" => cpc[c] \in {"created", "unused"}
    /\ \A r \in Requests : rpc'[r] = rpc[r] \/ (rpc[r] = "waiting" /\ rpc'[r] = "over")

LEMMA QuietStep ==
    ASSUME TextInv, TypeOK', Quiet
    PROVE  TextInv'
<1>1. /\ kv' = kv /\ pending' = pending /\ active' = active /\ leaked' = leaked /\ kind' = kind
      /\ \A r \in Requests : rpc'[r] = rpc[r] \/ (rpc[r] = "waiting" /\ rpc'[r] = "over")
    BY DEF Quiet
<1>2. KVInv(kv)'
    BY <1>1 DEF TextInv
<1>3. \A c \in Controllers : Mine(c)' = Mine(c)
    BY <1>1 DEF Mine
<1>4. Apart'
    BY <1>3, StillApart
<1>5. ASSUME NEW c \in Controllers PROVE ControllerInv(c)'
  <2>1. ControllerInv(c)
      BY DEF TextInv
  <2>2. \A r \in Mine(c) : r \in Requests
      BY MineInside DEF TextInv
  <2>3. \A r \in Mine(c) : rpc'[r] # "new" /\ Key(r)' = c[1]
      BY <1>1, <2>1, <2>2 DEF ControllerInv, Key
  <2>4. cpc[c] = "unused" => active[c] = {}
      BY <2>1 DEF ControllerInv, Mine
  <2>5. Open(c)' => active[c] \subseteq kv.held
      BY <2>1, <2>4 DEF ControllerInv, Quiet
  <2>6. /\ cpc'[c] = "unused" => Mine(c) = {}
        /\ cpc'[c] = "created" => active[c] = {}
      BY <2>1, <2>4 DEF ControllerInv, Quiet
  <2>  QED  BY <1>1, <1>3, <2>1, <2>3, <2>5, <2>6 DEF ControllerInv
<1>6. ASSUME NEW r \in Requests PROVE RequestInv(r)'
  <2>1. RequestInv(r)
      BY DEF TextInv
  <2>2. \A c \in Controllers : Open(c) => Open(c)'
      BY DEF Quiet
  <2>3. rpc'[r] = rpc[r] \/ (rpc[r] = "waiting" /\ rpc'[r] = "over")
      BY <1>1
  <2>  QED  BY <1>1, <2>1, <2>2, <2>3 DEF RequestInv
<1>  QED  BY <1>2, <1>4, <1>5, <1>6 DEF TextInv

\* A step of direct calls and batches: the controllers do nothing.
LEMMA CallerStep ==
    ASSUME TextInv, TypeOK', KVInv(kv'), UNCHANGED <<kind, tasks>>,
           \A r \in Requests : rpc[r] # "new" => rpc'[r] # "new",
           \A c \in Controllers : active[c] \cap kv.held \subseteq kv'.held /\ ToSet(pending[c]) \cap kv'.held = {},
           \A r \in Requests : RequestInv(r)'
    PROVE  TextInv'
<1>1. pending' = pending /\ active' = active /\ cpc' = cpc /\ kind' = kind
    BY DEF tasks
<1>2. \A c \in Controllers : ControllerInv(c)'
    BY <1>1, OtherController
<1>3. Apart'
    BY <1>1, StillApart DEF Mine
<1>  QED  BY <1>2, <1>3 DEF TextInv

-----------------------------------------------------------------------------
(* Every action preserves the invariant.                                   *)

LEMMA ByLoad == ASSUME TextInv, NEW m \in Models, Load(m) PROVE TextInv'
<1>1. TypeOK'
    BY DEF TextInv, TypeOK, Load, tasks, callers
<1>2. Quiet
    BY DEF Quiet, Load, tasks, callers, Open
<1>  QED  BY <1>1, <1>2, QuietStep

LEMMA ByReturn == ASSUME TextInv, NEW r \in Requests, Return(r) PROVE TextInv'
<1>0. rpc \in [Requests -> {"new", "waiting", "streaming", "batched", "over"}]
    BY DEF TextInv, TypeOK
<1>1. TypeOK'
    BY DEF TextInv, TypeOK, Return, tasks, Outcomes
<1>2. Quiet
    BY <1>0 DEF Quiet, Return, tasks, Open
<1>  QED  BY <1>1, <1>2, QuietStep

LEMMA ByLeaveGenerate == ASSUME TextInv, NEW r \in Requests, LeaveGenerate(r) PROVE TextInv'
<1>0. rpc \in [Requests -> {"new", "waiting", "streaming", "batched", "over"}]
    BY DEF TextInv, TypeOK
<1>1. TypeOK'
    BY DEF TextInv, TypeOK, LeaveGenerate, tasks, Outcomes
<1>2. Quiet
    BY <1>0 DEF Quiet, LeaveGenerate, tasks, Open
<1>  QED  BY <1>1, <1>2, QuietStep

\* Looking a controller up opens an unused one, or changes nothing.
LEMMA Obtained ==
    ASSUME TypeOK, NEW c \in Controllers, cpc' = WithObtained(c)
    PROVE  /\ cpc' \in [Controllers -> Stages]
           /\ \A d \in Controllers :
                /\ cpc'[d] = cpc[d] \/ (d = c /\ cpc[d] = "unused" /\ cpc'[d] = "created")
                /\ d = c => cpc'[d] # "unused"
BY DEF TypeOK, WithObtained, Stages

LEMMA ByLeaveStream ==
    ASSUME TextInv, NEW r \in Requests, NEW c \in Controllers, LeaveStream(r, c) PROVE TextInv'
<1>0. rpc \in [Requests -> {"new", "waiting", "streaming", "batched", "over"}] /\ TypeOK
    BY DEF TextInv, TypeOK
<1>1. /\ cpc' \in [Controllers -> Stages]
      /\ \A d \in Controllers : cpc'[d] = cpc[d] \/ (cpc[d] = "unused" /\ cpc'[d] = "created")
  <2>1. cpc' = cpc \/ cpc' = WithObtained(c)
      BY DEF LeaveStream
  <2>2. CASE cpc' = cpc
      BY <1>0, <2>2 DEF TypeOK
  <2>  QED  BY <1>0, <2>1, <2>2, Obtained
<1>2. fut' \in [Requests -> Outcomes] /\ dropped' \subseteq Requests
    BY <1>0 DEF LeaveStream, TypeOK, Outcomes
<1>3. TypeOK'
    BY <1>0, <1>1, <1>2 DEF TypeOK, LeaveStream
<1>4. Quiet
  <2>1. \A d \in Controllers :
            /\ Open(d) => Open(d)'
            /\ Open(d)' => Open(d) \/ cpc[d] = "unused"
            /\ cpc'[d] = "unused" => cpc[d] = "unused"
            /\ cpc'[d] = "created" => cpc[d] \in {"created", "unused"}
      BY <1>1 DEF Open
  <2>  QED  BY <1>0, <2>1 DEF Quiet, LeaveStream
<1>  QED  BY <1>3, <1>4, QuietStep

\* A task that runs stays open.
LEMMA StageStep ==
    ASSUME TextInv, NEW c \in Controllers, Open(c),
           NEW stage \in {"idle", "insert", "sweep", "next", "fail"}, cpc' = [cpc EXCEPT ![c] = stage]
    PROVE  /\ cpc' \in [Controllers -> Stages] /\ cpc'[c] = stage /\ Open(c)'
           /\ \A d \in Controllers : d # c => cpc'[d] = cpc[d] /\ Open(d)' = Open(d)
           /\ \A d \in Controllers : /\ Open(d)' = Open(d) /\ (cpc'[d] = "unused" <=> cpc[d] = "unused")
                                     /\ cpc'[d] = "created" => cpc[d] = "created"
<1>1. cpc \in [Controllers -> Stages]
    BY DEF TextInv, TypeOK
<1>2. cpc' \in [Controllers -> Stages] /\ cpc'[c] = stage /\ \A d \in Controllers : d # c => cpc'[d] = cpc[d]
    BY <1>1 DEF Stages
<1>3. Open(c)' /\ cpc[c] # "unused" /\ cpc'[c] # "unused" /\ cpc'[c] # "created"
    BY <1>2 DEF Open
<1>  QED  BY <1>2, <1>3 DEF Open

\* The stages that WaitForWork and Goto lead to.
LEMMA Staged ==
    ASSUME NEW c \in Controllers,
           WaitForWork(c) \/ \E stage \in {"sweep", "next", "fail", "insert"} : Goto(c, stage)
    PROVE  /\ busy' \in Controllers \cup {None}
           /\ \E stage \in {"idle", "insert", "sweep", "next", "fail"} : cpc' = [cpc EXCEPT ![c] = stage]
BY DEF WaitForWork, Goto

LEMMA TaskQuiet ==
    ASSUME TextInv, NEW c \in Controllers, Open(c),
           WaitForWork(c) \/ \E stage \in {"sweep", "next", "fail", "insert"} : Goto(c, stage),
           UNCHANGED <<kv, loaded, loads, kind, batches, pending, active, left, callers, lost, leaked>>
    PROVE  TextInv'
<1>1. busy' \in Controllers \cup {None}
    BY Staged
<1>2. PICK stage \in {"idle", "insert", "sweep", "next", "fail"} : cpc' = [cpc EXCEPT ![c] = stage]
    BY Staged
<1>3. /\ cpc' \in [Controllers -> Stages]
      /\ \A d \in Controllers : /\ Open(d)' = Open(d) /\ (cpc'[d] = "unused" <=> cpc[d] = "unused")
                                /\ cpc'[d] = "created" => cpc[d] = "created"
    BY <1>2, StageStep
<1>4. TypeOK'
    BY <1>1, <1>3 DEF TextInv, TypeOK, callers
<1>5. Quiet
    BY <1>3 DEF Quiet, callers
<1>  QED  BY <1>4, <1>5, QuietStep

LEMMA ByBegin == ASSUME TextInv, NEW c \in Controllers, Begin(c) PROVE TextInv'
<1>1. Open(c)
    BY DEF Begin, Open
<1>2. WaitForWork(c) \/ \E stage \in {"sweep", "next", "fail", "insert"} : Goto(c, stage)
    BY DEF Begin
<1>3. UNCHANGED <<kv, loaded, loads, kind, batches, pending, active, left, callers, lost, leaked>>
    BY DEF Begin
<1>  QED  BY <1>1, <1>2, <1>3, TaskQuiet

LEMMA ByResume == ASSUME TextInv, NEW c \in Controllers, Resume(c) PROVE TextInv'
<1>1. Open(c)
    BY DEF Resume, Open
<1>2. WaitForWork(c) \/ \E stage \in {"sweep", "next", "fail", "insert"} : Goto(c, stage)
    BY DEF Resume
<1>3. UNCHANGED <<kv, loaded, loads, kind, batches, pending, active, left, callers, lost, leaked>>
    BY DEF Resume
<1>  QED  BY <1>1, <1>2, <1>3, TaskQuiet

LEMMA ByEnqueue ==
    ASSUME TextInv, NEW r \in Requests, NEW c \in Controllers, Enqueue(r, c) PROVE TextInv'
<1>0. /\ TypeOK /\ KVInv(kv) /\ Apart /\ ControllerInv(c) /\ RequestInv(r)
      /\ rpc \in [Requests -> {"new", "waiting", "streaming", "batched", "over"}]
      /\ pending \in [Controllers -> Seq(Requests)] /\ cpc \in [Controllers -> Stages]
    BY DEF TextInv, TypeOK
<1>1. /\ kv' = kv /\ kind' = kind /\ active' = active /\ leaked' = leaked
      /\ rpc[r] = "new" /\ Obtainable(Key(r), c)
      /\ cpc' = WithObtained(c) /\ pending' = [pending EXCEPT ![c] = Append(@, r)]
      /\ rpc' = [rpc EXCEPT ![r] = "waiting"]
    BY DEF Enqueue
<1>2. /\ cpc' \in [Controllers -> Stages]
      /\ \A d \in Controllers :
            /\ cpc'[d] = cpc[d] \/ (d = c /\ cpc[d] = "unused" /\ cpc'[d] = "created")
            /\ d = c => cpc'[d] # "unused"
    BY <1>0, <1>1, Obtained
<1>3. /\ Append(pending[c], r) \in Seq(Requests) /\ ToSet(Append(pending[c], r)) = ToSet(pending[c]) \cup {r}
    BY <1>0, AppendRange
<1>4. pending'[c] = Append(pending[c], r) /\ \A d \in Controllers : d # c => pending'[d] = pending[d]
    BY <1>0, <1>1
<1>5. TypeOK'
  <2>1. pending' \in [Controllers -> Seq(Requests)]
      BY <1>0, <1>1, <1>3
  <2>2. rpc' \in [Requests -> {"new", "waiting", "streaming", "batched", "over"}]
      BY <1>0, <1>1
  <2>  QED  BY <1>0, <1>2, <2>1, <2>2 DEF TypeOK, Enqueue
<1>6. \A d \in Controllers : r \notin Mine(d)
    BY <1>1 DEF TextInv, ControllerInv
<1>7. /\ Mine(c)' = Mine(c) \cup {r} /\ \A d \in Controllers : d # c => Mine(d)' = Mine(d)
    BY <1>1, <1>3, <1>4 DEF Mine
<1>8. \A q \in Requests : /\ rpc[q] # "new" => rpc'[q] # "new"
                          /\ q # r => rpc'[q] = rpc[q]
    BY <1>0, <1>1
<1>9. rpc'[r] = "waiting" /\ r \notin kv.held
    BY <1>0, <1>1 DEF RequestInv
<1>10. Apart'
  <2>  SUFFICES ASSUME NEW d \in Controllers, NEW e \in Controllers, d # e PROVE Mine(d)' \cap Mine(e)' = {}
      BY DEF Apart
  <2>1. Mine(d) \cap Mine(e) = {}
      BY <1>0 DEF Apart
  <2>  QED  BY <1>6, <1>7, <2>1
<1>11. ControllerInv(c)'
  <2>1. Distinct(pending'[c])
    <3>1. r \notin ToSet(pending[c]) /\ Distinct(pending[c]) /\ pending[c] \in Seq(Requests)
        BY <1>0, <1>6 DEF Mine, ControllerInv
    <3>  QED  BY <1>4, <3>1, AppendDistinct
  <2>2. ToSet(pending'[c]) \cap (kv'.held \cup active'[c]) = {}
    <3>1. r \notin kv.held /\ r \notin active[c] /\ ToSet(pending[c]) \cap (kv.held \cup active[c]) = {}
        BY <1>0, <1>6, <1>9 DEF Mine, ControllerInv
    <3>  QED  BY <1>1, <1>3, <1>4, <3>1
  <2>3. cpc[c] = "unused" => active[c] = {}
      BY <1>0 DEF ControllerInv, Mine
  <2>4. Open(c)' => active'[c] \subseteq kv'.held
      BY <1>0, <1>1, <1>2, <2>3 DEF ControllerInv, Open
  <2>5. cpc'[c] # "unused" /\ (cpc'[c] = "created" => active'[c] = {})
      BY <1>0, <1>1, <1>2, <2>3 DEF ControllerInv
  <2>6. ASSUME NEW q \in Mine(c)' PROVE rpc'[q] # "new" /\ Key(q)' = c[1]
    <3>1. CASE q = r
        BY <1>1, <1>9, <3>1 DEF Obtainable, Key
    <3>2. CASE q # r
      <4>1. q \in Mine(c) /\ q \in Requests
          BY <1>0, <1>7, <3>2, MineInside
      <4>2. rpc[q] # "new" /\ Key(q) = c[1]
          BY <1>0, <4>1 DEF ControllerInv
      <4>  QED  BY <1>1, <1>8, <4>1, <4>2 DEF Key
    <3>  QED  BY <3>1, <3>2
  <2>7. Cardinality(active'[c]) <= MaxBatch
      BY <1>0, <1>1 DEF ControllerInv
  <2>  QED  BY <2>1, <2>2, <2>4, <2>5, <2>6, <2>7 DEF ControllerInv
<1>12. ASSUME NEW d \in Controllers, d # c PROVE ControllerInv(d)'
  <2>1. ToSet(pending[d]) \cap kv'.held = {}
      BY <1>1 DEF TextInv, ControllerInv
  <2>2. cpc'[d] = cpc[d]
      BY <1>2, <1>12
  <2>  QED  BY <1>1, <1>4, <1>8, <1>12, <2>1, <2>2, OtherController
<1>13. ASSUME NEW q \in Requests PROVE RequestInv(q)'
  <2>1. RequestInv(q)
      BY DEF TextInv
  <2>2. \A d \in Controllers : Open(d) => Open(d)'
      BY <1>2 DEF Open
  <2>3. CASE q = r
      BY <1>1, <1>9, <2>3 DEF RequestInv
  <2>4. CASE q # r
    <3>1. rpc'[q] = rpc[q]
        BY <1>8, <2>4
    <3>  QED  BY <1>1, <2>1, <2>2, <3>1 DEF RequestInv
  <2>  QED  BY <2>3, <2>4
<1>  QED  BY <1>0, <1>1, <1>5, <1>10, <1>11, <1>12, <1>13 DEF TextInv

LEMMA ByUnload == ASSUME TextInv, NEW m \in Models, Unload(m) PROVE TextInv'
<1>  DEFINE unborn == {c \in Controllers : Model(c) = m /\ cpc[c] = "created"}
<1>0. /\ TypeOK /\ KVInv(kv) /\ Apart
      /\ pending \in [Controllers -> Seq(Requests)] /\ cpc \in [Controllers -> Stages]
    BY DEF TextInv, TypeOK
<1>1. /\ kind' = kind /\ active' = active /\ leaked' = leaked /\ rpc' = rpc
      /\ cpc' = [c \in Controllers |->
                    IF c \in unborn THEN "unused" ELSE IF Model(c) = m /\ Open(c) THEN "closing" ELSE cpc[c]]
      /\ pending' = [c \in Controllers |-> IF c \in unborn THEN <<>> ELSE pending[c]]
      /\ lost' = lost \cup UNION {ToSet(pending[c]) : c \in unborn}
      /\ kv' = UnregisterModel(kv, m)
      /\ UNCHANGED <<batches, busy, fut, ended, dropped>> /\ loaded' = loaded \ {m}
    BY DEF Unload, callers
<1>2. KVInv(kv') /\ kv'.held = {r \in kv.held : ModelOf[r] # m}
    BY <1>0, <1>1, UnregisterFacts
<1>3. \A c \in Controllers : ToSet(pending[c]) \subseteq Requests
    BY <1>0, MineInside
<1>4. TypeOK'
  <2>1. pending' \in [Controllers -> Seq(Requests)]
    <3>1. <<>> \in Seq(Requests)
        BY EmptySeq
    <3>  QED  BY <1>0, <1>1, <3>1
  <2>2. cpc' \in [Controllers -> Stages]
      BY <1>0, <1>1 DEF Stages
  <2>3. lost' \subseteq Requests
      BY <1>0, <1>1, <1>3 DEF TypeOK
  <2>4. BooksTypeOK(kv')
      BY <1>2 DEF KVInv
  <2>  QED  BY <1>0, <1>1, <2>1, <2>2, <2>3, <2>4 DEF TypeOK
<1>5. ToSet(<<>>) = {} /\ Distinct(<<>>)
    BY DEF ToSet, Distinct
<1>6. ASSUME NEW c \in Controllers PROVE ToSet(pending'[c]) \subseteq ToSet(pending[c]) /\ Mine(c)' \subseteq Mine(c)
  <2>1. pending'[c] = <<>> \/ pending'[c] = pending[c]
      BY <1>1
  <2>2. ToSet(pending'[c]) \subseteq ToSet(pending[c])
      BY <1>5, <2>1
  <2>  QED  BY <1>1, <2>2 DEF Mine
<1>7. Apart'
    BY <1>6, StillApart
<1>8. ASSUME NEW c \in Controllers, NEW r \in Mine(c) PROVE rpc[r] # "new" /\ Key(r) = c[1] /\ ModelOf[r] = Model(c)
  <2>1. rpc[r] # "new" /\ Key(r) = c[1]
      BY DEF TextInv, ControllerInv
  <2>  QED  BY <2>1 DEF Key, Model
<1>9. ASSUME NEW c \in Controllers PROVE ControllerInv(c)'
  <2>0. ControllerInv(c)
      BY DEF TextInv
  <2>1. c \in unborn => active[c] = {}
      BY <2>0 DEF ControllerInv
  <2>2. cpc'[c] = "unused" => Mine(c)' = {}
    <3>1. CASE c \in unborn
      <4>1. pending'[c] = <<>> /\ active'[c] = {}
          BY <1>1, <2>1, <3>1
      <4>  QED  BY <1>5, <4>1 DEF Mine
    <3>2. CASE c \notin unborn
      <4>1. cpc'[c] = "unused" => cpc[c] = "unused"
          BY <1>1, <3>2
      <4>  QED  BY <1>6, <2>0, <4>1 DEF ControllerInv
    <3>  QED  BY <3>1, <3>2
  <2>3. cpc'[c] = "created" => active'[c] = {}
      BY <1>1, <2>0 DEF ControllerInv
  <2>4. Open(c)' => active'[c] \subseteq kv'.held
    <3>  SUFFICES ASSUME Open(c)' PROVE active'[c] \subseteq kv'.held
        OBVIOUS
    <3>1. Open(c) /\ Model(c) # m
        BY <1>1 DEF Open
    <3>2. \A r \in active[c] : r \in kv.held /\ ModelOf[r] # m
        BY <1>8, <2>0, <3>1 DEF ControllerInv, Mine
    <3>  QED  BY <1>1, <1>2, <3>2
  <2>5. Distinct(pending'[c])
      BY <1>1, <1>5, <2>0 DEF ControllerInv
  <2>6. ToSet(pending'[c]) \cap (kv'.held \cup active'[c]) = {}
      BY <1>1, <1>2, <1>6, <2>0 DEF ControllerInv
  <2>7. \A r \in Mine(c)' : rpc'[r] # "new" /\ Key(r)' = c[1]
      BY <1>1, <1>6, <2>0 DEF ControllerInv, Key
  <2>8. Cardinality(active'[c]) <= MaxBatch
      BY <1>1, <2>0 DEF ControllerInv
  <2>  QED  BY <2>2, <2>3, <2>4, <2>5, <2>6, <2>7, <2>8 DEF ControllerInv
<1>10. ASSUME NEW r \in Requests PROVE RequestInv(r)'
  <2>1. RequestInv(r)
      BY DEF TextInv
  <2>2. kv'.held \subseteq kv.held
      BY <1>2
  <2>3. ASSUME r \in kv'.held \ leaked, rpc[r] \notin {"streaming", "batched"}
        PROVE  \E c \in Controllers : r \in active'[c] /\ Open(c)'
    <3>1. PICK c \in Controllers : r \in active[c] /\ Open(c)
        BY <2>1, <2>2, <2>3 DEF RequestInv
    <3>2. Model(c) # m
        BY <1>2, <1>8, <2>3, <3>1 DEF Mine
    <3>3. cpc'[c] = cpc[c]
        BY <1>1, <3>2
    <3>  QED  BY <1>1, <3>1, <3>3 DEF Open
  <2>  QED  BY <1>1, <2>1, <2>2, <2>3 DEF RequestInv
<1>  QED  BY <1>2, <1>4, <1>7, <1>9, <1>10 DEF TextInv

\* Some of a controller's batch is given up, and its pages with it; H is let
\* go of without its pages.
LEMMA BatchForgets ==
    ASSUME TextInv, NEW c \in Controllers, Open(c), NEW S \in SUBSET active[c], NEW H \in SUBSET active[c],
           NEW stage \in {"idle", "insert", "sweep", "next", "fail"}, cpc' = [cpc EXCEPT ![c] = stage],
           active' = [active EXCEPT ![c] = @ \ (S \cup H)], kv' = ReleaseAll(kv, S),
           leaked' = leaked \cup H, lost' \subseteq Requests,
           UNCHANGED <<kind, batches, pending, rpc, loaded, dropped>>,
           busy' \in Controllers \cup {None}, fut' \in [Requests -> Outcomes], ended' \subseteq Requests
    PROVE  TextInv'
<1>0. /\ TypeOK /\ KVInv(kv) /\ Apart /\ ControllerInv(c)
      /\ active \in [Controllers -> SUBSET Requests]
    BY DEF TextInv, TypeOK
<1>1. /\ cpc' \in [Controllers -> Stages] /\ cpc'[c] = stage /\ Open(c)'
      /\ \A d \in Controllers : d # c => cpc'[d] = cpc[d] /\ Open(d)' = Open(d)
    BY StageStep
<1>2. S \in SUBSET Requests /\ H \in SUBSET Requests
    BY <1>0
<1>3. KVInv(kv') /\ kv'.held = kv.held \ S
    BY <1>0, <1>2, ReleaseAllFacts
<1>4. /\ active' \in [Controllers -> SUBSET Requests] /\ active'[c] = active[c] \ (S \cup H)
      /\ \A d \in Controllers : d # c => active'[d] = active[d]
    BY <1>0
<1>5. TypeOK'
    BY <1>0, <1>1, <1>2, <1>3, <1>4 DEF TypeOK, KVInv
<1>6. \A d \in Controllers : Mine(d)' \subseteq Mine(d)
    BY <1>4 DEF Mine
<1>7. Apart'
    BY <1>6, StillApart
<1>8. \A d \in Controllers : d # c => active[d] \cap S = {}
    BY <1>0 DEF Apart, Mine
<1>9. ControllerInv(c)'
  <2>1. Open(c)' => active'[c] \subseteq kv'.held
      BY <1>0, <1>3, <1>4 DEF ControllerInv
  <2>2. cpc'[c] # "unused" /\ cpc'[c] # "created"
      BY <1>1
  <2>3. ToSet(pending'[c]) \cap (kv'.held \cup active'[c]) = {} /\ Distinct(pending'[c])
      BY <1>0, <1>3, <1>4 DEF ControllerInv
  <2>4. \A r \in Mine(c)' : rpc'[r] # "new" /\ Key(r)' = c[1]
      BY <1>0, <1>6 DEF ControllerInv, Key
  <2>5. Cardinality(active'[c]) <= MaxBatch
    <3>1. IsFiniteSet(active[c]) /\ active[c] \ (S \cup H) \in SUBSET active[c] /\ active[c] \in SUBSET Requests
        BY <1>0, KVAssumption, FS_Subset
    <3>2. Cardinality(active[c] \ (S \cup H)) <= Cardinality(active[c])
        BY <3>1, FS_Subset
    <3>3. Cardinality(active[c] \ (S \cup H)) \in Nat /\ Cardinality(active[c]) \in Nat /\ MaxBatch \in Nat
        BY <3>1, FS_Subset, FS_CardinalityType, TextAssumption
    <3>  QED  BY <1>0, <1>4, <3>2, <3>3 DEF ControllerInv
  <2>  QED  BY <2>1, <2>2, <2>3, <2>4, <2>5 DEF ControllerInv
<1>10. ASSUME NEW d \in Controllers, d # c PROVE ControllerInv(d)'
  <2>1. ToSet(pending[d]) \cap kv'.held = {} /\ active[d] \cap kv.held \subseteq kv'.held
      BY <1>3, <1>8, <1>10 DEF TextInv, ControllerInv
  <2>2. \A r \in Requests : rpc[r] # "new" => rpc'[r] # "new"
      OBVIOUS
  <2>  QED  BY <1>1, <1>4, <1>10, <2>1, <2>2, OtherController
<1>11. ASSUME NEW r \in Requests PROVE RequestInv(r)'
  <2>1. RequestInv(r)
      BY DEF TextInv
  <2>2. ASSUME r \in kv'.held \ leaked', rpc[r] \notin {"streaming", "batched"}
        PROVE  \E d \in Controllers : r \in active'[d] /\ Open(d)'
    <3>1. PICK d \in Controllers : r \in active[d] /\ Open(d)
        BY <1>3, <2>1, <2>2 DEF RequestInv
    <3>2. r \in active'[d] /\ Open(d)'
        BY <1>1, <1>3, <1>4, <2>2, <3>1
    <3>  QED  BY <3>2
  <2>  QED  BY <1>3, <2>1, <2>2 DEF RequestInv
<1>  QED  BY <1>3, <1>5, <1>7, <1>9, <1>10, <1>11 DEF TextInv

LEMMA BatchShrinks ==
    ASSUME TextInv, NEW c \in Controllers, Open(c), NEW S \in SUBSET active[c],
           NEW stage \in {"idle", "insert", "sweep", "next", "fail"}, cpc' = [cpc EXCEPT ![c] = stage],
           active' = [active EXCEPT ![c] = @ \ S], kv' = ReleaseAll(kv, S),
           UNCHANGED <<kind, batches, pending, rpc, leaked, loaded, dropped, lost>>,
           busy' \in Controllers \cup {None}, fut' \in [Requests -> Outcomes], ended' \subseteq Requests
    PROVE  TextInv'
<1>  DEFINE H == {}
<1>1. /\ H \in SUBSET active[c] /\ active' = [active EXCEPT ![c] = @ \ (S \cup H)]
      /\ leaked' = leaked \cup H /\ lost' \subseteq Requests
    BY DEF TextInv, TypeOK
<1>  HIDE DEF H
<1>  QED  BY <1>1, BatchForgets

LEMMA Settled ==
    ASSUME TypeOK, NEW S \in SUBSET Requests, NEW answer \in Outcomes, Settle(S, answer)
    PROVE  fut' \in [Requests -> Outcomes] /\ ended' \subseteq Requests
BY DEF TypeOK, Settle

LEMMA BySweep == ASSUME TextInv, NEW c \in Controllers, Sweep(c) PROVE TextInv'
<1>1. Open(c)
    BY DEF Sweep, Open
<1>2. PICK S \in SUBSET (active[c] \cap dropped) : active' = [active EXCEPT ![c] = @ \ S] /\ kv' = ReleaseAll(kv, S)
    BY DEF Sweep
<1>3. WaitForWork(c) \/ \E stage \in {"sweep", "next", "fail", "insert"} : Goto(c, stage)
    BY DEF Sweep
<1>4. busy' \in Controllers \cup {None}
    BY <1>3, Staged
<1>5. PICK stage \in {"idle", "insert", "sweep", "next", "fail"} : cpc' = [cpc EXCEPT ![c] = stage]
    BY <1>3, Staged
<1>6. UNCHANGED <<kind, batches, pending, rpc, fut, ended, leaked, loaded, dropped, lost>>
    BY DEF Sweep, callers
<1>7. fut' \in [Requests -> Outcomes] /\ ended' \subseteq Requests
    BY <1>6 DEF TextInv, TypeOK
<1>8. S \in SUBSET active[c]
    BY <1>2
<1>  QED  BY <1>1, <1>2, <1>4, <1>5, <1>6, <1>7, <1>8, BatchShrinks

\* What a failed round of decoding settles, and what it forgets.
LEMMA FailureInHand ==
    ASSUME NEW c \in Controllers, GenerateFails(c)
    PROVE  \E F \in SUBSET active[c], H \in SUBSET active[c] :
            /\ active' = [active EXCEPT ![c] = @ \ (F \cup H)]
            /\ Settle(F, "end")
            /\ kv' = ReleaseAll(kv, F)
            /\ lost' = lost \cup H
            /\ leaked' = leaked \cup H
<1>1. PICK F \in SUBSET active[c] :
       \E H \in {{}} \cup {{r} : r \in {q \in active[c] \ F : kind[q] = "generate" /\ fut[q] = "none"}} :
        /\ active' = [active EXCEPT ![c] = @ \ (F \cup H)]
        /\ Settle(F, "end")
        /\ kv' = ReleaseAll(kv, F)
        /\ lost' = lost \cup H
        /\ leaked' = leaked \cup H
    BY DEF GenerateFails
<1>2. \A H \in {{}} \cup {{r} : r \in {q \in active[c] \ F : kind[q] = "generate" /\ fut[q] = "none"}} :
        H \in SUBSET active[c]
    OBVIOUS
<1>  QED  BY <1>1, <1>2

LEMMA ByGenerate == ASSUME TextInv, NEW c \in Controllers, Generate(c) PROVE TextInv'
<1>1. Open(c)
    BY DEF Generate, Open
<1>2. PICK F \in SUBSET active[c] :
        active' = [active EXCEPT ![c] = @ \ F] /\ kv' = ReleaseAll(kv, F) /\ Settle(F, "end")
    BY DEF Generate
<1>3. busy' \in Controllers \cup {None} /\ cpc' = [cpc EXCEPT ![c] = "idle"]
    BY DEF Generate
<1>4. UNCHANGED <<kind, batches, pending, rpc, leaked, loaded, dropped, lost>>
    BY DEF Generate
<1>5. F \in SUBSET Requests /\ TypeOK
    BY MineInside DEF TextInv
<1>6. fut' \in [Requests -> Outcomes] /\ ended' \subseteq Requests
    BY <1>2, <1>5, Settled DEF Outcomes
<1>  QED  BY <1>1, <1>2, <1>3, <1>4, <1>6, BatchShrinks

LEMMA ByGenerateFails == ASSUME TextInv, NEW c \in Controllers, GenerateFails(c) PROVE TextInv'
<1>1. Open(c)
    BY DEF GenerateFails, Open
<1>2. PICK F \in SUBSET active[c], H \in SUBSET active[c] :
        /\ active' = [active EXCEPT ![c] = @ \ (F \cup H)]
        /\ Settle(F, "end")
        /\ kv' = ReleaseAll(kv, F)
        /\ lost' = lost \cup H
        /\ leaked' = leaked \cup H
    BY FailureInHand
<1>3. busy' \in Controllers \cup {None} /\ cpc' = [cpc EXCEPT ![c] = "fail"]
    BY DEF GenerateFails, Goto
<1>4. UNCHANGED <<kind, batches, pending, rpc, loaded, dropped>>
    BY DEF GenerateFails
<1>5. F \in SUBSET Requests /\ H \in SUBSET Requests /\ TypeOK
    BY MineInside DEF TextInv
<1>6. fut' \in [Requests -> Outcomes] /\ ended' \subseteq Requests
    BY <1>2, <1>5, Settled DEF Outcomes
<1>7. lost' \subseteq Requests
    BY <1>2, <1>5 DEF TypeOK
<1>  QED  BY <1>1, <1>2, <1>3, <1>4, <1>6, <1>7, BatchForgets

\* The controller goes, with all it had.
LEMMA ControllerGoes ==
    ASSUME TextInv, NEW c \in Controllers, Vanish(c), UNCHANGED <<kind, batches, rpc, leaked, loaded>>,
           fut' \in [Requests -> Outcomes], ended' \subseteq Requests, dropped' \subseteq Requests, lost' \subseteq Requests
    PROVE  TextInv'
<1>0. /\ TypeOK /\ KVInv(kv) /\ Apart
      /\ active \in [Controllers -> SUBSET Requests] /\ pending \in [Controllers -> Seq(Requests)]
      /\ cpc \in [Controllers -> Stages] /\ active[c] \in SUBSET Requests
    BY DEF TextInv, TypeOK
<1>1. KVInv(kv') /\ kv'.held = kv.held \ active[c]
    BY <1>0, ReleaseAllFacts DEF Vanish
<1>2. /\ pending' \in [Controllers -> Seq(Requests)] /\ active' \in [Controllers -> SUBSET Requests]
      /\ cpc' \in [Controllers -> Stages] /\ busy' = None
      /\ pending'[c] = <<>> /\ active'[c] = {} /\ cpc'[c] = "unused"
      /\ \A d \in Controllers : d # c => pending'[d] = pending[d] /\ active'[d] = active[d] /\ cpc'[d] = cpc[d]
  <2>1. <<>> \in Seq(Requests)
      BY EmptySeq
  <2>  QED  BY <1>0, <2>1 DEF Vanish, Stages
<1>3. TypeOK'
    BY <1>0, <1>1, <1>2 DEF TypeOK, KVInv
<1>4. ToSet(<<>>) = {} /\ Distinct(<<>>) /\ Cardinality({}) = 0 /\ 0 <= MaxBatch
    BY FS_EmptySet, TextAssumption DEF ToSet, Distinct
<1>5. Mine(c)' = {} /\ \A d \in Controllers : d # c => Mine(d)' = Mine(d)
    BY <1>2, <1>4 DEF Mine
<1>6. Apart'
    BY <1>5, StillApart
<1>7. ControllerInv(c)'
    BY <1>2, <1>4, <1>5 DEF ControllerInv, Open
<1>8. ASSUME NEW d \in Controllers, d # c PROVE ControllerInv(d)'
  <2>0. active[d] \cap active[c] = {}
      BY <1>0, <1>8 DEF Apart, Mine
  <2>1. ToSet(pending[d]) \cap kv'.held = {} /\ active[d] \cap kv.held \subseteq kv'.held
      BY <1>1, <2>0 DEF TextInv, ControllerInv
  <2>2. \A r \in Requests : rpc[r] # "new" => rpc'[r] # "new"
      OBVIOUS
  <2>  QED  BY <1>2, <1>8, <2>1, <2>2, OtherController
<1>9. ASSUME NEW r \in Requests PROVE RequestInv(r)'
  <2>1. RequestInv(r)
      BY DEF TextInv
  <2>2. ASSUME r \in kv'.held \ leaked, rpc[r] \notin {"streaming", "batched"}
        PROVE  \E d \in Controllers : r \in active'[d] /\ Open(d)'
    <3>1. PICK d \in Controllers : r \in active[d] /\ Open(d)
        BY <1>1, <2>1, <2>2 DEF RequestInv
    <3>2. d # c
        BY <1>1, <2>2, <3>1
    <3>  QED  BY <1>2, <3>1, <3>2 DEF Open
  <2>  QED  BY <1>1, <2>1, <2>2 DEF RequestInv
<1>  QED  BY <1>1, <1>3, <1>6, <1>7, <1>8, <1>9 DEF TextInv

LEMMA ByFail == ASSUME TextInv, NEW c \in Controllers, Fail(c) PROVE TextInv'
<1>1. TypeOK /\ Mine(c) \in SUBSET Requests
    BY MineInside DEF TextInv
<1>2. Settle(Mine(c), "exc") /\ Vanish(c) /\ UNCHANGED <<kind, batches, rpc, leaked, loaded, dropped, lost>>
    BY DEF Fail
<1>3. fut' \in [Requests -> Outcomes] /\ ended' \subseteq Requests
    BY <1>1, <1>2, Settled DEF Outcomes
<1>4. dropped' \subseteq Requests /\ lost' \subseteq Requests
    BY <1>1, <1>2 DEF TypeOK
<1>  QED  BY <1>2, <1>3, <1>4, ControllerGoes

LEMMA ByFinally == ASSUME TextInv, NEW c \in Controllers, Finally(c) PROVE TextInv'
<1>1. TypeOK /\ Mine(c) \in SUBSET Requests
    BY MineInside DEF TextInv
<1>2. Vanish(c) /\ UNCHANGED <<kind, batches, rpc, leaked, loaded, ended>>
    BY DEF Finally
<1>3. fut' \in [Requests -> Outcomes] /\ ended' \subseteq Requests
    BY <1>1, <1>2 DEF Finally, TypeOK, Outcomes
<1>4. dropped' \subseteq Requests /\ lost' \subseteq Requests
    BY <1>1 DEF Finally, TypeOK
<1>  QED  BY <1>2, <1>3, <1>4, ControllerGoes

\* What a controller that inserts has in hand.
LEMMA PickedFromQueue ==
    ASSUME TextInv, NEW c \in Controllers
    PROVE  /\ Picked(c) \in Seq(Requests) /\ Distinct(Picked(c))
           /\ Unpicked(c) \in Seq(Requests) /\ Distinct(Unpicked(c))
           /\ ToSet(Picked(c)) \subseteq ToSet(pending[c]) /\ ToSet(Unpicked(c)) \subseteq ToSet(pending[c])
           /\ ToSet(Picked(c)) \cap ToSet(Unpicked(c)) = {}
           /\ ToSet(Picked(c)) \subseteq Requests /\ ToSet(Picked(c)) \cap kv.held = {}
           /\ \A r \in ToSet(Picked(c)) : rpc[r] # "new"
           /\ \A d \in Controllers : d # c => ToSet(Picked(c)) \cap Mine(d) = {}
           /\ \A r \in ToSet(pending[c]) : Live(r) => r \in ToSet(Picked(c)) \cup ToSet(Unpicked(c))
           /\ Cardinality(active[c] \cup ToSet(Picked(c))) <= MaxBatch
<1>1. /\ TypeOK /\ ControllerInv(c) /\ Apart
    BY DEF TextInv
<1>2. pending[c] \in Seq(Requests) /\ active[c] \in SUBSET Requests
    BY <1>1, MineInside
<1>3. /\ Picked(c) \in Seq(Requests) /\ Distinct(Picked(c))
      /\ Unpicked(c) \in Seq(Requests) /\ Distinct(Unpicked(c))
      /\ ToSet(Picked(c)) \subseteq ToSet(pending[c]) /\ ToSet(Unpicked(c)) \subseteq ToSet(pending[c])
      /\ ToSet(Picked(c)) \cap ToSet(Unpicked(c)) = {}
      /\ ToSet(Picked(c)) \subseteq Requests
      /\ \A r \in ToSet(pending[c]) : Live(r) => r \in ToSet(Picked(c)) \cup ToSet(Unpicked(c))
      /\ Cardinality(active[c] \cup ToSet(Picked(c))) <= MaxBatch
    BY <1>1, <1>2, PickFacts DEF ControllerInv
<1>4. ToSet(pending[c]) \cap kv.held = {} /\ \A r \in ToSet(pending[c]) : rpc[r] # "new"
    BY <1>1 DEF ControllerInv, Mine
<1>5. \A d \in Controllers : d # c => ToSet(pending[c]) \cap Mine(d) = {}
    BY <1>1 DEF Apart, Mine
<1>  QED  BY <1>3, <1>4, <1>5

LEMMA ByInsertPending == ASSUME TextInv, NEW c \in Controllers, InsertPending(c) PROVE TextInv'
<1>  DEFINE P == ToSet(Picked(c))
            U == ToSet(Unpicked(c))
<1>0. /\ TypeOK /\ KVInv(kv) /\ Apart /\ ControllerInv(c) /\ Open(c)
      /\ active \in [Controllers -> SUBSET Requests] /\ pending \in [Controllers -> Seq(Requests)]
    BY DEF TextInv, TypeOK, InsertPending, Open
<1>1. /\ Picked(c) \in Seq(Requests) /\ Distinct(Picked(c))
      /\ Unpicked(c) \in Seq(Requests) /\ Distinct(Unpicked(c))
      /\ P \subseteq ToSet(pending[c]) /\ U \subseteq ToSet(pending[c]) /\ P \cap U = {}
      /\ P \subseteq Requests /\ P \cap kv.held = {}
      /\ \A r \in P : rpc[r] # "new"
      /\ \A d \in Controllers : d # c => P \cap Mine(d) = {}
      /\ Cardinality(active[c] \cup P) <= MaxBatch
    BY PickedFromQueue
<1>2. /\ pending' = [pending EXCEPT ![c] = Unpicked(c)] /\ active' = [active EXCEPT ![c] = @ \cup P]
      /\ kv' = ReserveAll(kv, Picked(c))
      /\ UNCHANGED <<loaded, kind, batches, rpc, fut, ended, dropped, lost, leaked>>
    BY DEF InsertPending, callers
<1>3. WaitForWork(c) \/ \E stage \in {"sweep", "next", "fail", "insert"} : Goto(c, stage)
    BY DEF InsertPending
<1>4. busy' \in Controllers \cup {None}
    BY <1>3, Staged
<1>5. PICK stage \in {"idle", "insert", "sweep", "next", "fail"} : cpc' = [cpc EXCEPT ![c] = stage]
    BY <1>3, Staged
<1>6. /\ cpc' \in [Controllers -> Stages] /\ cpc'[c] = stage /\ Open(c)'
      /\ \A d \in Controllers : d # c => cpc'[d] = cpc[d] /\ Open(d)' = Open(d)
    BY <1>0, <1>5, StageStep
<1>7. KVInv(kv') /\ kv'.held = kv.held \cup P
    BY <1>0, <1>1, <1>2, ReserveAllFacts
<1>  HIDE DEF P, U
<1>8. /\ active' \in [Controllers -> SUBSET Requests] /\ pending' \in [Controllers -> Seq(Requests)]
      /\ active'[c] = active[c] \cup P /\ pending'[c] = Unpicked(c) /\ ToSet(pending'[c]) = U
      /\ \A d \in Controllers : d # c => active'[d] = active[d] /\ pending'[d] = pending[d]
  <2>1. pending'[c] = Unpicked(c)
      BY <1>0, <1>2
  <2>2. ToSet(pending'[c]) = U
      BY <2>1 DEF U
  <2>  QED  BY <1>0, <1>1, <1>2, <2>1, <2>2
<1>9. TypeOK'
    BY <1>0, <1>2, <1>4, <1>6, <1>7, <1>8 DEF TypeOK, KVInv
<1>10. \A d \in Controllers : Mine(d)' \subseteq Mine(d)
    BY <1>1, <1>8 DEF Mine
<1>11. Apart'
    BY <1>10, StillApart
<1>12. ControllerInv(c)'
  <2>1. active'[c] \subseteq kv'.held
      BY <1>0, <1>7, <1>8 DEF ControllerInv
  <2>2. cpc'[c] # "unused" /\ cpc'[c] # "created"
      BY <1>6
  <2>3. ToSet(pending'[c]) \cap (kv'.held \cup active'[c]) = {} /\ Distinct(pending'[c])
      BY <1>0, <1>1, <1>7, <1>8 DEF ControllerInv
  <2>4. \A r \in Mine(c)' : rpc'[r] # "new" /\ Key(r)' = c[1]
      BY <1>0, <1>2, <1>10 DEF ControllerInv, Key
  <2>5. Cardinality(active'[c]) <= MaxBatch
      BY <1>1, <1>8
  <2>  QED  BY <2>1, <2>2, <2>3, <2>4, <2>5 DEF ControllerInv
<1>13. ASSUME NEW d \in Controllers, d # c PROVE ControllerInv(d)'
  <2>0. P \cap Mine(d) = {}
      BY <1>1, <1>13
  <2>1. ToSet(pending[d]) \cap kv'.held = {} /\ active[d] \cap kv.held \subseteq kv'.held
      BY <1>7, <2>0 DEF TextInv, ControllerInv, Mine
  <2>2. \A r \in Requests : rpc[r] # "new" => rpc'[r] # "new"
      BY <1>2
  <2>  QED  BY <1>2, <1>6, <1>8, <1>13, <2>1, <2>2, OtherController
<1>14. ASSUME NEW r \in Requests PROVE RequestInv(r)'
  <2>1. RequestInv(r)
      BY DEF TextInv
  <2>2. ASSUME r \in kv'.held \ leaked, rpc[r] \notin {"streaming", "batched"}
        PROVE  \E d \in Controllers : r \in active'[d] /\ Open(d)'
    <3>1. CASE r \in P
        BY <1>6, <1>8, <3>1
    <3>2. CASE r \notin P
      <4>1. PICK d \in Controllers : r \in active[d] /\ Open(d)
          BY <1>7, <2>1, <2>2, <3>2 DEF RequestInv
      <4>2. r \in active'[d] /\ Open(d)'
          BY <1>6, <1>8, <4>1
      <4>  QED  BY <4>2
    <3>  QED  BY <3>1, <3>2
  <2>3. rpc[r] = "new" => r \notin kv'.held
      BY <1>1, <1>7, <2>1 DEF RequestInv
  <2>  QED  BY <1>2, <2>1, <2>2, <2>3 DEF RequestInv
<1>  QED  BY <1>7, <1>9, <1>11, <1>12, <1>13, <1>14 DEF TextInv

\* A part of a sequence without repetitions.
LEMMA PrefixDistinct ==
    ASSUME NEW S, NEW s \in Seq(S), Distinct(s), NEW n \in 0..Len(s)
    PROVE  /\ SubSeq(s, 1, n) \in Seq(S) /\ Distinct(SubSeq(s, 1, n))
           /\ ToSet(SubSeq(s, 1, n)) \subseteq ToSet(s)
<1>  DEFINE a == SubSeq(s, 1, n)
<1>0. Len(s) \in Nat
    BY LenProperties
<1>1. a \in Seq(S) /\ Len(a) = n /\ ToSet(a) \subseteq ToSet(s)
    BY Cut
<1>2. \A i \in 1..n : a[i] = s[i]
    BY <1>0, SubSeqProperties
<1>  HIDE DEF a
<1>3. Distinct(a)
    BY <1>0, <1>1, <1>2 DEF Distinct
<1>  QED  BY <1>1, <1>3 DEF a

LEMMA ByInsertFails == ASSUME TextInv, NEW c \in Controllers, InsertFails(c) PROVE TextInv'
<1>  DEFINE P == ToSet(Picked(c))
            U == ToSet(Unpicked(c))
<1>0. /\ TypeOK /\ KVInv(kv) /\ Apart /\ ControllerInv(c) /\ Open(c)
      /\ active \in [Controllers -> SUBSET Requests] /\ pending \in [Controllers -> Seq(Requests)]
      /\ leaked \subseteq Requests /\ lost \subseteq Requests
    BY DEF TextInv, TypeOK, InsertFails, Open
<1>1. /\ Picked(c) \in Seq(Requests) /\ Distinct(Picked(c))
      /\ Unpicked(c) \in Seq(Requests) /\ Distinct(Unpicked(c))
      /\ P \subseteq ToSet(pending[c]) /\ U \subseteq ToSet(pending[c]) /\ P \cap U = {}
      /\ P \subseteq Requests /\ P \cap kv.held = {}
      /\ \A r \in P : rpc[r] # "new"
      /\ \A d \in Controllers : d # c => P \cap Mine(d) = {}
    BY PickedFromQueue
<1>2. /\ pending' = [pending EXCEPT ![c] = Unpicked(c)]
      /\ lost' = lost \cup P /\ Goto(c, "fail")
      /\ UNCHANGED <<loaded, kind, batches, active, rpc, fut, ended, dropped>>
    BY DEF InsertFails, callers
<1>3. busy' \in Controllers \cup {None} /\ cpc' = [cpc EXCEPT ![c] = "fail"]
    BY <1>2 DEF Goto
<1>4. /\ cpc' \in [Controllers -> Stages] /\ cpc'[c] = "fail" /\ Open(c)'
      /\ \A d \in Controllers : d # c => cpc'[d] = cpc[d] /\ Open(d)' = Open(d)
    BY <1>0, <1>3, StageStep
\* Whatever was left behind is among the requests in hand, and leaked.
<1>5. KVInv(kv') /\ \E X \in SUBSET P : kv'.held = kv.held \cup X /\ leaked' = leaked \cup X
  <2>1. CASE \E n \in 0 .. Len(Picked(c)) :
                kv' = ReserveAll(kv, SubSeq(Picked(c), 1, n)) /\ leaked' = leaked \cup ToSet(SubSeq(Picked(c), 1, n))
    <3>1. PICK n \in 0 .. Len(Picked(c)) :
                kv' = ReserveAll(kv, SubSeq(Picked(c), 1, n)) /\ leaked' = leaked \cup ToSet(SubSeq(Picked(c), 1, n))
        BY <2>1
    <3>  DEFINE made == SubSeq(Picked(c), 1, n)
    <3>2. made \in Seq(Requests) /\ Distinct(made) /\ ToSet(made) \subseteq P
        BY <1>1, PrefixDistinct
    <3>  HIDE DEF made, P
    <3>3. ToSet(made) \cap kv.held = {}
        BY <1>1, <3>2
    <3>4. KVInv(kv') /\ kv'.held = kv.held \cup ToSet(made)
        BY <1>0, <3>1, <3>2, <3>3, ReserveAllFacts DEF made
    <3>  QED  BY <3>1, <3>2, <3>4 DEF made
  <2>2. CASE kv' = ReleaseAll(ReserveAll(kv, Picked(c)), P) /\ UNCHANGED leaked
    <3>1. KVInv(ReserveAll(kv, Picked(c))) /\ ReserveAll(kv, Picked(c)).held = kv.held \cup P
        BY <1>0, <1>1, ReserveAllFacts
    <3>  HIDE DEF P
    <3>2. KVInv(kv') /\ kv'.held = (kv.held \cup P) \ P
        BY <1>1, <2>2, <3>1, ReleaseAllFacts
    <3>3. kv'.held = kv.held \cup {} /\ leaked' = leaked \cup {}
        BY <1>1, <2>2, <3>2
    <3>  QED  BY <3>2, <3>3
  <2>  QED  BY <2>1, <2>2 DEF InsertFails
<1>6. PICK X \in SUBSET P : kv'.held = kv.held \cup X /\ leaked' = leaked \cup X
    BY <1>5
<1>  HIDE DEF P, U
<1>8. /\ pending' \in [Controllers -> Seq(Requests)] /\ pending'[c] = Unpicked(c) /\ ToSet(pending'[c]) = U
      /\ \A d \in Controllers : d # c => pending'[d] = pending[d]
  <2>1. pending'[c] = Unpicked(c)
      BY <1>0, <1>2
  <2>2. ToSet(pending'[c]) = U
      BY <2>1 DEF U
  <2>  QED  BY <1>0, <1>1, <1>2, <2>1, <2>2
<1>9. TypeOK'
  <2>1. leaked' \subseteq Requests /\ lost' \subseteq Requests
      BY <1>0, <1>1, <1>2, <1>6
  <2>  QED  BY <1>0, <1>2, <1>3, <1>4, <1>5, <1>8, <2>1 DEF TypeOK, KVInv
<1>10. \A d \in Controllers : Mine(d)' \subseteq Mine(d)
    BY <1>1, <1>2, <1>8 DEF Mine
<1>11. Apart'
    BY <1>10, StillApart
<1>12. ControllerInv(c)'
  <2>1. active'[c] \subseteq kv'.held
      BY <1>0, <1>2, <1>6 DEF ControllerInv
  <2>2. cpc'[c] # "unused" /\ cpc'[c] # "created"
      BY <1>4
  <2>3. ToSet(pending'[c]) \cap (kv'.held \cup active'[c]) = {} /\ Distinct(pending'[c])
      BY <1>0, <1>1, <1>2, <1>6, <1>8 DEF ControllerInv
  <2>4. \A r \in Mine(c)' : rpc'[r] # "new" /\ Key(r)' = c[1]
      BY <1>0, <1>2, <1>10 DEF ControllerInv, Key
  <2>5. Cardinality(active'[c]) <= MaxBatch
      BY <1>0, <1>2 DEF ControllerInv
  <2>  QED  BY <2>1, <2>2, <2>3, <2>4, <2>5 DEF ControllerInv
<1>13. ASSUME NEW d \in Controllers, d # c PROVE ControllerInv(d)'
  <2>0. X \cap Mine(d) = {}
      BY <1>1, <1>13
  <2>1. ToSet(pending[d]) \cap kv'.held = {} /\ active[d] \cap kv.held \subseteq kv'.held
      BY <1>6, <2>0 DEF TextInv, ControllerInv, Mine
  <2>2. \A r \in Requests : rpc[r] # "new" => rpc'[r] # "new"
      BY <1>2
  <2>  QED  BY <1>2, <1>4, <1>8, <1>13, <2>1, <2>2, OtherController
<1>14. ASSUME NEW r \in Requests PROVE RequestInv(r)'
  <2>1. RequestInv(r)
      BY DEF TextInv
  <2>2. ASSUME r \in kv'.held \ leaked', rpc[r] \notin {"streaming", "batched"}
        PROVE  \E d \in Controllers : r \in active'[d] /\ Open(d)'
    <3>1. PICK d \in Controllers : r \in active[d] /\ Open(d)
        BY <1>6, <2>1, <2>2 DEF RequestInv
    <3>2. r \in active'[d] /\ Open(d)'
        BY <1>2, <1>4, <3>1
    <3>  QED  BY <3>2
  <2>3. rpc[r] = "new" => r \notin kv'.held
      BY <1>1, <1>6, <2>1 DEF RequestInv
  <2>  QED  BY <1>2, <2>1, <2>2, <2>3 DEF RequestInv
<1>  QED  BY <1>5, <1>9, <1>11, <1>12, <1>13, <1>14 DEF TextInv

\* New callers start; X of them keep a reservation, which their stream, or
\* nobody, will release.
LEMMA CallersStart ==
    ASSUME TextInv, NEW S \in SUBSET Requests, \A r \in S : rpc[r] = "new",
           NEW status \in {"over", "streaming", "batched"}, NEW X \in SUBSET S,
           KVInv(kv'), kv'.held = kv.held \cup X,
           rpc' = [r \in Requests |-> IF r \in S THEN status ELSE rpc[r]],
           UNCHANGED <<kind, tasks, loaded, fut, ended, dropped, lost>>,
           batches' \subseteq SUBSET Requests, leaked' \subseteq Requests, leaked \subseteq leaked', status = "over" => X \subseteq leaked',
           status = "streaming" => \A r \in S : kind[r] = "direct",
           status = "batched" => \A r \in S : kind[r] = "batch"
    PROVE  TextInv'
<1>0. /\ TypeOK /\ rpc \in [Requests -> {"new", "waiting", "streaming", "batched", "over"}]
    BY DEF TextInv, TypeOK
<1>1. \A r \in Requests : rpc'[r] = IF r \in S THEN status ELSE rpc[r]
    OBVIOUS
<1>2. TypeOK'
  <2>1. rpc' \in [Requests -> {"new", "waiting", "streaming", "batched", "over"}]
      BY <1>0
  <2>  QED  BY <1>0, <2>1 DEF TypeOK, KVInv, tasks
<1>3. \A r \in Requests : rpc[r] # "new" => rpc'[r] # "new"
    BY <1>1
<1>4. ASSUME NEW c \in Controllers
      PROVE  active[c] \cap kv.held \subseteq kv'.held /\ ToSet(pending[c]) \cap kv'.held = {}
  <2>1. ControllerInv(c)
      BY DEF TextInv
  <2>2. ToSet(pending[c]) \cap S = {}
      BY <2>1 DEF ControllerInv, Mine
  <2>  QED  BY <2>1, <2>2 DEF ControllerInv
<1>5. ASSUME NEW r \in Requests PROVE RequestInv(r)'
  <2>0. RequestInv(r) /\ kind' = kind /\ active' = active /\ \A c \in Controllers : Open(c)' = Open(c)
      BY DEF TextInv, tasks, Open
  <2>1. CASE r \in S
    <3>1. rpc'[r] = status /\ rpc[r] = "new" /\ r \notin kv.held
        BY <1>1, <2>0, <2>1 DEF RequestInv
    <3>2. r \in kv'.held \ leaked' => status \in {"streaming", "batched"}
        BY <3>1
    <3>  QED  BY <2>0, <2>1, <3>1, <3>2 DEF RequestInv
  <2>2. CASE r \notin S
    <3>1. rpc'[r] = rpc[r] /\ (r \in kv'.held <=> r \in kv.held)
        BY <1>1, <2>2
    <3>2. r \in kv'.held \ leaked' => r \in kv.held \ leaked
        BY <3>1
    <3>  QED  BY <2>0, <3>1, <3>2 DEF RequestInv
  <2>  QED  BY <2>1, <2>2
<1>  QED  BY <1>2, <1>3, <1>4, <1>5, CallerStep

\* Streams that no controller serves end; X of them release their pages.
LEMMA CallersEnd ==
    ASSUME TextInv, NEW S \in SUBSET Requests, \A r \in S : rpc[r] \in {"streaming", "batched"},
           NEW X \in SUBSET S, KVInv(kv'), kv'.held = kv.held \ X, leaked' \subseteq Requests,
           leaked \subseteq leaked', S \ X \subseteq leaked',
           rpc' = [r \in Requests |-> IF r \in S THEN "over" ELSE rpc[r]],
           UNCHANGED <<kind, tasks, loaded, fut, ended, dropped, lost>>, batches' \subseteq SUBSET Requests
    PROVE  TextInv'
<1>0. /\ TypeOK /\ rpc \in [Requests -> {"new", "waiting", "streaming", "batched", "over"}]
    BY DEF TextInv, TypeOK
<1>1. \A r \in Requests : rpc'[r] = IF r \in S THEN "over" ELSE rpc[r]
    OBVIOUS
<1>2. TypeOK'
  <2>1. rpc' \in [Requests -> {"new", "waiting", "streaming", "batched", "over"}]
      BY <1>0
  <2>  QED  BY <1>0, <2>1 DEF TypeOK, KVInv, tasks
<1>3. \A r \in Requests : rpc[r] # "new" => rpc'[r] # "new"
    BY <1>1
<1>4. ASSUME NEW c \in Controllers
      PROVE  active[c] \cap kv.held \subseteq kv'.held /\ ToSet(pending[c]) \cap kv'.held = {}
  <2>1. ControllerInv(c)
      BY DEF TextInv
  <2>2. ASSUME NEW r \in S PROVE r \notin active[c]
    <3>1. kind[r] \in {"direct", "batch"}
        BY DEF TextInv, RequestInv
    <3>2. c[1] \in {"generate", "stream"} \X Models \X Temperatures
        BY DEF Controllers, Keys
    <3>3. Key(r) # c[1]
        BY <3>1, <3>2 DEF Key
    <3>  QED  BY <2>1, <3>3 DEF ControllerInv, Mine
  <2>  QED  BY <2>1, <2>2 DEF ControllerInv
<1>5. ASSUME NEW r \in Requests PROVE RequestInv(r)'
  <2>0. RequestInv(r) /\ kind' = kind /\ active' = active /\ \A c \in Controllers : Open(c)' = Open(c)
      BY DEF TextInv, tasks, Open
  <2>1. CASE r \in S
    <3>1. rpc'[r] = "over" /\ r \notin kv'.held \ leaked'
        BY <1>1, <2>1
    <3>  QED  BY <3>1 DEF RequestInv
  <2>2. CASE r \notin S
    <3>1. rpc'[r] = rpc[r] /\ (r \in kv'.held <=> r \in kv.held)
        BY <1>1, <2>2
    <3>2. r \in kv'.held \ leaked' => r \in kv.held \ leaked
        BY <3>1
    <3>  QED  BY <2>0, <3>1, <3>2 DEF RequestInv
  <2>  QED  BY <2>1, <2>2
<1>  QED  BY <1>2, <1>3, <1>4, <1>5, CallerStep

\* A single caller's progress, in the form of the lemmas above.
LEMMA OneCaller ==
    ASSUME TextInv, NEW r \in Requests, NEW status, rpc' = [rpc EXCEPT ![r] = status]
    PROVE  rpc' = [q \in Requests |-> IF q \in {r} THEN status ELSE rpc[q]]
BY DEF TextInv, TypeOK

LEMMA NewIsFree ==
    ASSUME TextInv, NEW r \in Requests, rpc[r] = "new"
    PROVE  r \notin kv.held
BY DEF TextInv, RequestInv

LEMMA ByGenerateDirect == ASSUME TextInv, NEW r \in Requests, GenerateDirect(r) PROVE TextInv'
<1>0. KVInv(kv) /\ leaked \subseteq Requests /\ batches \subseteq SUBSET Requests
    BY DEF TextInv, TypeOK
<1>1. rpc[r] = "new" /\ kv' = Release(Reserve(kv, r), r) /\ rpc' = [rpc EXCEPT ![r] = "over"]
    BY DEF GenerateDirect
<1>2. UNCHANGED <<kind, batches, tasks, loaded, fut, ended, dropped, lost>> /\ leaked' = leaked
    BY DEF GenerateDirect
<1>3. r \notin kv.held
    BY <1>1, NewIsFree
<1>4. KVInv(Reserve(kv, r)) /\ Reserve(kv, r).held = kv.held \cup {r}
    BY <1>0, <1>3, ReserveFacts
<1>5. KVInv(kv') /\ kv'.held = (kv.held \cup {r}) \ {r}
    BY <1>1, <1>4, ReleaseFacts
<1>6. kv'.held = kv.held \cup {}
    BY <1>3, <1>5
<1>7. rpc' = [q \in Requests |-> IF q \in {r} THEN "over" ELSE rpc[q]]
    BY <1>1, OneCaller
<1>  DEFINE S == {r}
            X == {}
<1>8. /\ S \in SUBSET Requests /\ X \in SUBSET S /\ kv'.held = kv.held \cup X /\ \A q \in S : rpc[q] = "new"
      /\ batches' \subseteq SUBSET Requests /\ leaked' \subseteq Requests /\ leaked \subseteq leaked' /\ X \subseteq leaked'
      /\ rpc' = [q \in Requests |-> IF q \in S THEN "over" ELSE rpc[q]]
    BY <1>0, <1>1, <1>2, <1>6, <1>7
<1>  HIDE DEF S, X
<1>  QED  BY <1>2, <1>5, <1>8, CallersStart

LEMMA ByStreamDirect == ASSUME TextInv, NEW r \in Requests, StreamDirect(r) PROVE TextInv'
<1>0. KVInv(kv) /\ leaked \subseteq Requests /\ batches \subseteq SUBSET Requests
    BY DEF TextInv, TypeOK
<1>1. rpc[r] = "new" /\ kind[r] = "direct" /\ kv' = Reserve(kv, r) /\ rpc' = [rpc EXCEPT ![r] = "streaming"]
    BY DEF StreamDirect
<1>2. UNCHANGED <<kind, batches, tasks, loaded, fut, ended, dropped, lost>> /\ leaked' = leaked
    BY DEF StreamDirect
<1>3. r \notin kv.held
    BY <1>1, NewIsFree
<1>4. KVInv(kv') /\ kv'.held = kv.held \cup {r}
    BY <1>0, <1>1, <1>3, ReserveFacts
<1>5. rpc' = [q \in Requests |-> IF q \in {r} THEN "streaming" ELSE rpc[q]]
    BY <1>1, OneCaller
<1>  DEFINE S == {r}
<1>6. /\ S \in SUBSET Requests /\ S \in SUBSET S /\ kv'.held = kv.held \cup S /\ \A q \in S : rpc[q] = "new"
      /\ batches' \subseteq SUBSET Requests /\ leaked' \subseteq Requests /\ leaked \subseteq leaked' /\ \A q \in S : kind[q] = "direct"
      /\ rpc' = [q \in Requests |-> IF q \in S THEN "streaming" ELSE rpc[q]]
    BY <1>0, <1>1, <1>2, <1>4, <1>5
<1>  HIDE DEF S
<1>  QED  BY <1>2, <1>4, <1>6, CallersStart

LEMMA ByEndDirect == ASSUME TextInv, NEW r \in Requests, EndDirect(r) PROVE TextInv'
<1>0. KVInv(kv) /\ leaked \subseteq Requests /\ batches \subseteq SUBSET Requests
    BY DEF TextInv, TypeOK
<1>1. rpc[r] = "streaming" /\ kv' = Release(kv, r) /\ rpc' = [rpc EXCEPT ![r] = "over"]
    BY DEF EndDirect
<1>2. UNCHANGED <<kind, batches, tasks, loaded, fut, ended, dropped, lost, leaked>>
    BY DEF EndDirect
<1>3. KVInv(kv') /\ kv'.held = kv.held \ {r}
    BY <1>0, <1>1, ReleaseFacts
<1>4. rpc' = [q \in Requests |-> IF q \in {r} THEN "over" ELSE rpc[q]]
    BY <1>1, OneCaller
<1>  DEFINE S == {r}
<1>5. /\ S \in SUBSET Requests /\ S \in SUBSET S /\ (\A q \in S : rpc[q] \in {"streaming", "batched"})
      /\ kv'.held = kv.held \ S /\ leaked' \subseteq Requests /\ leaked \subseteq leaked' /\ S \ S \subseteq leaked'
      /\ batches' \subseteq SUBSET Requests /\ rpc' = [q \in Requests |-> IF q \in S THEN "over" ELSE rpc[q]]
    BY <1>0, <1>1, <1>2, <1>3, <1>4
<1>  HIDE DEF S
<1>  QED  BY <1>2, <1>3, <1>5, CallersEnd

\* The members of a batch, one after the other.
LEMMA BatchInOrder ==
    ASSUME TextInv, NEW S \in SUBSET Requests, \A r \in S : rpc[r] = "new"
    PROVE  /\ SetToSeq(S) \in Seq(Requests) /\ Distinct(SetToSeq(S)) /\ ToSet(SetToSeq(S)) = S
           /\ S \cap kv.held = {}
<1>1. IsFiniteSet(S)
    BY KVAssumption, FS_Subset
<1>2. SetToSeq(S) \in Seq(S) /\ Distinct(SetToSeq(S)) /\ ToSet(SetToSeq(S)) = S
    BY <1>1, SetToSeqFacts
<1>3. S \cap kv.held = {}
    BY NewIsFree
<1>  QED  BY <1>2, <1>3, SeqMonotonic

LEMMA ByGenerateBatch == ASSUME TextInv, NEW S \in SUBSET Requests, GenerateBatch(S) PROVE TextInv'
<1>  DEFINE s == SetToSeq(S)
<1>0. KVInv(kv) /\ leaked \subseteq Requests /\ batches \subseteq SUBSET Requests
    BY DEF TextInv, TypeOK
<1>1. \A r \in S : rpc[r] = "new"
    BY DEF GenerateBatch, Batchable
<1>2. UNCHANGED <<kind, batches, tasks, loaded, fut, ended, dropped, lost>>
    BY DEF GenerateBatch
<1>7. batches' \subseteq SUBSET Requests
    BY <1>0, <1>2
<1>3. s \in Seq(Requests) /\ Distinct(s) /\ ToSet(s) = S /\ S \cap kv.held = {}
    BY <1>1, BatchInOrder
<1>4. \/ BatchFails(s)
      \/ /\ kv' = ReleaseAll(ReserveAll(kv, s), S)
         /\ rpc' = [r \in Requests |-> IF r \in S THEN "over" ELSE rpc[r]]
         /\ UNCHANGED leaked
    BY DEF GenerateBatch
<1>  HIDE DEF s
<1>5. CASE BatchFails(s)
  <2>1. PICK n \in 0 .. Len(s) : kv' = ReserveAll(kv, SubSeq(s, 1, n)) /\ leaked' = leaked \cup ToSet(SubSeq(s, 1, n))
      BY <1>5 DEF BatchFails
  <2>2. rpc' = [r \in Requests |-> IF r \in S THEN "over" ELSE rpc[r]]
      BY <1>3, <1>5 DEF BatchFails
  <2>  DEFINE made == SubSeq(s, 1, n)
  <2>3. made \in Seq(Requests) /\ Distinct(made) /\ ToSet(made) \subseteq S
      BY <1>3, PrefixDistinct
  <2>  HIDE DEF made
  <2>4. KVInv(kv') /\ kv'.held = kv.held \cup ToSet(made)
    <3>1. ToSet(made) \cap kv.held = {}
        BY <1>3, <2>3
    <3>  QED  BY <1>0, <2>1, <2>3, <3>1, ReserveAllFacts DEF made
  <2>5. leaked' \subseteq Requests /\ leaked \subseteq leaked' /\ ToSet(made) \subseteq leaked' /\ ToSet(made) \in SUBSET S
      BY <1>0, <2>1, <2>3 DEF made
  <2>  QED  BY <1>1, <1>2, <1>7, <2>2, <2>4, <2>5, CallersStart
<1>6. CASE /\ kv' = ReleaseAll(ReserveAll(kv, s), S)
           /\ rpc' = [r \in Requests |-> IF r \in S THEN "over" ELSE rpc[r]]
           /\ UNCHANGED leaked
  <2>1. KVInv(ReserveAll(kv, s)) /\ ReserveAll(kv, s).held = kv.held \cup S
      BY <1>0, <1>3, ReserveAllFacts
  <2>2. KVInv(kv') /\ kv'.held = (kv.held \cup S) \ S
      BY <1>6, <2>1, ReleaseAllFacts
  <2>  DEFINE X == {}
  <2>3. /\ kv'.held = kv.held \cup X /\ X \in SUBSET S
        /\ leaked' \subseteq Requests /\ leaked \subseteq leaked' /\ X \subseteq leaked'
      BY <1>0, <1>3, <1>6, <2>2
  <2>  HIDE DEF X
  <2>  QED  BY <1>1, <1>2, <1>6, <1>7, <2>2, <2>3, CallersStart
<1>  QED  BY <1>4, <1>5, <1>6

LEMMA ByStreamBatch == ASSUME TextInv, NEW S \in SUBSET Requests, StreamBatch(S) PROVE TextInv'
<1>  DEFINE s == SetToSeq(S)
<1>0. KVInv(kv) /\ leaked \subseteq Requests /\ batches \subseteq SUBSET Requests
    BY DEF TextInv, TypeOK
<1>1. (\A r \in S : rpc[r] = "new") /\ \A r \in S : kind[r] = "batch"
    BY DEF StreamBatch, Batchable
<1>2. UNCHANGED <<kind, tasks, loaded, fut, ended, dropped, lost>> /\ leaked' = leaked
    BY DEF StreamBatch
<1>3. s \in Seq(Requests) /\ Distinct(s) /\ ToSet(s) = S /\ S \cap kv.held = {}
    BY <1>1, BatchInOrder
<1>4. kv' = ReserveAll(kv, s) /\ rpc' = [r \in Requests |-> IF r \in S THEN "batched" ELSE rpc[r]]
    BY DEF StreamBatch
<1>5. KVInv(kv') /\ kv'.held = kv.held \cup S
    BY <1>0, <1>3, <1>4, ReserveAllFacts
<1>6. batches' \subseteq SUBSET Requests
    BY <1>0 DEF StreamBatch
<1>  QED  BY <1>0, <1>1, <1>2, <1>4, <1>5, <1>6, CallersStart

\* The native stream batches that are open.
BatchInv ==
    /\ \A S \in batches : \A r \in S : rpc[r] = "batched"
    /\ \A S, T \in batches : S # T => S \cap T = {}

LEMMA ByEndBatch == ASSUME TextInv, BatchInv, NEW S \in SUBSET Requests, EndBatch(S) PROVE TextInv'
<1>0. KVInv(kv) /\ leaked \subseteq Requests /\ batches \subseteq SUBSET Requests
    BY DEF TextInv, TypeOK
<1>1. \/ kv' = ReleaseAll(kv, S) /\ leaked' = leaked
      \/ leaked' = leaked \cup S /\ kv' = kv
    BY DEF EndBatch
<1>2. UNCHANGED <<kind, tasks, loaded, fut, ended, dropped, lost>>
    BY DEF EndBatch
<1>3. \A r \in S : rpc[r] \in {"streaming", "batched"}
    BY DEF EndBatch, BatchInv
<1>4. rpc' = [r \in Requests |-> IF r \in S THEN "over" ELSE rpc[r]]
    BY DEF EndBatch
<1>5. batches' \subseteq SUBSET Requests
    BY <1>0 DEF EndBatch
<1>6. leaked' \subseteq Requests /\ leaked \subseteq leaked'
    BY <1>0, <1>1
<1>7. CASE kv' = ReleaseAll(kv, S) /\ leaked' = leaked
  <2>1. KVInv(kv') /\ kv'.held = kv.held \ S
      BY <1>0, <1>7, ReleaseAllFacts
  <2>2. S \in SUBSET S /\ S \ S \subseteq leaked'
      OBVIOUS
  <2>  QED  BY <1>2, <1>3, <1>4, <1>5, <1>6, <2>1, <2>2, CallersEnd
<1>8. CASE leaked' = leaked \cup S /\ kv' = kv
  <2>  DEFINE X == {}
  <2>1. KVInv(kv') /\ kv'.held = kv.held \ X /\ X \in SUBSET S /\ S \ X \subseteq leaked'
      BY <1>0, <1>8
  <2>  HIDE DEF X
  <2>  QED  BY <1>2, <1>3, <1>4, <1>5, <1>6, <2>1, CallersEnd
<1>  QED  BY <1>1, <1>7, <1>8

\* Only opening and ending a batch concern the batches.
LEMMA BatchesKept ==
    ASSUME BatchInv, batches' = batches, \A r \in Requests : rpc[r] = "batched" => rpc'[r] = "batched",
           batches \subseteq SUBSET Requests
    PROVE  BatchInv'
BY DEF BatchInv

LEMMA BatchStep == TextInv /\ BatchInv /\ [Next]_vars => BatchInv'
<1>  SUFFICES ASSUME TextInv, BatchInv, [Next]_vars PROVE BatchInv'
    OBVIOUS
<1>0. /\ rpc \in [Requests -> {"new", "waiting", "streaming", "batched", "over"}]
      /\ batches \subseteq SUBSET Requests
    BY DEF TextInv, TypeOK
<1>1. ASSUME NEW S \in SUBSET Requests, StreamBatch(S) PROVE BatchInv'
  <2>1. /\ batches' = batches \cup {S}
        /\ rpc' = [r \in Requests |-> IF r \in S THEN "batched" ELSE rpc[r]]
        /\ \A r \in S : rpc[r] = "new"
      BY <1>1 DEF StreamBatch, Batchable
  <2>2. \A r \in Requests : rpc'[r] = IF r \in S THEN "batched" ELSE rpc[r]
      BY <2>1
  <2>3. \A T \in batches : T \cap S = {} /\ T \subseteq Requests /\ \A r \in T : rpc[r] = "batched"
      BY <1>0, <2>1 DEF BatchInv
  <2>4. \A T \in batches' : \A r \in T : rpc'[r] = "batched"
      BY <2>1, <2>2, <2>3
  <2>5. \A T, U \in batches' : T # U => T \cap U = {}
      BY <2>1, <2>3 DEF BatchInv
  <2>  QED  BY <2>4, <2>5 DEF BatchInv
<1>2. ASSUME NEW S \in SUBSET Requests, EndBatch(S) PROVE BatchInv'
  <2>1. /\ batches' = batches \ {S} /\ S \in batches
        /\ rpc' = [r \in Requests |-> IF r \in S THEN "over" ELSE rpc[r]]
      BY <1>2 DEF EndBatch
  <2>2. \A r \in Requests : rpc'[r] = IF r \in S THEN "over" ELSE rpc[r]
      BY <2>1
  <2>3. \A T \in batches' : T \cap S = {} /\ T \subseteq Requests /\ \A r \in T : rpc[r] = "batched"
      BY <1>0, <2>1 DEF BatchInv
  <2>4. \A T \in batches' : \A r \in T : rpc'[r] = "batched"
      BY <2>2, <2>3
  <2>  QED  BY <2>1, <2>4 DEF BatchInv
<1>3. ASSUME NEW S \in SUBSET Requests, GenerateBatch(S) PROVE BatchInv'
  <2>1. ToSet(SetToSeq(S)) = S
    <3>1. IsFiniteSet(S)
        BY KVAssumption, FS_Subset
    <3>  QED  BY <3>1, SetToSeqFacts
  <2>2. /\ batches' = batches /\ \A r \in S : rpc[r] = "new"
        /\ rpc' = [r \in Requests |-> IF r \in S THEN "over" ELSE rpc[r]]
      BY <1>3, <2>1 DEF GenerateBatch, Batchable, BatchFails
  <2>3. \A r \in Requests : rpc[r] = "batched" => rpc'[r] = "batched"
      BY <2>2
  <2>  QED  BY <1>0, <2>2, <2>3, BatchesKept
<1>4. ASSUME NEW r \in Requests,
             \/ Return(r) \/ LeaveGenerate(r) \/ GenerateDirect(r) \/ StreamDirect(r) \/ EndDirect(r)
             \/ \E c \in Controllers : Enqueue(r, c) \/ LeaveStream(r, c)
      PROVE  BatchInv'
  <2>1. batches' = batches /\ rpc[r] # "batched"
      BY <1>4 DEF Return, LeaveGenerate, GenerateDirect, StreamDirect, EndDirect, Enqueue, LeaveStream
  <2>2. PICK status : rpc' = [rpc EXCEPT ![r] = status]
      BY <1>4 DEF Return, LeaveGenerate, GenerateDirect, StreamDirect, EndDirect, Enqueue, LeaveStream
  <2>3. \A q \in Requests : rpc[q] = "batched" => rpc'[q] = "batched"
      BY <1>0, <2>1, <2>2
  <2>  QED  BY <1>0, <2>1, <2>3, BatchesKept
<1>5. CASE \/ UNCHANGED vars
           \/ \E m \in Models : Load(m) \/ Unload(m)
           \/ \E c \in Controllers : Task(c)
  <2>1. batches' = batches /\ rpc' = rpc
    <3>1. ASSUME NEW c \in Controllers, Task(c) PROVE batches' = batches /\ rpc' = rpc
      <4>1. CASE Begin(c) \/ Resume(c) \/ InsertFails(c) \/ InsertPending(c) \/ Sweep(c)
          BY <4>1 DEF Begin, Resume, InsertFails, InsertPending, Sweep, callers
      <4>2. CASE GenerateFails(c) \/ Generate(c) \/ Fail(c) \/ Finally(c)
          BY <4>2 DEF GenerateFails, Generate, Fail, Finally, callers
      <4>  QED  BY <3>1, <4>1, <4>2 DEF Task
    <3>2. CASE UNCHANGED vars
        BY <3>2 DEF vars, callers
    <3>3. CASE \E m \in Models : Load(m) \/ Unload(m)
        BY <3>3 DEF Load, Unload, callers
    <3>  QED  BY <1>5, <3>1, <3>2, <3>3
  <2>  QED  BY <1>0, <2>1, BatchesKept
<1>  QED  BY <1>1, <1>2, <1>3, <1>4, <1>5 DEF Next

LEMMA TextUnchanged == ASSUME TextInv, UNCHANGED vars PROVE TextInv'
<1>1. TypeOK'
    BY DEF TextInv, TypeOK, vars, tasks, callers
<1>2. Quiet
    BY DEF Quiet, vars, tasks, callers, Open
<1>  QED  BY <1>1, <1>2, QuietStep

LEMMA TextStep == TextInv /\ BatchInv /\ [Next]_vars => TextInv'
<1>  SUFFICES ASSUME TextInv, BatchInv, [Next]_vars PROVE TextInv'
    OBVIOUS
<1>1. ASSUME NEW m \in Models, Load(m) \/ Unload(m) PROVE TextInv'
    BY <1>1, ByLoad, ByUnload
<1>2. ASSUME NEW r \in Requests, NEW c \in Controllers, Enqueue(r, c) \/ LeaveStream(r, c) PROVE TextInv'
    BY <1>2, ByEnqueue, ByLeaveStream
<1>3. ASSUME NEW r \in Requests, Return(r) \/ LeaveGenerate(r) PROVE TextInv'
    BY <1>3, ByReturn, ByLeaveGenerate
<1>4. ASSUME NEW c \in Controllers, Task(c) PROVE TextInv'
    BY <1>4, ByBegin, ByResume, ByInsertFails, ByInsertPending, BySweep, ByGenerateFails, ByGenerate, ByFail, ByFinally
       DEF Task
<1>5. ASSUME NEW r \in Requests, GenerateDirect(r) \/ StreamDirect(r) \/ EndDirect(r) PROVE TextInv'
    BY <1>5, ByGenerateDirect, ByStreamDirect, ByEndDirect
<1>6. ASSUME NEW S \in SUBSET Requests, GenerateBatch(S) \/ StreamBatch(S) \/ EndBatch(S) PROVE TextInv'
    BY <1>6, ByGenerateBatch, ByStreamBatch, ByEndBatch
<1>  QED  BY <1>1, <1>2, <1>3, <1>4, <1>5, <1>6, TextUnchanged DEF Next

-----------------------------------------------------------------------------
(* The theorems.                                                           *)

\* The controllers keep their invariant: what a controller of
\* runtime/mlx_text/runtime.py has queued is not reserved yet and is its own,
\* no request is with two controllers, and the paged-KV books are in order.
THEOREM TextInvariant == Spec => []TextInv
<1>1. Init => TextInv /\ BatchInv
    BY TextInit DEF Init, BatchInv
<1>2. TextInv /\ BatchInv /\ [Next]_vars => TextInv' /\ BatchInv'
    BY TextStep, BatchStep
<1>  QED  BY <1>1, <1>2, PTL DEF Spec

\* The paged-KV books add up (paged_kv.py reserve, release, unregister_model):
\* transient pages and reference counts are what the active reservations use, a
\* referenced page is resident, and the cache is over max_pages only when no
\* page could be given up.
THEOREM BooksAddUp == Spec => []KVBooks
<1>1. TextInv => KVBooks
    BY TextInvMeans
<1>  QED  BY <1>1, TextInvariant, PTL

\* An open controller decodes only requests whose pages are reserved, no batch
\* exceeds continuous_batch_max_batch_size, and a held reservation has somebody
\* to release it, save those that a failed preparation left behind, those of a
\* native batch whose generator could not be closed, and that of a request that
\* _run took out of _active before its decoding raised.
THEOREM DecodedIsReserved == Spec => []ReservedWhileDecoding
<1>1. TextInv => ReservedWhileDecoding
    BY TextInvMeans
<1>  QED  BY <1>1, TextInvariant, PTL

\* No stream is open, and no controller decodes.
AtRest ==
    /\ \A r \in Requests : rpc[r] \notin {"streaming", "batched"}
    /\ \A c \in Controllers : active[c] = {}

\* Nothing is reserved; the pages that stay are within the limit, unless some
\* prompt put a page in place two times over, whose count is then too low.
RestedBooks ==
    /\ kv.held = {}
    /\ \A l \in Lanes : kv.transient[l] = 0
    /\ kv.twice = {} => Total(kv) <= MaxPages

LEMMA RestIsClean == TextInv => (AtRest /\ leaked = {} => RestedBooks)
<1>  SUFFICES ASSUME TextInv, AtRest, leaked = {} PROVE RestedBooks
    OBVIOUS
<1>0. KVInv(kv)
    BY DEF TextInv
<1>1. kv.held = {}
  <2>1. kv.held \subseteq Requests
      BY <1>0, KVInvFacts
  <2>2. ASSUME NEW r \in kv.held PROVE FALSE
    <3>1. RequestInv(r) /\ r \in kv.held \ leaked
        BY <2>1 DEF TextInv
    <3>  QED  BY <2>1, <3>1 DEF RequestInv, AtRest
  <2>  QED  BY <2>2
<1>2. SumFunctionOnSet(DecodePages, {}) = 0 /\ \A p \in Pages : SumFunctionOnSet(Uses[p], {}) = 0
    BY Weights, SumFacts
<1>3. ASSUME NEW l \in Lanes PROVE kv.transient[l] = 0
  <2>1. {r \in kv.held : LaneOf[r] = l} = {}
      BY <1>1
  <2>2. kv.transient[l] = SumFunctionOnSet(DecodePages, {r \in kv.held : LaneOf[r] = l})
      BY <1>0, KVInvFacts
  <2>  QED  BY <1>2, <2>1, <2>2
<1>4. ASSUME kv.twice = {} PROVE Total(kv) <= MaxPages
  <2>  SUFFICES ASSUME ~(Total(kv) <= MaxPages) PROVE FALSE
      OBVIOUS
  <2>1. kv.order \in Seq(Pages) /\ Len(kv.order) \in Nat /\ ToSet(kv.order) \subseteq Pages
      BY <1>0, KVInvFacts
  <2>2. kv.transient["decode"] = 0 /\ kv.transient["prefill"] = 0
      BY <1>3 DEF Lanes
  <2>3. Total(kv) = Len(kv.order) + 0 + 0
      BY <2>2 DEF Total
  <2>4. MaxPages \in Nat /\ Total(kv) > MaxPages /\ Len(kv.order) > 0
      BY <2>1, <2>3, KVAssumption
  <2>5. \A p \in Pages : kv.ref[p] = 0
    <3>1. \A p \in Pages : kv.ref[p] = SumFunctionOnSet(Uses[p], kv.held)
        BY <1>0, <1>4, KVInvFacts
    <3>  QED  BY <1>1, <1>2, <3>1
  <2>6. \A p \in ToSet(kv.order) : kv.ref[p] > 0
      BY <1>0, <2>4, KVInvFacts
  <2>7. kv.order[1] \in ToSet(kv.order)
      BY <2>1, <2>4, LenProperties DEF ToSet
  <2>8. kv.ref[kv.order[1]] = 0 /\ kv.ref[kv.order[1]] > 0
      BY <2>1, <2>5, <2>6, <2>7
  <2>  QED  BY <2>8
<1>  QED  BY <1>1, <1>3, <1>4 DEF RestedBooks

\* Once every stream has ended and every batch has drained, and if no
\* preparation, no decoding of a finished request and no closing of a native
\* batch failed on the way, the paged-KV manager holds no reservation, counts no
\* transient page and is within max_pages again (paged_kv.py release,
\* _evict_to_fit_locked): being over the limit is never permanent.
THEOREM RestedCacheFits == Spec => [](AtRest /\ leaked = {} => RestedBooks)
BY RestIsClean, TextInvariant, PTL

-----------------------------------------------------------------------------
(* Nobody who waits is forgotten.                                          *)

Known(r) == r \in lost \/ Answered(r) \/ \E c \in Controllers : r \in Mine(c)

\* A request marked as left has a caller that left, or is recorded as lost.
WaiterInv ==
    \A r \in Requests :
        /\ rpc[r] = "waiting" => Known(r)
        /\ r \in dropped => rpc[r] = "over" \/ r \in lost

\* A step that nobody starts waiting in keeps it, if whoever a controller lets
\* go of is answered or recorded, or had left.
LEMMA WaiterStep ==
    ASSUME WaiterInv, kind' = kind, lost \subseteq lost',
           \A r \in Requests : rpc'[r] = "waiting" => rpc[r] = "waiting",
           \A r \in Requests : rpc[r] = "over" => rpc'[r] = "over",
           \A r \in Requests : fut[r] # "none" => fut'[r] # "none",
           ended \subseteq ended',
           \A r \in Requests : r \in dropped' \ dropped => rpc'[r] = "over" \/ r \in lost',
           \A r \in Requests : \A c \in Controllers : rpc[r] = "waiting" /\ r \in Mine(c) => Known(r)'
    PROVE  WaiterInv'
<1>  SUFFICES ASSUME NEW r \in Requests
              PROVE  (rpc'[r] = "waiting" => Known(r)') /\ (r \in dropped' => rpc'[r] = "over" \/ r \in lost')
    BY DEF WaiterInv
<1>1. (rpc[r] = "waiting" => Known(r)) /\ (r \in dropped => rpc[r] = "over" \/ r \in lost)
    BY DEF WaiterInv
<1>2. Answered(r) => Answered(r)'
    BY DEF Answered
<1>3. r \in lost' \/ Answered(r)' => Known(r)'
    BY DEF Known
<1>4. rpc'[r] = "waiting" => Known(r)'
    BY <1>1, <1>2, <1>3 DEF Known
<1>5. r \in dropped' => rpc'[r] = "over" \/ r \in lost'
    BY <1>1
<1>  QED  BY <1>4, <1>5

\* The queues, the batches and the answers are left alone.
LEMMA WaiterIdle ==
    ASSUME WaiterInv, UNCHANGED <<kind, lost, pending, active, fut, ended, dropped>>,
           \A r \in Requests : rpc'[r] = "waiting" => rpc[r] = "waiting",
           \A r \in Requests : rpc[r] = "over" => rpc'[r] = "over"
    PROVE  WaiterInv'
<1>1. \A c \in Controllers : Mine(c)' = Mine(c)
    BY DEF Mine
<1>2. \A r \in Requests : \A c \in Controllers : rpc[r] = "waiting" /\ r \in Mine(c) => Known(r)'
    BY <1>1 DEF Known
<1>3. lost \subseteq lost' /\ ended \subseteq ended' /\ kind' = kind
    OBVIOUS
<1>4. \A r \in Requests : fut[r] # "none" => fut'[r] # "none"
    OBVIOUS
<1>5. \A r \in Requests : r \in dropped' \ dropped => rpc'[r] = "over" \/ r \in lost'
    OBVIOUS
<1>  QED  BY <1>2, <1>3, <1>4, <1>5, WaiterStep

\* A controller lets go of requests that are then known, or of ones that left.
LEMMA WaiterTask ==
    ASSUME TextInv, WaiterInv, NEW c \in Controllers, kind' = kind, rpc' = rpc, lost \subseteq lost',
           \A r \in Requests : fut[r] # "none" => fut'[r] # "none",
           ended \subseteq ended',
           \A r \in Requests : r \in dropped' \ dropped => r \in lost',
           \A d \in Controllers : d # c => pending'[d] = pending[d] /\ active'[d] = active[d],
           \A r \in Mine(c) : r \in Mine(c)' \/ r \in lost' \/ r \in dropped \/ Answered(r)'
    PROVE  WaiterInv'
<1>1. ASSUME NEW r \in Requests, NEW d \in Controllers, rpc[r] = "waiting", r \in Mine(d) PROVE Known(r)'
  <2>1. CASE d # c
      BY <1>1, <2>1 DEF Known, Mine
  <2>2. CASE d = c
    <3>1. r \in dropped => r \in lost'
        BY <1>1 DEF WaiterInv
    <3>2. r \in Mine(c)' \/ r \in lost' \/ Answered(r)'
        BY <1>1, <2>2, <3>1
    <3>  QED  BY <3>2 DEF Known
  <2>  QED  BY <2>1, <2>2
<1>2. \A r \in Requests : rpc'[r] = "waiting" => rpc[r] = "waiting"
    OBVIOUS
<1>3. \A r \in Requests : rpc[r] = "over" => rpc'[r] = "over"
    OBVIOUS
<1>4. \A r \in Requests : r \in dropped' \ dropped => rpc'[r] = "over" \/ r \in lost'
    OBVIOUS
<1>  QED  BY <1>1, <1>2, <1>3, <1>4, WaiterStep

\* What settling does to a request of a controller.
LEMMA SettledIsAnswered ==
    ASSUME TextInv, NEW c \in Controllers, NEW S \in SUBSET Mine(c), NEW answer \in Outcomes \ {"none"},
           Settle(S, answer), kind' = kind
    PROVE  /\ \A r \in S : r \in dropped \/ Answered(r)'
           /\ \A r \in Requests : fut[r] # "none" => fut'[r] # "none"
           /\ ended \subseteq ended'
<1>1. Mine(c) \subseteq Requests
    BY MineInside DEF TextInv
<1>2. ASSUME NEW r \in S PROVE r \in dropped \/ Answered(r)'
  <2>1. r \in Requests /\ kind[r] \in {"generate", "stream"}
    <3>1. r \in Mine(c) /\ Key(r) = c[1]
        BY DEF TextInv, ControllerInv
    <3>2. c[1] \in {"generate", "stream"} \X Models \X Temperatures
        BY DEF Controllers, Keys
    <3>  QED  BY <1>1, <3>1, <3>2 DEF Key
  <2>2. fut'[r] = IF fut[r] = "none" THEN answer ELSE fut[r]
      BY <2>1 DEF Settle
  <2>3. kind[r] = "stream" /\ r \notin dropped => r \in ended'
      BY DEF Settle
  <2>  QED  BY <2>1, <2>2, <2>3 DEF Answered
<1>3. \A r \in Requests : fut[r] # "none" => fut'[r] # "none"
    BY DEF Settle
<1>4. ended \subseteq ended'
    BY DEF Settle
<1>  QED  BY <1>2, <1>3, <1>4

\* Whoever is taken off the queue and not picked had left.
LEMMA PassedOver ==
    ASSUME TextInv, NEW c \in Controllers, NEW r \in ToSet(pending[c]),
           r \notin ToSet(Picked(c)) \cup ToSet(Unpicked(c))
    PROVE  r \in dropped \/ Answered(r)
<1>1. ~Live(r)
    BY PickedFromQueue
<1>  QED  BY <1>1 DEF Live, Answered

LEMMA WaiterInsertPending ==
    ASSUME TextInv, WaiterInv, NEW c \in Controllers, InsertPending(c) PROVE WaiterInv'
<1>  DEFINE P == ToSet(Picked(c))
            U == ToSet(Unpicked(c))
<1>0. active \in [Controllers -> SUBSET Requests] /\ pending \in [Controllers -> Seq(Requests)]
    BY DEF TextInv, TypeOK
<1>1. /\ pending' = [pending EXCEPT ![c] = Unpicked(c)] /\ active' = [active EXCEPT ![c] = @ \cup P]
      /\ UNCHANGED <<kind, rpc, fut, ended, dropped, lost>>
    BY DEF InsertPending, callers
<1>2. \A r \in ToSet(pending[c]) : r \in P \cup U \/ r \in dropped \/ Answered(r)
    BY PassedOver
<1>3. pending'[c] = Unpicked(c)
    BY <1>0, <1>1
<1>4. ToSet(pending'[c]) = U
    BY <1>3
<1>  HIDE DEF P, U
<1>5. active'[c] = active[c] \cup P /\ \A d \in Controllers : d # c => pending'[d] = pending[d] /\ active'[d] = active[d]
    BY <1>0, <1>1
<1>6. \A r : Answered(r)' = Answered(r)
    BY <1>1 DEF Answered
<1>7. \A r \in Mine(c) : r \in Mine(c)' \/ r \in lost' \/ r \in dropped \/ Answered(r)'
    BY <1>2, <1>4, <1>5, <1>6 DEF Mine
<1>8. lost \subseteq lost' /\ ended \subseteq ended' /\ kind' = kind /\ rpc' = rpc /\ dropped' = dropped /\ fut' = fut
    BY <1>1
<1>9. \A r \in Requests : fut[r] # "none" => fut'[r] # "none"
    BY <1>8
<1>10. \A r \in Requests : r \in dropped' \ dropped => r \in lost'
    BY <1>8
<1>  QED  BY <1>5, <1>7, <1>8, <1>9, <1>10, WaiterTask

LEMMA WaiterInsertFails ==
    ASSUME TextInv, WaiterInv, NEW c \in Controllers, InsertFails(c) PROVE WaiterInv'
<1>  DEFINE P == ToSet(Picked(c))
            U == ToSet(Unpicked(c))
<1>0. active \in [Controllers -> SUBSET Requests] /\ pending \in [Controllers -> Seq(Requests)]
    BY DEF TextInv, TypeOK
<1>1. /\ pending' = [pending EXCEPT ![c] = Unpicked(c)] /\ lost' = lost \cup P
      /\ UNCHANGED <<kind, rpc, fut, ended, dropped, active>>
    BY DEF InsertFails, callers
<1>2. \A r \in ToSet(pending[c]) : r \in P \cup U \/ r \in dropped \/ Answered(r)
    BY PassedOver
<1>3. pending'[c] = Unpicked(c)
    BY <1>0, <1>1
<1>4. ToSet(pending'[c]) = U
    BY <1>3
<1>  HIDE DEF P, U
<1>5. active'[c] = active[c] /\ \A d \in Controllers : d # c => pending'[d] = pending[d] /\ active'[d] = active[d]
    BY <1>0, <1>1
<1>6. \A r : Answered(r)' = Answered(r)
    BY <1>1 DEF Answered
<1>7. \A r \in Mine(c) : r \in Mine(c)' \/ r \in lost' \/ r \in dropped \/ Answered(r)'
    BY <1>1, <1>2, <1>4, <1>5, <1>6 DEF Mine
<1>8. lost \subseteq lost' /\ ended \subseteq ended' /\ kind' = kind /\ rpc' = rpc /\ dropped' = dropped /\ fut' = fut
    BY <1>1
<1>9. \A r \in Requests : fut[r] # "none" => fut'[r] # "none"
    BY <1>8
<1>10. \A r \in Requests : r \in dropped' \ dropped => r \in lost'
    BY <1>8
<1>  QED  BY <1>5, <1>7, <1>8, <1>9, <1>10, WaiterTask

LEMMA WaiterSweep ==
    ASSUME TextInv, WaiterInv, NEW c \in Controllers, Sweep(c) PROVE WaiterInv'
<1>0. active \in [Controllers -> SUBSET Requests]
    BY DEF TextInv, TypeOK
<1>1. PICK S \in SUBSET (active[c] \cap dropped) : active' = [active EXCEPT ![c] = @ \ S]
    BY DEF Sweep
<1>2. UNCHANGED <<kind, rpc, fut, ended, dropped, lost, pending>>
    BY DEF Sweep, callers
<1>3. active'[c] = active[c] \ S /\ \A d \in Controllers : d # c => pending'[d] = pending[d] /\ active'[d] = active[d]
    BY <1>0, <1>1, <1>2
<1>4. \A r \in Mine(c) : r \in Mine(c)' \/ r \in lost' \/ r \in dropped \/ Answered(r)'
    BY <1>1, <1>2, <1>3 DEF Mine
<1>5. lost \subseteq lost' /\ ended \subseteq ended' /\ kind' = kind /\ rpc' = rpc /\ dropped' = dropped /\ fut' = fut
    BY <1>2
<1>6. \A r \in Requests : fut[r] # "none" => fut'[r] # "none"
    BY <1>5
<1>7. \A r \in Requests : r \in dropped' \ dropped => r \in lost'
    BY <1>5
<1>  QED  BY <1>3, <1>4, <1>5, <1>6, <1>7, WaiterTask

LEMMA WaiterGenerate ==
    ASSUME TextInv, WaiterInv, NEW c \in Controllers, Generate(c) PROVE WaiterInv'
<1>0. active \in [Controllers -> SUBSET Requests]
    BY DEF TextInv, TypeOK
<1>1. PICK F \in SUBSET active[c] : active' = [active EXCEPT ![c] = @ \ F] /\ Settle(F, "end")
    BY DEF Generate
<1>2. UNCHANGED <<kind, rpc, dropped, lost, pending>>
    BY DEF Generate
<1>3. F \in SUBSET Mine(c) /\ "end" \in Outcomes \ {"none"}
    BY DEF Mine, Outcomes
<1>4. /\ \A r \in F : r \in dropped \/ Answered(r)'
      /\ \A r \in Requests : fut[r] # "none" => fut'[r] # "none"
      /\ ended \subseteq ended'
    BY <1>1, <1>2, <1>3, SettledIsAnswered
<1>5. active'[c] = active[c] \ F /\ \A d \in Controllers : d # c => pending'[d] = pending[d] /\ active'[d] = active[d]
    BY <1>0, <1>1, <1>2
<1>6. \A r \in Mine(c) : r \in Mine(c)' \/ r \in lost' \/ r \in dropped \/ Answered(r)'
    BY <1>2, <1>4, <1>5 DEF Mine
<1>7. lost \subseteq lost' /\ kind' = kind /\ rpc' = rpc /\ dropped' = dropped
    BY <1>2
<1>8. \A r \in Requests : r \in dropped' \ dropped => r \in lost'
    BY <1>7
<1>  QED  BY <1>4, <1>5, <1>6, <1>7, <1>8, WaiterTask

LEMMA WaiterGenerateFails ==
    ASSUME TextInv, WaiterInv, NEW c \in Controllers, GenerateFails(c) PROVE WaiterInv'
<1>0. active \in [Controllers -> SUBSET Requests]
    BY DEF TextInv, TypeOK
<1>1. PICK F \in SUBSET active[c], H \in SUBSET active[c] :
        active' = [active EXCEPT ![c] = @ \ (F \cup H)] /\ Settle(F, "end") /\ lost' = lost \cup H
    BY FailureInHand
<1>2. UNCHANGED <<kind, rpc, dropped, pending>>
    BY DEF GenerateFails
<1>3. F \in SUBSET Mine(c) /\ "end" \in Outcomes \ {"none"}
    BY DEF Mine, Outcomes
<1>4. /\ \A r \in F : r \in dropped \/ Answered(r)'
      /\ \A r \in Requests : fut[r] # "none" => fut'[r] # "none"
      /\ ended \subseteq ended'
    BY <1>1, <1>2, <1>3, SettledIsAnswered
<1>5. /\ active'[c] = active[c] \ (F \cup H)
      /\ \A d \in Controllers : d # c => pending'[d] = pending[d] /\ active'[d] = active[d]
    BY <1>0, <1>1, <1>2
<1>6. \A r \in Mine(c) : r \in Mine(c)' \/ r \in lost' \/ r \in dropped \/ Answered(r)'
    BY <1>1, <1>2, <1>4, <1>5 DEF Mine
<1>7. lost \subseteq lost' /\ kind' = kind /\ rpc' = rpc /\ dropped' = dropped
    BY <1>1, <1>2
<1>8. \A r \in Requests : r \in dropped' \ dropped => r \in lost'
    BY <1>7
<1>  QED  BY <1>4, <1>5, <1>6, <1>7, <1>8, WaiterTask

\* The other controllers, when one goes.
LEMMA OthersStay ==
    ASSUME TextInv, NEW c \in Controllers, Vanish(c)
    PROVE  \A d \in Controllers : d # c => pending'[d] = pending[d] /\ active'[d] = active[d]
BY DEF TextInv, TypeOK, Vanish

LEMMA WaiterFail ==
    ASSUME TextInv, WaiterInv, NEW c \in Controllers, Fail(c) PROVE WaiterInv'
<1>1. Vanish(c) /\ Settle(Mine(c), "exc") /\ UNCHANGED <<kind, rpc, dropped, lost>>
    BY DEF Fail
<1>2. Mine(c) \in SUBSET Mine(c) /\ "exc" \in Outcomes \ {"none"}
    BY DEF Outcomes
<1>3. /\ \A r \in Mine(c) : r \in dropped \/ Answered(r)'
      /\ \A r \in Requests : fut[r] # "none" => fut'[r] # "none"
      /\ ended \subseteq ended'
    BY <1>1, <1>2, SettledIsAnswered
<1>4. lost \subseteq lost' /\ kind' = kind /\ rpc' = rpc /\ dropped' = dropped
    BY <1>1
<1>5. \A r \in Requests : r \in dropped' \ dropped => r \in lost'
    BY <1>4
<1>6. \A d \in Controllers : d # c => pending'[d] = pending[d] /\ active'[d] = active[d]
    BY <1>1, OthersStay
<1>7. \A r \in Mine(c) : r \in Mine(c)' \/ r \in lost' \/ r \in dropped \/ Answered(r)'
    BY <1>3
<1>  QED  BY <1>3, <1>4, <1>5, <1>6, <1>7, WaiterTask

LEMMA WaiterFinally ==
    ASSUME TextInv, WaiterInv, NEW c \in Controllers, Finally(c) PROVE WaiterInv'
<1>1. Vanish(c) /\ UNCHANGED <<kind, rpc, ended>>
    BY DEF Finally
<1>2. fut' = [r \in Requests |-> IF r \in Mine(c) /\ fut[r] = "none" THEN "cancelled" ELSE fut[r]]
    BY DEF Finally
<1>3. /\ KindOf(c) = "stream" => dropped' = dropped \cup Mine(c) /\ lost' = lost \cup Mine(c)
      /\ KindOf(c) # "stream" => dropped' = dropped /\ lost' = lost
    BY DEF Finally
<1>4. lost \subseteq lost' /\ ended \subseteq ended' /\ kind' = kind /\ rpc' = rpc
    BY <1>1, <1>3
<1>5. \A r \in Requests : fut[r] # "none" => fut'[r] # "none"
    BY <1>2
<1>6. \A r \in Requests : r \in dropped' \ dropped => r \in lost'
    BY <1>3
<1>7. ASSUME NEW r \in Mine(c) PROVE r \in Mine(c)' \/ r \in lost' \/ r \in dropped \/ Answered(r)'
  <2>1. r \in Requests
      BY MineInside DEF TextInv
  <2>2. Key(r) = c[1] /\ c[1] \in {"generate", "stream"} \X Models \X Temperatures
      BY DEF TextInv, ControllerInv, Controllers, Keys
  <2>3. kind[r] = KindOf(c) /\ kind[r] \in {"generate", "stream"}
      BY <2>2 DEF Key, KindOf
  <2>4. CASE KindOf(c) = "stream"
      BY <1>3, <2>4
  <2>5. CASE KindOf(c) # "stream"
    <3>1. kind'[r] = "generate" /\ fut'[r] # "none"
        BY <1>1, <1>2, <2>1, <2>3, <2>5
    <3>  QED  BY <3>1 DEF Answered
  <2>  QED  BY <2>4, <2>5
<1>8. \A d \in Controllers : d # c => pending'[d] = pending[d] /\ active'[d] = active[d]
    BY <1>1, OthersStay
<1>  QED  BY <1>4, <1>5, <1>6, <1>7, <1>8, WaiterTask

LEMMA WaiterUnload ==
    ASSUME TextInv, WaiterInv, NEW m \in Models, Unload(m) PROVE WaiterInv'
<1>  DEFINE unborn == {c \in Controllers : Model(c) = m /\ cpc[c] = "created"}
<1>1. /\ UNCHANGED <<kind, active, rpc, fut, ended, dropped>>
      /\ pending' = [c \in Controllers |-> IF c \in unborn THEN <<>> ELSE pending[c]]
      /\ lost' = lost \cup UNION {ToSet(pending[c]) : c \in unborn}
    BY DEF Unload, callers
<1>2. ASSUME NEW r \in Requests, NEW c \in Controllers, rpc[r] = "waiting", r \in Mine(c) PROVE Known(r)'
  <2>1. CASE c \in unborn
    <3>1. active[c] = {}
        BY <2>1 DEF TextInv, ControllerInv
    <3>2. r \in lost'
        BY <1>1, <1>2, <2>1, <3>1 DEF Mine
    <3>  QED  BY <3>2 DEF Known
  <2>2. CASE c \notin unborn
    <3>1. pending'[c] = pending[c] /\ active'[c] = active[c]
        BY <1>1, <2>2
    <3>  QED  BY <1>2, <3>1 DEF Known, Mine
  <2>  QED  BY <2>1, <2>2
<1>3. lost \subseteq lost' /\ ended \subseteq ended' /\ kind' = kind /\ rpc' = rpc /\ dropped' = dropped /\ fut' = fut
    BY <1>1
<1>4. /\ \A r \in Requests : rpc'[r] = "waiting" => rpc[r] = "waiting"
      /\ \A r \in Requests : rpc[r] = "over" => rpc'[r] = "over"
      /\ \A r \in Requests : fut[r] # "none" => fut'[r] # "none"
      /\ \A r \in Requests : r \in dropped' \ dropped => rpc'[r] = "over" \/ r \in lost'
    BY <1>3
<1>  QED  BY <1>2, <1>3, <1>4, WaiterStep

LEMMA WaiterEnqueue ==
    ASSUME TextInv, WaiterInv, NEW r \in Requests, NEW c \in Controllers, Enqueue(r, c) PROVE WaiterInv'
<1>0. /\ rpc \in [Requests -> {"new", "waiting", "streaming", "batched", "over"}]
      /\ pending \in [Controllers -> Seq(Requests)]
    BY DEF TextInv, TypeOK
<1>1. /\ UNCHANGED <<kind, active, fut, ended, dropped, lost>> /\ rpc[r] = "new"
      /\ pending' = [pending EXCEPT ![c] = Append(@, r)] /\ rpc' = [rpc EXCEPT ![r] = "waiting"]
    BY DEF Enqueue
<1>2. pending'[c] = Append(pending[c], r) /\ \A d \in Controllers : d # c => pending'[d] = pending[d]
    BY <1>0, <1>1
<1>3. ToSet(Append(pending[c], r)) = ToSet(pending[c]) \cup {r}
    BY <1>0, AppendRange
<1>4. Mine(c)' = Mine(c) \cup {r} /\ \A d \in Controllers : d # c => Mine(d)' = Mine(d)
    BY <1>1, <1>2, <1>3 DEF Mine
<1>5. ASSUME NEW q \in Requests
      PROVE  (rpc'[q] = "waiting" => Known(q)') /\ (q \in dropped' => rpc'[q] = "over" \/ q \in lost')
  <2>1. (rpc[q] = "waiting" => Known(q)) /\ (q \in dropped => rpc[q] = "over" \/ q \in lost)
      BY DEF WaiterInv
  <2>2. Known(q) => Known(q)'
    <3>1. Answered(q)' = Answered(q) /\ lost' = lost
        BY <1>1 DEF Answered
    <3>2. \A d \in Controllers : Mine(d) \subseteq Mine(d)'
        BY <1>4
    <3>  QED  BY <3>1, <3>2 DEF Known
  <2>3. CASE q = r
    <3>1. Known(q)'
        BY <1>4, <2>3 DEF Known
    <3>2. q \in dropped => q \in lost
        BY <1>1, <2>1, <2>3
    <3>  QED  BY <1>1, <3>1, <3>2
  <2>4. CASE q # r
    <3>1. rpc'[q] = rpc[q]
        BY <1>0, <1>1, <2>4
    <3>  QED  BY <1>1, <2>1, <2>2, <3>1
  <2>  QED  BY <2>3, <2>4
<1>  QED  BY <1>5 DEF WaiterInv

\* A caller of a controller leaves, or returns.
LEMMA WaiterLeaves ==
    ASSUME TextInv, WaiterInv, NEW r \in Requests,
           Return(r) \/ LeaveGenerate(r) \/ \E c \in Controllers : LeaveStream(r, c)
    PROVE  WaiterInv'
<1>0. /\ rpc \in [Requests -> {"new", "waiting", "streaming", "batched", "over"}]
      /\ fut \in [Requests -> Outcomes]
    BY DEF TextInv, TypeOK
<1>1. /\ UNCHANGED <<kind, pending, active, ended, lost>> /\ rpc' = [rpc EXCEPT ![r] = "over"]
      /\ dropped' = dropped \/ dropped' = dropped \cup {r}
    BY DEF Return, LeaveGenerate, LeaveStream, tasks
<1>2. fut' = fut \/ fut' = [fut EXCEPT ![r] = "cancelled"]
  <2>1. CASE LeaveGenerate(r)
    <3>1. fut' = [fut EXCEPT ![r] = IF @ = "none" THEN "cancelled" ELSE @]
        BY <2>1 DEF LeaveGenerate
    <3>  QED  BY <1>0, <3>1
  <2>2. CASE Return(r) \/ \E c \in Controllers : LeaveStream(r, c)
      BY <2>2 DEF Return, LeaveStream
  <2>  QED  BY <2>1, <2>2
<1>3. \A q \in Requests : fut[q] # "none" => fut'[q] # "none"
    BY <1>0, <1>2
<1>4. /\ \A q \in Requests : rpc'[q] = "waiting" => rpc[q] = "waiting"
      /\ \A q \in Requests : rpc[q] = "over" => rpc'[q] = "over"
      /\ rpc'[r] = "over"
    BY <1>0, <1>1
<1>5. \A q \in Requests : q \in dropped' \ dropped => rpc'[q] = "over" \/ q \in lost'
    BY <1>1, <1>4
<1>6. \A q \in Requests : \A c \in Controllers : rpc[q] = "waiting" /\ q \in Mine(c) => Known(q)'
    BY <1>1 DEF Known, Mine
<1>7. lost \subseteq lost' /\ ended \subseteq ended' /\ kind' = kind
    BY <1>1
<1>  QED  BY <1>3, <1>4, <1>5, <1>6, <1>7, WaiterStep

\* Direct calls and batches: nobody who waits is concerned.
LEMMA WaiterOthers ==
    ASSUME TextInv, WaiterInv, NEW S \in SUBSET Requests, NEW status, status # "waiting",
           \A r \in S : rpc[r] # "over" \/ status = "over",
           rpc' = [r \in Requests |-> IF r \in S THEN status ELSE rpc[r]],
           UNCHANGED <<kind, lost, tasks, fut, ended, dropped>>
    PROVE  WaiterInv'
<1>1. \A r \in Requests : rpc'[r] = IF r \in S THEN status ELSE rpc[r]
    OBVIOUS
<1>2. \A r \in Requests : rpc'[r] = "waiting" => rpc[r] = "waiting"
    BY <1>1
<1>3. \A r \in Requests : rpc[r] = "over" => rpc'[r] = "over"
    BY <1>1
<1>4. UNCHANGED <<kind, lost, pending, active, fut, ended, dropped>>
    BY DEF tasks
<1>  QED  BY <1>2, <1>3, <1>4, WaiterIdle

LEMMA WaiterDirect ==
    ASSUME TextInv, WaiterInv, NEW r \in Requests, GenerateDirect(r) \/ StreamDirect(r) \/ EndDirect(r)
    PROVE  WaiterInv'
<1>1. UNCHANGED <<kind, lost, tasks, fut, ended, dropped>>
    BY DEF GenerateDirect, StreamDirect, EndDirect
<1>2. PICK status \in {"over", "streaming"} :
        rpc' = [rpc EXCEPT ![r] = status] /\ (rpc[r] # "over" \/ status = "over")
    BY DEF GenerateDirect, StreamDirect, EndDirect
<1>3. rpc' = [q \in Requests |-> IF q \in {r} THEN status ELSE rpc[q]]
    BY <1>2, OneCaller
<1>  DEFINE S == {r}
<1>4. /\ S \in SUBSET Requests /\ \A q \in S : rpc[q] # "over" \/ status = "over"
      /\ rpc' = [q \in Requests |-> IF q \in S THEN status ELSE rpc[q]]
    BY <1>2, <1>3
<1>5. status # "waiting"
    OBVIOUS
<1>  HIDE DEF S
<1>  QED  BY <1>1, <1>4, <1>5, WaiterOthers

LEMMA WaiterBatch ==
    ASSUME TextInv, WaiterInv, NEW S \in SUBSET Requests, GenerateBatch(S) \/ StreamBatch(S)
    PROVE  WaiterInv'
<1>1. UNCHANGED <<kind, lost, tasks, fut, ended, dropped>> /\ \A r \in S : rpc[r] # "over"
    BY DEF GenerateBatch, StreamBatch, Batchable
<1>2. ToSet(SetToSeq(S)) = S
  <2>1. IsFiniteSet(S)
      BY KVAssumption, FS_Subset
  <2>  QED  BY <2>1, SetToSeqFacts
<1>3. PICK status \in {"over", "batched"} : rpc' = [r \in Requests |-> IF r \in S THEN status ELSE rpc[r]]
    BY <1>2 DEF GenerateBatch, StreamBatch, BatchFails
<1>4. status # "waiting" /\ \A r \in S : rpc[r] # "over" \/ status = "over"
    BY <1>1
<1>  QED  BY <1>1, <1>3, <1>4, WaiterOthers

LEMMA WaiterEndBatch ==
    ASSUME TextInv, WaiterInv, NEW S \in SUBSET Requests, EndBatch(S) PROVE WaiterInv'
<1>1. UNCHANGED <<kind, lost, tasks, fut, ended, dropped>>
    BY DEF EndBatch
<1>2. rpc' = [r \in Requests |-> IF r \in S THEN "over" ELSE rpc[r]]
    BY DEF EndBatch
<1>3. "over" # "waiting" /\ \A r \in S : rpc[r] # "over" \/ "over" = "over"
    OBVIOUS
<1>  QED  BY <1>1, <1>2, <1>3, WaiterOthers

\* Steps that concern neither queues nor callers.
LEMMA WaiterRest ==
    ASSUME WaiterInv,
           \/ UNCHANGED vars
           \/ \E m \in Models : Load(m)
           \/ \E c \in Controllers : Begin(c) \/ Resume(c)
    PROVE  WaiterInv'
<1>1. UNCHANGED <<kind, lost, pending, active, fut, ended, dropped, rpc>>
    BY DEF vars, callers, tasks, Load, Begin, Resume
<1>2. /\ \A r \in Requests : rpc'[r] = "waiting" => rpc[r] = "waiting"
      /\ \A r \in Requests : rpc[r] = "over" => rpc'[r] = "over"
    BY <1>1
<1>  QED  BY <1>1, <1>2, WaiterIdle

LEMMA WaiterNext == TextInv /\ WaiterInv /\ [Next]_vars => WaiterInv'
<1>  SUFFICES ASSUME TextInv, WaiterInv, [Next]_vars PROVE WaiterInv'
    OBVIOUS
<1>1. ASSUME NEW m \in Models, Load(m) \/ Unload(m) PROVE WaiterInv'
    BY <1>1, WaiterRest, WaiterUnload
<1>2. ASSUME NEW r \in Requests, NEW c \in Controllers, Enqueue(r, c) \/ LeaveStream(r, c) PROVE WaiterInv'
    BY <1>2, WaiterEnqueue, WaiterLeaves
<1>3. ASSUME NEW r \in Requests, Return(r) \/ LeaveGenerate(r) PROVE WaiterInv'
    BY <1>3, WaiterLeaves
<1>4. ASSUME NEW c \in Controllers, Task(c) PROVE WaiterInv'
    BY <1>4, WaiterRest, WaiterInsertFails, WaiterInsertPending, WaiterSweep, WaiterGenerateFails, WaiterGenerate,
       WaiterFail, WaiterFinally
       DEF Task
<1>5. ASSUME NEW r \in Requests, GenerateDirect(r) \/ StreamDirect(r) \/ EndDirect(r) PROVE WaiterInv'
    BY <1>5, WaiterDirect
<1>6. ASSUME NEW S \in SUBSET Requests, GenerateBatch(S) \/ StreamBatch(S) \/ EndBatch(S) PROVE WaiterInv'
    BY <1>6, WaiterBatch, WaiterEndBatch
<1>7. CASE UNCHANGED vars
    BY <1>7, WaiterRest
<1>  QED  BY <1>1, <1>2, <1>3, <1>4, <1>5, <1>6, <1>7 DEF Next

\* A caller that waits is answered already, or in the queue or batch of a
\* controller that has a task, or among the requests recorded as lost (in hand
\* when an insertion or a decoding failed, streams of a closed controller, queued for a task
\* that never ran): the safety half of EveryRequestEnds, for the controllers'
\* _insert_pending, _cancel_active_requests and _run of
\* runtime/mlx_text/runtime.py.
THEOREM WaitersAreKnown ==
    Spec => [](\A r \in Requests : rpc[r] = "waiting" =>
                 \/ r \in lost
                 \/ Answered(r)
                 \/ \E c \in Controllers : r \in Mine(c) /\ cpc[c] # "unused")
<1>  DEFINE Waiters == \A r \in Requests : rpc[r] = "waiting" =>
                         \/ r \in lost
                         \/ Answered(r)
                         \/ \E c \in Controllers : r \in Mine(c) /\ cpc[c] # "unused"
<1>1. Init => WaiterInv
    BY DEF Init, WaiterInv
<1>2. TextInv /\ WaiterInv /\ [Next]_vars => WaiterInv'
    BY WaiterNext
<1>3. TextInv /\ WaiterInv => Waiters
    BY DEF TextInv, WaiterInv, Known, ControllerInv
<1>  QED  BY <1>1, <1>2, <1>3, TextInvariant, PTL DEF Spec

=============================================================================
