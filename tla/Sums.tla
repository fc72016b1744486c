-------------------------------- MODULE Sums --------------------------------
(***************************************************************************)
(* What the sums of Functions.tla, which are folds, and hence functions    *)
(* defined by recursion over subsets, compute.  The models add up amounts  *)
(* with them: the charges of a payment, the top-ups of a wallet, the lines *)
(* of an order.                                                            *)
(*                                                                         *)
(* Induction over a finite set is stated without an operator: a non-empty  *)
(* collection of subsets has a minimal one (MinSubset), so that there is a *)
(* least counterexample.                                                   *)
(***************************************************************************)
EXTENDS SequencesExt, FiniteSetTheorems, TLAPS

-----------------------------------------------------------------------------
(* Minimal elements *)

LEMMA MinSubset ==
    ASSUME NEW S, IsFiniteSet(S), NEW C, C \subseteq SUBSET S, C # {}
    PROVE  \E X \in C : \A Y \in C : Y \subseteq X => Y = X
<1> DEFINE R == StrictSubsetOrdering(S)
<1>1. IsWellFoundedOn(R, SUBSET S)
  BY FS_StrictSubsetOrderingWellFounded, FS_FiniteSubsetsOfFinite
<1>2. \A X, Y \in SUBSET S : Y \subseteq X /\ Y # X => <<Y, X>> \in R
  BY DEF StrictSubsetOrdering
<1> HIDE DEF R
<1>3. PICK X \in C : \A Y \in C : ~ (<<Y, X>> \in R)
  BY <1>1, WFMin
<1> QED BY <1>2, <1>3

\* A set of naturals that holds zero and, with a number, the next one, holds all.
LEMMA NatsByStep ==
    ASSUME NEW P, 0 \in P, \A n \in Nat : n \in P => n + 1 \in P
    PROVE  \A n \in Nat : n \in P
<1> SUFFICES ASSUME NEW m \in Nat, m \notin P PROVE FALSE
  OBVIOUS
<1> DEFINE R == OpToRel(<, Nat)
<1> DEFINE T == {n \in Nat : n \notin P}
<1>1. IsWellFoundedOn(R, Nat)
  BY NatLessThanWellFounded
<1>2. \A x, y \in Nat : x < y => <<x, y>> \in R
  BY DEF OpToRel
<1>3. T \subseteq Nat /\ T # {} /\ 0 \notin T
  OBVIOUS
<1> HIDE DEF R
<1>4. PICK n \in T : \A k \in T : ~ (<<k, n>> \in R)
  <2> HIDE DEF T
  <2> QED BY <1>1, <1>3, WFMin
<1>5. n \in Nat /\ n # 0 /\ n \notin P
  BY <1>3, <1>4
<1>6. n - 1 \in Nat /\ n - 1 < n
  BY <1>5
<1>7. n - 1 \notin P
  <2>1. n - 1 + 1 = n
    BY <1>5
  <2> QED BY <1>5, <1>6, <2>1
<1> QED BY <1>2, <1>4, <1>5, <1>6, <1>7

-----------------------------------------------------------------------------
(* Recursion over the subsets of a finite set *)

\* Two functions that agree on a set when they agree on its proper subsets agree.
Agree(g, h, T) == \A U \in SUBSET T : U # T => g[U] = h[U]

AgreeStepwise(S, g, h) == \A T \in SUBSET S : Agree(g, h, T) => g[T] = h[T]

LEMMA AgreeOnSubsets ==
    ASSUME NEW S, IsFiniteSet(S), NEW g, NEW h, AgreeStepwise(S, g, h)
    PROVE  \A T \in SUBSET S : g[T] = h[T]
<1> USE DEF Agree, AgreeStepwise
<1> DEFINE C == {T \in SUBSET S : g[T] # h[T]}
<1> SUFFICES ASSUME C # {} PROVE FALSE
  OBVIOUS
<1>1. PICK T \in C : \A U \in C : U \subseteq T => U = T
  <2>1. C \subseteq SUBSET S
    OBVIOUS
  <2> HIDE DEF C
  <2> QED BY <2>1, MinSubset
<1> QED BY <1>1

\* g is a fold over the subsets of S: it picks an element of a set and steps from the
\* value of the others to that of the set.
IsFold(S, V, base, step, pick, g) ==
    /\ g \in [SUBSET S -> V]
    /\ \A s \in SUBSET S : g[s] = IF s = {} THEN base ELSE step[<<pick[s], g[s \ {pick[s]}]>>]

PicksElements(S, pick) == \A s \in SUBSET S : s # {} => pick[s] \in s

\* A fold has a value everywhere: on the sets of at most n elements for any n, hence on
\* all.
LEMMA FoldExists ==
    ASSUME NEW S, IsFiniteSet(S), NEW V, NEW base \in V, NEW step \in [S \X V -> V],
           NEW pick, PicksElements(S, pick)
    PROVE  \E g : IsFold(S, V, base, step, pick, g)
<1> DEFINE Small(n) == {s \in SUBSET S : Cardinality(s) <= n}
           Next(g, s) == step[<<pick[s], g[s \ {pick[s]}]>>]
           Solves(g, n) == \A s \in Small(n) : g[s] = IF s = {} THEN base ELSE Next(g, s)
           P == {n \in Nat : \E g \in [Small(n) -> V] : Solves(g, n)}
<1>1. \A s \in SUBSET S : /\ IsFiniteSet(s) /\ Cardinality(s) \in Nat
                          /\ Cardinality(s) <= Cardinality(S)
  BY FS_Subset, FS_CardinalityType
<1>2. \A s \in SUBSET S : s # {} =>
         /\ s \ {pick[s]} \in SUBSET S
         /\ Cardinality(s \ {pick[s]}) = Cardinality(s) - 1
  BY <1>1, FS_RemoveElement DEF PicksElements
<1>3. 0 \in P
  <2> DEFINE g == [s \in Small(0) |-> base]
  <2>1. \A s \in Small(0) : s = {}
    BY <1>1, FS_EmptySet
  <2>2. g \in [Small(0) -> V] /\ Solves(g, 0)
    BY <2>1
  <2> HIDE DEF g, Solves, Small
  <2> QED BY <2>2
<1>4. ASSUME NEW n \in Nat, n \in P PROVE n + 1 \in P
  <2>1. PICK g \in [Small(n) -> V] : Solves(g, n)
    BY <1>4
  <2> DEFINE h == [s \in Small(n + 1) |-> IF s \in Small(n) THEN g[s] ELSE Next(g, s)]
  <2>2. \A s \in Small(n + 1) : s # {} => s \ {pick[s]} \in Small(n)
    BY <1>1, <1>2
  <2>3. \A s \in Small(n) : s \in Small(n + 1)
    BY <1>1
  <2>4. {} \in Small(n)
    BY FS_EmptySet
  <2> HIDE DEF Small
  <2>5. h \in [Small(n + 1) -> V]
    <3> SUFFICES ASSUME NEW s \in Small(n + 1), s \notin Small(n) PROVE Next(g, s) \in V
      OBVIOUS
    <3>1. s # {} /\ pick[s] \in S
      BY <2>4 DEF Small, PicksElements
    <3> QED BY <2>2, <3>1
  <2>6. Solves(h, n + 1)
    <3> SUFFICES ASSUME NEW s \in Small(n + 1)
                 PROVE  h[s] = IF s = {} THEN base ELSE Next(h, s)
      OBVIOUS
    <3>1. s # {} => Next(h, s) = Next(g, s)
      BY <2>2, <2>3
    <3> HIDE DEF Next
    <3>2. CASE s \in Small(n)
      BY <2>1, <3>1, <3>2
    <3>3. CASE s \notin Small(n)
      BY <2>4, <3>1, <3>3
    <3> QED BY <3>2, <3>3
  <2> HIDE DEF h, Solves
  <2> QED BY <2>5, <2>6
<1>5. Cardinality(S) \in P
  <2> HIDE DEF P
  <2>1. \A n \in Nat : n \in P
    BY <1>3, <1>4, NatsByStep
  <2> QED BY <1>1, <2>1
<1>6. Small(Cardinality(S)) = SUBSET S
  BY <1>1
<1>7. PICK g \in [SUBSET S -> V] :
         \A s \in SUBSET S : g[s] = IF s = {} THEN base ELSE Next(g, s)
  BY <1>5, <1>6
<1>8. IsFold(S, V, base, step, pick, g)
  BY <1>7 DEF IsFold
<1> QED BY <1>8

-----------------------------------------------------------------------------
(* The recursion of a sum *)

\* g is what the recursion over the subsets of S makes of f.
SumsUp(f, S, g) ==
    g = [s \in SUBSET S |->
           IF s = {} THEN 0
           ELSE f[CHOOSE x \in s : TRUE] + g[s \ {CHOOSE x \in s : TRUE}]]

LEMMA SumUnfolds ==
    ASSUME NEW f, NEW S
    PROVE  SumFunctionOnSet(f, S) = (CHOOSE g : SumsUp(f, S, g))[S]
BY DEF SumFunctionOnSet, FoldFunctionOnSet, MapThenFoldSet, SumsUp

LEMMA SumExists ==
    ASSUME NEW S, IsFiniteSet(S), NEW f, \A x \in S : f[x] \in Int
    PROVE  \E g \in [SUBSET S -> Int] : SumsUp(f, S, g)
<1> DEFINE pick == [s \in SUBSET S |-> CHOOSE x \in s : TRUE]
           step == [p \in S \X Int |-> f[p[1]] + p[2]]
<1>1. step \in [S \X Int -> Int] /\ PicksElements(S, pick) /\ 0 \in Int
  BY DEF PicksElements
<1>2. PICK g : IsFold(S, Int, 0, step, pick, g)
  <2> HIDE DEF pick, step
  <2> QED BY <1>1, FoldExists
<1>3. \A s \in SUBSET S : s # {} =>
         step[<<pick[s], g[s \ {pick[s]}]>>] = f[pick[s]] + g[s \ {pick[s]}]
  BY <1>1, <1>2 DEF IsFold, PicksElements
<1>4. \A s \in SUBSET S : g[s] = IF s = {} THEN 0
                                 ELSE f[CHOOSE x \in s : TRUE] + g[s \ {CHOOSE x \in s : TRUE}]
  BY <1>2, <1>3 DEF IsFold
<1> QED BY <1>2, <1>4 DEF SumsUp, IsFold

\* A table of the sums of f over all subsets of S, in whatever order they are taken
\* apart.
IsTable(f, S, g) ==
    /\ g \in [SUBSET S -> Int] /\ g[{}] = 0
    /\ \A T \in SUBSET S : \A x \in T : g[T] = f[x] + g[T \ {x}]

LEMMA RecursionIsTable ==
    ASSUME NEW S, IsFiniteSet(S), NEW f, \A x \in S : f[x] \in Int,
           NEW g \in [SUBSET S -> Int], SumsUp(f, S, g)
    PROVE  IsTable(f, S, g)
<1> DEFINE pick(s) == CHOOSE x \in s : TRUE
           C == {T \in SUBSET S : \E x \in T : g[T] # f[x] + g[T \ {x}]}
<1>1. \A T \in SUBSET S : g[T] = IF T = {} THEN 0 ELSE f[pick(T)] + g[T \ {pick(T)}]
  BY DEF SumsUp
<1>2. \A T : T # {} => pick(T) \in T
  OBVIOUS
<1> HIDE DEF pick
<1>3. ASSUME C # {} PROVE FALSE
  <2>1. PICK T \in C : \A U \in C : U \subseteq T => U = T
    <3>1. C \subseteq SUBSET S
      OBVIOUS
    <3> HIDE DEF C
    <3> QED BY <1>3, <3>1, MinSubset
  <2>2. PICK x \in T : g[T] # f[x] + g[T \ {x}]
    BY <2>1
  <2> DEFINE y == pick(T)
  <2>3. y \in T /\ g[T] = f[y] + g[T \ {y}] /\ y # x /\ T \in SUBSET S
    BY <1>1, <1>2, <2>1, <2>2
  <2> HIDE DEF y
  <2>4. ASSUME NEW U \in SUBSET S, U \subseteq T, U # T PROVE \A z \in U : g[U] = f[z] + g[U \ {z}]
    BY <2>1, <2>4
  <2>5. g[T \ {y}] = f[x] + g[(T \ {y}) \ {x}]
    BY <2>2, <2>3, <2>4
  <2>6. g[T \ {x}] = f[y] + g[(T \ {x}) \ {y}]
    BY <2>2, <2>3, <2>4
  <2> DEFINE rest == (T \ {x}) \ {y}
  <2>7. (T \ {y}) \ {x} = rest /\ rest \in SUBSET S
    BY <2>3
  <2>8. f[x] \in Int /\ f[y] \in Int /\ g[rest] \in Int
    BY <2>2, <2>3, <2>7
  <2>9. g[T] = f[y] + (f[x] + g[rest]) /\ g[T \ {x}] = f[y] + g[rest]
    BY <2>3, <2>5, <2>6, <2>7
  <2> HIDE DEF rest, C
  <2> QED BY <2>2, <2>8, <2>9
<1>4. g[{}] = 0
  BY <1>1
<1> QED BY <1>3, <1>4 DEF IsTable

LEMMA TableOf ==
    ASSUME NEW S, IsFiniteSet(S), NEW f, \A x \in S : f[x] \in Int
    PROVE  \E g : IsTable(f, S, g) /\ g[S] = SumFunctionOnSet(f, S)
<1>1. \E g : g \in [SUBSET S -> Int] /\ SumsUp(f, S, g)
  BY SumExists
<1> DEFINE g == CHOOSE h : SumsUp(f, S, h)
<1>2. SumsUp(f, S, g)
  BY <1>1
<1>3. g[S] = SumFunctionOnSet(f, S)
  BY SumUnfolds
<1>4. g \in [SUBSET S -> Int]
  <2>1. PICK k \in [SUBSET S -> Int] : SumsUp(f, S, k)
    BY <1>1
  <2> SUFFICES \A s \in SUBSET S : g[s] = k[s]
    <3>1. DOMAIN g = SUBSET S /\ g = [s \in SUBSET S |-> g[s]]
      <4> HIDE DEF g
      <4> QED BY <1>2 DEF SumsUp
    <3> HIDE DEF g
    <3> QED BY <2>1, <3>1
  <2> HIDE DEF g
  <2>2. ASSUME NEW s \in SUBSET S, \A U \in SUBSET s : U # s => g[U] = k[U]
        PROVE  g[s] = k[s]
    <3> DEFINE x == CHOOSE x \in s : TRUE
    <3>1. s # {} => g[s] = f[x] + g[s \ {x}] /\ k[s] = f[x] + k[s \ {x}] /\ x \in s
      BY <1>2, <2>1 DEF SumsUp
    <3>2. s = {} => g[s] = k[s]
      BY <1>2, <2>1 DEF SumsUp
    <3> HIDE DEF x
    <3> QED BY <2>2, <3>1, <3>2
  <2> QED BY <2>2, AgreeOnSubsets DEF Agree, AgreeStepwise
<1> HIDE DEF g
<1> QED BY <1>2, <1>3, <1>4, RecursionIsTable

-----------------------------------------------------------------------------
(* The facts about sums *)

\* Whatever takes a set apart element by element computes its sum.
LEMMA SumIs ==
    ASSUME NEW S, IsFiniteSet(S), NEW f, \A x \in S : f[x] \in Int,
           NEW g, g[{}] = 0,
           \A T \in SUBSET S : T # {} => \E x \in T : g[T] = f[x] + g[T \ {x}]
    PROVE  g[S] = SumFunctionOnSet(f, S)
<1>1. PICK h : IsTable(f, S, h) /\ h[S] = SumFunctionOnSet(f, S)
  BY TableOf
<1>2. ASSUME NEW T \in SUBSET S, \A U \in SUBSET T : U # T => g[U] = h[U]
      PROVE  g[T] = h[T]
  <2>1. CASE T = {}
    BY <1>1, <2>1 DEF IsTable
  <2>2. CASE T # {}
    <3>1. PICK x \in T : g[T] = f[x] + g[T \ {x}]
      BY <2>2
    <3>2. h[T] = f[x] + h[T \ {x}]
      BY <1>1, <3>1 DEF IsTable
    <3> QED BY <1>2, <3>1, <3>2
  <2> QED BY <2>1, <2>2
<1>3. \A T \in SUBSET S : g[T] = h[T]
  BY <1>2, AgreeOnSubsets DEF Agree, AgreeStepwise
<1> QED BY <1>1, <1>3

LEMMA SumEmpty ==
    ASSUME NEW f
    PROVE  SumFunctionOnSet(f, {}) = 0
<1>1. IsFiniteSet({}) /\ \A x \in {} : f[x] \in Int
  BY FS_EmptySet
<1>2. PICK g : IsTable(f, {}, g) /\ g[{}] = SumFunctionOnSet(f, {})
  BY <1>1, TableOf
<1> QED BY <1>2 DEF IsTable

\* A table of the sums of f over S holds the sums over the subsets of S.
LEMMA TableHolds ==
    ASSUME NEW S, IsFiniteSet(S), NEW f, \A x \in S : f[x] \in Int
    PROVE  \E g : IsTable(f, S, g) /\ \A T \in SUBSET S : g[T] = SumFunctionOnSet(f, T)
<1>1. PICK g : IsTable(f, S, g)
  BY TableOf
<1>2. ASSUME NEW T \in SUBSET S PROVE g[T] = SumFunctionOnSet(f, T)
  <2>1. IsFiniteSet(T) /\ \A x \in T : f[x] \in Int
    BY FS_Subset
  <2>2. g[{}] = 0 /\ \A U \in SUBSET T : U # {} => \E x \in U : g[U] = f[x] + g[U \ {x}]
    BY <1>1 DEF IsTable
  <2> QED BY <2>1, <2>2, SumIs
<1> QED BY <1>1, <1>2

LEMMA SumTyped ==
    ASSUME NEW S, IsFiniteSet(S), NEW f, \A x \in S : f[x] \in Int
    PROVE  SumFunctionOnSet(f, S) \in Int
<1>1. PICK g : IsTable(f, S, g) /\ g[S] = SumFunctionOnSet(f, S)
  BY TableOf
<1> QED BY <1>1 DEF IsTable

\* Any element may be taken out of a sum.
LEMMA SumTakes ==
    ASSUME NEW S, IsFiniteSet(S), NEW f, \A y \in S : f[y] \in Int, NEW x \in S
    PROVE  SumFunctionOnSet(f, S) = f[x] + SumFunctionOnSet(f, S \ {x})
<1>1. PICK g : IsTable(f, S, g) /\ \A T \in SUBSET S : g[T] = SumFunctionOnSet(f, T)
  BY TableHolds
<1>2. S \in SUBSET S /\ S \ {x} \in SUBSET S
  OBVIOUS
<1>3. g[S] = f[x] + g[S \ {x}]
  BY <1>1, <1>2 DEF IsTable
<1> QED BY <1>1, <1>2, <1>3

\* A sum depends on the values it adds only.
LEMMA SumSame ==
    ASSUME NEW S, IsFiniteSet(S), NEW f, NEW h, \A x \in S : f[x] \in Int /\ h[x] = f[x]
    PROVE  SumFunctionOnSet(h, S) = SumFunctionOnSet(f, S)
<1>1. PICK g : IsTable(h, S, g) /\ g[S] = SumFunctionOnSet(h, S)
  BY TableOf
<1>2. g[{}] = 0 /\ \A T \in SUBSET S : T # {} => \E x \in T : g[T] = f[x] + g[T \ {x}]
  BY <1>1 DEF IsTable
<1> QED BY <1>1, <1>2, SumIs

\* The sums of two functions that differ at one point.
LEMMA SumChanges ==
    ASSUME NEW S, IsFiniteSet(S), NEW f, NEW h, NEW x \in S,
           \A y \in S : f[y] \in Int /\ h[y] \in Int,
           \A y \in S \ {x} : h[y] = f[y]
    PROVE  SumFunctionOnSet(h, S) = SumFunctionOnSet(f, S) - f[x] + h[x]
<1>1. IsFiniteSet(S \ {x})
  BY FS_RemoveElement
<1>2. SumFunctionOnSet(h, S \ {x}) = SumFunctionOnSet(f, S \ {x})
  BY <1>1, SumSame
<1>3. SumFunctionOnSet(f, S \ {x}) \in Int
  BY <1>1, SumTyped
<1>4. /\ SumFunctionOnSet(f, S) = f[x] + SumFunctionOnSet(f, S \ {x})
      /\ SumFunctionOnSet(h, S) = h[x] + SumFunctionOnSet(h, S \ {x})
  BY SumTakes
<1> QED BY <1>2, <1>3, <1>4

\* A sum of naturals is at least each of its partial sums, hence natural.
LEMMA SumGrows ==
    ASSUME NEW S, IsFiniteSet(S), NEW f, \A x \in S : f[x] \in Nat, NEW T \in SUBSET S
    PROVE  /\ SumFunctionOnSet(f, T) \in Nat
           /\ SumFunctionOnSet(f, T) <= SumFunctionOnSet(f, S)
<1>1. PICK g : IsTable(f, S, g) /\ \A U \in SUBSET S : g[U] = SumFunctionOnSet(f, U)
  BY TableHolds
<1>2. \A U \in SUBSET S : g[U] \in Int
  BY <1>1 DEF IsTable
<1> DEFINE C == {U \in SUBSET S : T \subseteq U /\ ~ (g[T] <= g[U])}
           D == {U \in SUBSET S : g[U] \notin Nat}
<1>3. ASSUME C # {} PROVE FALSE
  <2>1. PICK U \in C : \A V \in C : V \subseteq U => V = U
    <3>1. C \subseteq SUBSET S
      OBVIOUS
    <3> HIDE DEF C
    <3> QED BY <1>3, <3>1, MinSubset
  <2>2. PICK x \in U : x \notin T
    <3>1. U # T
      BY <1>2, <2>1
    <3> QED BY <2>1, <3>1
  <2>3. g[U] = f[x] + g[U \ {x}] /\ f[x] \in Nat
    BY <1>1, <2>1, <2>2 DEF IsTable
  <2>4. g[T] <= g[U \ {x}] /\ U \ {x} \in SUBSET S
    BY <2>1, <2>2
  <2>5. g[T] \in Int /\ g[U \ {x}] \in Int /\ ~ (g[T] <= g[U])
    BY <1>2, <2>1, <2>4
  <2> QED BY <2>3, <2>4, <2>5
<1>4. ASSUME D # {} PROVE FALSE
  <2>1. PICK U \in D : \A V \in D : V \subseteq U => V = U
    <3>1. D \subseteq SUBSET S
      OBVIOUS
    <3> HIDE DEF D
    <3> QED BY <1>4, <3>1, MinSubset
  <2>2. PICK x \in U : TRUE
    BY <1>1, <2>1 DEF IsTable
  <2>3. g[U] = f[x] + g[U \ {x}] /\ f[x] \in Nat
    BY <1>1, <2>1, <2>2 DEF IsTable
  <2>4. g[U \ {x}] \in Nat
    BY <2>1, <2>2
  <2>5. g[U] \notin Nat
    BY <2>1
  <2> QED BY <2>3, <2>4, <2>5
<1>5. g[T] <= g[S] /\ g[T] \in Nat
  <2>1. S \in SUBSET S /\ T \subseteq S
    OBVIOUS
  <2> QED BY <1>3, <1>4, <2>1
<1> QED BY <1>1, <1>5

\* The order in which a sum is written down does not matter.
LEMMA SumReordered ==
    ASSUME NEW S, IsFiniteSet(S), NEW f, \A x \in S : f[x] \in Int,
           NEW turn \in [S -> S], IsInjective(turn)
    PROVE  SumFunctionOnSet([x \in S |-> f[turn[x]]], S) = SumFunctionOnSet(f, S)
<1> DEFINE image(T) == {turn[x] : x \in T}
           g == [T \in SUBSET S |-> SumFunctionOnSet(f, image(T))]
           h == [x \in S |-> f[turn[x]]]
<1>1. \A T \in SUBSET S : IsFiniteSet(T) /\ image(T) \in SUBSET S
  BY FS_Subset
<1>2. g[{}] = 0
  BY SumEmpty
<1>3. ASSUME NEW T \in SUBSET S, NEW x \in T PROVE g[T] = h[x] + g[T \ {x}]
  <2>1. turn[x] \in image(T) /\ image(T \ {x}) = image(T) \ {turn[x]}
    BY DEF IsInjective
  <2>2. IsFiniteSet(image(T)) /\ \A y \in image(T) : f[y] \in Int
    BY <1>1, FS_Subset
  <2>3. SumFunctionOnSet(f, image(T))
          = f[turn[x]] + SumFunctionOnSet(f, image(T) \ {turn[x]})
    <3> HIDE DEF image
    <3> QED BY <2>1, <2>2, SumTakes
  <2> QED BY <2>1, <2>3
<1>4. g[S] = SumFunctionOnSet(h, S)
  <2>1. \A x \in S : h[x] \in Int
    OBVIOUS
  <2>2. \A T \in SUBSET S : T # {} => \E x \in T : g[T] = h[x] + g[T \ {x}]
    BY <1>3
  <2> HIDE DEF g, h
  <2> QED BY <1>2, <2>1, <2>2, SumIs
<1>5. image(S) = S
  <2>1. turn \in Injection(S, S)
    BY DEF Injection
  <2>2. turn \in Surjection(S, S)
    BY <2>1, FS_Injection
  <2> QED BY <2>2 DEF Surjection
<1>6. g[S] = SumFunctionOnSet(f, S)
  BY <1>5
<1> HIDE DEF g, image
<1> QED BY <1>4, <1>6
=============================================================================
