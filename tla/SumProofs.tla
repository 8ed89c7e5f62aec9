--------------------------------- MODULE SumProofs ---------------------------------
(***************************************************************************)
(* Lemmas about finite sums and orders: what SumOf adds up and what        *)
(* Arranged puts in order (Tables).  What would be an induction over the   *)
(* size of a set is a minimal counterexample here: of a nonempty set of    *)
(* finite sets one has no strict subset among the others.                  *)
(***************************************************************************)
EXTENDS Tables, Integers, FiniteSetTheorems, WellFoundedInduction, TLAPS

-----------------------------------------------------------------------------
(* Minimal counterexamples over finite sets.                               *)

\* Of a nonempty set of finite sets, one has no strict subset among the others.
LEMMA LeastSet ==
  ASSUME NEW U, U # {}, \A u \in U : IsFiniteSet(u)
  PROVE  \E u \in U : \A v \in U : ~ (v \subseteq u /\ v # u)
<1> DEFINE D == UNION U
           R == StrictSubsetOrdering(D)
           F == FiniteSubsetsOf(D)
<1>1. IsWellFoundedOn(R, F)
  BY FS_StrictSubsetOrderingWellFounded
<1>2. U \subseteq F
  BY DEF FiniteSubsetsOf
<1>3. \A u, v \in U : v \subseteq u /\ v # u => <<v, u>> \in R
  BY DEF StrictSubsetOrdering
<1> HIDE DEF R, F
<1>4. \E u \in U : \A v \in U : ~ (<<v, u>> \in R)
  BY <1>1, <1>2, WFMin
<1> QED BY <1>3, <1>4

-----------------------------------------------------------------------------
(* What SumOf adds up.                                                     *)

Pick(s) == CHOOSE x \in s : TRUE
Adds(g, f, T) == g = [s \in SUBSET T |-> IF s = {} THEN 0 ELSE f[Pick(s)] + g[s \ {Pick(s)}]]

LEMMA SumUnfold ==
  ASSUME NEW f
  PROVE SumOf(f) = (CHOOSE g : Adds(g, f, DOMAIN f))[DOMAIN f]
BY DEF SumOf, MapThenSumSet, MapThenFoldSet, Adds, Pick

LEMMA PickIn ==
  ASSUME NEW s, s # {}
  PROVE  Pick(s) \in s
BY DEF Pick

LEMMA AddsAt ==
  ASSUME NEW f, NEW T, NEW g, Adds(g, f, T), NEW s \in SUBSET T
  PROVE  g[s] = IF s = {} THEN 0 ELSE f[Pick(s)] + g[s \ {Pick(s)}]
BY DEF Adds

\* Two partial sums agree where both are defined.
LEMMA AddsUnique ==
  ASSUME NEW f, NEW T, NEW U, NEW g, NEW k, Adds(g, f, T), Adds(k, f, U),
         NEW s, s \subseteq T, s \subseteq U, IsFiniteSet(s)
  PROVE  g[s] = k[s]
<1> DEFINE Bad == {u \in SUBSET s : g[u] # k[u]}
<1>1. SUFFICES ASSUME Bad # {} PROVE FALSE
  OBVIOUS
<1>2. \A u \in Bad : IsFiniteSet(u)
  BY FS_Subset
<1> HIDE DEF Bad
<1>3. PICK u \in Bad : \A v \in Bad : ~ (v \subseteq u /\ v # u)
  BY <1>1, <1>2, LeastSet
<1>4. u \in SUBSET s /\ g[u] # k[u]
  BY <1>3 DEF Bad
<1>5. CASE u = {}
  BY <1>4, <1>5, AddsAt
<1>6. CASE u # {}
  <2>1. Pick(u) \in u
    BY <1>6, PickIn
  <2>2. u \ {Pick(u)} \notin Bad /\ u \ {Pick(u)} \in SUBSET s
    BY <2>1, <1>3, <1>4
  <2>3. g[u \ {Pick(u)}] = k[u \ {Pick(u)}]
    BY <2>2 DEF Bad
  <2>4. u \in SUBSET T /\ u \in SUBSET U
    BY <1>4
  <2>5. g[u] = f[Pick(u)] + g[u \ {Pick(u)}] /\ k[u] = f[Pick(u)] + k[u \ {Pick(u)}]
    BY <2>4, <1>6, AddsAt
  <2> QED BY <2>3, <2>5, <1>4
<1> QED BY <1>5, <1>6

\* There are partial sums over every finite set.
LEMMA AddsExists ==
  ASSUME NEW f, NEW S, IsFiniteSet(S)
  PROVE  \E g : Adds(g, f, S)
<1> DEFINE Bad == {u \in SUBSET S : ~ \E g : Adds(g, f, u)}
<1>1. SUFFICES ASSUME Bad # {} PROVE FALSE
  OBVIOUS
<1>2. \A u \in Bad : IsFiniteSet(u)
  BY FS_Subset
<1> HIDE DEF Bad
<1>3. PICK u \in Bad : \A v \in Bad : ~ (v \subseteq u /\ v # u)
  BY <1>1, <1>2, LeastSet
<1>4. u \in SUBSET S /\ ~ \E g : Adds(g, f, u)
  BY <1>3 DEF Bad
<1> DEFINE h(t) == CHOOSE g : Adds(g, f, t)
           Rest(t) == t \ {Pick(t)}
           new == [t \in SUBSET u |-> IF t = {} THEN 0 ELSE f[Pick(t)] + h(Rest(t))[Rest(t)]]
<1>5. ASSUME NEW t, t \subseteq u, t # u
      PROVE  Adds(h(t), f, t)
  <2>1. \E g : Adds(g, f, t)
    BY <1>3, <1>4, <1>5 DEF Bad
  <2> QED BY <2>1
<1>6. ASSUME NEW t \in SUBSET u, t # {}
      PROVE  Rest(t) \subseteq u /\ Rest(t) # u /\ Rest(t) \subseteq t /\ IsFiniteSet(Rest(t))
  BY <1>6, PickIn, <1>4, FS_Subset
<1> HIDE DEF h
<1>7. ASSUME NEW t, t \subseteq u, t # u
      PROVE  new[t] = h(t)[t]
  <2>1. Adds(h(t), f, t)
    BY <1>5, <1>7
  <2>2. CASE t = {}
    BY <2>1, <2>2, AddsAt, <1>7
  <2>3. CASE t # {}
    <3> HIDE DEF Rest
    <3>1. Rest(t) \subseteq u /\ Rest(t) # u /\ Rest(t) \subseteq t /\ IsFiniteSet(Rest(t))
      BY <1>6, <1>7, <2>3
    <3>2. Adds(h(Rest(t)), f, Rest(t))
      BY <3>1, <1>5
    <3>3. h(t)[Rest(t)] = h(Rest(t))[Rest(t)]
      BY <2>1, <3>1, <3>2, AddsUnique
    <3>4. h(t)[t] = f[Pick(t)] + h(t)[Rest(t)]
      BY <2>1, <2>3, AddsAt DEF Rest
    <3> QED BY <3>3, <3>4, <2>3, <1>7
  <2> QED BY <2>2, <2>3
<1>8. \A t \in SUBSET u : t # {} => new[Rest(t)] = h(Rest(t))[Rest(t)]
  BY <1>6, <1>7
<1>9. new = [t \in SUBSET u |-> IF t = {} THEN 0 ELSE f[Pick(t)] + new[Rest(t)]]
  <2> SUFFICES ASSUME NEW t \in SUBSET u
               PROVE  (IF t = {} THEN 0 ELSE f[Pick(t)] + h(Rest(t))[Rest(t)])
                        = (IF t = {} THEN 0 ELSE f[Pick(t)] + new[Rest(t)])
    OBVIOUS
  <2> HIDE DEF new, Rest
  <2> QED BY <1>8
<1>10. Adds(new, f, u)
  BY <1>9 DEF Adds
<1> QED BY <1>4, <1>10

\* What holds of nothing, and of a part whenever it holds of it but any one, holds of the whole.
LEMMA AllButOne ==
  ASSUME NEW T, IsFiniteSet(T), NEW G, {} \in G,
         \A u \in SUBSET T : u # {} /\ (\A x \in u : u \ {x} \in G) => u \in G
  PROVE  T \in G
<1> DEFINE Bad == {u \in SUBSET T : u \notin G}
<1>1. SUFFICES ASSUME Bad # {} PROVE FALSE
  OBVIOUS
<1>2. \A u \in Bad : IsFiniteSet(u)
  BY FS_Subset
<1> HIDE DEF Bad
<1>3. PICK u \in Bad : \A v \in Bad : ~ (v \subseteq u /\ v # u)
  BY <1>1, <1>2, LeastSet
<1>4. u \in SUBSET T /\ u \notin G /\ u # {}
  BY <1>3 DEF Bad
<1>5. \A x \in u : u \ {x} \in G
  BY <1>3, <1>4 DEF Bad
<1> QED BY <1>4, <1>5

LEMMA OneByOne ==
  ASSUME NEW T, IsFiniteSet(T), NEW G, {} \in G,
         \A u \in SUBSET T : \A x \in u : u \ {x} \in G => u \in G
  PROVE  T \in G
<1>1. \A u \in SUBSET T : u # {} /\ (\A x \in u : u \ {x} \in G) => u \in G
  OBVIOUS
<1> QED BY <1>1, AllButOne

\* The sum of f over T.
SumOn(f, T) == SumOf([x \in T |-> f[x]])

LEMMA SumIsAdds ==
  ASSUME NEW f, NEW T, IsFiniteSet(T)
  PROVE  \E g : Adds(g, f, T) /\ SumOn(f, T) = g[T]
<1> DEFINE r == [x \in T |-> f[x]]
           g == CHOOSE k : Adds(k, r, T)
<1>1. Adds(g, r, T)
  BY AddsExists
<1>2. SumOn(f, T) = g[T]
  BY SumUnfold DEF SumOn
<1> HIDE DEF g
<1>3. g = [s \in SUBSET T |-> IF s = {} THEN 0 ELSE r[Pick(s)] + g[s \ {Pick(s)}]]
  BY <1>1 DEF Adds
<1>4. \A s \in SUBSET T : s # {} => r[Pick(s)] = f[Pick(s)]
  BY PickIn
<1> HIDE DEF r
<1>5. g = [s \in SUBSET T |-> IF s = {} THEN 0 ELSE f[Pick(s)] + g[s \ {Pick(s)}]]
  BY <1>3, <1>4
<1>6. Adds(g, f, T)
  BY <1>5 DEF Adds
<1> QED BY <1>2, <1>6

LEMMA SumNothing ==
  ASSUME NEW f
  PROVE  SumOn(f, {}) = 0
<1>1. IsFiniteSet({})
  BY FS_EmptySet
<1>2. PICK g : Adds(g, f, {}) /\ SumOn(f, {}) = g[{}]
  BY <1>1, SumIsAdds
<1> QED BY <1>2, AddsAt

LEMMA SumPick ==
  ASSUME NEW f, NEW T, IsFiniteSet(T), T # {}
  PROVE  SumOn(f, T) = f[Pick(T)] + SumOn(f, T \ {Pick(T)})
<1> DEFINE U == T \ {Pick(T)}
<1>1. IsFiniteSet(U) /\ U \subseteq T
  BY FS_Subset
<1> HIDE DEF U
<1>2. PICK g : Adds(g, f, T) /\ SumOn(f, T) = g[T]
  BY SumIsAdds
<1>3. PICK k : Adds(k, f, U) /\ SumOn(f, U) = k[U]
  BY <1>1, SumIsAdds
<1>4. g[U] = k[U]
  BY <1>1, <1>2, <1>3, AddsUnique
<1>5. g[T] = f[Pick(T)] + g[U]
  BY <1>2, AddsAt DEF U
<1> QED BY <1>2, <1>3, <1>4, <1>5 DEF U

LEMMA SumInt ==
  ASSUME NEW f, NEW T, IsFiniteSet(T), \A x \in T : f[x] \in Int
  PROVE  SumOn(f, T) \in Int
<1> DEFINE Bad == {u \in SUBSET T : SumOn(f, u) \notin Int}
<1>1. SUFFICES ASSUME Bad # {} PROVE FALSE
  OBVIOUS
<1>2. \A u \in Bad : IsFiniteSet(u)
  BY FS_Subset
<1> HIDE DEF Bad
<1>3. PICK u \in Bad : \A v \in Bad : ~ (v \subseteq u /\ v # u)
  BY <1>1, <1>2, LeastSet
<1>4. u \in SUBSET T /\ SumOn(f, u) \notin Int /\ IsFiniteSet(u)
  BY <1>2, <1>3 DEF Bad
<1>5. u # {}
  BY <1>4, SumNothing
<1>6. Pick(u) \in u /\ SumOn(f, u) = f[Pick(u)] + SumOn(f, u \ {Pick(u)})
  BY <1>4, <1>5, PickIn, SumPick
<1>7. SumOn(f, u \ {Pick(u)}) \in Int
  BY <1>3, <1>4, <1>6 DEF Bad
<1> QED BY <1>4, <1>6, <1>7

\* A sum is any of its terms and the sum of the others.
LEMMA SumTake ==
  ASSUME NEW f, NEW T, IsFiniteSet(T), \A x \in T : f[x] \in Int, NEW x \in T
  PROVE  SumOn(f, T) = f[x] + SumOn(f, T \ {x})
<1> DEFINE Bad == {u \in SUBSET T : \E y \in u : SumOn(f, u) # f[y] + SumOn(f, u \ {y})}
<1>1. SUFFICES ASSUME Bad # {} PROVE FALSE
  OBVIOUS
<1>2. \A u \in Bad : IsFiniteSet(u)
  BY FS_Subset
<1> HIDE DEF Bad
<1>3. PICK u \in Bad : \A v \in Bad : ~ (v \subseteq u /\ v # u)
  BY <1>1, <1>2, LeastSet
<1>4. u \in SUBSET T /\ IsFiniteSet(u)
  BY <1>2, <1>3 DEF Bad
<1>5. PICK y \in u : SumOn(f, u) # f[y] + SumOn(f, u \ {y})
  BY <1>3 DEF Bad
<1> DEFINE p == Pick(u)
<1>6. p \in u /\ SumOn(f, u) = f[p] + SumOn(f, u \ {p})
  BY <1>4, <1>5, PickIn, SumPick
<1> HIDE DEF p
<1>7. p # y
  BY <1>5, <1>6
<1>8. u \ {p} \in SUBSET T /\ u \ {p} \notin Bad /\ u \ {y} \in SUBSET T /\ u \ {y} \notin Bad
  BY <1>3, <1>4, <1>5, <1>6
<1>9. SumOn(f, u \ {p}) = f[y] + SumOn(f, (u \ {p}) \ {y})
  BY <1>8, <1>7, <1>5 DEF Bad
<1>10. SumOn(f, u \ {y}) = f[p] + SumOn(f, (u \ {y}) \ {p})
  BY <1>8, <1>7, <1>6 DEF Bad
<1>11. (u \ {y}) \ {p} = (u \ {p}) \ {y}
  OBVIOUS
<1> DEFINE rest == SumOn(f, (u \ {p}) \ {y})
<1>12. rest \in Int /\ f[y] \in Int /\ f[p] \in Int
  <2>1. IsFiniteSet((u \ {p}) \ {y})
    BY <1>4, FS_Subset
  <2> QED BY <2>1, <1>4, <1>5, <1>6, SumInt
<1> HIDE DEF rest
<1>13. SumOn(f, u) = f[p] + (f[y] + rest) /\ SumOn(f, u \ {y}) = f[p] + rest
  BY <1>6, <1>9, <1>10, <1>11 DEF rest
<1> QED BY <1>5, <1>12, <1>13

LEMMA SumMore ==
  ASSUME NEW f, NEW T, IsFiniteSet(T), NEW x, x \notin T,
         f[x] \in Int, \A y \in T : f[y] \in Int
  PROVE  SumOn(f, T \cup {x}) = SumOn(f, T) + f[x]
<1>1. IsFiniteSet(T \cup {x}) /\ \A y \in T \cup {x} : f[y] \in Int
  BY FS_AddElement
<1>2. (T \cup {x}) \ {x} = T
  OBVIOUS
<1>3. SumOn(f, T \cup {x}) = f[x] + SumOn(f, T)
  BY <1>1, <1>2, SumTake
<1> QED BY <1>3, SumInt

\* Sums of equal terms are equal.
LEMMA SumSame ==
  ASSUME NEW f, NEW g, NEW T, \A x \in T : f[x] = g[x]
  PROVE  SumOn(f, T) = SumOn(g, T)
<1>1. [x \in T |-> f[x]] = [x \in T |-> g[x]]
  OBVIOUS
<1> QED BY <1>1 DEF SumOn

LEMMA SumUnion ==
  ASSUME NEW f, NEW S, NEW T, IsFiniteSet(S), IsFiniteSet(T), S \cap T = {},
         \A x \in S \cup T : f[x] \in Int
  PROVE  SumOn(f, S \cup T) = SumOn(f, S) + SumOn(f, T)
<1> DEFINE G == {u \in SUBSET T : SumOn(f, S \cup u) = SumOn(f, S) + SumOn(f, u)}
<1>1. {} \in G
  <2>1. S \cup {} = S /\ SumOn(f, S) \in Int
    BY SumInt
  <2> QED BY <2>1, SumNothing
<1>2. ASSUME NEW u \in SUBSET T, NEW x \in u, u \ {x} \in G
      PROVE  u \in G
  <2> DEFINE v == u \ {x}
  <2>1. IsFiniteSet(v) /\ IsFiniteSet(S \cup v)
    BY FS_Subset, FS_Union
  <2>2. S \cup u = (S \cup v) \cup {x} /\ u = v \cup {x} /\ x \notin v /\ x \notin S \cup v
    OBVIOUS
  <2>3. \A y \in (S \cup v) \cup {x} : f[y] \in Int
    OBVIOUS
  <2>4. SumOn(f, S \cup v) = SumOn(f, S) + SumOn(f, v)
    BY <1>2
  <2> HIDE DEF v
  <2>5. SumOn(f, S \cup u) = SumOn(f, S \cup v) + f[x] /\ SumOn(f, u) = SumOn(f, v) + f[x]
    BY <2>1, <2>2, <2>3, SumMore
  <2>6. SumOn(f, S) \in Int /\ SumOn(f, v) \in Int /\ f[x] \in Int
    BY <2>1, <2>3, SumInt
  <2>7. SumOn(f, S \cup u) = SumOn(f, S) + SumOn(f, u)
    BY <2>4, <2>5, <2>6
  <2> QED BY <2>7
<1> HIDE DEF G
<1>3. T \in G
  BY <1>1, <1>2, OneByOne
<1> QED BY <1>3 DEF G

\* Sums are added term by term.
LEMMA SumPlus ==
  ASSUME NEW f, NEW g, NEW h, NEW T, IsFiniteSet(T),
         \A x \in T : f[x] \in Int /\ g[x] \in Int /\ h[x] = f[x] + g[x]
  PROVE  SumOn(h, T) = SumOn(f, T) + SumOn(g, T)
<1> DEFINE G == {u \in SUBSET T : SumOn(h, u) = SumOn(f, u) + SumOn(g, u)}
<1>1. {} \in G
  BY SumNothing
<1>2. ASSUME NEW u \in SUBSET T, NEW x \in u, u \ {x} \in G
      PROVE  u \in G
  <2> DEFINE v == u \ {x}
  <2>1. IsFiniteSet(u) /\ IsFiniteSet(v)
    BY FS_Subset
  <2>2. SumOn(h, v) = SumOn(f, v) + SumOn(g, v)
    BY <1>2
  <2>3. \A y \in u : f[y] \in Int /\ g[y] \in Int /\ h[y] \in Int
    OBVIOUS
  <2>4. \A y \in v : f[y] \in Int /\ g[y] \in Int
    OBVIOUS
  <2>5. SumOn(h, u) = h[x] + SumOn(h, v) /\ SumOn(f, u) = f[x] + SumOn(f, v) /\ SumOn(g, u) = g[x] + SumOn(g, v)
    BY <2>1, <2>3, SumTake
  <2> HIDE DEF v
  <2>6. SumOn(f, v) \in Int /\ SumOn(g, v) \in Int /\ f[x] \in Int /\ g[x] \in Int /\ h[x] = f[x] + g[x]
    BY <2>1, <2>3, <2>4, SumInt
  <2>7. SumOn(h, u) = SumOn(f, u) + SumOn(g, u)
    BY <2>2, <2>5, <2>6
  <2> QED BY <2>7
<1> HIDE DEF G
<1>3. T \in G
  BY <1>1, <1>2, OneByOne
<1> QED BY <1>3 DEF G

LEMMA SumNotNegative ==
  ASSUME NEW f, NEW T, IsFiniteSet(T), \A x \in T : f[x] \in Nat
  PROVE  SumOn(f, T) \in Nat
<1> DEFINE G == {u \in SUBSET T : SumOn(f, u) \in Nat}
<1>1. {} \in G
  BY SumNothing
<1>2. ASSUME NEW u \in SUBSET T, NEW x \in u, u \ {x} \in G
      PROVE  u \in G
  <2>1. IsFiniteSet(u) /\ \A y \in u : f[y] \in Int
    BY FS_Subset
  <2>2. SumOn(f, u) = f[x] + SumOn(f, u \ {x}) /\ f[x] \in Nat /\ SumOn(f, u \ {x}) \in Nat
    BY <2>1, <1>2, SumTake
  <2> QED BY <2>2
<1> HIDE DEF G
<1>3. T \in G
  BY <1>1, <1>2, OneByOne
<1> QED BY <1>3 DEF G

\* Terms that are zero may be left out.
LEMMA SumOfZeros ==
  ASSUME NEW f, NEW T, IsFiniteSet(T), \A x \in T : f[x] = 0
  PROVE  SumOn(f, T) = 0
<1> DEFINE G == {u \in SUBSET T : SumOn(f, u) = 0}
<1>1. {} \in G
  BY SumNothing
<1>2. ASSUME NEW u \in SUBSET T, NEW x \in u, u \ {x} \in G
      PROVE  u \in G
  <2>1. IsFiniteSet(u) /\ \A y \in u : f[y] \in Int
    BY FS_Subset
  <2>2. SumOn(f, u) = f[x] + SumOn(f, u \ {x}) /\ f[x] = 0 /\ SumOn(f, u \ {x}) = 0
    BY <2>1, <1>2, SumTake
  <2> QED BY <2>2
<1> HIDE DEF G
<1>3. T \in G
  BY <1>1, <1>2, OneByOne
<1> QED BY <1>3 DEF G

LEMMA SumWithoutZeros ==
  ASSUME NEW f, NEW S, NEW T, IsFiniteSet(T), S \subseteq T,
         \A x \in T : f[x] \in Int, \A x \in T \ S : f[x] = 0
  PROVE  SumOn(f, T) = SumOn(f, S)
<1>1. IsFiniteSet(S) /\ IsFiniteSet(T \ S) /\ S \cap (T \ S) = {} /\ S \cup (T \ S) = T
  BY FS_Subset
<1>2. SumOn(f, T) = SumOn(f, S) + SumOn(f, T \ S)
  BY <1>1, SumUnion
<1>3. SumOn(f, T \ S) = 0 /\ SumOn(f, S) \in Int
  BY <1>1, SumOfZeros, SumInt
<1> QED BY <1>2, <1>3

\* Two functions that differ at one place.
LEMMA SumChange ==
  ASSUME NEW g, NEW h, NEW K, IsFiniteSet(K), NEW k \in K, NEW d \in Int,
         \A j \in K : g[j] \in Int, h[k] = g[k] + d, \A j \in K \ {k} : h[j] = g[j]
  PROVE  SumOn(h, K) = SumOn(g, K) + d
<1>1. \A j \in K : h[j] \in Int
  OBVIOUS
<1>2. SumOn(g, K) = g[k] + SumOn(g, K \ {k}) /\ SumOn(h, K) = h[k] + SumOn(h, K \ {k})
  BY <1>1, SumTake
<1>3. SumOn(h, K \ {k}) = SumOn(g, K \ {k})
  BY SumSame
<1>4. IsFiniteSet(K \ {k}) /\ \A j \in K \ {k} : g[j] \in Int
  BY FS_Subset
<1>5. SumOn(g, K \ {k}) \in Int
  BY <1>4, SumInt
<1> QED BY <1>2, <1>3, <1>5

\* A sum by key: the groups' sums add up to the sum of the whole.
Group(f, key, T, k) == SumOn(f, {x \in T : key[x] = k})
LEMMA SumGroups ==
  ASSUME NEW f, NEW key, NEW K, NEW T, IsFiniteSet(K), IsFiniteSet(T),
         \A x \in T : f[x] \in Int /\ key[x] \in K
  PROVE  SumOn([k \in K |-> Group(f, key, T, k)], K) = SumOn(f, T)
<1> DEFINE By(u) == [k \in K |-> Group(f, key, u, k)]
           G == {u \in SUBSET T : SumOn(By(u), K) = SumOn(f, u)}
<1>1. {} \in G
  <2>1. \A k \in K : By({})[k] = 0
    <3> SUFFICES ASSUME NEW k \in K PROVE Group(f, key, {}, k) = 0
      OBVIOUS
    <3>1. {x \in {} : key[x] = k} = {}
      OBVIOUS
    <3> QED BY <3>1, SumNothing DEF Group
  <2> HIDE DEF By
  <2>2. SumOn(By({}), K) = 0
    BY <2>1, SumOfZeros
  <2> QED BY <2>2, SumNothing
<1>2. ASSUME NEW u \in SUBSET T, NEW x \in u, u \ {x} \in G
      PROVE  u \in G
  <2> DEFINE v == u \ {x}
             Mine(w, k) == {y \in w : key[y] = k}
  <2>1. IsFiniteSet(u) /\ IsFiniteSet(v) /\ \A y \in u : f[y] \in Int
    BY FS_Subset
  <2>2. SumOn(By(v), K) = SumOn(f, v)
    BY <1>2
  <2>3. SumOn(f, u) = f[x] + SumOn(f, v)
    BY <2>1, SumTake
  <2>4. \A k \in K : IsFiniteSet(Mine(v, k)) /\ IsFiniteSet(Mine(u, k))
    BY <2>1, FS_Subset
  <2>5. \A k \in K : By(v)[k] \in Int
    <3> SUFFICES ASSUME NEW k \in K PROVE SumOn(f, Mine(v, k)) \in Int
      BY DEF Group
    <3>1. IsFiniteSet(Mine(v, k)) /\ \A y \in Mine(v, k) : f[y] \in Int
      BY <2>4
    <3> QED BY <3>1, SumInt
  <2>6. \A k \in K \ {key[x]} : By(u)[k] = By(v)[k]
    <3> SUFFICES ASSUME NEW k \in K \ {key[x]} PROVE SumOn(f, Mine(u, k)) = SumOn(f, Mine(v, k))
      BY DEF Group
    <3>1. Mine(u, k) = Mine(v, k)
      OBVIOUS
    <3> QED BY <3>1
  <2>7. key[x] \in K /\ f[x] \in Int
    OBVIOUS
  <2>8. By(u)[key[x]] = By(v)[key[x]] + f[x]
    <3>1. Mine(u, key[x]) = Mine(v, key[x]) \cup {x} /\ x \notin Mine(v, key[x])
      OBVIOUS
    <3>2. \A y \in Mine(v, key[x]) : f[y] \in Int
      OBVIOUS
    <3>3. SumOn(f, Mine(u, key[x])) = SumOn(f, Mine(v, key[x])) + f[x]
      <4> HIDE DEF Mine
      <4> QED BY <3>1, <3>2, <2>4, <2>7, SumMore
    <3> QED BY <3>3, <2>7 DEF Group
  <2> HIDE DEF By, v
  <2>9. SumOn(By(u), K) = SumOn(By(v), K) + f[x]
    BY <2>5, <2>6, <2>7, <2>8, SumChange
  <2>10. SumOn(f, v) \in Int
    BY <2>1, SumInt DEF v
  <2>11. SumOn(By(u), K) = SumOn(f, u)
    BY <2>2, <2>3, <2>7, <2>9, <2>10
  <2> QED BY <2>11
<1> HIDE DEF G
<1>3. T \in G
  BY <1>1, <1>2, OneByOne
<1> QED BY <1>3 DEF G

LEMMA SumByKey ==
  ASSUME NEW f, NEW key, NEW K, NEW T, IsFiniteSet(K), IsFiniteSet(T),
         \A x \in T : f[x] \in Int /\ key[x] \in K,
         NEW h, \A k \in K : h[k] = Group(f, key, T, k)
  PROVE  SumOn(h, K) = SumOn(f, T)
<1> DEFINE g == [k \in K |-> Group(f, key, T, k)]
<1>1. \A k \in K : h[k] = g[k]
  OBVIOUS
<1>2. SumOn(g, K) = SumOn(f, T)
  BY SumGroups
<1> HIDE DEF g
<1> QED BY <1>1, <1>2, SumSame

LEMMA SumOne ==
  ASSUME NEW f, NEW x, f[x] \in Int
  PROVE  SumOn(f, {x}) = f[x]
<1>1. IsFiniteSet({}) /\ {} \cup {x} = {x}
  BY FS_EmptySet
<1>2. SumOn(f, {} \cup {x}) = SumOn(f, {}) + f[x]
  BY <1>1, SumMore
<1> QED BY <1>1, <1>2, SumNothing

\* A numbering adds up to what it numbers.
Numbers(s, I, T) ==
  /\ \A i \in I : s[i] \in T
  /\ \A i, j \in I : s[i] = s[j] => i = j
  /\ \A x \in T : \E i \in I : s[i] = x
LEMMA SumNumbered ==
  ASSUME NEW I, IsFiniteSet(I), NEW T, IsFiniteSet(T), NEW s, Numbers(s, I, T), NEW f, NEW g,
         \A i \in I : f[i] \in Int /\ f[i] = g[s[i]]
  PROVE  SumOn(f, I) = SumOn(g, T)
<1>0. /\ \A i \in I : s[i] \in T /\ f[i] \in Int /\ f[i] = g[s[i]]
      /\ \A i, j \in I : s[i] = s[j] => i = j
      /\ \A x \in T : \E i \in I : s[i] = x
  BY DEF Numbers
<1>1. ASSUME NEW x \in T PROVE g[x] = Group(f, s, I, x)
  <2>1. PICK i \in I : s[i] = x
    BY <1>0
  <2>2. {j \in I : s[j] = x} = {i}
    BY <1>0, <2>1
  <2>3. SumOn(f, {i}) = f[i]
    BY <1>0, SumOne
  <2> QED BY <1>0, <2>1, <2>2, <2>3 DEF Group
<1>2. \A i \in I : f[i] \in Int /\ s[i] \in T
  BY <1>0
<1> QED BY <1>1, <1>2, SumByKey

-----------------------------------------------------------------------------
(* What Arranged puts in order.                                            *)

Connected(S, R) == \A x, y \in S : x # y => <<x, y>> \in R \/ <<y, x>> \in R
Transitive(S, R) == \A x, y, z \in S : <<x, y>> \in R /\ <<y, z>> \in R => <<x, z>> \in R
Arranges(s, S, R) ==
    /\ s \in [1 .. Cardinality(S) -> S]
    /\ \A x \in S : \E i \in DOMAIN s : s[i] = x
    /\ \A i, j \in DOMAIN s : i < j => <<s[i], s[j]>> \in R

\* Of a finite set in an order, one comes after all others.
LEMMA HasLast ==
  ASSUME NEW S, IsFiniteSet(S), S # {}, NEW R, Connected(S, R), Transitive(S, R)
  PROVE  \E m \in S : \A y \in S \ {m} : <<y, m>> \in R
<1> DEFINE G == {u \in SUBSET S : u = {} \/ \E m \in u : \A y \in u \ {m} : <<y, m>> \in R}
<1>1. {} \in G
  OBVIOUS
<1>2. ASSUME NEW u \in SUBSET S, NEW x \in u, u \ {x} \in G
      PROVE  u \in G
  <2>1. CASE u \ {x} = {}
    BY <2>1
  <2>2. CASE u \ {x} # {}
    <3>1. PICK m \in u \ {x} : \A y \in (u \ {x}) \ {m} : <<y, m>> \in R
      BY <1>2, <2>2
    <3>2. CASE <<x, m>> \in R
      <4>1. \A y \in u \ {m} : <<y, m>> \in R
        BY <3>1, <3>2
      <4> QED BY <3>1, <4>1
    <3>3. CASE <<m, x>> \in R
      <4>1. ASSUME NEW y \in u \ {x} PROVE <<y, x>> \in R
        <5>1. CASE y = m
          BY <3>3, <5>1
        <5>2. CASE y # m
          <6>1. <<y, m>> \in R /\ y \in S /\ m \in S /\ x \in S
            BY <3>1, <5>2
          <6> QED BY <3>3, <6>1 DEF Transitive
        <5> QED BY <5>1, <5>2
      <4> QED BY <4>1
    <3>4. <<x, m>> \in R \/ <<m, x>> \in R
      <4>1. x \in S /\ m \in S /\ x # m
        BY <3>1
      <4> QED BY <4>1 DEF Connected
    <3> QED BY <3>2, <3>3, <3>4
  <2> QED BY <2>1, <2>2
<1> HIDE DEF G
<1>3. S \in G
  BY <1>1, <1>2, OneByOne
<1> QED BY <1>3 DEF G

LEMMA ArrangedExists ==
  ASSUME NEW S, IsFiniteSet(S), NEW R, Connected(S, R), Transitive(S, R)
  PROVE  \E s : Arranges(s, S, R)
<1> DEFINE G == {u \in SUBSET S : \E s : Arranges(s, u, R)}
<1>1. {} \in G
  <2> DEFINE none == [i \in 1 .. 0 |-> 0]
  <2>1. Cardinality({}) = 0
    BY FS_EmptySet
  <2>2. none \in [1 .. 0 -> {}] /\ DOMAIN none = {}
    OBVIOUS
  <2> HIDE DEF none
  <2>3. Arranges(none, {}, R)
    BY <2>1, <2>2 DEF Arranges
  <2> QED BY <2>3
<1>2. ASSUME NEW u \in SUBSET S, u # {}, \A x \in u : u \ {x} \in G
      PROVE  u \in G
  <2>1. IsFiniteSet(u) /\ Connected(u, R) /\ Transitive(u, R)
    BY FS_Subset DEF Connected, Transitive
  <2>2. PICK m \in u : \A y \in u \ {m} : <<y, m>> \in R
    BY <1>2, <2>1, HasLast
  <2> DEFINE v == u \ {m}
             n == Cardinality(v)
  <2>3. n \in Nat /\ Cardinality(u) = n + 1
    <3>1. IsFiniteSet(v) /\ n = Cardinality(u) - 1
      BY <2>1, <2>2, FS_RemoveElement
    <3>2. n \in Nat /\ Cardinality(u) \in Nat
      BY <2>1, <3>1, FS_CardinalityType
    <3> QED BY <3>1, <3>2
  <2>4. PICK s : Arranges(s, v, R)
    BY <1>2, <2>2
  <2>5. /\ s \in [1 .. n -> v] /\ DOMAIN s = 1 .. n /\ \A x \in v : \E i \in 1 .. n : s[i] = x
        /\ \A i, j \in 1 .. n : i < j => <<s[i], s[j]>> \in R
    BY <2>4 DEF Arranges
  <2> HIDE DEF n
  <2> DEFINE more == [i \in 1 .. n + 1 |-> IF i <= n THEN s[i] ELSE m]
  <2>6. \A i \in 1 .. n : i \in 1 .. n + 1 /\ more[i] = s[i] /\ s[i] \in v
    BY <2>3, <2>5
  <2>7. n + 1 \in 1 .. n + 1 /\ more[n + 1] = m
    BY <2>3
  <2>8. more \in [1 .. n + 1 -> u] /\ DOMAIN more = 1 .. n + 1
    BY <2>2, <2>3, <2>5
  <2> HIDE DEF more
  <2>9. ASSUME NEW x \in u PROVE \E i \in 1 .. n + 1 : more[i] = x
    <3>1. CASE x = m
      BY <2>7, <3>1
    <3>2. CASE x # m
      BY <2>5, <2>6, <3>2
    <3> QED BY <3>1, <3>2
  <2>10. ASSUME NEW i \in 1 .. n + 1, NEW j \in 1 .. n + 1, i < j
         PROVE  <<more[i], more[j]>> \in R
    <3>1. i \in 1 .. n
      BY <2>3, <2>10
    <3>2. CASE j \in 1 .. n
      BY <2>5, <2>6, <2>10, <3>1, <3>2
    <3>3. CASE j \notin 1 .. n
      <4>1. j = n + 1
        BY <2>3, <3>3
      <4>2. more[i] \in v
        BY <2>6, <3>1
      <4> QED BY <2>2, <2>7, <4>1, <4>2
    <3> QED BY <3>2, <3>3
  <2>11. Arranges(more, u, R)
    BY <2>3, <2>8, <2>9, <2>10 DEF Arranges
  <2> QED BY <2>11
<1>3. \A u \in SUBSET S : u # {} /\ (\A x \in u : u \ {x} \in G) => u \in G
  BY <1>2
<1> HIDE DEF G
<1>4. S \in G
  BY <1>1, <1>3, AllButOne
<1> QED BY <1>4 DEF G

\* Arranged is such an arrangement.
LEMMA ArrangedIs ==
  ASSUME NEW S, IsFiniteSet(S), NEW R, Connected(S, R), Transitive(S, R)
  PROVE  Arranges(Arranged(S, R), S, R)
<1>1. PICK s : Arranges(s, S, R)
  BY ArrangedExists
<1>2. \E f \in [1 .. Cardinality(S) -> S] :
         /\ \A x \in S : \E i \in DOMAIN f : f[i] = x
         /\ \A i, j \in DOMAIN f : i < j => <<f[i], f[j]>> \in R
  BY <1>1 DEF Arranges
<1> QED BY <1>2 DEF Arranged, Arranges

\* The greatest and the least of a finite set of numbers.
LEMMA MaxIs ==
  ASSUME NEW S, IsFiniteSet(S), S # {}, S \subseteq Int
  PROVE  Max(S) \in S /\ \A y \in S : y <= Max(S)
<1> DEFINE R == {p \in S \X S : p[1] < p[2]}
<1>1. (\A x, y \in S : <<x, y>> \in R <=> x < y) /\ \A x \in S : x \in Int
  OBVIOUS
<1> HIDE DEF R
<1>2. Connected(S, R) /\ Transitive(S, R)
  BY <1>1 DEF Connected, Transitive
<1>3. PICK m \in S : \A y \in S \ {m} : <<y, m>> \in R
  BY <1>2, HasLast
<1>4. ASSUME NEW y \in S PROVE m >= y
  <2>1. y \in Int /\ m \in Int
    BY <1>1, <1>3
  <2>2. CASE y = m
    BY <2>1, <2>2
  <2>3. CASE y # m
    <3>1. y < m
      BY <1>1, <1>3, <2>3
    <3> QED BY <2>1, <3>1
  <2> QED BY <2>2, <2>3
<1>5. Max(S) \in S /\ \A y \in S : Max(S) >= y
  BY <1>3, <1>4 DEF Max
<1> QED BY <1>1, <1>5

LEMMA MinIs ==
  ASSUME NEW S, IsFiniteSet(S), S # {}, S \subseteq Int
  PROVE  Min(S) \in S /\ \A y \in S : Min(S) <= y
<1> DEFINE R == {p \in S \X S : p[1] > p[2]}
<1>1. (\A x, y \in S : <<x, y>> \in R <=> x > y) /\ \A x \in S : x \in Int
  OBVIOUS
<1> HIDE DEF R
<1>2. Connected(S, R) /\ Transitive(S, R)
  BY <1>1 DEF Connected, Transitive
<1>3. PICK m \in S : \A y \in S \ {m} : <<y, m>> \in R
  BY <1>2, HasLast
<1>4. ASSUME NEW y \in S PROVE m <= y
  <2>1. y \in Int /\ m \in Int
    BY <1>1, <1>3
  <2>2. CASE y = m
    BY <2>1, <2>2
  <2>3. CASE y # m
    <3>1. y > m
      BY <1>1, <1>3, <2>3
    <3> QED BY <2>1, <3>1
  <2> QED BY <2>2, <2>3
<1>5. Min(S) \in S /\ \A y \in S : Min(S) =< y
  BY <1>3, <1>4 DEF Min
<1> QED BY <1>1, <1>5
=============================================================================
