-------------------------- MODULE RouteRequestProofs --------------------------
(***************************************************************************)
(* Proofs about Routing, RouteRequest and TwoStores for any tables, draws  *)
(* and eligibility decisions.  Weighted selection is a sum and a search    *)
(* along it, so the first part does the induction over finite sets that    *)
(* the library's SumFunctionOnSet calls for.                               *)
(***************************************************************************)
EXTENDS RouteRequest, TwoStores, FiniteSetTheorems, WellFoundedInduction, TLAPS

LEMMA LeastNumber ==
  ASSUME NEW S \in SUBSET Nat, S # {}
  PROVE  \E m \in S : \A n \in S : m <= n
<1>1. PICK m \in S : \A n \in S : ~(<<n, m>> \in OpToRel(<, Nat))
  BY WFMin, NatLessThanWellFounded
<1>2. \A n \in Nat : n < m => <<n, m>> \in OpToRel(<, Nat)
  BY <1>1, Zenon DEF OpToRel
<1>3. \A n \in S : ~(n < m)
  BY <1>1, <1>2
<1> QED BY <1>3

\* Induction over the numbers, for a set in place of a predicate.
LEMMA Induction ==
  ASSUME NEW S \in SUBSET Nat, 0 \in S, \A n \in S : n + 1 \in S
  PROVE  S = Nat
<1> DEFINE T == Nat \ S
<1> SUFFICES ASSUME T # {} PROVE FALSE
  OBVIOUS
<1>1. PICK m \in T : \A n \in T : m <= n
  BY LeastNumber
<1>2. m # 0 /\ m - 1 \in Nat
  BY <1>1
<1>3. m - 1 \in S
  BY <1>1, <1>2
<1>4. (m - 1) + 1 = m
  BY <1>1
<1> QED BY <1>1, <1>3, <1>4

-----------------------------------------------------------------------------
(* Sums of a function over finite sets.                                    *)

Pick(s) == CHOOSE x \in s : TRUE

\* The equation of MapThenFoldSet's recursive function, for sums over subsets of S.
Adds(w, S, f) ==
  \A s \in SUBSET S : f[s] = IF s = {} THEN 0 ELSE w[Pick(s)] + f[s \ {Pick(s)}]

Sums(w, S, f) == f \in [SUBSET S -> Nat] /\ Adds(w, S, f)

LEMMA SmallerSet ==
  ASSUME NEW s, IsFiniteSet(s), NEW x \in s
  PROVE  /\ IsFiniteSet(s \ {x}) /\ Cardinality(s) \in Nat
         /\ Cardinality(s \ {x}) \in Nat /\ Cardinality(s \ {x}) + 1 = Cardinality(s)
<1>1. Cardinality(s) \in Nat
  BY FS_CardinalityType
<1>2. IsFiniteSet(s \ {x}) /\ Cardinality(s \ {x}) = Cardinality(s) - 1
  BY FS_RemoveElement
<1>3. Cardinality(s \ {x}) \in Nat
  BY <1>2, FS_CardinalityType
<1> QED BY <1>1, <1>2, <1>3

LEMMA SumsExist ==
  ASSUME NEW D, NEW w \in [D -> Nat], NEW S \in SUBSET D, IsFiniteSet(S)
  PROVE  \E f : Sums(w, S, f)
<1> DEFINE Good(n, f) ==
             /\ f \in [SUBSET S -> Nat]
             /\ \A s \in SUBSET S : Cardinality(s) <= n =>
                  f[s] = IF s = {} THEN 0 ELSE w[Pick(s)] + f[s \ {Pick(s)}]
           K == {n \in Nat : \E f : Good(n, f)}
<1>1. \A s \in SUBSET S : /\ IsFiniteSet(s) /\ Cardinality(s) \in Nat
                          /\ Cardinality(s) <= Cardinality(S)
                          /\ s # {} => Pick(s) \in s
  <2>1. \A s \in SUBSET S : s # {} => Pick(s) \in s
    BY DEF Pick
  <2> QED BY <2>1, FS_Subset, FS_CardinalityType
<1>2. 0 \in K
  <2> DEFINE f == [s \in SUBSET S |-> 0]
  <2>1. ASSUME NEW s \in SUBSET S, Cardinality(s) <= 0 PROVE s = {}
    BY <1>1, <2>1, FS_EmptySet
  <2>2. Good(0, f)
    BY <2>1
  <2> QED BY <2>2
<1>3. ASSUME NEW n \in Nat, NEW f, Good(n, f) PROVE \E g : Good(n + 1, g)
  <2> DEFINE value(s) == IF s = {} THEN 0 ELSE w[Pick(s)] + f[s \ {Pick(s)}]
             g == [s \in SUBSET S |-> value(s)]
  <2>1. ASSUME NEW s \in SUBSET S PROVE value(s) \in Nat
    BY <1>1, <1>3
  <2>2. ASSUME NEW s \in SUBSET S, Cardinality(s) <= n PROVE value(s) = f[s]
    BY <1>3, <2>2
  <2>3. ASSUME NEW s \in SUBSET S, s # {} PROVE value(s) = w[Pick(s)] + f[s \ {Pick(s)}]
    BY <2>3
  <2>4. value({}) = 0
    OBVIOUS
  <2> HIDE DEF value
  <2>5. g \in [SUBSET S -> Nat] /\ \A s \in SUBSET S : g[s] = value(s)
    BY <2>1
  <2> HIDE DEF g
  <2>6. ASSUME NEW s \in SUBSET S, Cardinality(s) <= n + 1
        PROVE  g[s] = IF s = {} THEN 0 ELSE w[Pick(s)] + g[s \ {Pick(s)}]
    <3>1. CASE s = {}
      BY <2>4, <2>5, <3>1
    <3>2. CASE s # {}
      <4> DEFINE x == Pick(s)
                 t == s \ {x}
      <4>1. x \in s /\ IsFiniteSet(s)
        BY <1>1, <3>2
      <4> HIDE DEF x
      <4>2. t \in SUBSET S /\ Cardinality(t) <= n
        BY <2>6, <4>1, SmallerSet
      <4>3. g[t] = f[t]
        BY <2>2, <2>5, <4>2
      <4>4. g[s] = w[x] + f[t]
        BY <2>3, <2>5, <3>2 DEF x
      <4> QED BY <3>2, <4>3, <4>4 DEF x
    <3> QED BY <3>1, <3>2
  <2> QED BY <2>5, <2>6
<1> HIDE DEF Good
<1>4. \A n \in K : n + 1 \in K
  BY <1>3
<1> HIDE DEF K
<1>5. K = Nat
  <2>1. K \in SUBSET Nat
    BY DEF K
  <2> QED BY <1>2, <1>4, <2>1, Induction
<1>6. Cardinality(S) \in Nat
  BY FS_CardinalityType
<1>7. PICK f : Good(Cardinality(S), f)
  BY <1>5, <1>6 DEF K
<1>8. ASSUME NEW s \in SUBSET S
      PROVE  f[s] = IF s = {} THEN 0 ELSE w[Pick(s)] + f[s \ {Pick(s)}]
  <2>1. Cardinality(s) <= Cardinality(S)
    BY <1>1
  <2> QED BY <1>7, <2>1, Zenon DEF Good
<1> QED BY <1>7, <1>8 DEF Good, Sums, Adds

\* Two such functions agree where both are defined.
LEMMA SumsAgree ==
  ASSUME NEW w, NEW S, NEW T \in SUBSET S, IsFiniteSet(S), NEW f, NEW g, Sums(w, S, f),
         Adds(w, T, g)
  PROVE  \A s \in SUBSET T : f[s] = g[s]
<1> DEFINE K == {n \in Nat : \A s \in SUBSET T : Cardinality(s) = n => f[s] = g[s]}
<1>1. \A s \in SUBSET T : /\ IsFiniteSet(s) /\ Cardinality(s) \in Nat
                          /\ s # {} => Pick(s) \in s
  <2>1. \A s \in SUBSET T : s # {} => Pick(s) \in s
    BY DEF Pick
  <2> QED BY <2>1, FS_Subset, FS_CardinalityType
<1>2. 0 \in K
  <2>1. ASSUME NEW s \in SUBSET T, Cardinality(s) = 0 PROVE s = {}
    BY <1>1, <2>1, FS_EmptySet
  <2>2. f[{}] = 0 /\ g[{}] = 0
    BY DEF Sums, Adds
  <2> QED BY <2>1, <2>2
<1>3. ASSUME NEW n \in K, NEW s \in SUBSET T, Cardinality(s) = n + 1 PROVE f[s] = g[s]
  <2> DEFINE x == Pick(s)
             t == s \ {x}
  <2>1. s # {}
    <3>1. Cardinality({}) = 0 /\ n \in Nat
      BY FS_EmptySet
    <3> QED BY <1>3, <3>1
  <2>2. x \in s /\ IsFiniteSet(s)
    BY <1>1, <2>1
  <2>3. t \in SUBSET T /\ Cardinality(t) = n
    <3> HIDE DEF x
    <3>1. t \in SUBSET T
      BY <1>3
    <3>2. Cardinality(t) \in Nat /\ Cardinality(t) + 1 = Cardinality(s)
      BY <2>2, SmallerSet
    <3> QED BY <1>3, <3>1, <3>2
  <2>4. f[t] = g[t]
    BY <2>3
  <2>5. f[s] = w[x] + f[t] /\ g[s] = w[x] + g[t]
    <3>1. s \in SUBSET S /\ s \in SUBSET T
      BY <1>3
    <3> QED BY <2>1, <3>1, Zenon DEF Sums, Adds
  <2> QED BY <2>4, <2>5
<1>4. \A n \in K : n + 1 \in K
  BY <1>3
<1> HIDE DEF K
<1>5. K = Nat
  <2>1. K \in SUBSET Nat
    BY DEF K
  <2> QED BY <1>2, <1>4, <2>1, Induction
<1> QED BY <1>1, <1>5 DEF K

\* SumFunctionOnSet is defined by those equations.
LEMMA SumIsSums ==
  ASSUME NEW D, NEW w \in [D -> Nat], NEW S \in SUBSET D, IsFiniteSet(S),
         NEW f, Sums(w, S, f), NEW T \in SUBSET S
  PROVE  SumFunctionOnSet(w, T) = f[T]
<1> DEFINE Def(g) == [s \in SUBSET T |-> IF s = {} THEN 0 ELSE w[Pick(s)] + g[s \ {Pick(s)}]]
           chosen == CHOOSE g : g = Def(g)
           restricted == [s \in SUBSET T |-> f[s]]
<1>1. restricted = Def(restricted)
  <2>1. ASSUME NEW s \in SUBSET T
        PROVE  f[s] = IF s = {} THEN 0 ELSE w[Pick(s)] + restricted[s \ {Pick(s)}]
    BY DEF Sums, Adds
  <2> QED BY <2>1
<1>2. chosen = Def(chosen)
  BY <1>1
<1>3. PICK g : g = Def(g) /\ SumFunctionOnSet(w, T) = g[T]
  <2>1. SumFunctionOnSet(w, T) = chosen[T]
    BY DEF SumFunctionOnSet, FoldFunctionOnSet, MapThenFoldSet, Pick
  <2> HIDE DEF chosen
  <2> QED BY <1>2, <2>1
<1>4. Adds(w, T, g)
  BY <1>3, Zenon DEF Adds
<1>5. \A s \in SUBSET T : f[s] = g[s]
  BY <1>4, SumsAgree, Z3
<1> QED BY <1>3, <1>5

LEMMA SumEquation ==
  ASSUME NEW D, NEW w \in [D -> Nat], NEW S \in SUBSET D, IsFiniteSet(S)
  PROVE  /\ SumFunctionOnSet(w, S) \in Nat
         /\ S = {} => SumFunctionOnSet(w, S) = 0
         /\ S # {} => SumFunctionOnSet(w, S) = w[Pick(S)] + SumFunctionOnSet(w, S \ {Pick(S)})
<1>1. PICK f : Sums(w, S, f)
  BY SumsExist
<1>2. \A T \in SUBSET S : SumFunctionOnSet(w, T) = f[T]
  BY <1>1, SumIsSums
<1>3. S \in SUBSET S /\ S \ {Pick(S)} \in SUBSET S
  OBVIOUS
<1> QED BY <1>1, <1>2, <1>3, Zenon DEF Sums, Adds

\* The element that a sum takes first does not matter.
LEMMA SumSplit ==
  ASSUME NEW D, NEW w \in [D -> Nat], NEW S \in SUBSET D, IsFiniteSet(S), NEW x \in S
  PROVE  SumFunctionOnSet(w, S) = w[x] + SumFunctionOnSet(w, S \ {x})
<1> DEFINE Sum(s) == SumFunctionOnSet(w, s)
           Finite == {s \in SUBSET D : IsFiniteSet(s)}
           K == {n \in Nat : \A s \in Finite : Cardinality(s) = n =>
                               \A y \in s : Sum(s) = w[y] + Sum(s \ {y})}
<1>1. \A s \in Finite : /\ Cardinality(s) \in Nat /\ Sum(s) \in Nat
                        /\ s # {} => Pick(s) \in s /\ Sum(s) = w[Pick(s)] + Sum(s \ {Pick(s)})
  <2>1. \A s \in Finite : s # {} => Pick(s) \in s
    BY DEF Pick
  <2> QED BY <2>1, FS_CardinalityType, SumEquation
<1>2. \A s \in Finite : \A y \in s :
        s \ {y} \in Finite /\ Cardinality(s \ {y}) + 1 = Cardinality(s)
  BY SmallerSet
<1> HIDE DEF Sum
<1>3. 0 \in K
  BY FS_EmptySet
<1>4. ASSUME NEW n \in K, NEW s \in Finite, Cardinality(s) = n + 1, NEW y \in s
      PROVE  Sum(s) = w[y] + Sum(s \ {y})
  <2> DEFINE p == Pick(s)
  <2>1. p \in s /\ Sum(s) = w[p] + Sum(s \ {p})
    BY <1>1
  <2> HIDE DEF p
  <2>2. CASE p = y
    BY <2>1, <2>2
  <2>3. CASE p # y
    <3>1. \A z \in s : s \ {z} \in Finite /\ Cardinality(s \ {z}) = n
      <4> TAKE z \in s
      <4>1. s \ {z} \in Finite /\ Cardinality(s \ {z}) + 1 = n + 1
        BY <1>2, <1>4
      <4>2. Cardinality(s \ {z}) \in Nat /\ n \in Nat
        BY <1>1, <4>1
      <4> QED BY <4>1, <4>2
    <3>2. Sum(s \ {p}) = w[y] + Sum((s \ {p}) \ {y})
      BY <2>1, <2>3, <3>1
    <3>3. Sum(s \ {y}) = w[p] + Sum((s \ {y}) \ {p})
      BY <2>1, <2>3, <3>1
    <3>4. (s \ {y}) \ {p} = (s \ {p}) \ {y}
      OBVIOUS
    <3>5. (s \ {p}) \ {y} \in Finite
      BY <1>2, <2>1, <2>3, <3>1
    <3>6. Sum((s \ {p}) \ {y}) \in Nat /\ w[y] \in Nat /\ w[p] \in Nat
      BY <1>1, <2>1, <3>5
    <3> QED BY <2>1, <3>2, <3>3, <3>4, <3>6
  <2> QED BY <2>2, <2>3
<1>5. ASSUME NEW n \in K PROVE n + 1 \in K
  <2>1. \A s \in Finite : Cardinality(s) = n + 1 => \A y \in s : Sum(s) = w[y] + Sum(s \ {y})
    BY <1>4
  <2> HIDE DEF Finite
  <2> QED BY <2>1
<1> HIDE DEF K
<1>6. K = Nat
  <2>1. K \in SUBSET Nat
    BY DEF K
  <2> QED BY <1>3, <1>5, <2>1, Induction
<1>7. S \in Finite /\ Cardinality(S) \in K
  BY <1>1, <1>6
<1> QED BY <1>7 DEF K, Sum

\* A larger set has a larger sum, and one with a positive member a positive sum.
LEMMA SumGrows ==
  ASSUME NEW D, NEW w \in [D -> Nat], NEW S \in SUBSET D, IsFiniteSet(S), NEW T \in SUBSET S
  PROVE  SumFunctionOnSet(w, T) <= SumFunctionOnSet(w, S)
<1> DEFINE Sum(s) == SumFunctionOnSet(w, s)
           Between == {s \in SUBSET S : T \subseteq s}
           K == {n \in Nat : \A s \in Between : Cardinality(s) = n => Sum(T) <= Sum(s)}
<1>1. \A s \in SUBSET S : s \in SUBSET D /\ IsFiniteSet(s) /\ Cardinality(s) \in Nat /\ Sum(s) \in Nat
  <2>1. \A s \in SUBSET S : s \in SUBSET D /\ IsFiniteSet(s)
    BY FS_Subset
  <2> QED BY <2>1, FS_CardinalityType, SumEquation
<1>2. \A s \in SUBSET S : \A y \in s :
        /\ Cardinality(s \ {y}) + 1 = Cardinality(s)
        /\ Sum(s) = w[y] + Sum(s \ {y})
  <2>1. \A s \in SUBSET S : \A y \in s : Cardinality(s \ {y}) + 1 = Cardinality(s)
    BY <1>1, SmallerSet
  <2>2. ASSUME NEW s \in SUBSET S, NEW y \in s PROVE Sum(s) = w[y] + Sum(s \ {y})
    <3>1. s \in SUBSET D /\ IsFiniteSet(s)
      BY <1>1
    <3> QED BY <3>1, SumSplit
  <2> QED BY <2>1, <2>2
<1> HIDE DEF Sum
<1>3. 0 \in K
  <2>1. ASSUME NEW s \in Between, Cardinality(s) = 0 PROVE s = T
    BY <1>1, <2>1, FS_EmptySet
  <2> QED BY <1>1, <2>1
<1>4. ASSUME NEW n \in K, NEW s \in Between, Cardinality(s) = n + 1 PROVE Sum(T) <= Sum(s)
  <2>1. CASE s = T
    BY <1>1, <2>1
  <2>2. CASE s # T
    <3>1. PICK y \in s : y \notin T
      BY <2>2
    <3>2. s \ {y} \in Between
      BY <3>1
    <3>3. Cardinality(s \ {y}) = n
      BY <1>1, <1>2, <1>4, <3>1, <3>2
    <3>4. Sum(T) <= Sum(s \ {y})
      BY <3>2, <3>3
    <3>5. w[y] \in Nat /\ Sum(s \ {y}) \in Nat /\ Sum(T) \in Nat
      BY <1>1, <3>1, <3>2
    <3>6. Sum(s) = w[y] + Sum(s \ {y})
      BY <1>2, <3>1
    <3> QED BY <3>4, <3>5, <3>6
  <2> QED BY <2>1, <2>2
<1>5. \A n \in K : n + 1 \in K
  BY <1>4
<1> HIDE DEF K
<1>6. K = Nat
  <2>1. K \in SUBSET Nat
    BY DEF K
  <2> QED BY <1>3, <1>5, <2>1, Induction
<1>7. S \in Between /\ Cardinality(S) \in K
  BY <1>1, <1>6
<1> QED BY <1>7 DEF K, Sum

-----------------------------------------------------------------------------
(* Weighted selection.                                                     *)

LEMMA RouteFacts ==
  ASSUME NEW routes, IsRouteList(routes)
  PROVE  /\ DOMAIN routes = 1 .. Len(routes) /\ Len(routes) \in Nat
         /\ \A i \in DOMAIN routes : /\ routes[i].weight \in Nat
                                     /\ routes[i].enabled \in BOOLEAN
                                     /\ routes[i].id \in RouteIds
<1> DEFINE R == [id : RouteIds, weight : 0 .. U64Max, enabled : BOOLEAN]
<1>1. routes \in Seq(R)
  BY DEF IsRouteList
<1>2. \A x \in R : /\ x.weight \in Nat /\ x.enabled \in BOOLEAN
                   /\ x.id \in RouteIds
  BY RoutingAssumption
<1> HIDE DEF R
<1>3. /\ DOMAIN routes = 1 .. Len(routes) /\ Len(routes) \in Nat
      /\ \A i \in DOMAIN routes : routes[i] \in R
  BY <1>1
<1> QED BY <1>2, <1>3

LEMMA TotalFacts ==
  ASSUME NEW routes, IsRouteList(routes), NEW S \in SUBSET DOMAIN routes
  PROVE  /\ Total(routes, S) \in Nat
         /\ S = {} => Total(routes, S) = 0
         /\ \A x \in S : Total(routes, S) = routes[x].weight + Total(routes, S \ {x})
         /\ \A T \in SUBSET S : Total(routes, T) <= Total(routes, S)
<1> DEFINE w == [i \in DOMAIN routes |-> routes[i].weight]
<1>1. w \in [DOMAIN routes -> Nat] /\ IsFiniteSet(DOMAIN routes)
  <2>1. Len(routes) \in Nat /\ DOMAIN routes = 1 .. Len(routes)
    BY RouteFacts
  <2>2. IsFiniteSet(DOMAIN routes)
    BY <2>1, FS_Interval
  <2>3. \A i \in DOMAIN routes : routes[i].weight \in Nat
    BY RouteFacts
  <2> QED BY <2>2, <2>3
<1>2. IsFiniteSet(S)
  BY <1>1, FS_Subset
<1>3. \A T : Total(routes, T) = SumFunctionOnSet(w, T)
  BY DEF Total
<1>4. \A x \in S : w[x] = routes[x].weight
  OBVIOUS
<1> HIDE DEF w
<1>5. Total(routes, S) \in Nat /\ (S = {} => Total(routes, S) = 0)
  BY <1>1, <1>2, <1>3, SumEquation
<1>6. \A x \in S : Total(routes, S) = routes[x].weight + Total(routes, S \ {x})
  BY <1>1, <1>2, <1>3, <1>4, SumSplit
<1>7. \A T \in SUBSET S : Total(routes, T) <= Total(routes, S)
  BY <1>1, <1>2, <1>3, SumGrows
<1> QED BY <1>5, <1>6, <1>7

UpTo(kept, i) == {j \in kept : j <= i}
Before(kept, i) == {j \in kept : j < i}

LEMMA RunningFacts ==
  ASSUME NEW routes, IsRouteList(routes), NEW kept \in SUBSET DOMAIN routes
  PROVE  /\ DOMAIN routes = 1 .. Len(routes) /\ Len(routes) \in Nat
         /\ \A i \in Int : /\ Total(routes, UpTo(kept, i)) \in Nat
                           /\ Total(routes, Before(kept, i)) \in Nat
         /\ \A i, k \in Int : k < i =>
              Total(routes, UpTo(kept, k)) <= Total(routes, Before(kept, i))
         /\ \A i \in Int : Total(routes, Before(kept, i)) <= Total(routes, UpTo(kept, i))
         /\ \A i \in Int : Total(routes, UpTo(kept, i)) <= Total(routes, kept)
         /\ \A i \in kept : /\ routes[i].weight \in Nat
                            /\ Total(routes, UpTo(kept, i)) =
                                 routes[i].weight + Total(routes, Before(kept, i))
<1>1. DOMAIN routes = 1 .. Len(routes) /\ Len(routes) \in Nat
  BY RouteFacts
<1>2. \A i \in Int : UpTo(kept, i) \in SUBSET kept /\ Before(kept, i) \in SUBSET UpTo(kept, i)
  BY <1>1 DEF UpTo, Before
<1>3. \A i, k \in Int : k < i => UpTo(kept, k) \in SUBSET Before(kept, i)
  BY <1>1 DEF UpTo, Before
<1>4. \A i \in kept : UpTo(kept, i) \ {i} = Before(kept, i) /\ i \in UpTo(kept, i) /\ i \in Int
  BY <1>1 DEF UpTo, Before
<1>5. \A S \in SUBSET kept :
        /\ Total(routes, S) \in Nat
        /\ \A x \in S : Total(routes, S) = routes[x].weight + Total(routes, S \ {x})
        /\ \A T \in SUBSET S : Total(routes, T) <= Total(routes, S)
  BY TotalFacts
<1>6. \A i \in Int : UpTo(kept, i) \in SUBSET kept /\ Before(kept, i) \in SUBSET kept
  BY <1>2
<1>7. \A i \in kept : routes[i].weight \in Nat
  BY RouteFacts
<1>8. ASSUME NEW i \in kept
      PROVE  Total(routes, UpTo(kept, i)) = routes[i].weight + Total(routes, Before(kept, i))
  <2>1. UpTo(kept, i) \in SUBSET kept /\ i \in UpTo(kept, i)
    BY <1>4, <1>6
  <2>2. Total(routes, UpTo(kept, i)) = routes[i].weight + Total(routes, UpTo(kept, i) \ {i})
    BY <1>5, <2>1
  <2> QED BY <1>4, <2>2
<1>9. \A i, k \in Int : k < i =>
        Total(routes, UpTo(kept, k)) <= Total(routes, Before(kept, i))
  BY <1>3, <1>5, <1>6, Zenon
<1>10. \A i \in Int : Total(routes, Before(kept, i)) <= Total(routes, UpTo(kept, i))
  BY <1>2, <1>5, <1>6, Zenon
<1>11. \A i \in Int : Total(routes, UpTo(kept, i)) <= Total(routes, kept)
  BY <1>2, <1>5, Zenon
<1>12. \A i \in Int : /\ Total(routes, UpTo(kept, i)) \in Nat
                      /\ Total(routes, Before(kept, i)) \in Nat
  BY <1>5, <1>6, Zenon
<1> QED BY <1>1, <1>7, <1>8, <1>9, <1>10, <1>11, <1>12

\* The first position whose running total exceeds the draw exists, is kept, and is the
\* one position whose share of the total contains the draw.
LEMMA ChosenShare ==
  ASSUME NEW routes, IsRouteList(routes), NEW kept \in SUBSET DOMAIN routes,
         NEW draw \in 0 .. Total(routes, kept) - 1
  PROVE  /\ Chosen(routes, kept, draw) \in kept
         /\ \A i \in kept : Chosen(routes, kept, draw) = i <=>
              /\ Total(routes, Before(kept, i)) <= draw
              /\ draw < Total(routes, UpTo(kept, i))
<1> DEFINE U(i) == Total(routes, UpTo(kept, i))
           B(i) == Total(routes, Before(kept, i))
           First(i) == draw < U(i) /\ \A k \in kept : k < i => draw >= U(k)
           N == Len(routes)
           A == {i \in 0 .. N : draw < U(i)}
<1>1. /\ DOMAIN routes = 1 .. N /\ N \in Nat
      /\ \A i \in Int : U(i) \in Nat /\ B(i) \in Nat
      /\ \A i, k \in Int : k < i => U(k) <= B(i)
      /\ \A i \in Int : B(i) <= U(i)
  BY RunningFacts
<1>2. UpTo(kept, N) = kept /\ UpTo(kept, 0) = {}
  BY <1>1 DEF UpTo
<1>3. draw \in Nat /\ draw < U(N) /\ U(0) = 0
  <2>1. Total(routes, kept) \in Nat
    BY TotalFacts
  <2>2. Total(routes, {}) = 0
    <3>1. {} \in SUBSET DOMAIN routes
      OBVIOUS
    <3> QED BY <3>1, TotalFacts
  <2>3. U(N) = Total(routes, kept)
    BY <1>2
  <2>4. U(0) = 0
    BY <1>2, <2>2
  <2>5. draw \in Nat /\ draw < Total(routes, kept)
    BY <2>1
  <2> QED BY <2>3, <2>4, <2>5
<1>4. \A i \in 1 .. N : i \notin kept => UpTo(kept, i) = UpTo(kept, i - 1)
  BY <1>1 DEF UpTo
<1>5. \A i \in 1 .. N : Before(kept, i) = UpTo(kept, i - 1)
  BY <1>1 DEF UpTo, Before
<1>6. Chosen(routes, kept, draw) = CHOOSE i \in kept : First(i)
  BY DEF Chosen, UpTo
<1> HIDE DEF U, B
<1>7. PICK m \in A : \A n \in A : m <= n
  <2>1. A \in SUBSET Nat
    BY <1>1
  <2>2. N \in A
    BY <1>1, <1>3
  <2> QED BY <2>1, <2>2, LeastNumber
<1>8. m \in 1 .. N /\ m - 1 \in 0 .. N
  <2>1. m # 0
    BY <1>3, <1>7
  <2>2. m \in 0 .. N /\ N \in Nat
    BY <1>1, <1>7
  <2> QED BY <2>1, <2>2
<1>9. m \in kept /\ B(m) <= draw /\ draw < U(m)
  <2>1. ~(draw < U(m - 1)) /\ draw < U(m)
    BY <1>7, <1>8
  <2>2. m \in kept
    BY <1>4, <1>8, <2>1 DEF U
  <2>3. B(m) = U(m - 1)
    BY <1>5, <1>8 DEF U, B
  <2>4. U(m - 1) \in Nat
    <3>1. m - 1 \in Int
      BY <1>8
    <3> QED BY <1>1, <3>1
  <2> QED BY <1>3, <2>1, <2>2, <2>3, <2>4
<1>10. \A i \in kept : i \in Int /\ i \in 1 .. N
  BY <1>1
<1>11. First(m)
  <2>1. \A k \in kept : k < m => U(k) \in Nat /\ ~(draw < U(k))
    BY <1>1, <1>7, <1>10
  <2> QED BY <1>3, <1>9, <2>1
<1>12. ASSUME NEW i \in kept, First(i) PROVE i = m
  <2>1. ~(i < m)
    BY <1>7, <1>10, <1>12
  <2>2. ~(m < i)
    <3>1. U(m) \in Nat /\ (m < i => draw >= U(m))
      BY <1>1, <1>8, <1>9, <1>12
    <3> QED BY <1>3, <1>9, <3>1
  <2> QED BY <1>8, <1>10, <2>1, <2>2
<1>13. Chosen(routes, kept, draw) = m
  BY <1>6, <1>9, <1>11, <1>12
<1>14. ASSUME NEW i \in kept, B(i) <= draw, draw < U(i) PROVE i = m
  <2>1. ~(i < m)
    <3>1. i < m => U(i) <= B(m)
      BY <1>1, <1>8, <1>10
    <3>2. U(i) \in Nat /\ B(m) \in Nat
      BY <1>1, <1>8, <1>10
    <3> QED BY <1>3, <1>9, <1>14, <3>1, <3>2
  <2>2. ~(m < i)
    <3>1. m < i => U(m) <= B(i)
      BY <1>1, <1>8, <1>10
    <3>2. U(m) \in Nat /\ B(i) \in Nat
      BY <1>1, <1>8, <1>10
    <3> QED BY <1>3, <1>9, <1>14, <3>1, <3>2
  <2> QED BY <1>8, <1>10, <2>1, <2>2
<1> QED BY <1>9, <1>13, <1>14 DEF U, B

\* As many draws choose a position as it has weight.
LEMMA ShareIsWeight ==
  ASSUME NEW routes, IsRouteList(routes), NEW kept \in SUBSET DOMAIN routes, NEW i \in kept
  PROVE  routes[i].weight = Cardinality({draw \in 0 .. Total(routes, kept) - 1 :
                                           Chosen(routes, kept, draw) = i})
<1> DEFINE b == Total(routes, Before(kept, i))
           u == Total(routes, UpTo(kept, i))
           total == Total(routes, kept)
           chosen == {draw \in 0 .. total - 1 : Chosen(routes, kept, draw) = i}
<1>1. b \in Nat /\ u \in Nat /\ u = routes[i].weight + b /\ u <= total /\ routes[i].weight \in Nat
  <2>1. i \in Int
    BY RouteFacts
  <2> QED BY <2>1, RunningFacts
<1>2. total \in Nat
  BY TotalFacts
<1>3. \A draw \in 0 .. total - 1 : Chosen(routes, kept, draw) = i <=> b <= draw /\ draw < u
  BY ChosenShare
<1> HIDE DEF b, u, total
<1>4. chosen = b .. u - 1
  BY <1>1, <1>2, <1>3
<1>5. Cardinality(b .. u - 1) = IF b > u - 1 THEN 0 ELSE u - 1 - b + 1
  <2>1. b \in Int /\ u - 1 \in Int
    BY <1>1
  <2> DEFINE v == u - 1
  <2> HIDE DEF v
  <2>2. Cardinality(b .. v) = IF b > v THEN 0 ELSE v - b + 1
    BY <2>1, FS_Interval DEF v
  <2> QED BY <2>2 DEF v
<1>6. Cardinality(b .. u - 1) = routes[i].weight
  BY <1>1, <1>5
<1> QED BY <1>4, <1>6 DEF total

\* A selection returns a kept route, or no route where there is no weight, or the error.
LEMMA DrawsFacts ==
  ASSUME NEW routes, IsRouteList(routes), NEW kept \in SUBSET DOMAIN routes,
         NEW id \in Draws(routes, kept)
  PROVE  /\ id \notin SelectErrors \cup {NoRoute} => id \in Ids(routes, kept)
         /\ id = NoRoute => Total(routes, kept) = 0
         /\ id # Panic
<1>1. Total(routes, kept) \in Nat
  BY TotalFacts
<1>2. CASE Total(routes, kept) = 0
  BY <1>2 DEF Draws, NoRoute, Panic
<1>3. CASE Total(routes, kept) # 0 /\ id # "DrawOutOfRange"
  <2>1. PICK draw \in 0 .. Total(routes, kept) - 1 : id = routes[Chosen(routes, kept, draw)].id
    BY <1>3 DEF Draws
  <2>2. Chosen(routes, kept, draw) \in kept
    BY ChosenShare
  <2>3. id \in Ids(routes, kept)
    BY <2>1, <2>2 DEF Ids
  <2>4. IsRoute(id)
    BY <2>1, <2>2, RouteFacts DEF RouteIds
  <2> QED BY <2>3, <2>4 DEF IsRoute
<1>4. CASE Total(routes, kept) # 0 /\ id = "DrawOutOfRange"
  BY <1>4 DEF SelectErrors, NoRoute, Panic
<1> QED BY <1>2, <1>3, <1>4

\* What RouteTable::new accepts: distinct ids, and weights whose sum fits.
LEMMA ValidRoutes ==
  ASSUME NEW routes, IsRouteList(routes), TableError(routes) = "none"
  PROVE  /\ \A i, j \in DOMAIN routes : routes[i].id = routes[j].id => i = j
         /\ Total(routes, Weighted(routes)) <= U64Max
         /\ Weighted(routes) \in SUBSET DOMAIN routes /\ Weighted(routes) # {}
<1> DEFINE Duplicate(i) == \E j \in 1 .. i - 1 : routes[j].id = routes[i].id
           Overflows(i) ==
             i \in Weighted(routes) /\ Total(routes, {j \in Weighted(routes) : j <= i}) > U64Max
           bad == {i \in DOMAIN routes : Duplicate(i) \/ Overflows(i)}
<1>1. bad = {} /\ Weighted(routes) # {}
  <2>1. TableError(routes) =
          IF routes = <<>> THEN "EmptyRouteTable"
          ELSE IF bad # {}
            THEN IF Duplicate(Min(bad)) THEN "DuplicateRouteId" ELSE "WeightOverflow"
          ELSE IF Weighted(routes) = {} THEN "NoWeightedEligibleRoute"
          ELSE "none"
    BY DEF TableError
  <2> HIDE DEF bad, Duplicate
  <2> QED BY <2>1
<1>2. DOMAIN routes = 1 .. Len(routes) /\ Len(routes) \in Nat
  BY RouteFacts
<1>3. Weighted(routes) \in SUBSET DOMAIN routes
  BY DEF Weighted
<1>4. \A i, j \in DOMAIN routes : routes[i].id = routes[j].id => i = j
  <2>1. ASSUME NEW i \in DOMAIN routes, NEW j \in DOMAIN routes, j < i PROVE routes[j].id # routes[i].id
    <3>1. j \in 1 .. i - 1
      BY <1>2, <2>1
    <3>2. ~Duplicate(i)
      BY <1>1
    <3> QED BY <3>1, <3>2
  <2> QED BY <1>2, <2>1
<1>5. Total(routes, Weighted(routes)) <= U64Max
  <2> DEFINE bounds == {m \in Nat : \A i \in Weighted(routes) : i <= m}
  <2>1. PICK m \in bounds : \A n \in bounds : m <= n
    <3>1. Len(routes) \in bounds
      BY <1>2, <1>3
    <3> QED BY <3>1, LeastNumber
  <2>2. m \in Weighted(routes)
    <3>1. SUFFICES ASSUME m \notin Weighted(routes) PROVE FALSE
      OBVIOUS
    <3>2. \A i \in Weighted(routes) : i \in Nat /\ i >= 1 /\ i <= m /\ i # m
      BY <1>2, <1>3, <2>1, <3>1
    <3>3. m - 1 \in Nat /\ \A i \in Weighted(routes) : i <= m - 1
      BY <1>1, <2>1, <3>2
    <3>4. m - 1 \in bounds
      BY <3>3
    <3> QED BY <2>1, <3>4
  <2>3. {j \in Weighted(routes) : j <= m} = Weighted(routes)
    BY <2>1
  <2>4. ~Overflows(m)
    BY <1>1, <1>3, <2>2
  <2>5. Total(routes, Weighted(routes)) \in Nat
    BY <1>3, TotalFacts
  <2>6. ~(Total(routes, Weighted(routes)) > U64Max)
    BY <2>2, <2>3, <2>4
  <2> QED BY <2>5, <2>6, RoutingAssumption
<1> QED BY <1>1, <1>3, <1>4, <1>5

-----------------------------------------------------------------------------
(* The inductive invariant.  Decisions, plans and failovers outlive the    *)
(* snapshot they were made from, so that each is tied to the table of its  *)
(* generation and not to the request's snapshot.                           *)

WalkSound(f) ==
  LET ids == [i \in DOMAIN f.path |-> f.path[i].id]
  IN /\ f.snapshot \in published
     /\ f.eligibility.generation = f.snapshot.generation
     /\ f.eligibility.eligible \subseteq Published(f.snapshot.generation)
     /\ f.path # <<>> /\ Len(f.path) <= f.max_routes
     /\ f.attempted = Range(ids) /\ f.attempted \subseteq f.eligibility.eligible
     /\ IsFiniteSet(f.attempted) /\ Cardinality(f.attempted) = Len(f.path)
     /\ \A i \in DOMAIN f.path : f.path[i].ordinal = i - 1
     /\ f.current = f.path[Len(f.path)].id

PlanSound(plan) ==
  plan # NoPlan =>
    /\ plan.primary \in Published(plan.generation)
    /\ plan.shadow # NoRoute =>
         plan.shadow \in Published(plan.generation) \ {plan.primary} /\ plan.sampled

RequestSound(q) ==
  /\ q.snapshot \in published
  /\ q.eligibility.eligible \subseteq Published(q.eligibility.generation)
  /\ PlanSound(q.plan)
  /\ q.failover # NoFailover => WalkSound(q.failover)

RequestRecords ==
  [snapshot : Tables, eligibility : Eligibilities, plan : Plans, failover : Failovers]

Inv == TypeOK /\ GenerationNamesTable /\ \A r \in Requests : RequestSound(request[r])

-----------------------------------------------------------------------------
(* What the selections of a table return.                                  *)

LEMMA SelectFacts ==
  ASSUME NEW table, IsRouteList(table.routes), NEW id \in Select(table), IsRoute(id)
  PROVE  id \in Ids(table.routes, Weighted(table.routes))
<1>1. Weighted(table.routes) \in SUBSET DOMAIN table.routes
  BY DEF Weighted
<1> QED BY <1>1, DrawsFacts DEF Select, IsRoute

LEMMA SelectShadowFacts ==
  ASSUME NEW table, IsRouteList(table.routes), NEW primary,
         NEW id \in SelectShadow(table, primary)
  PROVE  id = NoRoute \/ id \in Ids(table.routes, Weighted(table.routes)) \ {primary}
<1> DEFINE routes == table.routes
           kept == {i \in Weighted(routes) : routes[i].id # primary}
<1>1. kept \in SUBSET DOMAIN routes
  BY DEF Weighted
<1>2. Ids(routes, kept) \subseteq Ids(routes, Weighted(routes)) \ {primary}
  BY DEF Ids
<1>3. CASE Total(routes, kept) > U64Max
  BY <1>3 DEF SelectShadow
<1>4. CASE ~(Total(routes, kept) > U64Max)
  <2>1. PICK drawn \in Draws(routes, kept) :
          id = IF drawn \in SelectErrors THEN NoRoute ELSE drawn
    BY <1>4 DEF SelectShadow
  <2>2. drawn \notin SelectErrors \cup {NoRoute} => drawn \in Ids(routes, kept)
    BY <1>1, DrawsFacts
  <2> QED BY <1>2, <2>1, <2>2
<1> QED BY <1>3, <1>4

Kept(routes, ids) == {i \in DOMAIN routes : routes[i].id \in ids}

\* Ids name weighted routes only in a valid list, so that what a decision keeps is
\* weighted and its sum fits.
LEMMA KeptFacts ==
  ASSUME NEW routes, IsRouteList(routes), TableError(routes) = "none",
         NEW ids \in SUBSET Ids(routes, Weighted(routes))
  PROVE  /\ Kept(routes, ids) \in SUBSET Weighted(routes)
         /\ Total(routes, Kept(routes, ids)) <= U64Max
         /\ Total(routes, Kept(routes, ids)) = 0 => ids = {}
<1> DEFINE kept == Kept(routes, ids)
<1>1. Weighted(routes) \in SUBSET DOMAIN routes
  BY DEF Weighted
<1>2. ASSUME NEW i \in kept PROVE i \in Weighted(routes)
  <2>1. i \in DOMAIN routes /\ routes[i].id \in ids
    BY DEF Kept
  <2>2. PICK j \in Weighted(routes) : routes[j].id = routes[i].id
    BY <2>1 DEF Ids
  <2>3. i = j
    BY <1>1, <2>1, <2>2, ValidRoutes
  <2> QED BY <2>3
<1>3. kept \in SUBSET Weighted(routes) /\ kept \in SUBSET DOMAIN routes
  BY <1>1, <1>2
<1>4. Total(routes, kept) <= U64Max
  <2>1. Total(routes, kept) <= Total(routes, Weighted(routes))
    BY <1>1, <1>3, TotalFacts
  <2>2. Total(routes, Weighted(routes)) <= U64Max
    BY ValidRoutes
  <2>3. Total(routes, kept) \in Nat /\ Total(routes, Weighted(routes)) \in Nat
    BY <1>1, <1>3, TotalFacts
  <2> QED BY <2>1, <2>2, <2>3, RoutingAssumption
<1>5. ASSUME Total(routes, kept) = 0 PROVE ids = {}
  <2>1. SUFFICES ASSUME NEW id \in ids PROVE FALSE
    OBVIOUS
  <2>2. PICK i \in Weighted(routes) : routes[i].id = id
    BY <2>1 DEF Ids
  <2>3. i \in kept
    BY <1>1, <2>1, <2>2 DEF Kept
  <2>4. Total(routes, kept) = routes[i].weight + Total(routes, kept \ {i})
    BY <1>3, <2>3, TotalFacts
  <2>5. Total(routes, kept \ {i}) \in Nat
    <3>1. kept \ {i} \in SUBSET DOMAIN routes
      BY <1>3
    <3> QED BY <3>1, TotalFacts
  <2>6. routes[i].weight \in Nat /\ routes[i].weight > 0
    BY <1>1, <2>2, RouteFacts DEF Weighted
  <2> QED BY <1>5, <2>4, <2>5, <2>6
<1> QED BY <1>3, <1>4, <1>5

\* A route that a decision selects is eligible and not excluded, of the table that the
\* decision was made for; it never panics, and returns no route only when none is left.
LEMMA SelectWeightedFacts ==
  ASSUME NEW table, IsRouteList(table.routes), TableError(table.routes) = "none",
         NEW eligibility, NEW excluded, NEW id \in SelectWeighted(table, eligibility, excluded),
         table.generation = eligibility.generation =>
           eligibility.eligible \subseteq Ids(table.routes, Weighted(table.routes))
  PROVE  /\ id # Panic
         /\ IsRoute(id) => /\ table.generation = eligibility.generation
                           /\ id \in eligibility.eligible \ excluded
         /\ id = NoRoute => eligibility.eligible \subseteq excluded
<1> DEFINE routes == table.routes
           ids == eligibility.eligible \ excluded
           kept == Kept(routes, ids)
<1>1. SelectWeighted(table, eligibility, excluded) =
        IF table.generation # eligibility.generation THEN {"GenerationMismatch"}
        ELSE IF Total(routes, kept) > U64Max THEN {Panic}
        ELSE Draws(routes, kept)
  BY DEF SelectWeighted, Kept
<1>2. CASE table.generation # eligibility.generation
  BY <1>1, <1>2 DEF IsRoute, Panic, NoRoute, SelectErrors
<1>3. CASE table.generation = eligibility.generation
  <2>1. ids \in SUBSET Ids(routes, Weighted(routes))
    BY <1>3
  <2>2. kept \in SUBSET DOMAIN routes /\ Ids(routes, kept) \subseteq ids
    BY DEF Kept, Ids
  <2> HIDE DEF ids, kept
  <2>3. Total(routes, kept) <= U64Max /\ (Total(routes, kept) = 0 => ids = {})
    BY <2>1, KeptFacts DEF kept
  <2>4. Total(routes, kept) \in Nat
    BY <2>2, TotalFacts
  <2>5. ~(Total(routes, kept) > U64Max)
    BY <2>3, <2>4, RoutingAssumption
  <2>6. id \in Draws(routes, kept)
    BY <1>1, <1>3, <2>5
  <2>7. /\ id \notin SelectErrors \cup {NoRoute} => id \in Ids(routes, kept)
        /\ id = NoRoute => Total(routes, kept) = 0
        /\ id # Panic
    BY <2>2, <2>6, DrawsFacts
  <2> QED BY <1>3, <2>2, <2>3, <2>7 DEF IsRoute, ids
<1> QED BY <1>2, <1>3

-----------------------------------------------------------------------------
(* The invariant holds.                                                    *)

LEMMA PublishedTables ==
  ASSUME TypeOK, GenerationNamesTable, NEW t \in published
  PROVE  /\ IsRouteList(t.routes) /\ TableError(t.routes) = "none"
         /\ t.generation \in 0 .. U64Max
         /\ Published(t.generation) = Ids(t.routes, Weighted(t.routes))
<1>1. t \in Tables
  BY DEF TypeOK
<1>2. t.generation \in 0 .. U64Max /\ t.routes \in RouteLists \cup {InitialRoutes}
  BY <1>1 DEF Tables
<1>3. IsRouteList(t.routes)
  BY <1>2, RequestAssumption
<1>4. {u \in published : u.generation = t.generation} = {t}
  BY DEF GenerationNamesTable
<1>5. Published(t.generation) = Ids(t.routes, Weighted(t.routes))
  BY <1>4 DEF Published
<1> QED BY <1>2, <1>3, <1>5 DEF GenerationNamesTable

LEMMA SoundGrows ==
  ASSUME published \subseteq published', NEW q, RequestSound(q)
  PROVE  RequestSound(q)'
<1>1. \A g : Published(g) \subseteq Published(g)'
  BY DEF Published
<1>2. PlanSound(q.plan)'
  <2>1. PlanSound(q.plan)
    BY DEF RequestSound
  <2> QED BY <1>1, <2>1, Zenon DEF PlanSound
<1>3. q.failover # NoFailover => WalkSound(q.failover)'
  <2>1. q.failover # NoFailover => WalkSound(q.failover)
    BY DEF RequestSound
  <2> QED BY <1>1, <2>1, Zenon DEF WalkSound
<1>4. (q.snapshot \in published)' /\ (q.eligibility.eligible \subseteq Published(q.eligibility.generation))'
  BY <1>1, Zenon DEF RequestSound
<1> QED BY <1>2, <1>3, <1>4, Zenon DEF RequestSound

\* A step of one request that leaves the store alone.
LEMMA HoldKeeps ==
  ASSUME Inv, NEW r \in Requests, NEW q \in RequestRecords, RequestSound(q),
         request' = [request EXCEPT ![r] = q], UNCHANGED <<current, published>>
  PROVE  Inv'
<1>1. TypeOK'
  BY DEF Inv, TypeOK, RequestRecords
<1>2. GenerationNamesTable'
  BY DEF Inv, GenerationNamesTable
<1>3. ASSUME NEW s \in Requests PROVE RequestSound(request[s])'
  <2>1. request'[s] = IF s = r THEN q ELSE request[s]
    BY DEF Inv, TypeOK
  <2>2. RequestSound(request[s])
    BY DEF Inv
  <2>3. \A p : RequestSound(p) => RequestSound(p)'
    BY SoundGrows
  <2> QED BY <2>1, <2>2, <2>3
<1> QED BY <1>1, <1>2, <1>3 DEF Inv

LEMMA ReplaceKeeps ==
  ASSUME Inv, NEW routes \in RouteLists, Replace(routes)
  PROVE  Inv'
<1>1. current \in Tables /\ current.generation \in InitialGeneration .. U64Max
  BY RequestAssumption, RoutingAssumption DEF Inv, TypeOK, Tables
<1>2. current' \in Tables /\ current'.generation = current.generation + 1
  BY <1>1, RequestAssumption, RoutingAssumption DEF Replace, Table, Tables
<1>3. TypeOK'
  BY <1>1, <1>2, RequestAssumption DEF Replace, Inv, TypeOK
<1>4. GenerationNamesTable'
  <2>1. TableError(current'.routes) = "none"
    BY DEF Replace, Table
  <2>2. \A t \in published : t.generation \in Nat /\ t.generation <= current.generation
    BY DEF Inv, TypeOK, Tables, GenerationNamesTable
  <2>3. published' = published \cup {current'}
    BY DEF Replace
  <2>4. \A t \in published : t.generation <= current'.generation /\ t.generation # current'.generation
    BY <1>1, <1>2, <2>2, RequestAssumption
  <2>5. current'.generation <= current'.generation
    BY <1>1, <1>2, RequestAssumption
  <2>6. /\ \A t \in published : TableError(t.routes) = "none"
        /\ \A t, u \in published : t.generation = u.generation => t = u
    BY DEF Inv, GenerationNamesTable
  <2> QED BY <2>1, <2>3, <2>4, <2>5, <2>6 DEF GenerationNamesTable
<1>5. ASSUME NEW s \in Requests PROVE RequestSound(request[s])'
  <2>1. published \subseteq published' /\ request'[s] = request[s] /\ RequestSound(request[s])
    BY DEF Replace, Inv
  <2>2. \A p : RequestSound(p) => RequestSound(p)'
    BY <2>1, SoundGrows
  <2> QED BY <2>1, <2>2
<1> QED BY <1>3, <1>4, <1>5 DEF Inv

\* What a request comes to hold.
LEMMA HoldSnapshot ==
  ASSUME Inv, NEW r \in Requests, NEW v \in published, Hold(r, "snapshot", v)
  PROVE  Inv'
<1> DEFINE q == [request[r] EXCEPT !.snapshot = v]
<1>1. request[r] \in RequestRecords /\ RequestSound(request[r]) /\ v \in Tables
  BY DEF Inv, TypeOK, RequestRecords
<1>2. /\ q \in RequestRecords /\ q.snapshot = v /\ q.eligibility = request[r].eligibility
      /\ q.plan = request[r].plan /\ q.failover = request[r].failover
  BY <1>1 DEF RequestRecords
<1>3. request' = [request EXCEPT ![r] = q] /\ UNCHANGED <<current, published>>
  BY DEF Hold
<1> HIDE DEF q
<1>4. RequestSound(q)
  BY <1>1, <1>2 DEF RequestSound
<1> QED
  <2>1. PICK p : p = q
    OBVIOUS
  <2> QED BY <1>2, <1>3, <1>4, <2>1, HoldKeeps

LEMMA HoldEligibility ==
  ASSUME Inv, NEW r \in Requests, NEW v \in Eligibilities,
         v.eligible \subseteq Published(v.generation), Hold(r, "eligibility", v)
  PROVE  Inv'
<1> DEFINE q == [request[r] EXCEPT !.eligibility = v]
<1>1. request[r] \in RequestRecords /\ RequestSound(request[r])
  BY DEF Inv, TypeOK, RequestRecords
<1>2. /\ q \in RequestRecords /\ q.snapshot = request[r].snapshot /\ q.eligibility = v
      /\ q.plan = request[r].plan /\ q.failover = request[r].failover
  BY <1>1 DEF RequestRecords
<1>3. request' = [request EXCEPT ![r] = q] /\ UNCHANGED <<current, published>>
  BY DEF Hold
<1> HIDE DEF q
<1>4. RequestSound(q)
  BY <1>1, <1>2 DEF RequestSound
<1> QED
  <2>1. PICK p : p = q
    OBVIOUS
  <2> QED BY <1>2, <1>3, <1>4, <2>1, HoldKeeps

LEMMA HoldPlan ==
  ASSUME Inv, NEW r \in Requests, NEW v \in Plans, PlanSound(v), Hold(r, "plan", v)
  PROVE  Inv'
<1> DEFINE q == [request[r] EXCEPT !.plan = v]
<1>1. request[r] \in RequestRecords /\ RequestSound(request[r])
  BY DEF Inv, TypeOK, RequestRecords
<1>2. /\ q \in RequestRecords /\ q.snapshot = request[r].snapshot /\ q.plan = v
      /\ q.eligibility = request[r].eligibility /\ q.failover = request[r].failover
  BY <1>1 DEF RequestRecords
<1>3. request' = [request EXCEPT ![r] = q] /\ UNCHANGED <<current, published>>
  BY DEF Hold
<1> HIDE DEF q
<1>4. RequestSound(q)
  BY <1>1, <1>2 DEF RequestSound
<1> QED
  <2>1. PICK p : p = q
    OBVIOUS
  <2> QED BY <1>2, <1>3, <1>4, <2>1, HoldKeeps

LEMMA HoldFailover ==
  ASSUME Inv, NEW r \in Requests, NEW v \in Failovers, v # NoFailover => WalkSound(v),
         Hold(r, "failover", v)
  PROVE  Inv'
<1> DEFINE q == [request[r] EXCEPT !.failover = v]
<1>1. request[r] \in RequestRecords /\ RequestSound(request[r])
  BY DEF Inv, TypeOK, RequestRecords
<1>2. /\ q \in RequestRecords /\ q.snapshot = request[r].snapshot /\ q.failover = v
      /\ q.eligibility = request[r].eligibility /\ q.plan = request[r].plan
  BY <1>1 DEF RequestRecords
<1>3. request' = [request EXCEPT ![r] = q] /\ UNCHANGED <<current, published>>
  BY DEF Hold
<1> HIDE DEF q
<1>4. RequestSound(q)
  BY <1>1, <1>2 DEF RequestSound
<1> QED
  <2>1. PICK p : p = q
    OBVIOUS
  <2> QED BY <1>2, <1>3, <1>4, <2>1, HoldKeeps

\* What holds of the tables that a request refers to.
LEMMA HeldTable ==
  ASSUME Inv, NEW r \in Requests
  PROVE  LET table == request[r].snapshot
         IN /\ table \in published /\ table \in Tables
            /\ IsRouteList(table.routes) /\ TableError(table.routes) = "none"
            /\ table.generation \in 0 .. U64Max
            /\ Published(table.generation) = Ids(table.routes, Weighted(table.routes))
            /\ request[r].eligibility \in Eligibilities
            /\ request[r].eligibility.eligible \subseteq Published(request[r].eligibility.generation)
<1>1. request[r] \in RequestRecords /\ RequestSound(request[r])
  BY DEF Inv, TypeOK, RequestRecords
<1>2. request[r].snapshot \in published
  BY <1>1 DEF RequestSound
<1> QED BY <1>1, <1>2, PublishedTables DEF Inv, RequestSound, RequestRecords

LEMMA PublishedIds ==
  ASSUME Inv, NEW g, NEW id \in Published(g)
  PROVE  id \in RouteIds
<1>1. PICK t \in published : id \in Ids(t.routes, Weighted(t.routes))
  BY DEF Published
<1>2. IsRouteList(t.routes)
  BY PublishedTables DEF Inv
<1> QED BY <1>1, <1>2, RouteFacts DEF Ids, Weighted

LEMMA SamplesAreBoolean == Samples \subseteq BOOLEAN
<1>1. SUFFICES ASSUME NEW ppm \in PartsPerMillion, NEW answer \in Sample(ppm)
               PROVE  answer \in BOOLEAN
  BY DEF Samples
<1>2. CASE ppm = 0
  BY <1>2 DEF Sample
<1>3. CASE ppm # 0 /\ ppm = Million
  BY <1>3 DEF Sample
<1>4. CASE ppm # 0 /\ ppm # Million
  <2>1. answer \in {draw < ppm : draw \in 0 .. Million - 1} \cup {FALSE}
    BY <1>4 DEF Sample
  <2>2. CASE answer # FALSE
    <3>1. PICK draw \in 0 .. Million - 1 : answer = (draw < ppm)
      BY <2>1, <2>2, Zenon
    <3>2. (draw < ppm) \in BOOLEAN
      OBVIOUS
    <3> QED BY <3>1, <3>2, Zenon
  <2> QED BY <2>2
<1> QED BY <1>2, <1>3, <1>4

LEMMA BuildPlanKeeps ==
  ASSUME Inv, NEW r \in Requests, NEW primary \in Published(request[r].snapshot.generation),
         NEW sampled \in BOOLEAN, NEW shadow, BuildPlan(r, primary, sampled, shadow),
         \/ shadow = NoRoute
         \/ sampled /\ shadow \in Published(request[r].snapshot.generation) \ {primary}
  PROVE  Inv'
<1>1. PICK g : g = request[r].snapshot.generation
  OBVIOUS
<1>2. PICK v : v = [generation |-> g, primary |-> primary, sampled |-> sampled,
                    shadow |-> shadow]
  OBVIOUS
<1>3. g \in 0 .. U64Max
  BY <1>1, HeldTable
<1>4. primary \in RouteIds /\ shadow \in RouteIds \cup {NoRoute}
  BY <1>1, PublishedIds
<1>5. v \in Plans
  <2>1. g \in -1 .. U64Max
    BY <1>3, RoutingAssumption
  <2> QED BY <1>2, <1>4, <2>1, Zenon DEF Plans
<1>6. PlanSound(v)
  BY <1>1, <1>2 DEF PlanSound
<1>7. Hold(r, "plan", v)
  BY <1>1, <1>2 DEF BuildPlan
<1> QED BY <1>5, <1>6, <1>7, HoldPlan

LEMMA PlanKeeps ==
  ASSUME Inv, NEW r \in Requests, Plan(r)
  PROVE  Inv'
<1> DEFINE table == request[r].snapshot
<1>1. PICK primary \in {id \in Select(table) : IsRoute(id)}, sampled \in Samples :
        \E shadow \in IF sampled THEN SelectShadow(table, primary) ELSE {NoRoute} :
          BuildPlan(r, primary, sampled, shadow)
  BY DEF Plan
<1>2. PICK shadow \in IF sampled THEN SelectShadow(table, primary) ELSE {NoRoute} :
        BuildPlan(r, primary, sampled, shadow)
  BY <1>1
<1>3. IsRouteList(table.routes) /\
      Published(table.generation) = Ids(table.routes, Weighted(table.routes))
  BY HeldTable
<1>4. primary \in Published(table.generation)
  BY <1>1, <1>3, SelectFacts
<1>5. shadow = NoRoute \/ (sampled /\ shadow \in Published(table.generation) \ {primary})
  BY <1>2, <1>3, SelectShadowFacts
<1>6. sampled \in BOOLEAN
  BY <1>1, SamplesAreBoolean
<1> QED BY <1>2, <1>4, <1>5, <1>6, BuildPlanKeeps

LEMMA PlanEligibleKeeps ==
  ASSUME Inv, NEW r \in Requests, PlanEligible(r)
  PROVE  Inv'
<1> DEFINE table == request[r].snapshot
           eligibility == request[r].eligibility
<1>1. PICK primary \in {id \in SelectWeighted(table, eligibility, {}) : IsRoute(id)},
           sampled \in Samples :
        \E id \in IF sampled THEN SelectWeighted(table, eligibility, {primary}) ELSE {NoRoute} :
          BuildPlan(r, primary, sampled, IF IsRoute(id) THEN id ELSE NoRoute)
  BY DEF PlanEligible
<1>2. PICK id \in IF sampled THEN SelectWeighted(table, eligibility, {primary}) ELSE {NoRoute} :
        BuildPlan(r, primary, sampled, IF IsRoute(id) THEN id ELSE NoRoute)
  BY <1>1
<1>3. PICK shadow : shadow = IF IsRoute(id) THEN id ELSE NoRoute
  OBVIOUS
<1>4. /\ IsRouteList(table.routes) /\ TableError(table.routes) = "none"
      /\ Published(table.generation) = Ids(table.routes, Weighted(table.routes))
      /\ eligibility.eligible \subseteq Published(eligibility.generation)
  BY HeldTable
<1>5. ASSUME NEW excluded, NEW chosen \in SelectWeighted(table, eligibility, excluded),
             IsRoute(chosen)
      PROVE  chosen \in Published(table.generation) \ excluded
  <2> HIDE DEF table, eligibility
  <2>0. table.generation = eligibility.generation =>
          eligibility.eligible \subseteq Ids(table.routes, Weighted(table.routes))
    BY <1>4
  <2>1. /\ table.generation = eligibility.generation
        /\ chosen \in eligibility.eligible \ excluded
    BY <1>4, <1>5, <2>0, SelectWeightedFacts, Zenon
  <2> QED BY <1>4, <2>1
<1>6. primary \in Published(table.generation)
  BY <1>1, <1>5
<1>7. ~IsRoute(NoRoute)
  BY DEF IsRoute
<1>8. shadow = NoRoute \/ (sampled /\ shadow \in Published(table.generation) \ {primary})
  <2>1. CASE sampled /\ IsRoute(id)
    <3>1. id \in SelectWeighted(table, eligibility, {primary})
      BY <1>2, <2>1
    <3>2. id \in Published(table.generation) \ {primary}
      BY <1>5, <2>1, <3>1
    <3> QED BY <1>3, <2>1, <3>2
  <2>2. CASE ~sampled
    BY <1>2, <1>3, <1>7, <2>2
  <2>3. CASE ~IsRoute(id)
    BY <1>3, <2>3
  <2> QED BY <2>1, <2>2, <2>3
<1>9. sampled \in BOOLEAN
  BY <1>1, SamplesAreBoolean
<1> QED BY <1>2, <1>3, <1>6, <1>8, <1>9, BuildPlanKeeps

LEMMA FilterKeeps ==
  ASSUME Inv, NEW r \in Requests, Filter(r)
  PROVE  Inv'
<1> DEFINE table == request[r].snapshot
<1>1. PICK accepted : Hold(r, "eligibility", FromPredicate(table, accepted))
  BY DEF Filter
<1>2. PICK v : v = FromPredicate(table, accepted)
  OBVIOUS
<1>3. PICK g : g = table.generation
  OBVIOUS
<1>4. v.generation = g /\ v.eligible \subseteq Published(g)
  BY <1>2, <1>3, HeldTable DEF FromPredicate
<1>5. v \in Eligibilities
  <2>1. g \in -1 .. U64Max
    BY <1>3, HeldTable, RoutingAssumption
  <2>2. v.eligible \in SUBSET RouteIds
    BY <1>4, PublishedIds
  <2>3. v = [generation |-> g, eligible |-> v.eligible]
    BY <1>2, <1>3 DEF FromPredicate
  <2> QED BY <2>1, <2>2, <2>3 DEF Eligibilities
<1> QED BY <1>1, <1>2, <1>4, <1>5, HoldEligibility

\* A failover begins with one attempt, at an eligible route of its snapshot.
LEMMA FromPrimaryKeeps ==
  ASSUME Inv, NEW r \in Requests, NEW e \in Eligibilities,
         e.generation = request[r].snapshot.generation,
         e.eligible \subseteq Published(e.generation),
         NEW max_routes \in MaxRoutes, NEW primary \in e.eligible,
         FromPrimary(r, e, max_routes, primary)
  PROVE  Inv'
<1>1. PICK table : table = request[r].snapshot
  OBVIOUS
<1>2. PICK v : v = [snapshot |-> table, eligibility |-> e, max_routes |-> max_routes,
                    attempted |-> {primary}, current |-> primary, decision |-> "none",
                    path |-> <<[id |-> primary, ordinal |-> 0]>>]
  OBVIOUS
<1>3. table \in published /\ table \in Tables /\ primary \in RouteIds
  BY <1>1, HeldTable DEF Eligibilities
<1>4. v \in Failovers
  <2>1. v.path \in Seq([id : RouteIds, ordinal : Nat])
    BY <1>2, <1>3
  <2>2. v.decision \in Decisions
    BY <1>2 DEF Decisions
  <2> QED BY <1>2, <1>3, <2>1, <2>2 DEF Failovers
<1>5. WalkSound(v)
  <2>1. IsFiniteSet(v.attempted) /\ Cardinality(v.attempted) = 1
    BY <1>2, FS_Singleton
  <2>2. Len(v.path) = 1 /\ v.path[1] = [id |-> primary, ordinal |-> 0] /\ DOMAIN v.path = {1}
        /\ v.path # <<>>
    BY <1>2
  <2>3. v.max_routes \in Nat /\ v.max_routes >= 1
    BY <1>2, RequestAssumption
  <2>4. Range([i \in DOMAIN v.path |-> v.path[i].id]) = {primary}
    BY <2>2 DEF Range
  <2>5. \A i \in DOMAIN v.path : v.path[i].ordinal = i - 1
    BY <2>2
  <2>6. v.current = v.path[Len(v.path)].id
    BY <1>2, <2>2
  <2> QED BY <1>1, <1>2, <1>3, <2>1, <2>2, <2>3, <2>4, <2>5, <2>6 DEF WalkSound
<1>6. Hold(r, "failover", v)
  BY <1>1, <1>2 DEF FromPrimary
<1> QED BY <1>4, <1>5, <1>6, HoldFailover

LEMMA NewFailoverKeeps ==
  ASSUME Inv, NEW r \in Requests, NewFailover(r)
  PROVE  Inv'
<1> DEFINE table == request[r].snapshot
<1>1. PICK primary \in {id \in SelectWeighted(table, All(table), {}) : IsRoute(id)},
           max_routes \in MaxRoutes : FromPrimary(r, All(table), max_routes, primary)
  BY DEF NewFailover
<1>2. PICK e : e = All(table)
  OBVIOUS
<1>3. PICK g : g = table.generation
  OBVIOUS
<1>4. /\ IsRouteList(table.routes) /\ TableError(table.routes) = "none"
      /\ Published(table.generation) = Ids(table.routes, Weighted(table.routes))
      /\ g \in -1 .. U64Max
  BY <1>3, HeldTable, RoutingAssumption
<1>5. /\ e.generation = g /\ e = [generation |-> g, eligible |-> e.eligible]
      /\ e.eligible \subseteq Ids(table.routes, Weighted(table.routes))
  BY <1>2, <1>3 DEF All, FromPredicate
<1>6. e.eligible \subseteq Published(g) /\ e.eligible \subseteq RouteIds
  BY <1>3, <1>4, <1>5, PublishedIds
<1>7. e \in Eligibilities
  BY <1>4, <1>5, <1>6 DEF Eligibilities
<1>8. primary \in e.eligible
  BY <1>1, <1>2, <1>4, <1>5, SelectWeightedFacts
<1> QED BY <1>1, <1>2, <1>3, <1>5, <1>6, <1>7, <1>8, FromPrimaryKeeps

LEMMA FromPrimaryEligibilityKeeps ==
  ASSUME Inv, NEW r \in Requests, FromPrimaryEligibility(r)
  PROVE  Inv'
<1>1. PICK max_routes \in MaxRoutes :
        FromPrimary(r, request[r].eligibility, max_routes, request[r].plan.primary)
  BY DEF FromPrimaryEligibility
<1>2. PICK e : e = request[r].eligibility
  OBVIOUS
<1>3. PICK primary : primary = request[r].plan.primary
  OBVIOUS
<1>4. primary \in e.eligible /\ e.generation = request[r].snapshot.generation
  BY <1>2, <1>3 DEF FromPrimaryEligibility
<1>5. e \in Eligibilities /\ e.eligible \subseteq Published(e.generation)
  BY <1>2, HeldTable
<1> QED BY <1>1, <1>2, <1>3, <1>4, <1>5, FromPrimaryKeeps

LEMMA VerdictSound ==
  ASSUME NEW f \in Failovers, f # NoFailover, WalkSound(f), NEW verdict \in Decisions,
         NEW v, v = [f EXCEPT !.decision = verdict]
  PROVE  v \in Failovers /\ WalkSound(v)
<1>1. /\ v \in Failovers /\ v.snapshot = f.snapshot /\ v.eligibility = f.eligibility
      /\ v.max_routes = f.max_routes /\ v.attempted = f.attempted /\ v.current = f.current
      /\ v.path = f.path
  BY DEF Failovers
<1> QED BY <1>1, Zenon DEF WalkSound

\* One more attempt, at a route not tried yet and within the budget.
LEMMA AdvanceSound ==
  ASSUME NEW f \in Failovers, f # NoFailover, WalkSound(f), ~BudgetSpent(f),
         NEW id \in f.eligibility.eligible \ f.attempted, id # NoRoute, id \in RouteIds,
         NEW v, v = Advance(f, id)
  PROVE  v \in Failovers /\ WalkSound(v)
<1> DEFINE e == [id |-> id, ordinal |-> Cardinality(f.attempted)]
           n == Len(f.path)
<1>1. /\ f.path \in Seq([id : RouteIds, ordinal : Nat]) /\ f.max_routes \in Nat
      /\ f.attempted \in SUBSET RouteIds
  BY RequestAssumption DEF Failovers
<1>2. v = [f EXCEPT !.attempted = @ \cup {id}, !.current = id, !.decision = "Failover",
                    !.path = Append(@, e)]
  BY DEF Advance
<1>3. IsFiniteSet(f.attempted) /\ Cardinality(f.attempted) = n /\ n \in Nat /\ n < f.max_routes
  <2>1. IsFiniteSet(f.attempted) /\ Cardinality(f.attempted) = n
    BY DEF WalkSound
  <2>2. n \in Nat
    BY <1>1
  <2> QED BY <1>1, <2>1, <2>2 DEF BudgetSpent
<1>4. e \in [id : RouteIds, ordinal : Nat]
  BY <1>3
<1> HIDE DEF e
<1>5. "Failover" \in Decisions
  BY DEF Decisions
<1>6. /\ v \in Failovers /\ v.snapshot = f.snapshot /\ v.eligibility = f.eligibility
      /\ v.max_routes = f.max_routes /\ v.attempted = f.attempted \cup {id} /\ v.current = id
      /\ v.path = Append(f.path, e)
  <2>1. Append(f.path, e) \in Seq([id : RouteIds, ordinal : Nat])
    BY <1>1, <1>4
  <2>2. f.attempted \cup {id} \in SUBSET RouteIds
    BY <1>1
  <2> DEFINE path == Append(f.path, e)
  <2> HIDE DEF path
  <2>3. v = [f EXCEPT !.attempted = @ \cup {id}, !.current = id, !.decision = "Failover",
                      !.path = path]
    BY <1>2 DEF path
  <2>4. path \in Seq([id : RouteIds, ordinal : Nat])
    BY <2>1 DEF path
  <2>5. /\ v \in Failovers /\ v.snapshot = f.snapshot /\ v.eligibility = f.eligibility
        /\ v.max_routes = f.max_routes /\ v.attempted = f.attempted \cup {id} /\ v.current = id
        /\ v.path = path
    BY <1>5, <2>2, <2>3, <2>4 DEF Failovers
  <2> QED BY <2>5 DEF path
<1>7. /\ Len(v.path) = n + 1 /\ DOMAIN v.path = 1 .. n + 1 /\ DOMAIN f.path = 1 .. n
      /\ \A i \in 1 .. n : v.path[i] = f.path[i]
      /\ v.path[n + 1] = e /\ v.path # <<>>
  <2>1. PICK S : S = [id : RouteIds, ordinal : Nat]
    OBVIOUS
  <2>2. f.path \in Seq(S) /\ e \in S
    BY <1>1, <1>4, <2>1
  <2>3. PICK p \in Seq(S) : p = f.path
    BY <2>2
  <2>4. /\ Len(Append(p, e)) = Len(p) + 1 /\ DOMAIN Append(p, e) = 1 .. Len(p) + 1
        /\ DOMAIN p = 1 .. Len(p) /\ \A i \in 1 .. Len(p) : Append(p, e)[i] = p[i]
        /\ Append(p, e)[Len(p) + 1] = e
    BY <2>2
  <2>5. v.path # <<>>
    <3>1. Append(p, e) # <<>>
      BY <2>2
    <3> QED BY <1>6, <2>3, <3>1
  <2> QED BY <1>6, <2>3, <2>4, <2>5
<1>8. IsFiniteSet(v.attempted) /\ Cardinality(v.attempted) = n + 1
  <2>1. PICK A : A = f.attempted
    OBVIOUS
  <2>2. IsFiniteSet(A) /\ Cardinality(A) = n /\ id \notin A
    BY <1>3, <2>1
  <2>3. /\ IsFiniteSet(A \cup {id})
        /\ Cardinality(A \cup {id}) = IF id \in A THEN Cardinality(A) ELSE Cardinality(A) + 1
    BY <2>2, FS_AddElement
  <2> QED BY <1>6, <2>1, <2>2, <2>3
<1>9. v.attempted = Range([i \in DOMAIN v.path |-> v.path[i].id])
  <2>1. f.attempted = {f.path[i].id : i \in DOMAIN f.path}
    BY DEF WalkSound, Range
  <2>2. e.id = id
    BY DEF e
  <2>3. {v.path[i].id : i \in DOMAIN v.path} = {f.path[i].id : i \in DOMAIN f.path} \cup {id}
    BY <1>3, <1>7, <2>2
  <2>4. v.attempted = {v.path[i].id : i \in DOMAIN v.path}
    BY <1>6, <2>1, <2>3
  <2> QED BY <2>4 DEF Range
<1>10. \A i \in DOMAIN v.path : v.path[i].ordinal = i - 1
  <2>1. \A i \in 1 .. n : f.path[i].ordinal = i - 1
    BY <1>7 DEF WalkSound
  <2>2. e.ordinal = n
    BY <1>3 DEF e
  <2> QED BY <1>3, <1>7, <2>1, <2>2
<1>11. v.current = v.path[Len(v.path)].id
  BY <1>6, <1>7 DEF e
<1>12. Len(v.path) <= v.max_routes
  BY <1>1, <1>3, <1>6, <1>7
<1>13. /\ v.snapshot \in published /\ v.eligibility.generation = v.snapshot.generation
       /\ v.eligibility.eligible \subseteq Published(v.snapshot.generation)
       /\ v.attempted \subseteq v.eligibility.eligible
  BY <1>6 DEF WalkSound
<1>14. Cardinality(v.attempted) = Len(v.path) /\ v.path # <<>>
  BY <1>7, <1>8
<1> HIDE DEF n, e
<1> QED BY <1>6, <1>8, <1>9, <1>10, <1>11, <1>12, <1>13, <1>14, Zenon DEF WalkSound

\* A failover's decision names weighted routes of its snapshot, so that a selection
\* finds no route only when every eligible one was tried.
LEMMA RemainingFacts ==
  ASSUME Inv, NEW f \in Failovers, f # NoFailover, WalkSound(f), NEW id \in SelectRemaining(f)
  PROVE  /\ id # Panic
         /\ IsRoute(id) => id \in f.eligibility.eligible \ f.attempted /\ id \in RouteIds
         /\ id = NoRoute => f.eligibility.eligible \subseteq f.attempted
<1>1. f.snapshot \in published /\ f.eligibility.eligible \subseteq Published(f.snapshot.generation)
  BY DEF WalkSound
<1>2. /\ IsRouteList(f.snapshot.routes) /\ TableError(f.snapshot.routes) = "none"
      /\ Published(f.snapshot.generation) = Ids(f.snapshot.routes, Weighted(f.snapshot.routes))
  BY <1>1, PublishedTables DEF Inv
<1>3. id \in SelectWeighted(f.snapshot, f.eligibility, f.attempted)
  BY DEF SelectRemaining
<1>4. f.eligibility.eligible \subseteq Ids(f.snapshot.routes, Weighted(f.snapshot.routes))
  BY <1>1, <1>2
<1>5. /\ id # Panic
      /\ IsRoute(id) => id \in f.eligibility.eligible \ f.attempted
      /\ id = NoRoute => f.eligibility.eligible \subseteq f.attempted
  BY <1>2, <1>3, <1>4, SelectWeightedFacts
<1> QED BY <1>1, <1>5, PublishedIds

LEMMA ClassifyKeeps ==
  ASSUME Inv, NEW r \in Requests, Classify(r)
  PROVE  Inv'
<1>1. PICK f : f = request[r].failover
  OBVIOUS
<1>2. f \in Failovers /\ f # NoFailover /\ WalkSound(f)
  <2>1. request[r] \in RequestRecords /\ RequestSound(request[r]) /\ request[r].failover # NoFailover
    BY DEF Inv, TypeOK, RequestRecords, Classify
  <2> QED BY <1>1, <2>1 DEF RequestRecords, RequestSound
<1>3. ASSUME NEW verdict \in Decisions, Hold(r, "failover", [f EXCEPT !.decision = verdict])
      PROVE  Inv'
  <2>1. PICK v : v = [f EXCEPT !.decision = verdict]
    OBVIOUS
  <2>2. v \in Failovers /\ WalkSound(v)
    BY <1>2, <2>1, VerdictSound
  <2> QED BY <1>3, <2>1, <2>2, HoldFailover
<1>4. CASE \E verdict \in {"Complete", "RetryCurrent", "CallerTerminal"} :
             Hold(r, "failover", [f EXCEPT !.decision = verdict])
  <2>1. {"Complete", "RetryCurrent", "CallerTerminal"} \subseteq Decisions
    BY DEF Decisions
  <2> QED BY <1>3, <1>4, <2>1
<1>5. CASE Hold(r, "failover", [f EXCEPT !.decision = "RouteAttemptBudgetExhausted"])
  BY <1>3, <1>5 DEF Decisions
<1>6. CASE /\ ~BudgetSpent(f)
           /\ \E id \in SelectRemaining(f) \ (SelectErrors \cup {Panic}) :
                Hold(r, "failover", Advance(f, id))
  <2>1. PICK id \in SelectRemaining(f) : id \notin SelectErrors \cup {Panic}
                                         /\ Hold(r, "failover", Advance(f, id))
    BY <1>6
  <2>2. CASE id = NoRoute
    <3>1. Advance(f, id) = [f EXCEPT !.decision = "NoRemainingEligibleRoute"]
      BY <2>2 DEF Advance
    <3> QED BY <1>3, <2>1, <3>1 DEF Decisions
  <2>3. CASE id # NoRoute
    <3>1. IsRoute(id)
      BY <2>1, <2>3 DEF IsRoute
    <3>2. id \in f.eligibility.eligible \ f.attempted /\ id \in RouteIds
      BY <1>2, <3>1, RemainingFacts
    <3>3. PICK v : v = Advance(f, id)
      OBVIOUS
    <3>4. v \in Failovers /\ WalkSound(v)
      BY <1>2, <1>6, <2>3, <3>2, <3>3, AdvanceSound
    <3> QED BY <2>1, <3>3, <3>4, HoldFailover
  <2> QED BY <2>2, <2>3
<1> QED BY <1>1, <1>4, <1>5, <1>6 DEF Classify

LEMMA InitInv == Init => Inv
<1> SUFFICES ASSUME Init PROVE Inv
  OBVIOUS
<1>1. current \in Tables /\ current.routes = InitialRoutes
      /\ current.generation = InitialGeneration /\ InitialGeneration \in Nat
  BY RequestAssumption, RoutingAssumption DEF Init, Table, Tables
<1>2. published = {current}
  BY DEF Init
<1>3. NoEligibility \in Eligibilities /\ NoPlan \in Plans
  BY RoutingAssumption DEF NoEligibility, NoPlan, Eligibilities, Plans
<1>4. NoFailover \in Failovers
  BY DEF Failovers
<1>5. request = [r \in Requests |-> [snapshot |-> current, eligibility |-> NoEligibility,
                                     plan |-> NoPlan, failover |-> NoFailover]]
  BY DEF Init
<1>6. TypeOK
  BY <1>1, <1>2, <1>3, <1>4, <1>5 DEF TypeOK
<1>7. GenerationNamesTable
  BY <1>1, <1>2, RequestAssumption DEF GenerationNamesTable
<1>8. ASSUME NEW r \in Requests PROVE RequestSound(request[r])
  <2>1. request[r].snapshot \in published /\ request[r].failover = NoFailover
        /\ request[r].plan = NoPlan
    BY <1>2, <1>5
  <2>2. request[r].eligibility.eligible = {}
    BY <1>5 DEF NoEligibility
  <2> QED BY <2>1, <2>2 DEF RequestSound, PlanSound
<1> QED BY <1>6, <1>7, <1>8 DEF Inv

LEMMA NextInv == Inv /\ [Next]_vars => Inv'
<1> SUFFICES ASSUME Inv, [Next]_vars PROVE Inv'
  OBVIOUS
<1>1. CASE UNCHANGED vars
  <2>1. published \subseteq published' /\ UNCHANGED <<current, published, request>>
    BY <1>1 DEF vars
  <2>2. TypeOK' /\ GenerationNamesTable'
    BY <2>1 DEF Inv, TypeOK, GenerationNamesTable
  <2>3. \A q : RequestSound(q) => RequestSound(q)'
    BY <2>1, SoundGrows
  <2>4. \A r \in Requests : RequestSound(request[r])'
    BY <2>1, <2>3 DEF Inv
  <2> QED BY <2>2, <2>4 DEF Inv
<1>2. ASSUME NEW routes \in RouteLists, Replace(routes) PROVE Inv'
  BY <1>2, ReplaceKeeps
<1>3. ASSUME NEW r \in Requests,
             \/ Snapshot(r) \/ Filter(r) \/ Plan(r) \/ PlanEligible(r)
             \/ NewFailover(r) \/ FromPrimaryEligibility(r) \/ Classify(r)
      PROVE  Inv'
  <2>1. CASE Snapshot(r)
    <3>1. PICK v : v = current
      OBVIOUS
    <3>2. v \in published
      BY <3>1 DEF Inv, GenerationNamesTable
    <3> QED BY <2>1, <3>1, <3>2, HoldSnapshot DEF Snapshot
  <2> QED BY <1>3, <2>1, FilterKeeps, PlanKeeps, PlanEligibleKeeps, NewFailoverKeeps,
             FromPrimaryEligibilityKeeps, ClassifyKeeps
<1> QED BY <1>1, <1>2, <1>3 DEF Next

\* The inductive invariant: whatever is replaced meanwhile, a request's decision, plan and
\* failover are each of one published table, the one of their generation.
THEOREM InvHolds == Spec => []Inv
  BY InitInv, NextInv, PTL DEF Spec

\* Every store, decision, plan and failover has its type, and generations stay in u64.
THEOREM TypeCorrect == Spec => []TypeOK
<1>1. Inv => TypeOK
  BY DEF Inv
<1> QED BY <1>1, InvHolds, PTL

\* replace() never gives two tables one generation, nor publishes an invalid one.
THEOREM NamesTable == Spec => []GenerationNamesTable
<1>1. Inv => GenerationNamesTable
  BY DEF Inv
<1> QED BY <1>1, InvHolds, PTL

\* A plan and what is observed of it are of one table, however stale their decision.
THEOREM OneTable == Spec => []PlanFromOneTable
<1>1. Inv => PlanFromOneTable
  <2> SUFFICES ASSUME Inv, NEW r \in Requests, request[r].plan # NoPlan
               PROVE  LET plan == request[r].plan
                      IN /\ plan.primary \in Published(plan.generation)
                         /\ plan.shadow # NoRoute =>
                              /\ plan.shadow \in Published(plan.generation) \ {plan.primary}
                              /\ plan.sampled
                         /\ \A o \in Observation(r) : o.route_id \in Published(o.generation)
    BY DEF PlanFromOneTable
  <2>1. PlanSound(request[r].plan)
    BY DEF Inv, RequestSound
  <2>2. \A o \in Observation(r) : /\ request[r].plan.shadow # NoRoute
                                  /\ o.route_id = request[r].plan.shadow
                                  /\ o.generation = request[r].plan.generation
    BY DEF Observation
  <2>3. /\ request[r].plan.primary \in Published(request[r].plan.generation)
        /\ request[r].plan.shadow # NoRoute =>
             /\ request[r].plan.shadow \in
                  Published(request[r].plan.generation) \ {request[r].plan.primary}
             /\ request[r].plan.sampled
    BY <2>1 DEF PlanSound
  <2> QED BY <2>2, <2>3
<1> QED BY <1>1, InvHolds, PTL

\* A failover's attempts are distinct, within its decision and its budget, and numbered.
THEOREM PathWithin == Spec => []PathWithinDecision
<1>1. Inv => PathWithinDecision
  <2> SUFFICES ASSUME Inv, NEW r \in Requests, NEW f, f = request[r].failover, f # NoFailover
               PROVE  LET tried == {f.path[i].id : i \in DOMAIN f.path}
                      IN /\ Cardinality(tried) = Len(f.path) /\ Len(f.path) <= f.max_routes
                         /\ tried \subseteq
                              f.eligibility.eligible \cap Published(f.snapshot.generation)
                         /\ \A i \in DOMAIN f.path : f.path[i].ordinal = i - 1
                         /\ f.current = f.path[Len(f.path)].id
    BY DEF PathWithinDecision
  <2>1. WalkSound(f)
    BY DEF Inv, RequestSound
  <2>2. f.attempted = {f.path[i].id : i \in DOMAIN f.path}
    BY <2>1 DEF WalkSound, Range
  <2> QED BY <2>1, <2>2 DEF WalkSound
<1> QED BY <1>1, InvHolds, PTL

\* select_weighted_with() is exact and its `expect' never panics: a decision used with the
\* table of its generation keeps weighted routes only, whose sum fits in u64, and each of
\* them is chosen by as many draws as its weight.
THEOREM ExactSelection == Spec => []SelectionExact
<1>1. Inv => SelectionExact
  <2> SUFFICES ASSUME Inv, NEW r \in Requests,
                      request[r].eligibility.generation = request[r].snapshot.generation
               PROVE  LET routes == request[r].snapshot.routes
                          kept == {i \in DOMAIN routes :
                                     routes[i].id \in request[r].eligibility.eligible}
                      IN /\ Total(routes, kept) <= U64Max
                         /\ \A i \in kept : routes[i].enabled /\ routes[i].weight =
                              Cardinality({draw \in 0 .. Total(routes, kept) - 1 :
                                             Chosen(routes, kept, draw) = i})
    BY DEF SelectionExact
  <2> DEFINE routes == request[r].snapshot.routes
             ids == request[r].eligibility.eligible
             kept == Kept(routes, ids)
  <2>1. /\ IsRouteList(routes) /\ TableError(routes) = "none"
        /\ ids \in SUBSET Ids(routes, Weighted(routes))
    BY HeldTable
  <2>2. kept = {i \in DOMAIN routes : routes[i].id \in ids}
    BY DEF Kept
  <2> HIDE DEF routes, ids, kept
  <2>3. kept \in SUBSET Weighted(routes) /\ Total(routes, kept) <= U64Max
    BY <2>1, KeptFacts DEF kept
  <2>4. kept \in SUBSET DOMAIN routes /\ \A i \in kept : routes[i].enabled
    BY <2>2, <2>3 DEF Weighted
  <2>5. \A i \in kept : routes[i].weight =
          Cardinality({draw \in 0 .. Total(routes, kept) - 1 : Chosen(routes, kept, draw) = i})
    BY <2>1, <2>4, ShareIsWeight
  <2> QED BY <2>2, <2>3, <2>4, <2>5 DEF routes, ids
<1> QED BY <1>1, InvHolds, PTL

-----------------------------------------------------------------------------
(* Every failover implements the abstract walk.                            *)

Visits(f) == [i \in DOMAIN f.path |-> f.path[i].id]

LEMMA WalkInit == Init => \A r \in Requests : Walk(r)!Init
<1> SUFFICES ASSUME Init, NEW r \in Requests PROVE Walk(r)!Init
  OBVIOUS
<1>1. request[r].failover = NoFailover
  BY DEF Init
<1>2. NoFailover.path = <<>> /\ NoFailover.decision = "none"
  BY DEF NoFailover
<1> QED BY <1>1, <1>2 DEF Walk!Init

LEMMA WalkRests ==
  ASSUME NEW r \in Requests, request[r].failover' = request[r].failover
  PROVE  UNCHANGED Walk(r)!vars
BY DEF Walk!vars

LEMMA HoldsFailover ==
  ASSUME Inv, NEW r \in Requests, NEW v, Hold(r, "failover", v)
  PROVE  request'[r].failover = v /\ \A s \in Requests \ {r} : request'[s] = request[s]
<1>1. request \in [Requests -> RequestRecords]
  BY DEF Inv, TypeOK, RequestRecords
<1> QED BY <1>1 DEF Hold, RequestRecords

LEMMA HoldsOther ==
  ASSUME Inv, NEW r \in Requests, NEW v, NEW s \in Requests,
         Hold(r, "snapshot", v) \/ Hold(r, "eligibility", v) \/ Hold(r, "plan", v)
  PROVE  request'[s].failover = request[s].failover
<1>1. request \in [Requests -> RequestRecords]
  BY DEF Inv, TypeOK, RequestRecords
<1> QED BY <1>1 DEF Hold, RequestRecords

LEMMA WalkBegins ==
  ASSUME Inv, NEW r \in Requests, NEW e, NEW max_routes \in MaxRoutes,
         NEW primary \in e.eligible, FromPrimary(r, e, max_routes, primary)
  PROVE  Walk(r)!Begin /\ \A s \in Requests \ {r} : request'[s] = request[s]
<1>1. PICK table : table = request[r].snapshot
  OBVIOUS
<1>2. PICK v : v = [snapshot |-> table, eligibility |-> e, max_routes |-> max_routes,
                    attempted |-> {primary}, current |-> primary, decision |-> "none",
                    path |-> <<[id |-> primary, ordinal |-> 0]>>]
  OBVIOUS
<1>3. request'[r].failover = v /\ \A s \in Requests \ {r} : request'[s] = request[s]
  BY <1>1, <1>2, HoldsFailover DEF FromPrimary
<1>4. max_routes \in Nat \ {0}
  BY RequestAssumption
<1>5. Visits(v) = <<primary>>
  BY <1>2 DEF Visits
<1>6. v.eligibility = e /\ v.max_routes = max_routes /\ v.decision = "none"
  BY <1>2
<1> QED BY <1>3, <1>4, <1>5, <1>6 DEF Walk!Begin, Visits

\* A verdict of the caller, or a refusal: the attempts stay as they are.
LEMMA WalkStays ==
  ASSUME Inv, NEW r \in Requests, NEW f \in Failovers, f = request[r].failover, f # NoFailover,
         WalkSound(f), NEW verdict, Hold(r, "failover", [f EXCEPT !.decision = verdict]),
         \/ verdict \in {"Complete", "RetryCurrent", "CallerTerminal"}
         \/ verdict = "RouteAttemptBudgetExhausted" /\ BudgetSpent(f)
         \/ verdict = "NoRemainingEligibleRoute" /\ f.eligibility.eligible \subseteq f.attempted
  PROVE  Walk(r)!Stay /\ \A s \in Requests \ {r} : request'[s] = request[s]
<1>1. PICK v : v = [f EXCEPT !.decision = verdict]
  OBVIOUS
<1>2. request'[r].failover = v /\ \A s \in Requests \ {r} : request'[s] = request[s]
  BY <1>1, HoldsFailover
<1>3. /\ v.eligibility = f.eligibility /\ v.max_routes = f.max_routes /\ v.path = f.path
      /\ v.decision = verdict /\ f.max_routes \in Nat
      /\ f.path \in Seq([id : RouteIds, ordinal : Nat])
  BY <1>1, RequestAssumption DEF Failovers
<1>4. /\ f.path # <<>> /\ Len(f.path) <= f.max_routes /\ Cardinality(f.attempted) = Len(f.path)
      /\ f.attempted = Range(Visits(f))
  BY DEF WalkSound, Visits
<1>5. Len(Visits(f)) = Len(f.path) /\ Visits(f) # <<>> /\ Len(f.path) \in Nat
  <2>1. PICK S : S = [id : RouteIds, ordinal : Nat]
    OBVIOUS
  <2>2. PICK p \in Seq(S) : p = f.path
    BY <1>3, <2>1
  <2>3. Visits(f) \in Seq({p[i].id : i \in DOMAIN p}) /\ Len(Visits(f)) = Len(p)
    BY <2>2 DEF Visits
  <2>4. Len(p) \in Nat /\ Len(p) # 0
    BY <1>4, <2>2
  <2> QED BY <2>2, <2>3, <2>4
<1>6. verdict = "RouteAttemptBudgetExhausted" /\ BudgetSpent(f) => Len(Visits(f)) = f.max_routes
  BY <1>3, <1>4, <1>5 DEF BudgetSpent
<1>7. /\ UNCHANGED <<request[r].failover.eligibility.eligible, request[r].failover.max_routes>>
      /\ Visits(request[r].failover)' = Visits(request[r].failover)
      /\ request'[r].failover.decision = verdict
  BY <1>2, <1>3 DEF Visits
<1>8. Visits(request[r].failover) = Visits(f) /\ request[r].failover.max_routes = f.max_routes
      /\ request[r].failover.eligibility.eligible = f.eligibility.eligible
  OBVIOUS
<1>9. Visits(request[r].failover) # <<>>
  BY <1>5, <1>8
<1>10. \/ request'[r].failover.decision \in {"Complete", "RetryCurrent", "CallerTerminal"}
       \/ /\ request'[r].failover.decision = "RouteAttemptBudgetExhausted"
          /\ Len(Visits(request[r].failover)) = request[r].failover.max_routes
       \/ /\ request'[r].failover.decision = "NoRemainingEligibleRoute"
          /\ request[r].failover.eligibility.eligible \subseteq Range(Visits(request[r].failover))
  BY <1>4, <1>6, <1>7, <1>8
<1>11. Walk(r)!Stay
  BY <1>7, <1>9, <1>10, Zenon DEF Walk!Stay, Walk!Visited, Walk!Range, Range, Visits
<1> QED BY <1>2, <1>11

LEMMA WalkSteps ==
  ASSUME Inv, NEW r \in Requests, NEW f \in Failovers, f = request[r].failover, f # NoFailover,
         WalkSound(f), ~BudgetSpent(f), NEW id \in f.eligibility.eligible \ f.attempted,
         id # NoRoute, id \in RouteIds, Hold(r, "failover", Advance(f, id))
  PROVE  Walk(r)!Step /\ \A s \in Requests \ {r} : request'[s] = request[s]
<1> DEFINE e == [id |-> id, ordinal |-> Cardinality(f.attempted)]
           n == Len(f.path)
<1>1. PICK v : v = Advance(f, id)
  OBVIOUS
<1>2. request'[r].failover = v /\ \A s \in Requests \ {r} : request'[s] = request[s]
  BY <1>1, HoldsFailover
<1>3. /\ f.path \in Seq([id : RouteIds, ordinal : Nat]) /\ f.max_routes \in Nat
      /\ Cardinality(f.attempted) = n /\ f.attempted = Range(Visits(f)) /\ f.path # <<>>
  BY RequestAssumption DEF Failovers, WalkSound, Visits
<1>4. n \in Nat /\ n < f.max_routes
  <2>1. n \in Nat
    BY <1>3
  <2> QED BY <1>3, <2>1 DEF BudgetSpent
<1>5. e \in [id : RouteIds, ordinal : Nat] /\ e.id = id
  BY <1>3, <1>4
<1>6. v = [f EXCEPT !.attempted = @ \cup {id}, !.current = id, !.decision = "Failover",
                    !.path = Append(@, e)]
  BY <1>1 DEF Advance
<1> HIDE DEF e
<1>7. /\ v.eligibility = f.eligibility /\ v.max_routes = f.max_routes
      /\ v.decision = "Failover" /\ v.path = Append(f.path, e)
  BY <1>6 DEF Failovers
<1>8. /\ Visits(f) \in Seq(RouteIds) /\ Len(Visits(f)) = n /\ Visits(f) # <<>>
      /\ Visits(v) = Append(Visits(f), id)
  <2>1. PICK S : S = [id : RouteIds, ordinal : Nat]
    OBVIOUS
  <2>2. PICK p \in Seq(S) : p = f.path
    BY <1>3, <2>1
  <2>3. \A x \in S : x.id \in RouteIds
    BY <2>1
  <2>4. Visits(f) = [i \in 1 .. Len(p) |-> p[i].id] /\ \A i \in 1 .. Len(p) : p[i].id \in RouteIds
    BY <2>2, <2>3 DEF Visits
  <2>5. Visits(f) \in Seq(RouteIds) /\ Len(Visits(f)) = Len(p)
    BY <2>2, <2>4
  <2>6. e \in S
    BY <1>5, <2>1
  <2>7. /\ DOMAIN Append(p, e) = 1 .. Len(p) + 1
        /\ \A i \in 1 .. Len(p) + 1 : Append(p, e)[i] = IF i = Len(p) + 1 THEN e ELSE p[i]
    BY <2>2, <2>6
  <2>8. Visits(v) = [i \in 1 .. Len(p) + 1 |-> Append(p, e)[i].id]
    BY <1>7, <2>2, <2>7 DEF Visits
  <2>9. Append(Visits(f), id) =
          [i \in 1 .. Len(p) + 1 |-> IF i = Len(p) + 1 THEN id ELSE Visits(f)[i]]
    BY <2>2, <2>5
  <2>10. \A i \in 1 .. Len(p) + 1 :
           Append(p, e)[i].id = IF i = Len(p) + 1 THEN id ELSE Visits(f)[i]
    BY <1>5, <2>2, <2>4, <2>7
  <2>11. Visits(v) = Append(Visits(f), id)
    BY <2>8, <2>9, <2>10
  <2>12. Len(p) # 0
    BY <1>3, <2>2
  <2> QED BY <2>2, <2>5, <2>11, <2>12
<1>9. PICK w \in Seq(RouteIds) : w = Visits(f)
  BY <1>8
<1>10. /\ Visits(request[r].failover) = w /\ Visits(request'[r].failover) = Append(w, id)
       /\ w # <<>> /\ Len(w) < request[r].failover.max_routes /\ Range(w) = f.attempted
       /\ request'[r].failover.eligibility = request[r].failover.eligibility
       /\ request'[r].failover.max_routes = request[r].failover.max_routes
       /\ request'[r].failover.decision = "Failover"
       /\ id \in request[r].failover.eligibility.eligible
  BY <1>2, <1>3, <1>4, <1>7, <1>8, <1>9
<1>11. /\ Visits(request[r].failover) # <<>>
       /\ Len(Visits(request[r].failover)) < request[r].failover.max_routes
       /\ Visits(request'[r].failover) = Append(Visits(request[r].failover), id)
  BY <1>10
<1>12. /\ id \in request[r].failover.eligibility.eligible \ Range(Visits(request[r].failover))
       /\ request'[r].failover.decision = "Failover"
       /\ request'[r].failover.eligibility.eligible = request[r].failover.eligibility.eligible
       /\ request'[r].failover.max_routes = request[r].failover.max_routes
  BY <1>10
<1>13. Walk(r)!Step
  BY <1>11, <1>12, Zenon DEF Walk!Step, Walk!Visited, Walk!Range, Range, Visits
<1> QED BY <1>2, <1>13

LEMMA WalkNext ==
  ASSUME Inv, NEW r \in Requests,
         \/ Snapshot(r) \/ Filter(r) \/ Plan(r) \/ PlanEligible(r)
         \/ NewFailover(r) \/ FromPrimaryEligibility(r) \/ Classify(r),
         NEW s \in Requests
  PROVE  [Walk(s)!Next]_(Walk(s)!vars)
<1>1. CASE Snapshot(r) \/ Filter(r) \/ Plan(r) \/ PlanEligible(r)
  <2>1. \E v : Hold(r, "snapshot", v) \/ Hold(r, "eligibility", v) \/ Hold(r, "plan", v)
    BY <1>1 DEF Snapshot, Filter, Plan, PlanEligible, BuildPlan
  <2>2. PICK v : Hold(r, "snapshot", v) \/ Hold(r, "eligibility", v) \/ Hold(r, "plan", v)
    BY <2>1
  <2>3. request'[s].failover = request[s].failover
    BY <2>2, HoldsOther
  <2> QED BY <2>3, WalkRests
<1>2. ASSUME s = r => Walk(s)!Next, s # r => request'[s] = request[s]
      PROVE  [Walk(s)!Next]_(Walk(s)!vars)
  <2>1. CASE s = r
    BY <1>2, <2>1
  <2>2. CASE s # r
    BY <1>2, <2>2, WalkRests
  <2> QED BY <2>1, <2>2
<1>3. ASSUME Walk(r)!Next, \A o \in Requests \ {r} : request'[o] = request[o]
      PROVE  [Walk(s)!Next]_(Walk(s)!vars)
  BY <1>2, <1>3
<1>4. CASE NewFailover(r)
  <2> DEFINE table == request[r].snapshot
  <2>1. PICK primary \in {id \in SelectWeighted(table, All(table), {}) : IsRoute(id)},
             max_routes \in MaxRoutes : FromPrimary(r, All(table), max_routes, primary)
    BY <1>4 DEF NewFailover
  <2>2. PICK e : e = All(table)
    OBVIOUS
  <2>3. IsRouteList(table.routes) /\ TableError(table.routes) = "none"
    BY HeldTable
  <2>4. e.eligible \subseteq Ids(table.routes, Weighted(table.routes))
    BY <2>2 DEF All, FromPredicate
  <2>5. primary \in e.eligible
    BY <2>1, <2>2, <2>3, <2>4, SelectWeightedFacts
  <2>6. Walk(r)!Begin /\ \A o \in Requests \ {r} : request'[o] = request[o]
    BY <2>1, <2>2, <2>5, WalkBegins
  <2> QED BY <1>3, <2>6 DEF Walk!Next
<1>5. CASE FromPrimaryEligibility(r)
  <2>1. PICK max_routes \in MaxRoutes :
          FromPrimary(r, request[r].eligibility, max_routes, request[r].plan.primary)
    BY <1>5 DEF FromPrimaryEligibility
  <2>2. PICK e : e = request[r].eligibility
    OBVIOUS
  <2>3. PICK primary : primary = request[r].plan.primary
    OBVIOUS
  <2>4. primary \in e.eligible
    BY <1>5, <2>2, <2>3 DEF FromPrimaryEligibility
  <2>5. Walk(r)!Begin /\ \A o \in Requests \ {r} : request'[o] = request[o]
    BY <2>1, <2>2, <2>3, <2>4, WalkBegins
  <2> QED BY <1>3, <2>5 DEF Walk!Next
<1>6. CASE Classify(r)
  <2>1. PICK f : f = request[r].failover
    OBVIOUS
  <2>2. f \in Failovers /\ f # NoFailover /\ WalkSound(f)
    <3>1. request[r] \in RequestRecords /\ RequestSound(request[r]) /\ request[r].failover # NoFailover
      BY <1>6 DEF Inv, TypeOK, RequestRecords, Classify
    <3> QED BY <2>1, <3>1 DEF RequestRecords, RequestSound
  <2>3. CASE \E verdict \in {"Complete", "RetryCurrent", "CallerTerminal"} :
               Hold(r, "failover", [f EXCEPT !.decision = verdict])
    <3>1. PICK verdict \in {"Complete", "RetryCurrent", "CallerTerminal"} :
            Hold(r, "failover", [f EXCEPT !.decision = verdict])
      BY <2>3
    <3> QED BY <1>3, <2>1, <2>2, <3>1, WalkStays DEF Walk!Next
  <2>4. CASE BudgetSpent(f)
             /\ Hold(r, "failover", [f EXCEPT !.decision = "RouteAttemptBudgetExhausted"])
    BY <1>3, <2>1, <2>2, <2>4, WalkStays DEF Walk!Next
  <2>5. CASE /\ ~BudgetSpent(f)
             /\ \E id \in SelectRemaining(f) \ (SelectErrors \cup {Panic}) :
                  Hold(r, "failover", Advance(f, id))
    <3>1. PICK id \in SelectRemaining(f) : id \notin SelectErrors \cup {Panic}
                                           /\ Hold(r, "failover", Advance(f, id))
      BY <2>5
    <3>2. CASE id = NoRoute
      <4>1. f.eligibility.eligible \subseteq f.attempted
        BY <2>2, <3>2, RemainingFacts
      <4>2. Hold(r, "failover", [f EXCEPT !.decision = "NoRemainingEligibleRoute"])
        BY <3>1, <3>2 DEF Advance
      <4> QED BY <1>3, <2>1, <2>2, <4>1, <4>2, WalkStays DEF Walk!Next
    <3>3. CASE id # NoRoute
      <4>1. IsRoute(id)
        BY <3>1, <3>3 DEF IsRoute
      <4>2. id \in f.eligibility.eligible \ f.attempted /\ id \in RouteIds
        BY <2>2, <4>1, RemainingFacts
      <4> QED BY <1>3, <2>1, <2>2, <2>5, <3>1, <3>3, <4>2, WalkSteps DEF Walk!Next
    <3> QED BY <3>2, <3>3
  <2> QED BY <1>6, <2>1, <2>3, <2>4, <2>5 DEF Classify
<1> QED BY <1>1, <1>4, <1>5, <1>6

\* A failover, whatever is published and planned meanwhile, is a walk over distinct routes of
\* one decision, and refuses to go on only with its budget spent or every route tried.
THEOREM FailoverWalks == Spec => ImplementsWalk
<1>1. Inv /\ [Next]_vars => [\A r \in Requests : [Walk(r)!Next]_(Walk(r)!vars)]_vars
  <2> SUFFICES ASSUME Inv, Next, NEW s \in Requests PROVE [Walk(s)!Next]_(Walk(s)!vars)
    OBVIOUS
  <2>1. CASE \E routes \in RouteLists : Replace(routes)
    <3>1. request' = request
      BY <2>1 DEF Replace
    <3> QED BY <3>1, WalkRests
  <2>2. CASE \E r \in Requests :
               \/ Snapshot(r) \/ Filter(r) \/ Plan(r) \/ PlanEligible(r)
               \/ NewFailover(r) \/ FromPrimaryEligibility(r) \/ Classify(r)
    BY <2>2, WalkNext
  <2> QED BY <2>1, <2>2 DEF Next
<1> QED BY <1>1, WalkInit, InvHolds, PTL DEF Spec, ImplementsWalk


-----------------------------------------------------------------------------
(* The walk itself, of any state.                                           *)

VARIABLES anyAllowed, anyBudget, anyWalked, anyAnswer

AnyWalk ==
  INSTANCE FailoverWalk WITH
    Nowhere <- "none", allowed <- anyAllowed, budget <- anyBudget,
    walked <- anyWalked, answer <- anyAnswer

Distinct(walk) == \A i, j \in DOMAIN walk : walk[i] = walk[j] => i = j

\* A refusal keeps its cause until the next verdict.
WalkInv ==
  /\ anyWalked # <<>> =>
       /\ anyBudget \in Nat /\ anyWalked \in Seq(anyAllowed)
       /\ Len(anyWalked) <= anyBudget /\ Distinct(anyWalked)
  /\ anyAnswer = "RouteAttemptBudgetExhausted" => Len(anyWalked) >= anyBudget
  /\ anyAnswer = "NoRemainingEligibleRoute" => anyAllowed \subseteq Range(anyWalked)

LEMMA OneFurther ==
  ASSUME NEW S, NEW w \in Seq(S), Distinct(w), NEW x \in S \ Range(w)
  PROVE  /\ Append(w, x) \in Seq(S) /\ Len(Append(w, x)) = Len(w) + 1
         /\ Append(w, x) # <<>> /\ Distinct(Append(w, x))
<1>1. /\ Append(w, x) \in Seq(S) /\ Len(Append(w, x)) = Len(w) + 1
      /\ Len(w) \in Nat /\ DOMAIN w = 1 .. Len(w)
      /\ DOMAIN Append(w, x) = 1 .. Len(w) + 1
      /\ \A i \in 1 .. Len(w) : Append(w, x)[i] = w[i]
      /\ Append(w, x)[Len(w) + 1] = x
  OBVIOUS
<1>2. \A i \in 1 .. Len(w) : w[i] # x
  BY <1>1 DEF Range
<1>3. Distinct(Append(w, x))
  <2> SUFFICES ASSUME NEW i \in 1 .. Len(w) + 1, NEW j \in 1 .. Len(w) + 1,
                      Append(w, x)[i] = Append(w, x)[j]
               PROVE  i = j
    BY <1>1 DEF Distinct
  <2>1. \A k \in 1 .. Len(w) + 1 : k \in 1 .. Len(w) \/ k = Len(w) + 1
    BY <1>1
  <2> QED BY <1>1, <1>2, <2>1 DEF Distinct
<1>4. Append(w, x) # <<>>
  BY <1>1
<1> QED BY <1>1, <1>3, <1>4

LEMMA WalkInvStep == WalkInv /\ [AnyWalk!Next]_(AnyWalk!vars) => WalkInv'
<1> SUFFICES ASSUME WalkInv, [AnyWalk!Next]_(AnyWalk!vars) PROVE WalkInv'
  OBVIOUS
<1>1. CASE AnyWalk!Begin
  <2>1. PICK first \in anyAllowed' : anyWalked' = <<first>>
    BY <1>1 DEF AnyWalk!Begin
  <2>2. anyBudget' \in Nat \ {0} /\ anyAnswer' = "none"
    BY <1>1 DEF AnyWalk!Begin
  <2>3. <<first>> \in Seq(anyAllowed') /\ Len(<<first>>) = 1 /\ Distinct(<<first>>)
    BY DEF Distinct
  <2> QED BY <2>1, <2>2, <2>3 DEF WalkInv, Distinct
<1>2. CASE AnyWalk!Step
  <2>1. PICK next \in anyAllowed \ Range(anyWalked) : anyWalked' = Append(anyWalked, next)
    BY <1>2, Zenon DEF AnyWalk!Step, AnyWalk!Visited, AnyWalk!Range, Range
  <2>2. /\ anyWalked # <<>> /\ Len(anyWalked) < anyBudget /\ anyAnswer' = "Failover"
        /\ anyAllowed' = anyAllowed /\ anyBudget' = anyBudget
    BY <1>2 DEF AnyWalk!Step
  <2>3. /\ anyBudget \in Nat /\ anyWalked \in Seq(anyAllowed) /\ Distinct(anyWalked)
    BY <2>2 DEF WalkInv
  <2>4. PICK w, S : w = anyWalked /\ S = anyAllowed
    OBVIOUS
  <2>5. /\ Append(w, next) \in Seq(S) /\ Len(Append(w, next)) = Len(w) + 1
        /\ Distinct(Append(w, next)) /\ Len(w) \in Nat
    BY <2>1, <2>3, <2>4, OneFurther
  <2> QED BY <2>1, <2>2, <2>3, <2>4, <2>5 DEF WalkInv, Distinct
<1>3. CASE AnyWalk!Stay
  <2>1. /\ anyWalked' = anyWalked /\ anyAllowed' = anyAllowed /\ anyBudget' = anyBudget
        /\ anyWalked # <<>>
    BY <1>3 DEF AnyWalk!Stay
  <2>2. /\ anyAnswer' = "RouteAttemptBudgetExhausted" => Len(anyWalked) >= anyBudget
        /\ anyAnswer' = "NoRemainingEligibleRoute" => anyAllowed \subseteq Range(anyWalked)
    <3>1. anyAnswer' = "RouteAttemptBudgetExhausted" => Len(anyWalked) = anyBudget
      BY <1>3 DEF AnyWalk!Stay
    <3>2. anyAnswer' = "NoRemainingEligibleRoute" => anyAllowed \subseteq Range(anyWalked)
      BY <1>3, Zenon DEF AnyWalk!Stay, AnyWalk!Visited, AnyWalk!Range, Range
    <3>3. anyBudget \in Nat /\ Len(anyWalked) <= anyBudget
      BY <2>1 DEF WalkInv
    <3> QED BY <3>1, <3>2, <3>3
  <2> QED BY <2>1, <2>2 DEF WalkInv, Distinct, Range
<1>4. CASE UNCHANGED AnyWalk!vars
  BY <1>4 DEF WalkInv, Distinct, Range, AnyWalk!vars
<1> QED BY <1>1, <1>2, <1>3, <1>4 DEF AnyWalk!Next

LEMMA WalkInvHolds == AnyWalk!Spec => []WalkInv
<1>1. AnyWalk!Init => WalkInv
  BY DEF AnyWalk!Init, WalkInv
<1> QED BY <1>1, WalkInvStep, PTL DEF AnyWalk!Spec

\* Whoever fails over as the walk says tries allowed routes, each once, within the budget.
THEOREM WalkVisitsOnce == AnyWalk!Spec => []AnyWalk!VisitsOnce
<1>1. WalkInv => AnyWalk!VisitsOnce
  <2> SUFFICES ASSUME WalkInv, anyWalked # <<>> PROVE AnyWalk!VisitsOnce
    BY DEF AnyWalk!VisitsOnce
  <2>1. /\ Len(anyWalked) <= anyBudget /\ Distinct(anyWalked)
        /\ Range(anyWalked) \subseteq anyAllowed
    BY DEF WalkInv, Range
  <2>2. AnyWalk!Visited = Range(anyWalked)
    BY Zenon DEF AnyWalk!Visited, AnyWalk!Range, Range
  <2> QED BY <2>1, <2>2 DEF AnyWalk!VisitsOnce, Distinct
<1> QED BY <1>1, WalkInvHolds, PTL

\* A refusal is not taken back: its cause still holds when the next verdict comes.
THEOREM WalkRefusalStands == AnyWalk!Spec => AnyWalk!RefusalStands
<1> DEFINE A == anyAnswer \in {"RouteAttemptBudgetExhausted", "NoRemainingEligibleRoute"} =>
                  anyAnswer' # "Failover"
<1>1. ASSUME WalkInv, AnyWalk!Next PROVE A
  <2>1. CASE AnyWalk!Begin \/ AnyWalk!Stay
    BY <2>1 DEF AnyWalk!Begin, AnyWalk!Stay
  <2>2. CASE AnyWalk!Step
    <3>1. PICK next \in anyAllowed \ Range(anyWalked) : TRUE
      BY <2>2, Zenon DEF AnyWalk!Step, AnyWalk!Visited, AnyWalk!Range, Range
    <3>2. /\ Len(anyWalked) < anyBudget /\ anyBudget \in Nat /\ Len(anyWalked) \in Nat
      BY <1>1, <2>2 DEF AnyWalk!Step, WalkInv
    <3>3. anyAnswer # "RouteAttemptBudgetExhausted"
      BY <1>1, <3>2 DEF WalkInv
    <3>4. anyAnswer # "NoRemainingEligibleRoute"
      BY <1>1, <3>1 DEF WalkInv
    <3> QED BY <3>3, <3>4
  <2> QED BY <1>1, <2>1, <2>2 DEF AnyWalk!Next
<1>2. WalkInv /\ [AnyWalk!Next]_(AnyWalk!vars) => A \/ UNCHANGED AnyWalk!vars
  BY <1>1
<1> QED BY <1>2, WalkInvHolds, PTL DEF AnyWalk!Spec, AnyWalk!RefusalStands

-----------------------------------------------------------------------------
(* TwoStores.                                                               *)

RouteRecords == [id : RouteIds, weight : 0 .. U64Max, enabled : BOOLEAN]

ValidTables ==
  {t \in [generation : Nat, routes : Seq(RouteRecords)] : TableError(t.routes) = "none"}

\* x is a table that its store holds or held: of all those with its generation, this one.
OfItsStore(x) ==
  /\ x.store \in Stores /\ x.table \in ValidTables
  /\ x.table.generation <= tables[x.store].generation
  /\ x.table.generation = tables[x.store].generation => x.table = tables[x.store]

\* What the caller holds is tied to the stores as the generation test takes it to be; a
\* choice is one that the selection may make.
StoresInv ==
  /\ tables \in [Stores -> ValidTables]
  /\ OfItsStore(snapshot) /\ OfItsStore(origin)
  /\ /\ snapshot.store = origin.store
     /\ snapshot.table.generation = origin.table.generation
     => snapshot.table = origin.table
  /\ decision.generation = origin.table.generation
  /\ decision.eligible \subseteq Ids(origin.table.routes, Weighted(origin.table.routes))
  /\ choice \subseteq SelectWeighted(snapshot.table, decision, {})

LEMMA ValidTable ==
  ASSUME NEW generation \in Nat, NEW routes, IsRouteList(routes), TableError(routes) = "none"
  PROVE  /\ Table(generation, routes) \in ValidTables
         /\ Table(generation, routes).generation = generation
<1>1. routes \in Seq(RouteRecords)
  BY DEF IsRouteList, RouteRecords
<1> QED BY <1>1 DEF Table, ValidTables

LEMMA TableOf ==
  ASSUME NEW t \in ValidTables
  PROVE  IsRouteList(t.routes) /\ TableError(t.routes) = "none" /\ t.generation \in Nat
BY DEF ValidTables, RouteRecords, IsRouteList

LEMMA FirstTables ==
  ASSUME NEW s \in Stores
  PROVE  /\ Table(FirstGeneration[s], FirstRoutes[s]) \in ValidTables
         /\ FirstGeneration[s] \in Nat
<1>1. /\ FirstGeneration[s] \in Nat
      /\ IsRouteList(FirstRoutes[s]) /\ TableError(FirstRoutes[s]) = "none"
  BY StoresAssumption, RoutingAssumption
<1> QED BY <1>1, ValidTable

LEMMA StoresInitInv == StoresInit => StoresInv
<1> SUFFICES ASSUME StoresInit PROVE StoresInv
  OBVIOUS
<1>1. tables \in [Stores -> ValidTables]
  BY FirstTables DEF StoresInit
<1>2. PICK s \in Stores : snapshot = [store |-> s, table |-> tables[s]]
  BY DEF StoresInit
<1>3. origin = snapshot /\ choice = {} /\ decision = All(snapshot.table)
  BY DEF StoresInit
<1>4. snapshot.store = s /\ snapshot.table = tables[s]
  BY <1>2
<1>5. tables[s].generation \in Nat
  BY <1>1, TableOf
<1>6. OfItsStore(snapshot)
  BY <1>1, <1>4, <1>5 DEF OfItsStore
<1>7. /\ decision.generation = origin.table.generation
      /\ decision.eligible \subseteq Ids(origin.table.routes, Weighted(origin.table.routes))
  BY <1>3 DEF All, FromPredicate
<1> QED BY <1>1, <1>3, <1>6, <1>7 DEF StoresInv, OfItsStore

LEMMA StoresNextInv == StoresInv /\ [StoresNext]_storesVars => StoresInv'
<1> SUFFICES ASSUME StoresInv, [StoresNext]_storesVars PROVE StoresInv'
  OBVIOUS
<1>1. ASSUME NEW s \in Stores, ReplaceIn(s) PROVE StoresInv'
  <2>1. PICK routes \in NextRoutes[s] :
          /\ TableError(routes) = "none"
          /\ tables' = [tables EXCEPT ![s] = Table(tables[s].generation + 1, routes)]
    BY <1>1 DEF ReplaceIn
  <2>2. PICK t : t = Table(tables[s].generation + 1, routes)
    OBVIOUS
  <2>3. UNCHANGED <<snapshot, decision, origin, choice>>
    BY <1>1 DEF ReplaceIn
  <2>4. /\ tables \in [Stores -> ValidTables] /\ tables[s].generation \in Nat
    BY TableOf DEF StoresInv
  <2>5. t \in ValidTables /\ t.generation = tables[s].generation + 1
    <3>1. IsRouteList(routes) /\ tables[s].generation + 1 \in Nat
      BY <2>1, <2>4, StoresAssumption
    <3> QED BY <2>1, <2>2, <3>1, ValidTable
  <2>6. tables' \in [Stores -> ValidTables]
    BY <2>1, <2>2, <2>4, <2>5
  <2>7. ASSUME NEW x, OfItsStore(x) PROVE OfItsStore(x)'
    <3>1. x.table.generation \in Nat /\ x.store \in Stores
      BY <2>7, TableOf DEF OfItsStore
    <3>2. CASE x.store = s
      <4>1. tables'[x.store] = t
        BY <2>1, <2>2, <2>4, <3>2
      <4>2. x.table.generation < t.generation
        BY <2>4, <2>5, <2>7, <3>1, <3>2 DEF OfItsStore
      <4>3. t.generation \in Nat
        BY <2>4, <2>5
      <4> QED BY <2>7, <3>1, <4>1, <4>2, <4>3 DEF OfItsStore
    <3>3. CASE x.store # s
      <4>1. tables'[x.store] = tables[x.store]
        BY <2>1, <2>4, <3>1, <3>3
      <4> QED BY <2>7, <4>1 DEF OfItsStore
    <3> QED BY <3>2, <3>3
  <2>8. OfItsStore(snapshot)' /\ OfItsStore(origin)'
    <3>1. PICK x, y : x = snapshot /\ y = origin
      OBVIOUS
    <3>2. OfItsStore(x)' /\ OfItsStore(y)'
      BY <2>7, <3>1 DEF StoresInv
    <3> QED BY <2>3, <3>1, <3>2 DEF OfItsStore
  <2> QED BY <2>3, <2>6, <2>8 DEF StoresInv
<1>2. ASSUME NEW s \in Stores, SnapshotOf(s) PROVE StoresInv'
  <2>1. /\ snapshot' = [store |-> s, table |-> tables[s]] /\ choice' = {}
        /\ UNCHANGED <<tables, decision, origin>>
    BY <1>2 DEF SnapshotOf
  <2>2. snapshot'.store = s /\ snapshot'.table = tables[s]
    BY <2>1
  <2>3. tables[s] \in ValidTables /\ tables[s].generation \in Nat
    BY TableOf DEF StoresInv
  <2>4. OfItsStore(snapshot)' /\ OfItsStore(origin)'
    BY <2>1, <2>2, <2>3 DEF StoresInv, OfItsStore
  <2>5. /\ snapshot'.store = origin.store
        /\ snapshot'.table.generation = origin.table.generation
        => snapshot'.table = origin.table
    BY <2>2 DEF StoresInv, OfItsStore
  <2> QED BY <2>1, <2>4, <2>5 DEF StoresInv
<1>3. CASE Derive
  <2>1. PICK accepted : decision' = FromPredicate(snapshot.table, accepted)
    BY <1>3 DEF Derive
  <2>2. origin' = snapshot /\ choice' = {} /\ UNCHANGED <<tables, snapshot>>
    BY <1>3 DEF Derive
  <2>3. /\ decision'.generation = snapshot.table.generation
        /\ decision'.eligible \subseteq
             Ids(snapshot.table.routes, Weighted(snapshot.table.routes))
    BY <2>1 DEF FromPredicate
  <2> QED BY <2>2, <2>3 DEF StoresInv, OfItsStore
<1>4. CASE SelectWith
  <2>1. PICK id \in SelectWeighted(snapshot.table, decision, {}) : choice' = {id}
    BY <1>4 DEF SelectWith
  <2>2. UNCHANGED <<tables, snapshot, decision, origin>>
    BY <1>4 DEF SelectWith
  <2> QED BY <2>1, <2>2 DEF StoresInv, OfItsStore
<1>5. CASE UNCHANGED storesVars
  BY <1>5 DEF StoresInv, OfItsStore, storesVars
<1> QED BY <1>1, <1>2, <1>3, <1>4, <1>5 DEF StoresNext

LEMMA StoresInvHolds == StoresSpec => []StoresInv
BY StoresInitInv, StoresNextInv, PTL DEF StoresSpec

\* A selection returns a route of the table that has weight there, whatever decision it
\* is given.
LEMMA SelectedHasWeight ==
  ASSUME NEW table, IsRouteList(table.routes), NEW eligibility,
         NEW id \in SelectWeighted(table, eligibility, {}), IsRoute(id)
  PROVE  /\ table.generation = eligibility.generation
         /\ id \in eligibility.eligible
         /\ \E i \in DOMAIN table.routes :
              table.routes[i].id = id /\ table.routes[i].weight > 0
<1> DEFINE routes == table.routes
           kept == {i \in DOMAIN routes : routes[i].id \in eligibility.eligible \ {}}
<1>1. kept \in SUBSET DOMAIN routes /\ \A i \in kept : routes[i].id \in eligibility.eligible
  OBVIOUS
<1>2. id \notin SelectErrors \cup {NoRoute, Panic}
  BY DEF IsRoute
<1>3. table.generation = eligibility.generation /\ id \in Draws(routes, kept)
  BY <1>2 DEF SelectWeighted, SelectErrors
<1> HIDE DEF kept
<1>4. PICK draw \in 0 .. Total(routes, kept) - 1 : id = routes[Chosen(routes, kept, draw)].id
  BY <1>2, <1>3 DEF Draws, SelectErrors
<1>5. PICK i \in kept : i = Chosen(routes, kept, draw)
  BY <1>1, ChosenShare
<1>6. Total(routes, Before(kept, i)) <= draw /\ draw < Total(routes, UpTo(kept, i))
  BY <1>1, <1>5, ChosenShare
<1>7. i \in DOMAIN routes /\ i \in Int
  BY <1>1, RouteFacts
<1>8. /\ Total(routes, UpTo(kept, i)) = routes[i].weight + Total(routes, Before(kept, i))
      /\ Total(routes, UpTo(kept, i)) \in Nat /\ Total(routes, Before(kept, i)) \in Nat
      /\ routes[i].weight \in Nat
  BY <1>1, <1>7, RunningFacts
<1>9. Total(routes, kept) \in Nat
  BY <1>1, TotalFacts
<1>10. routes[i].weight > 0
  BY <1>6, <1>8, <1>9
<1> QED BY <1>1, <1>3, <1>4, <1>5, <1>7, <1>10

\* Between a decision and the tables of the store it was derived from, comparing the
\* generations is comparing the tables, and select_with answers without a panic.
THEOREM OwnDecisions == StoresSpec => []OwnDecisionsExact
<1>1. ASSUME StoresInv PROVE OwnDecisionsExact
  <2> SUFFICES ASSUME origin.store = snapshot.store, NEW id \in choice
               PROVE  IF origin.table # snapshot.table THEN id = "GenerationMismatch"
                      ELSE \/ IsRoute(id) /\ id \in decision.eligible
                           \/ id = "DrawOutOfRange"
                           \/ id = NoRoute /\ decision.eligible = {}
    BY DEF OwnDecisionsExact
  <2>1. id \in SelectWeighted(snapshot.table, decision, {})
    BY <1>1 DEF StoresInv
  <2>2. CASE origin.table # snapshot.table
    <3>1. snapshot.table.generation # decision.generation
      BY <1>1, <2>2 DEF StoresInv
    <3> QED BY <2>1, <2>2, <3>1 DEF SelectWeighted
  <2>3. CASE origin.table = snapshot.table
    <3>1. IsRouteList(snapshot.table.routes) /\ TableError(snapshot.table.routes) = "none"
      BY <1>1, TableOf DEF StoresInv, OfItsStore
    <3>2. /\ snapshot.table.generation = decision.generation
          /\ decision.eligible \subseteq
               Ids(snapshot.table.routes, Weighted(snapshot.table.routes))
      BY <1>1, <2>3 DEF StoresInv
    <3>3. /\ id # Panic /\ (IsRoute(id) => id \in decision.eligible)
          /\ id = NoRoute => decision.eligible \subseteq {}
      BY <2>1, <3>1, <3>2, SelectWeightedFacts
    <3>4. id # "GenerationMismatch"
      <4>1. PICK kept : id \in {Panic} \cup Draws(snapshot.table.routes, kept)
                        /\ kept \subseteq DOMAIN snapshot.table.routes
        BY <2>1, <3>2, Zenon DEF SelectWeighted
      <4>2. id \in Draws(snapshot.table.routes, kept)
        BY <3>3, <4>1
      <4>3. CASE id \in {NoRoute, "DrawOutOfRange"}
        BY <4>3 DEF NoRoute
      <4>4. CASE id \notin {NoRoute, "DrawOutOfRange"}
        <5>1. PICK draw \in 0 .. Total(snapshot.table.routes, kept) - 1 :
                id = snapshot.table.routes[Chosen(snapshot.table.routes, kept, draw)].id
          BY <4>2, <4>4 DEF Draws
        <5>2. Chosen(snapshot.table.routes, kept, draw) \in DOMAIN snapshot.table.routes
          BY <3>1, <4>1, ChosenShare
        <5>3. id \in RouteIds
          BY <3>1, <5>1, <5>2, RouteFacts
        <5> QED BY <5>3 DEF RouteIds, IsRoute, SelectErrors
      <4> QED BY <4>3, <4>4
    <3>5. IsRoute(id) \/ id \in {"DrawOutOfRange", NoRoute}
      BY <3>3, <3>4 DEF IsRoute, SelectErrors
    <3> QED BY <2>3, <3>3, <3>5
  <2> QED BY <2>2, <2>3
<1> QED BY <1>1, StoresInvHolds, PTL

\* What a decision of another store can still not do: select what its own predicate
\* and table had ruled out, or what has no weight where it is used.
THEOREM ForeignDecisions == StoresSpec => []ForeignChoiceLimited
<1>1. ASSUME StoresInv PROVE ForeignChoiceLimited
  <2> SUFFICES ASSUME NEW id \in choice, IsRoute(id)
               PROVE  /\ origin.table.generation = snapshot.table.generation
                      /\ id \in decision.eligible
                      /\ id \in Ids(origin.table.routes, Weighted(origin.table.routes))
                      /\ \E i \in DOMAIN snapshot.table.routes :
                           /\ snapshot.table.routes[i].id = id
                           /\ snapshot.table.routes[i].weight > 0
    BY DEF ForeignChoiceLimited
  <2>1. id \in SelectWeighted(snapshot.table, decision, {})
    BY <1>1 DEF StoresInv
  <2>2. IsRouteList(snapshot.table.routes)
    BY <1>1, TableOf DEF StoresInv, OfItsStore
  <2>3. /\ snapshot.table.generation = decision.generation /\ id \in decision.eligible
        /\ \E i \in DOMAIN snapshot.table.routes :
             snapshot.table.routes[i].id = id /\ snapshot.table.routes[i].weight > 0
    BY <2>1, <2>2, SelectedHasWeight
  <2> QED BY <1>1, <2>3 DEF StoresInv
<1> QED BY <1>1, StoresInvHolds, PTL
=============================================================================
