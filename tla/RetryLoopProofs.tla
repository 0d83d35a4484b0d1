--------------------------- MODULE RetryLoopProofs ---------------------------
(***************************************************************************)
(* Proofs about Backoff and RetryLoop for any policies, durations and      *)
(* widths.  The first part does the induction that saturating_pow calls    *)
(* for, over sets of numbers, with the library's well-founded order.       *)
(***************************************************************************)
EXTENDS RetryLoop, TLAPS, WellFoundedInduction

LEMMA LeastNumber ==
  ASSUME NEW S \in SUBSET Nat, S # {}
  PROVE  \E m \in S : \A n \in S : m <= n
<1>1. PICK m \in S : \A n \in S : ~(<<n, m>> \in OpToRel(<, Nat))
  BY WFMin, NatLessThanWellFounded
<1>2. \A n \in Nat : n < m => <<n, m>> \in OpToRel(<, Nat)
  BY <1>1, Zenon DEF OpToRel
<1>3. \A n \in S : ~(n < m)
  BY <1>1, <1>2
<1> QED BY <1>3

\* Induction over the numbers, for a set in place of a predicate.
LEMMA Induction ==
  ASSUME NEW S \in SUBSET Nat, 0 \in S, \A n \in S : n + 1 \in S
  PROVE  S = Nat
<1> DEFINE T == Nat \ S
<1> SUFFICES ASSUME T # {} PROVE FALSE
  OBVIOUS
<1>1. PICK m \in T : \A n \in T : m <= n
  BY LeastNumber
<1>2. m # 0 /\ m - 1 \in Nat
  BY <1>1
<1>3. m - 1 \in S
  BY <1>1, <1>2
<1>4. (m - 1) + 1 = m
  BY <1>1
<1> QED BY <1>1, <1>3, <1>4

-----------------------------------------------------------------------------
(* Recursive functions over 0 .. n, which start at 1 and apply F.          *)

Iterates(F, n, f) ==
  /\ f \in [0 .. n -> Nat]
  /\ f[0] = 1
  /\ \A k \in 1 .. n : f[k] = F[f[k - 1]]

LEMMA IteratesExist ==
  ASSUME NEW F \in [Nat -> Nat]
  PROVE  \A n \in Nat : \E f : Iterates(F, n, f)
<1> DEFINE S == {n \in Nat : \E f : Iterates(F, n, f)}
<1>1. 0 \in S
  <2> DEFINE f == [k \in 0 .. 0 |-> 1]
  <2>1. Iterates(F, 0, f)
    BY DEF Iterates
  <2> QED BY <2>1
<1>2. ASSUME NEW n \in Nat, NEW f, Iterates(F, n, f)
      PROVE  \E g : Iterates(F, n + 1, g)
  <2>1. /\ f \in [0 .. n -> Nat] /\ f[0] = 1
        /\ \A k \in 1 .. n : f[k] = F[f[k - 1]]
    BY <1>2 DEF Iterates
  <2> DEFINE next(k) == IF k = 0 THEN 1 ELSE F[f[k - 1]]
             g == [k \in 0 .. n + 1 |-> next(k)]
  <2>2. \A k \in 0 .. n + 1 : k # 0 => k - 1 \in 0 .. n /\ f[k - 1] \in Nat
    BY <2>1
  <2>3. ASSUME NEW k \in 0 .. n + 1 PROVE next(k) \in Nat
    <3>1. CASE k = 0
      BY <3>1
    <3>2. CASE k # 0
      <4>1. next(k) = F[f[k - 1]] /\ f[k - 1] \in Nat
        BY <2>2, <3>2
      <4> QED BY <4>1
    <3> QED BY <3>1, <3>2
  <2>4. next(0) = 1 /\ \A k \in 1 .. n + 1 : next(k) = F[f[k - 1]]
    OBVIOUS
  <2>5. \A k \in 0 .. n : k \in 0 .. n + 1 /\ next(k) = f[k]
    BY <2>1
  <2> HIDE DEF next
  <2>6. \A k \in 0 .. n + 1 : g[k] = next(k)
    OBVIOUS
  <2>7. g \in [0 .. n + 1 -> Nat]
    BY <2>3
  <2> HIDE DEF g
  <2>8. g[0] = 1
    BY <2>4, <2>6
  <2>9. ASSUME NEW k \in 1 .. n + 1 PROVE g[k] = F[g[k - 1]]
    <3>1. k - 1 \in 0 .. n /\ k \in 0 .. n + 1
      OBVIOUS
    <3>2. g[k] = next(k) /\ g[k - 1] = f[k - 1]
      BY <2>5, <2>6, <3>1
    <3> QED BY <2>4, <3>2
  <2> QED BY <2>7, <2>8, <2>9 DEF Iterates
<1>3. \A n \in S : n + 1 \in S
  BY <1>2
<1> HIDE DEF S
<1>4. S = Nat
  <2>1. S \in SUBSET Nat
    BY DEF S
  <2> QED BY <1>1, <1>3, <2>1, Induction
<1> QED BY <1>4 DEF S

\* Whatever satisfies the same equations has the same values.
LEMMA IteratesAgree ==
  ASSUME NEW F \in [Nat -> Nat], NEW n \in Nat, NEW f, Iterates(F, n, f),
         NEW g, g[0] = 1, \A k \in 1 .. n : g[k - 1] \in Nat => g[k] = F[g[k - 1]]
  PROVE  \A k \in 0 .. n : g[k] = f[k]
<1> DEFINE S == {k \in Nat : k <= n => g[k] = f[k]}
<1>1. 0 \in S
  BY DEF Iterates
<1>2. ASSUME NEW k \in S PROVE k + 1 \in S
  <2> SUFFICES ASSUME k + 1 <= n PROVE g[k + 1] = f[k + 1]
    OBVIOUS
  <2>1. k + 1 \in 1 .. n /\ (k + 1) - 1 = k /\ k \in 0 .. n
    OBVIOUS
  <2>2. g[k] = f[k] /\ f[k] \in Nat
    BY <2>1 DEF Iterates
  <2>3. g[k + 1] = F[g[k]] /\ f[k + 1] = F[f[k]]
    BY <2>1, <2>2 DEF Iterates
  <2> QED BY <2>2, <2>3
<1> HIDE DEF S
<1>3. S = Nat
  <2>1. S \in SUBSET Nat
    BY DEF S
  <2> QED BY <1>1, <1>2, <2>1, Induction
<1> QED BY <1>3 DEF S

\* A longer iteration goes on where a shorter one ends.
LEMMA IteratesExtend ==
  ASSUME NEW F \in [Nat -> Nat], NEW n \in Nat, NEW f, Iterates(F, n, f),
         NEW g, Iterates(F, n + 1, g)
  PROVE  g[n + 1] = F[f[n]]
<1>1. \A k \in 1 .. n : g[k] = F[g[k - 1]]
  BY DEF Iterates
<1>2. g[n] = f[n]
  <2>1. \A k \in 0 .. n : g[k] = f[k]
    <3>1. g[0] = 1 /\ \A k \in 1 .. n : g[k - 1] \in Nat => g[k] = F[g[k - 1]]
      BY <1>1 DEF Iterates
    <3> QED BY <3>1, IteratesAgree
  <2> QED BY <2>1
<1>3. n + 1 \in 1 .. n + 1 /\ (n + 1) - 1 = n
  OBVIOUS
<1> QED BY <1>2, <1>3 DEF Iterates

-----------------------------------------------------------------------------
(* u32::saturating_pow and the power it stands for.                        *)

\* One factor more, with and without saturation.
Saturated(factor) == [x \in Nat |-> Least(x * factor, U32Max)]
Multiplied(factor) == [x \in Nat |-> factor * x]

LEMMA SaturatedType ==
  ASSUME NEW factor \in Nat
  PROVE  Saturated(factor) \in [Nat -> Nat]
BY WidthAssumption DEF Saturated, Least

LEMMA MultipliedType ==
  ASSUME NEW factor \in Nat
  PROVE  Multiplied(factor) \in [Nat -> Nat]
BY DEF Multiplied

\* SaturatingPow's recursive function exists, and is the iteration.
LEMMA SaturatingPowIterates ==
  ASSUME NEW factor \in Nat, NEW n \in Nat, NEW f, Iterates(Saturated(factor), n, f)
  PROVE  SaturatingPow(factor, n) = f[n]
<1> DEFINE F == Saturated(factor)
           Def(g) == [k \in 0 .. n |-> IF k = 0 THEN 1 ELSE Least(g[k - 1] * factor, U32Max)]
           chosen == CHOOSE g : g = Def(g)
<1>1. F \in [Nat -> Nat] /\ \A x \in Nat : F[x] = Least(x * factor, U32Max)
  BY SaturatedType DEF Saturated
<1>2. f = Def(f)
  <2>1. f \in [0 .. n -> Nat] /\ f[0] = 1 /\ \A k \in 1 .. n : f[k] = F[f[k - 1]]
    BY DEF Iterates
  <2>2. ASSUME NEW k \in 0 .. n
        PROVE  f[k] = IF k = 0 THEN 1 ELSE Least(f[k - 1] * factor, U32Max)
    <3>1. CASE k = 0
      BY <2>1, <3>1
    <3>2. CASE k # 0
      <4>1. k \in 1 .. n /\ k - 1 \in 0 .. n
        BY <3>2
      <4>2. f[k - 1] \in Nat
        BY <2>1, <4>1
      <4> QED BY <1>1, <2>1, <3>2, <4>1, <4>2
    <3> QED BY <3>1, <3>2
  <2> QED BY <2>1, <2>2
<1>3. chosen = Def(chosen)
  BY <1>2
<1>4. PICK pow : pow = Def(pow) /\ SaturatingPow(factor, n) = pow[n]
  BY <1>3 DEF SaturatingPow
<1>5. /\ pow[0] = 1
      /\ \A k \in 1 .. n : pow[k] = Least(pow[k - 1] * factor, U32Max)
  <2>1. \A k \in 0 .. n : pow[k] = IF k = 0 THEN 1 ELSE Least(pow[k - 1] * factor, U32Max)
    BY <1>4, Zenon
  <2>2. 0 \in 0 .. n /\ \A k \in 1 .. n : k \in 0 .. n /\ k # 0
    OBVIOUS
  <2> QED BY <2>1, <2>2, Zenon
<1>6. \A k \in 1 .. n : pow[k - 1] \in Nat => pow[k] = F[pow[k - 1]]
  BY <1>1, <1>5
<1>7. \A k \in 0 .. n : pow[k] = f[k]
  <2>1. Iterates(F, n, f)
    OBVIOUS
  <2>2. F \in [Nat -> Nat] /\ pow[0] = 1
    BY <1>1, <1>5
  <2> HIDE DEF F
  <2> QED BY <1>6, <2>1, <2>2, IteratesAgree
<1> QED BY <1>4, <1>7

LEMMA PowerIterates ==
  ASSUME NEW factor \in Nat, NEW n \in Nat, NEW f, Iterates(Multiplied(factor), n, f)
  PROVE  Power(factor, n) = f[n]
<1> DEFINE F == Multiplied(factor)
           Def(g) == [k \in 0 .. n |-> IF k = 0 THEN 1 ELSE factor * g[k - 1]]
           chosen == CHOOSE g : g = Def(g)
<1>1. F \in [Nat -> Nat] /\ \A x \in Nat : F[x] = factor * x
  BY MultipliedType DEF Multiplied
<1>2. f = Def(f)
  <2>1. f \in [0 .. n -> Nat] /\ f[0] = 1 /\ \A k \in 1 .. n : f[k] = F[f[k - 1]]
    BY DEF Iterates
  <2>2. ASSUME NEW k \in 0 .. n
        PROVE  f[k] = IF k = 0 THEN 1 ELSE factor * f[k - 1]
    <3>1. CASE k = 0
      BY <2>1, <3>1
    <3>2. CASE k # 0
      <4>1. k \in 1 .. n /\ k - 1 \in 0 .. n
        BY <3>2
      <4>2. f[k - 1] \in Nat
        BY <2>1, <4>1
      <4> QED BY <1>1, <2>1, <3>2, <4>1, <4>2
    <3> QED BY <3>1, <3>2
  <2> QED BY <2>1, <2>2
<1>3. chosen = Def(chosen)
  BY <1>2
<1>4. PICK pow : pow = Def(pow) /\ Power(factor, n) = pow[n]
  BY <1>3 DEF Power
<1>5. /\ pow[0] = 1
      /\ \A k \in 1 .. n : pow[k] = factor * pow[k - 1]
  <2>1. \A k \in 0 .. n : pow[k] = IF k = 0 THEN 1 ELSE factor * pow[k - 1]
    BY <1>4, Zenon
  <2>2. 0 \in 0 .. n /\ \A k \in 1 .. n : k \in 0 .. n /\ k # 0
    OBVIOUS
  <2> QED BY <2>1, <2>2, Zenon
<1>6. \A k \in 1 .. n : pow[k - 1] \in Nat => pow[k] = F[pow[k - 1]]
  BY <1>1, <1>5
<1>7. \A k \in 0 .. n : pow[k] = f[k]
  <2>1. Iterates(F, n, f)
    OBVIOUS
  <2>2. F \in [Nat -> Nat] /\ pow[0] = 1
    BY <1>1, <1>5
  <2> HIDE DEF F
  <2> QED BY <1>6, <2>1, <2>2, IteratesAgree
<1> QED BY <1>4, <1>7

LEMMA SaturatingPowRecursion ==
  ASSUME NEW factor \in Nat
  PROVE  /\ SaturatingPow(factor, 0) = 1
         /\ \A n \in Nat :
              /\ SaturatingPow(factor, n) \in Nat
              /\ SaturatingPow(factor, n + 1) = Least(SaturatingPow(factor, n) * factor, U32Max)
<1> DEFINE F == Saturated(factor)
<1>1. F \in [Nat -> Nat] /\ \A x \in Nat : F[x] = Least(x * factor, U32Max)
  BY SaturatedType DEF Saturated
<1>2. \A n \in Nat : \E f : Iterates(F, n, f)
  BY <1>1, IteratesExist
<1>3. ASSUME NEW n \in Nat, NEW f, Iterates(F, n, f)
      PROVE  SaturatingPow(factor, n) = f[n] /\ f[n] \in Nat /\ f[0] = 1
  <2>1. SaturatingPow(factor, n) = f[n]
    BY <1>3, SaturatingPowIterates
  <2> QED BY <1>3, <2>1 DEF Iterates
<1> HIDE DEF F
<1>4. SaturatingPow(factor, 0) = 1
  BY <1>2, <1>3
<1>5. ASSUME NEW n \in Nat
      PROVE  /\ SaturatingPow(factor, n) \in Nat
             /\ SaturatingPow(factor, n + 1) = Least(SaturatingPow(factor, n) * factor, U32Max)
  <2>1. PICK f : Iterates(F, n, f)
    BY <1>2
  <2>2. n + 1 \in Nat
    OBVIOUS
  <2>3. PICK g : Iterates(F, n + 1, g)
    BY <1>2, <2>2
  <2>4. g[n + 1] = F[f[n]]
    BY <1>1, <2>1, <2>3, IteratesExtend
  <2>5. SaturatingPow(factor, n) = f[n] /\ f[n] \in Nat
    BY <1>3, <2>1
  <2>6. SaturatingPow(factor, n + 1) = g[n + 1]
    BY <1>3, <2>2, <2>3
  <2> QED BY <1>1, <2>4, <2>5, <2>6
<1> QED BY <1>4, <1>5

LEMMA PowerRecursion ==
  ASSUME NEW factor \in Nat
  PROVE  /\ Power(factor, 0) = 1
         /\ \A n \in Nat :
              /\ Power(factor, n) \in Nat
              /\ Power(factor, n + 1) = factor * Power(factor, n)
<1> DEFINE F == Multiplied(factor)
<1>1. F \in [Nat -> Nat] /\ \A x \in Nat : F[x] = factor * x
  BY MultipliedType DEF Multiplied
<1>2. \A n \in Nat : \E f : Iterates(F, n, f)
  BY <1>1, IteratesExist
<1>3. ASSUME NEW n \in Nat, NEW f, Iterates(F, n, f)
      PROVE  Power(factor, n) = f[n] /\ f[n] \in Nat /\ f[0] = 1
  <2>1. Power(factor, n) = f[n]
    BY <1>3, PowerIterates
  <2> QED BY <1>3, <2>1 DEF Iterates
<1> HIDE DEF F
<1>4. Power(factor, 0) = 1
  BY <1>2, <1>3
<1>5. ASSUME NEW n \in Nat
      PROVE  /\ Power(factor, n) \in Nat
             /\ Power(factor, n + 1) = factor * Power(factor, n)
  <2>1. PICK f : Iterates(F, n, f)
    BY <1>2
  <2>2. n + 1 \in Nat
    OBVIOUS
  <2>3. PICK g : Iterates(F, n + 1, g)
    BY <1>2, <2>2
  <2>4. g[n + 1] = F[f[n]]
    BY <1>1, <2>1, <2>3, IteratesExtend
  <2>5. Power(factor, n) = f[n] /\ f[n] \in Nat
    BY <1>3, <2>1
  <2>6. Power(factor, n + 1) = g[n + 1]
    BY <1>3, <2>2, <2>3
  <2> QED BY <1>1, <2>4, <2>5, <2>6
<1> QED BY <1>4, <1>5

\* A product that saturated before is at least as great when one more factor is taken.
LEMMA SaturateOnce ==
  ASSUME NEW p \in Nat, NEW factor \in Nat, p >= 1, factor >= 1
  PROVE  /\ factor * p >= 1 /\ factor * p >= p
         /\ Least(Least(p, U32Max) * factor, U32Max) = Least(factor * p, U32Max)
<1>1. U32Max \in Nat
  BY WidthAssumption
<1>2. factor * p >= p /\ factor * p = p * factor /\ factor * p \in Nat
  OBVIOUS
<1>3. U32Max * factor >= U32Max /\ U32Max * factor \in Nat
  BY <1>1
<1>4. CASE p < U32Max
  BY <1>1, <1>2, <1>4 DEF Least
<1>5. CASE ~(p < U32Max)
  BY <1>1, <1>2, <1>3, <1>5 DEF Least
<1> QED BY <1>2, <1>4, <1>5

\* saturating_pow is the power held at u32::MAX: it never wraps, and never shrinks.
THEOREM SaturatingPowIsPower ==
  ASSUME NEW factor \in Nat, factor >= 1
  PROVE  \A n \in Nat : /\ Power(factor, n) \in Nat
                        /\ Power(factor, n) >= 1
                        /\ SaturatingPow(factor, n) = Least(Power(factor, n), U32Max)
<1> DEFINE S == {n \in Nat : /\ Power(factor, n) >= 1
                            /\ SaturatingPow(factor, n) = Least(Power(factor, n), U32Max)}
<1>1. \A n \in Nat : Power(factor, n) \in Nat
  BY PowerRecursion
<1>2. 0 \in S
  <2>1. SaturatingPow(factor, 0) = 1 /\ Power(factor, 0) = 1
    BY PowerRecursion, SaturatingPowRecursion
  <2> QED BY <2>1, WidthAssumption DEF Least
<1>3. ASSUME NEW n \in S PROVE n + 1 \in S
  <2> DEFINE p == Power(factor, n)
  <2>1. /\ p \in Nat /\ p >= 1
        /\ SaturatingPow(factor, n) = Least(p, U32Max)
    BY <1>1
  <2>2. /\ Power(factor, n + 1) = factor * p
        /\ SaturatingPow(factor, n + 1) = Least(SaturatingPow(factor, n) * factor, U32Max)
    BY PowerRecursion, SaturatingPowRecursion
  <2> HIDE DEF p
  <2>3. /\ factor * p >= 1
        /\ Least(Least(p, U32Max) * factor, U32Max) = Least(factor * p, U32Max)
    BY <2>1, SaturateOnce
  <2> QED BY <2>1, <2>2, <2>3
<1> HIDE DEF S
<1>4. S = Nat
  <2>1. S \in SUBSET Nat
    BY DEF S
  <2> QED BY <1>2, <1>3, <2>1, Induction
<1> QED BY <1>1, <1>4 DEF S

-----------------------------------------------------------------------------
(* The loop.                                                               *)

\* RetriesAllowed is inductive once an attempt is known to be left to a sleeper.
Inv ==
  /\ now \in Nat /\ started = 0 /\ policy \in Policies /\ attempt \in Nat /\ attempt >= 1
  /\ RetriesAllowed
  /\ pc = "sleeping" => until \in Nat /\ attempt < policy.max_attempts

LEMMA PolicyTypes ==
  ASSUME NEW p \in Policies
  PROVE  /\ p.max_attempts \in Nat /\ p.max_attempts >= 1
         /\ p.factor \in Nat /\ p.factor >= 1
         /\ p.max_elapsed \in 0 .. DurationMax \cup {Unlimited}
         /\ p.initial \in Nat /\ p.maximum \in Nat
         /\ p.initial <= p.maximum /\ p.maximum <= DurationMax
         /\ U32Max \in Nat /\ DurationMax \in Nat
<1>1. ValidPolicy(p)
  BY PolicyAssumption
<1>2. U32Max \in Nat /\ DurationMax \in Nat
  BY WidthAssumption
<1>3. p.max_attempts \in 1 .. U32Max /\ p.factor \in 1 .. U32Max
  BY <1>1 DEF ValidPolicy
<1>4. p.initial \in 1 .. p.maximum /\ p.maximum \in 1 .. DurationMax
  BY <1>1 DEF ValidPolicy
<1>5. p.max_elapsed \in 0 .. DurationMax \cup {Unlimited}
  BY <1>1 DEF ValidPolicy
<1>6. p.maximum \in Nat /\ p.maximum <= DurationMax
  BY <1>2, <1>4
<1> QED BY <1>2, <1>3, <1>4, <1>5, <1>6

\* Whatever saturates on the way, delay_after's cap is a point of the documented curve.
LEMMA CapOnCurve ==
  ASSUME policy \in Policies, NEW n \in Nat, n >= 1
  PROVE  /\ Cap(policy.initial, policy.maximum, policy.factor, n) = IdealCap(n)
         /\ IdealCap(n) \in Nat
<1> DEFINE power == Power(policy.factor, n - 1)
           multiplier == Least(power, U32Max)
           product == policy.initial * multiplier
<1>1. /\ policy.factor \in Nat /\ policy.factor >= 1
      /\ policy.initial \in Nat /\ policy.maximum \in Nat /\ policy.maximum <= DurationMax
      /\ U32Max \in Nat /\ DurationMax \in Nat
  BY PolicyTypes
<1>2. n - 1 \in Nat /\ Minus(n, 1) = n - 1
  BY DEF Minus
<1>3. power \in Nat /\ SaturatingPow(policy.factor, n - 1) = multiplier
  BY <1>1, <1>2, SaturatingPowIsPower
<1>4. Cap(policy.initial, policy.maximum, policy.factor, n) =
        Least(Least(product, DurationMax), policy.maximum)
  BY <1>2, <1>3 DEF Cap
<1>5. IdealCap(n) = Least(policy.maximum, product)
  BY DEF IdealCap
<1> HIDE DEF power
<1>6. multiplier \in Nat
  BY <1>1, <1>3 DEF Least
<1> HIDE DEF multiplier
<1>7. product \in Nat
  BY <1>1, <1>6
<1> HIDE DEF product
<1> QED BY <1>1, <1>4, <1>5, <1>7 DEF Least

\* A greater multiplier makes no smaller product.
LEMMA ProductGrows ==
  ASSUME NEW i \in Nat, NEW a \in Nat, NEW b \in Nat, a <= b
  PROVE  i * a \in Nat /\ i * b \in Nat /\ i * a <= i * b
<1>1. PICK d \in Nat : b = a + d
  <2>1. b - a \in Nat /\ b = a + (b - a)
    OBVIOUS
  <2> QED BY <2>1
<1>2. i * b = i * a + i * d
  BY <1>1
<1>3. i * a \in Nat /\ i * d \in Nat
  OBVIOUS
<1> QED BY <1>2, <1>3

\* delay_after's cap starts at the initial delay, never falls from one attempt to the
\* next and never passes the maximum: no saturation makes a later retry come sooner.
THEOREM BackoffNeverShrinks ==
  ASSUME policy \in Policies, NEW n \in Nat, n >= 1
  PROVE  LET cap(k) == Cap(policy.initial, policy.maximum, policy.factor, k)
         IN /\ policy.initial <= cap(n) /\ cap(n) <= policy.maximum
            /\ cap(n) <= cap(n + 1)
<1> DEFINE m == Least(Power(policy.factor, n - 1), U32Max)
           l == Least(Power(policy.factor, n), U32Max)
<1>1. /\ policy.factor \in Nat /\ policy.factor >= 1 /\ policy.initial \in Nat
      /\ policy.maximum \in Nat /\ policy.initial <= policy.maximum
      /\ U32Max \in Nat /\ U32Max >= 1
  BY PolicyTypes, WidthAssumption
<1>2. n - 1 \in Nat /\ (n - 1) + 1 = n /\ n + 1 \in Nat /\ n + 1 >= 1 /\ (n + 1) - 1 = n
  OBVIOUS
<1>3. /\ Cap(policy.initial, policy.maximum, policy.factor, n) = IdealCap(n)
      /\ Cap(policy.initial, policy.maximum, policy.factor, n + 1) = IdealCap(n + 1)
  BY <1>2, CapOnCurve
<1>4. /\ Power(policy.factor, n - 1) \in Nat /\ Power(policy.factor, n - 1) >= 1
      /\ Power(policy.factor, n) = policy.factor * Power(policy.factor, n - 1)
  BY <1>1, <1>2, SaturatingPowIsPower, PowerRecursion
<1>5. m \in Nat /\ l \in Nat /\ 1 <= m /\ m <= l
  <2>1. PICK p \in Nat : p = Power(policy.factor, n - 1)
    BY <1>4
  <2>2. policy.factor * p >= p /\ policy.factor * p \in Nat
    <3>1. PICK f \in Nat : f = policy.factor
      BY <1>1
    <3>2. f >= 1 /\ p >= 1
      BY <1>1, <1>4, <2>1, <3>1
    <3>3. f * p >= p /\ f * p \in Nat
      BY <3>2, SaturateOnce
    <3> QED BY <3>1, <3>3
  <2>3. PICK q \in Nat : q = Power(policy.factor, n)
    BY <1>4, <2>1, <2>2
  <2>4. q >= p /\ p >= 1
    BY <1>4, <2>1, <2>2, <2>3
  <2> QED BY <1>1, <2>1, <2>3, <2>4 DEF Least
<1>6. /\ IdealCap(n) = Least(policy.maximum, policy.initial * m)
      /\ IdealCap(n + 1) = Least(policy.maximum, policy.initial * l)
  BY <1>2, Zenon DEF IdealCap
<1> HIDE DEF m, l
<1>7. /\ policy.initial * m \in Nat /\ policy.initial * l \in Nat
      /\ policy.initial <= policy.initial * m /\ policy.initial * m <= policy.initial * l
  <2>1. policy.initial * 1 = policy.initial
    BY <1>1
  <2> QED BY <1>1, <1>5, <2>1, ProductGrows
<1>8. PICK a, b : a = policy.initial * m /\ b = policy.initial * l
  OBVIOUS
<1> QED BY <1>1, <1>3, <1>6, <1>7, <1>8 DEF Least

\* What next_delay decides: a delay on the curve that is still allowed, or a cause.
LEMMA NextDelayMeaning ==
  ASSUME Inv, NEW retryable \in BOOLEAN,
         NEW delay \in NextDelay(policy, attempt, now - started, retryable)
  PROVE  /\ delay # None =>
              /\ retryable /\ attempt < policy.max_attempts /\ delay \in Nat
              /\ delay \in Delays(IdealCap(attempt), policy.jitter)
              /\ Limiting(policy.max_elapsed) =>
                   (now - started) + delay <= policy.max_elapsed
         /\ delay = None =>
              \/ ~retryable
              \/ attempt = policy.max_attempts
              \/ Limiting(policy.max_elapsed)
                   /\ now - started + IdealCap(attempt) > policy.max_elapsed
<1> DEFINE cap == IdealCap(attempt)
           elapsed == now - started
<1>1. /\ policy.max_attempts \in Nat /\ policy.max_elapsed \in 0 .. DurationMax \cup {Unlimited}
      /\ attempt \in Nat /\ attempt <= policy.max_attempts
      /\ elapsed \in Nat
  BY PolicyTypes DEF Inv, RetriesAllowed
<1>2. cap \in Nat /\ Cap(policy.initial, policy.maximum, policy.factor, attempt) = cap
  BY CapOnCurve DEF Inv
<1> HIDE DEF cap, elapsed
<1>3. CASE ~retryable \/ attempt >= policy.max_attempts
  <2>1. delay = None
    BY <1>3 DEF NextDelay, elapsed
  <2> QED BY <1>1, <1>3, <2>1
<1>4. CASE retryable /\ ~(attempt >= policy.max_attempts)
  <2>1. PICK d \in Delays(cap, policy.jitter) :
          delay = IF policy.max_elapsed # Unlimited /\ Plus(elapsed, d) > policy.max_elapsed
                  THEN None ELSE d
    BY <1>2, <1>4 DEF NextDelay, elapsed
  <2>2. d \in Nat /\ d <= cap
    BY <1>2, <2>1 DEF Delays
  <2>3. CASE policy.max_elapsed # Unlimited /\ Plus(elapsed, d) > policy.max_elapsed
    <3>1. delay = None
      BY <2>1, <2>3
    <3>2. policy.max_elapsed \in Nat
      BY <1>1, <2>3
    <3>3. Limiting(policy.max_elapsed) /\ elapsed + cap > policy.max_elapsed
      BY <1>1, <1>2, <2>2, <2>3, <3>2, WidthAssumption DEF Limiting, Plus, Least
    <3> QED BY <2>3, <3>1, <3>3 DEF cap, elapsed
  <2>4. CASE ~(policy.max_elapsed # Unlimited /\ Plus(elapsed, d) > policy.max_elapsed)
    <3>1. delay = d
      BY <2>1, <2>4
    <3>2. d # None
      BY <2>2 DEF None
    <3>3. ASSUME Limiting(policy.max_elapsed) PROVE elapsed + d <= policy.max_elapsed
      <4>1. /\ policy.max_elapsed \in Nat /\ policy.max_elapsed < DurationMax
            /\ policy.max_elapsed # Unlimited
        BY <1>1, <3>3, WidthAssumption DEF Limiting
      <4> QED BY <1>1, <2>2, <2>4, <4>1, WidthAssumption DEF Plus, Least
    <3> QED BY <1>1, <1>4, <2>1, <2>2, <3>1, <3>2, <3>3 DEF cap, elapsed
  <2> QED BY <2>3, <2>4
<1> QED BY <1>3, <1>4

\* What a failure leads to, which is all that the three properties ask for.
LEMMA FailMeaning ==
  ASSUME Inv, Fail
  PROVE  /\ pc = "running"
         /\ \/ /\ pc' = "err" /\ until' = until
               /\ \/ cause' = "DoNotRetry"
                  \/ attempt = policy.max_attempts
                  \/ Limiting(policy.max_elapsed)
                       /\ now - started + IdealCap(attempt) > policy.max_elapsed
            \/ /\ pc' = "sleeping" /\ cause' = "Retry" /\ attempt < policy.max_attempts
               /\ until' \in Nat /\ until' - now \in Delays(IdealCap(attempt), policy.jitter)
               /\ Limiting(policy.max_elapsed) =>
                    until' <= started + policy.max_elapsed
<1>1. /\ now \in Nat /\ started = 0 /\ policy.max_elapsed \in 0 .. DurationMax \cup {Unlimited}
  BY PolicyTypes DEF Inv
<1>2. cause' \in {"Retry", "DoNotRetry"} /\ (cause' = "Retry") \in BOOLEAN
  BY DEF Fail
<1>3. PICK delay \in NextDelay(policy, attempt, now - started, cause' = "Retry") :
        \/ delay = None /\ pc' = "err" /\ UNCHANGED until
        \/ delay # None /\ pc' = "sleeping" /\ until' = now + delay
  BY DEF Fail
<1>4. CASE delay = None
  <2>1. \/ ~(cause' = "Retry")
        \/ attempt = policy.max_attempts
        \/ Limiting(policy.max_elapsed)
             /\ now - started + IdealCap(attempt) > policy.max_elapsed
    BY <1>2, <1>3, <1>4, NextDelayMeaning
  <2> QED BY <1>2, <1>3, <1>4, <2>1 DEF Fail
<1>5. CASE delay # None
  <2>1. /\ cause' = "Retry" /\ attempt < policy.max_attempts /\ delay \in Nat
        /\ delay \in Delays(IdealCap(attempt), policy.jitter)
        /\ Limiting(policy.max_elapsed) =>
             (now - started) + delay <= policy.max_elapsed
    BY <1>2, <1>3, <1>5, NextDelayMeaning
  <2>2. until' = now + delay /\ until' \in Nat /\ until' - now = delay
    BY <1>1, <1>3, <1>5, <2>1
  <2>3. ASSUME Limiting(policy.max_elapsed) PROVE until' <= started + policy.max_elapsed
    <3>1. policy.max_elapsed \in Nat /\ DurationMax \in Nat
      BY <1>1, <2>3, WidthAssumption DEF Limiting
    <3> QED BY <1>1, <2>1, <2>2, <2>3, <3>1
  <2> QED BY <1>3, <1>5, <2>1, <2>2, <2>3 DEF Fail
<1> QED BY <1>4, <1>5

LEMMA InitInv == Init => Inv
<1> SUFFICES ASSUME Init PROVE Inv
  OBVIOUS
<1>1. policy \in Policies /\ policy.max_attempts \in Nat /\ policy.max_attempts >= 1
  BY PolicyTypes DEF Init
<1> QED BY <1>1 DEF Init, Inv, RetriesAllowed

LEMMA NextInv ==
  ASSUME Inv, [Next]_vars
  PROVE  Inv'
<1>1. policy.max_attempts \in Nat
  BY PolicyTypes DEF Inv
<1>2. CASE Tick
  BY <1>2 DEF Inv, RetriesAllowed, Tick
<1>3. CASE Succeed
  BY <1>3 DEF Inv, RetriesAllowed, Succeed
<1>4. CASE Fail
  <2>1. UNCHANGED <<now, policy, started, attempt>>
    BY <1>4 DEF Fail
  <2>2. /\ pc' = "sleeping" =>
             /\ cause' = "Retry" /\ until' \in Nat /\ attempt < policy.max_attempts
             /\ Limiting(policy.max_elapsed) =>
                  until' <= started + policy.max_elapsed
    BY <1>4, FailMeaning
  <2> QED BY <2>1, <2>2 DEF Inv, RetriesAllowed
<1>5. CASE Wake
  BY <1>1, <1>5 DEF Inv, RetriesAllowed, Wake
<1>6. CASE Cancel
  BY <1>6 DEF Inv, RetriesAllowed, Cancel
<1>7. CASE UNCHANGED vars
  BY <1>7 DEF Inv, RetriesAllowed, vars
<1> QED BY <1>2, <1>3, <1>4, <1>5, <1>6, <1>7 DEF Next

-----------------------------------------------------------------------------
(* The theorems.                                                           *)

THEOREM InvHolds == Spec => []Inv
BY InitInv, NextInv, PTL DEF Spec

\* retry() and retry_async() never run the operation more often than max_attempts, and
\* sleep only when asked to and within max_elapsed.
THEOREM AllowedRetries == Spec => []RetriesAllowed
<1>1. Inv => RetriesAllowed
  BY DEF Inv
<1> QED BY InvHolds, <1>1, PTL

\* Only a failure puts the loop to sleep or ends it with an error.
LEMMA OnlyFailure ==
  ASSUME [Next]_vars, pc' # pc, pc' \in {"sleeping", "err"}
  PROVE  Fail
BY DEF Next, vars, Tick, Succeed, Wake, Cancel

\* Every sleep of delay_after is on the documented curve, however often its
\* saturating arithmetic saturates.
THEOREM SleepsOnCurve == Spec => SleepOnCurve
<1> DEFINE A ==
      pc = "running" /\ pc' = "sleeping" =>
        LET delay == until' - now
            cap == IdealCap(attempt)
        IN /\ delay <= cap
           /\ policy.jitter = "None" => delay = cap
           /\ policy.jitter = "Equal" => delay >= cap \div 2
<1>1. ASSUME Inv, [Next]_vars PROVE A
  <2> SUFFICES ASSUME pc = "running", pc' = "sleeping" PROVE A
    OBVIOUS
  <2>1. until' - now \in Delays(IdealCap(attempt), policy.jitter)
    BY <1>1, OnlyFailure, FailMeaning
  <2>2. IdealCap(attempt) \in Nat
    BY <1>1, CapOnCurve DEF Inv
  <2> QED BY <2>1, <2>2 DEF Delays
<1> QED BY <1>1, InvHolds, PTL DEF Spec, SleepOnCurve

\* An error is returned only with a cause.
THEOREM GivesUpOnlyWithCause == Spec => GivesUpWithCause
<1> DEFINE A ==
      pc' = "err" /\ pc # "err" =>
        \/ cause' = "DoNotRetry"
        \/ attempt = policy.max_attempts
        \/ Limiting(policy.max_elapsed)
             /\ now - started + IdealCap(attempt) > policy.max_elapsed
<1>1. ASSUME Inv, [Next]_vars PROVE A
  <2> SUFFICES ASSUME pc' = "err", pc # "err" PROVE A
    OBVIOUS
  <2> QED BY <1>1, OnlyFailure, FailMeaning
<1> QED BY <1>1, InvHolds, PTL DEF Spec, GivesUpWithCause
=============================================================================
