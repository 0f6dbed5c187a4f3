------------------------------ MODULE SumTheorems ------------------------------
(***************************************************************************)
(* Sums over finite sets, as SumFunctionOnSet of module Functions adds     *)
(* them up: what the amounts of a payment over all channels and the        *)
(* amounts in a window of time are.  The induction is on a set of          *)
(* numbers, or of subsets, and rests on WFMin.                             *)
(***************************************************************************)
EXTENDS FiniteSetsExt, FiniteSetTheorems, WellFoundedInduction, TLAPS

\* Induction on a set: one of naturals with 0 and the successor of each of its members has
\* them all.
LEMMA SetInduction ==
    ASSUME NEW G, 0 \in G, \A n \in Nat : n \in G => n + 1 \in G
    PROVE  Nat \subseteq G
<1>. DEFINE R == OpToRel(<, Nat)
            T == Nat \ G
<1>1. IsWellFoundedOn(R, Nat)
  BY NatLessThanWellFounded
<1>2. SUFFICES ASSUME T # {} PROVE FALSE
  OBVIOUS
<1>3. PICK x \in T : \A y \in T : ~(<<y, x>> \in R)
  <2>1. T \subseteq Nat
    OBVIOUS
  <2>. HIDE DEF R, T
  <2>. QED  BY <1>1, <1>2, <2>1, WFMin
<1>4. \A y \in T : ~(y < x)
  BY <1>3 DEF OpToRel
<1>. HIDE DEF R
<1>5. x \in Nat /\ x \notin G
  OBVIOUS
<1>6. x - 1 \in Nat /\ x - 1 < x /\ (x - 1) + 1 = x
  BY <1>5
<1>. QED  BY <1>4, <1>5, <1>6

Pick(s) == CHOOSE x \in s : TRUE

\* g adds up f over the subsets of S.
IsSum(g, f, S) ==
    g = [s \in SUBSET S |-> IF s = {} THEN 0 ELSE f[Pick(s)] + g[s \ {Pick(s)}]]

\* What SumFunctionOnSet is.
LEMMA SumDef ==
    ASSUME NEW f, NEW S
    PROVE  SumFunctionOnSet(f, S) = (CHOOSE g : IsSum(g, f, S))[S]
BY DEF SumFunctionOnSet, FoldFunctionOnSet, MapThenFoldSet, IsSum, Pick

\* Pick takes a member.
LEMMA PickIn == ASSUME NEW s, s # {} PROVE Pick(s) \in s
BY DEF Pick

\* Such a g exists.
LEMMA SumExists ==
    ASSUME NEW f, NEW S, IsFiniteSet(S)
    PROVE  \E g : IsSum(g, f, S)
<1>. DEFINE Small(n) == {s \in SUBSET S : Cardinality(s) <= n}
            Step(g, s) == IF s = {} THEN 0 ELSE f[Pick(s)] + g[s \ {Pick(s)}]
            Adds(g, n) == g = [s \in Small(n) |-> Step(g, s)]
            G == {n \in Nat : \E g : Adds(g, n)}
<1>1. \A s \in SUBSET S : IsFiniteSet(s) /\ Cardinality(s) \in Nat
  BY FS_Subset, FS_CardinalityType
<1>2. ASSUME NEW s \in SUBSET S, s # {}
      PROVE  s \ {Pick(s)} \in SUBSET S /\ Cardinality(s \ {Pick(s)}) = Cardinality(s) - 1
  BY <1>1, <1>2, PickIn, FS_RemoveElement
<1>3. \A s \in SUBSET S : Cardinality(s) <= 0 => s = {}
  BY <1>1, FS_EmptySet
<1>4. 0 \in G
  <2>1. Adds([s \in Small(0) |-> 0], 0)
    BY <1>3
  <2>. HIDE DEF Adds
  <2>. QED  BY <2>1
<1>5. ASSUME NEW n \in Nat, n \in G PROVE n + 1 \in G
  <2>1. PICK g : Adds(g, n)
    BY <1>5
  <2>. DEFINE h == [s \in Small(n + 1) |-> IF Cardinality(s) <= n THEN g[s] ELSE Step(g, s)]
  <2>3. ASSUME NEW s \in Small(n + 1) PROVE h[s] = Step(h, s)
    <3>1. CASE s = {}
      <4>1. Cardinality(s) <= n /\ s \in Small(n)
        BY <3>1, FS_EmptySet
      <4>. QED  BY <2>1, <3>1, <4>1
    <3>2. CASE s # {}
      <4>. DEFINE r == s \ {Pick(s)}
      <4>1. r \in Small(n) /\ r \in Small(n + 1) /\ Cardinality(r) <= n
        <5>1. r \in SUBSET S /\ Cardinality(r) = Cardinality(s) - 1
          BY <1>2, <3>2
        <5>2. Cardinality(s) \in Nat /\ Cardinality(s) <= n + 1
          BY <1>1
        <5>3. Cardinality(r) <= n /\ Cardinality(r) <= n + 1
          BY <5>1, <5>2
        <5>. HIDE DEF r
        <5>. QED  BY <5>1, <5>3
      <4>. HIDE DEF r
      <4>2. h[r] = g[r]
        BY <4>1
      <4>3. CASE Cardinality(s) <= n
        <5>1. s \in Small(n) /\ h[s] = g[s]
          BY <4>3
        <5>2. g[s] = f[Pick(s)] + g[r]
          BY <2>1, <3>2, <5>1 DEF r
        <5>. QED  BY <3>2, <4>2, <5>1, <5>2 DEF r
      <4>4. CASE ~(Cardinality(s) <= n)
        <5>1. h[s] = f[Pick(s)] + g[r]
          BY <3>2, <4>4 DEF r
        <5>. QED  BY <3>2, <4>2, <5>1 DEF r
      <4>. QED  BY <4>3, <4>4
    <3>. QED  BY <3>1, <3>2
  <2>4. Adds(h, n + 1)
    <3>1. h = [s \in Small(n + 1) |-> h[s]]
      OBVIOUS
    <3>. HIDE DEF h, Small, Step
    <3>. QED  BY <2>3, <3>1
  <2>. HIDE DEF h, Adds
  <2>5. n + 1 \in Nat
    OBVIOUS
  <2>. QED  BY <2>4, <2>5
<1>6. Nat \subseteq G
  <2>. HIDE DEF G
  <2>. QED  BY <1>4, <1>5, SetInduction
<1>7. PICK g : Adds(g, Cardinality(S))
  BY <1>1, <1>6
<1>8. Small(Cardinality(S)) = SUBSET S
  BY <1>1, FS_Subset
<1>10. IsSum(g, f, S)
  BY <1>7, <1>8 DEF IsSum
<1>. QED  BY <1>10

\* Induction on a set of finite sets.
LEMMA SubsetInduction ==
    ASSUME NEW S, IsFiniteSet(S), NEW G, {} \in G,
           \A s \in SUBSET S : s # {} /\ (\A x \in s : s \ {x} \in G) => s \in G
    PROVE  \A s \in SUBSET S : s \in G
<1>. DEFINE Small(n) == {s \in SUBSET S : Cardinality(s) <= n}
            H == {n \in Nat : Small(n) \subseteq G}
<1>1. \A s \in SUBSET S : IsFiniteSet(s) /\ Cardinality(s) \in Nat
  BY FS_Subset, FS_CardinalityType
<1>2. \A s \in SUBSET S : Cardinality(s) <= 0 => s = {}
  BY <1>1, FS_EmptySet
<1>3. 0 \in H
  BY <1>2
<1>4. ASSUME NEW n \in Nat, n \in H PROVE n + 1 \in H
  <2>1. ASSUME NEW s \in Small(n + 1) PROVE s \in G
    <3>1. CASE s = {}
      BY <3>1
    <3>2. CASE s # {}
      <4>1. ASSUME NEW x \in s PROVE s \ {x} \in G
        <5>1. Cardinality(s \ {x}) = Cardinality(s) - 1
          BY <1>1, FS_RemoveElement
        <5>2. Cardinality(s) \in Nat /\ Cardinality(s) <= n + 1
          BY <1>1
        <5>3. Cardinality(s \ {x}) <= n
          BY <5>1, <5>2
        <5>. QED  BY <1>4, <5>3
      <4>. QED  BY <3>2, <4>1
    <3>. QED  BY <3>1, <3>2
  <2>. QED  BY <2>1
<1>5. Nat \subseteq H
  <2>. HIDE DEF H
  <2>. QED  BY <1>3, <1>4, SetInduction
<1>. QED  BY <1>1, <1>5

\* The equation holds for the g that SumFunctionOnSet chooses.
LEMMA SumEquation ==
    ASSUME NEW f, NEW S, IsFiniteSet(S)
    PROVE  IsSum(CHOOSE g : IsSum(g, f, S), f, S)
BY SumExists

\* Whatever set a sum is chosen for, it is the same on common subsets.
LEMMA SumUnique ==
    ASSUME NEW f, NEW S, IsFiniteSet(S), NEW T \in SUBSET S,
           NEW g, IsSum(g, f, S), NEW h, IsSum(h, f, T)
    PROVE  \A s \in SUBSET T : g[s] = h[s]
<1>. DEFINE G == {s \in SUBSET T : g[s] = h[s]}
<1>1. IsFiniteSet(T)
  BY FS_Subset
<1>2. {} \in G
  BY DEF IsSum
<1>3. ASSUME NEW s \in SUBSET T, s # {}, \A x \in s : s \ {x} \in G PROVE s \in G
  <2>. DEFINE p == Pick(s)
  <2>1. p \in s
    BY <1>3, PickIn
  <2>2. g[s \ {p}] = h[s \ {p}]
    BY <1>3, <2>1
  <2>3. g[s] = f[p] + g[s \ {p}]
    BY <1>3 DEF IsSum
  <2>4. h[s] = f[p] + h[s \ {p}]
    BY <1>3 DEF IsSum
  <2>. QED  BY <2>2, <2>3, <2>4
<1>4. \A s \in SUBSET T : s \in G
  <2>. HIDE DEF G
  <2>. QED  BY <1>1, <1>2, <1>3, SubsetInduction
<1>. QED  BY <1>4

\* The empty sum.
LEMMA SumEmpty == ASSUME NEW f PROVE SumFunctionOnSet(f, {}) = 0
<1>1. IsSum(CHOOSE g : IsSum(g, f, {}), f, {})
  BY SumEquation, FS_EmptySet
<1>. DEFINE g == CHOOSE e : IsSum(e, f, {})
<1>. HIDE DEF g
<1>2. IsSum(g, f, {})
  BY <1>1 DEF g
<1>3. g[{}] = 0
  BY <1>2 DEF IsSum
<1>. QED  BY <1>3, SumDef DEF g

\* A sum starts with the member that is picked.
LEMMA SumPick ==
    ASSUME NEW f, NEW S, IsFiniteSet(S), S # {}
    PROVE  SumFunctionOnSet(f, S) = f[Pick(S)] + SumFunctionOnSet(f, S \ {Pick(S)})
<1>. DEFINE T == S \ {Pick(S)}
            g == CHOOSE e : IsSum(e, f, S)
            h == CHOOSE e : IsSum(e, f, T)
<1>1. IsFiniteSet(T) /\ T \in SUBSET S
  BY FS_RemoveElement
<1>. HIDE DEF T
<1>2. IsSum(g, f, S) /\ IsSum(h, f, T)
  BY <1>1, SumEquation
<1>3. SumFunctionOnSet(f, S) = g[S] /\ SumFunctionOnSet(f, T) = h[T]
  BY SumDef
<1>. HIDE DEF g, h
<1>4. g[S] = f[Pick(S)] + g[T]
  BY <1>2 DEF IsSum, T
<1>5. g[T] = h[T]
  BY <1>1, <1>2, SumUnique
<1>. QED  BY <1>3, <1>4, <1>5 DEF T

\* The sum of naturals is one.
LEMMA SumType ==
    ASSUME NEW f, NEW S, IsFiniteSet(S), \A x \in S : f[x] \in Nat
    PROVE  SumFunctionOnSet(f, S) \in Nat
<1>. DEFINE G == {s \in SUBSET S : SumFunctionOnSet(f, s) \in Nat}
<1>1. {} \in G
  BY SumEmpty
<1>2. ASSUME NEW s \in SUBSET S, s # {}, \A x \in s : s \ {x} \in G PROVE s \in G
  <2>1. Pick(s) \in s /\ IsFiniteSet(s)
    BY <1>2, PickIn, FS_Subset
  <2>2. SumFunctionOnSet(f, s) = f[Pick(s)] + SumFunctionOnSet(f, s \ {Pick(s)})
    BY <1>2, <2>1, SumPick
  <2>. QED  BY <1>2, <2>1, <2>2
<1>3. \A s \in SUBSET S : s \in G
  <2>. HIDE DEF G
  <2>. QED  BY <1>1, <1>2, SubsetInduction
<1>. QED  BY <1>3

\* A sum of integers is an integer.
LEMMA SumOfInts ==
    ASSUME NEW f, NEW S, IsFiniteSet(S), \A x \in S : f[x] \in Int
    PROVE  SumFunctionOnSet(f, S) \in Int
<1>. DEFINE G == {s \in SUBSET S : SumFunctionOnSet(f, s) \in Int}
<1>1. {} \in G
  BY SumEmpty
<1>2. ASSUME NEW s \in SUBSET S, s # {}, \A x \in s : s \ {x} \in G PROVE s \in G
  <2>1. Pick(s) \in s /\ IsFiniteSet(s)
    BY <1>2, PickIn, FS_Subset
  <2>2. SumFunctionOnSet(f, s) = f[Pick(s)] + SumFunctionOnSet(f, s \ {Pick(s)})
    BY <1>2, <2>1, SumPick
  <2>. QED  BY <1>2, <2>1, <2>2
<1>3. \A s \in SUBSET S : s \in G
  <2>. HIDE DEF G
  <2>. QED  BY <1>1, <1>2, SubsetInduction
<1>. QED  BY <1>3

\* A sum starts with any member.
LEMMA SumRemove ==
    ASSUME NEW f, NEW S, IsFiniteSet(S), \A x \in S : f[x] \in Nat, NEW y \in S
    PROVE  SumFunctionOnSet(f, S) = f[y] + SumFunctionOnSet(f, S \ {y})
<1>. DEFINE Sum(s) == SumFunctionOnSet(f, s)
            G == {s \in SUBSET S : \A x \in s : Sum(s) = f[x] + Sum(s \ {x})}
<1>. HIDE DEF Sum
<1>1. {} \in G
  OBVIOUS
<1>2. ASSUME NEW s \in SUBSET S, s # {}, \A x \in s : s \ {x} \in G PROVE s \in G
  <2>. DEFINE p == Pick(s)
  <2>1. p \in s /\ IsFiniteSet(s)
    BY <1>2, PickIn, FS_Subset
  <2>2. Sum(s) = f[p] + Sum(s \ {p})
    BY <1>2, <2>1, SumPick DEF Sum
  <2>. HIDE DEF p
  <2>3. ASSUME NEW x \in s PROVE Sum(s) = f[x] + Sum(s \ {x})
    <3>1. CASE x = p
      BY <2>2, <3>1
    <3>2. CASE x # p
      <4>1. Sum(s \ {p}) = f[x] + Sum((s \ {p}) \ {x})
        BY <1>2, <2>1, <3>2
      <4>2. Sum(s \ {x}) = f[p] + Sum((s \ {x}) \ {p})
        BY <1>2, <2>1, <3>2
      <4>3. (s \ {p}) \ {x} = (s \ {x}) \ {p}
        OBVIOUS
      <4>4. Sum((s \ {x}) \ {p}) \in Nat
        <5>1. IsFiniteSet((s \ {x}) \ {p})
          BY <2>1, FS_RemoveElement
        <5>. QED  BY <5>1, SumType DEF Sum
      <4>5. f[x] \in Nat /\ f[p] \in Nat
        BY <2>1
      <4>. QED  BY <2>2, <4>1, <4>2, <4>3, <4>4, <4>5
    <3>. QED  BY <3>1, <3>2
  <2>. QED  BY <2>3
<1>3. \A s \in SUBSET S : s \in G
  <2>. HIDE DEF G
  <2>. QED  BY <1>1, <1>2, SubsetInduction
<1>. QED  BY <1>3 DEF Sum

\* What is nowhere larger has no larger sum.
LEMMA SumMonotone ==
    ASSUME NEW f, NEW g, NEW S, IsFiniteSet(S),
           \A x \in S : f[x] \in Nat /\ g[x] \in Nat /\ f[x] <= g[x]
    PROVE  SumFunctionOnSet(f, S) <= SumFunctionOnSet(g, S)
<1>. DEFINE G == {s \in SUBSET S : SumFunctionOnSet(f, s) <= SumFunctionOnSet(g, s)}
<1>1. {} \in G
  BY SumEmpty
<1>2. ASSUME NEW s \in SUBSET S, s # {}, \A x \in s : s \ {x} \in G PROVE s \in G
  <2>. DEFINE p == Pick(s)
              r == s \ {p}
  <2>1. p \in s /\ IsFiniteSet(s) /\ IsFiniteSet(r)
    BY <1>2, PickIn, FS_Subset, FS_RemoveElement
  <2>2. SumFunctionOnSet(f, s) = f[p] + SumFunctionOnSet(f, r)
    BY <1>2, <2>1, SumPick
  <2>3. SumFunctionOnSet(g, s) = g[p] + SumFunctionOnSet(g, r)
    BY <1>2, <2>1, SumPick
  <2>4. SumFunctionOnSet(f, r) \in Nat /\ SumFunctionOnSet(g, r) \in Nat
    BY <2>1, SumType
  <2>5. SumFunctionOnSet(f, r) <= SumFunctionOnSet(g, r)
    BY <1>2, <2>1
  <2>. QED  BY <2>1, <2>2, <2>3, <2>4, <2>5
<1>3. \A s \in SUBSET S : s \in G
  <2>. HIDE DEF G
  <2>. QED  BY <1>1, <1>2, SubsetInduction
<1>. QED  BY <1>3

\* Nor when each value counts k times.
LEMMA SumTimes ==
    ASSUME NEW f, NEW g, NEW S, IsFiniteSet(S), NEW k \in Nat,
           \A x \in S : f[x] \in Nat /\ g[x] \in Nat /\ k * f[x] <= g[x]
    PROVE  k * SumFunctionOnSet(f, S) <= SumFunctionOnSet(g, S)
<1>. DEFINE G == {s \in SUBSET S : k * SumFunctionOnSet(f, s) <= SumFunctionOnSet(g, s)}
<1>1. {} \in G
  BY SumEmpty
<1>2. ASSUME NEW s \in SUBSET S, s # {}, \A x \in s : s \ {x} \in G PROVE s \in G
  <2>. DEFINE p == Pick(s)
              r == s \ {p}
              F == SumFunctionOnSet(f, r)
  <2>1. p \in s /\ IsFiniteSet(s) /\ IsFiniteSet(r)
    BY <1>2, PickIn, FS_Subset, FS_RemoveElement
  <2>2. SumFunctionOnSet(f, s) = f[p] + F
    BY <1>2, <2>1, SumPick
  <2>3. SumFunctionOnSet(g, s) = g[p] + SumFunctionOnSet(g, r)
    BY <1>2, <2>1, SumPick
  <2>4. F \in Nat /\ SumFunctionOnSet(g, r) \in Nat
    BY <2>1, SumType
  <2>5. k * F <= SumFunctionOnSet(g, r)
    BY <1>2, <2>1
  <2>6. f[p] \in Nat /\ g[p] \in Nat /\ k * f[p] <= g[p]
    BY <2>1
  <2>. HIDE DEF F
  <2>7. k * (f[p] + F) = k * f[p] + k * F /\ k * f[p] \in Nat /\ k * F \in Nat
    BY <2>4, <2>6
  <2>. QED  BY <2>2, <2>3, <2>4, <2>5, <2>6, <2>7
<1>3. \A s \in SUBSET S : s \in G
  <2>. HIDE DEF G
  <2>. QED  BY <1>1, <1>2, SubsetInduction
<1>. QED  BY <1>3

\* What is the same everywhere has the same sum.
LEMMA SumSame ==
    ASSUME NEW f, NEW g, NEW S, IsFiniteSet(S),
           \A x \in S : f[x] \in Nat /\ f[x] = g[x]
    PROVE  SumFunctionOnSet(f, S) = SumFunctionOnSet(g, S)
<1>1. SumFunctionOnSet(f, S) <= SumFunctionOnSet(g, S)
  BY SumMonotone
<1>2. SumFunctionOnSet(g, S) <= SumFunctionOnSet(f, S)
  BY SumMonotone
<1>3. SumFunctionOnSet(f, S) \in Nat /\ SumFunctionOnSet(g, S) \in Nat
  BY SumType
<1>. QED  BY <1>1, <1>2, <1>3

\* Every member is at most the sum: a sum is 0 only if all its members are.
LEMMA SumBounds ==
    ASSUME NEW f, NEW S, IsFiniteSet(S), \A x \in S : f[x] \in Nat, NEW y \in S
    PROVE  f[y] <= SumFunctionOnSet(f, S)
<1>1. SumFunctionOnSet(f, S) = f[y] + SumFunctionOnSet(f, S \ {y})
  BY SumRemove
<1>2. SumFunctionOnSet(f, S \ {y}) \in Nat
  <2>1. IsFiniteSet(S \ {y})
    BY FS_RemoveElement
  <2>. QED  BY <2>1, SumType
<1>. QED  BY <1>1, <1>2

\* Zeros add up to 0.
LEMMA SumZeros ==
    ASSUME NEW f, NEW S, IsFiniteSet(S), \A x \in S : f[x] = 0
    PROVE  SumFunctionOnSet(f, S) = 0
<1>. DEFINE G == {s \in SUBSET S : SumFunctionOnSet(f, s) = 0}
<1>1. {} \in G
  BY SumEmpty
<1>2. ASSUME NEW s \in SUBSET S, s # {}, \A x \in s : s \ {x} \in G PROVE s \in G
  <2>1. Pick(s) \in s /\ IsFiniteSet(s)
    BY <1>2, PickIn, FS_Subset
  <2>2. SumFunctionOnSet(f, s) = f[Pick(s)] + SumFunctionOnSet(f, s \ {Pick(s)})
    BY <1>2, <2>1, SumPick
  <2>. QED  BY <1>2, <2>1, <2>2
<1>3. \A s \in SUBSET S : s \in G
  <2>. HIDE DEF G
  <2>. QED  BY <1>1, <1>2, SubsetInduction
<1>. QED  BY <1>3

\* A set in two parts.
LEMMA SumUnion ==
    ASSUME NEW f, NEW S, IsFiniteSet(S), NEW T, IsFiniteSet(T), S \cap T = {},
           \A x \in S \cup T : f[x] \in Nat
    PROVE  SumFunctionOnSet(f, S \cup T) = SumFunctionOnSet(f, S) + SumFunctionOnSet(f, T)
<1>. DEFINE Sum(s) == SumFunctionOnSet(f, s)
            G == {s \in SUBSET S : Sum(s \cup T) = Sum(s) + Sum(T)}
<1>1. \A s \in SUBSET S : IsFiniteSet(s) /\ IsFiniteSet(s \cup T)
  BY FS_Subset, FS_Union
<1>2. \A s \in SUBSET S : Sum(s) \in Nat
  BY <1>1, SumType
<1>3. Sum(T) \in Nat
  BY SumType
<1>4. {} \in G
  <2>1. {} \cup T = T
    OBVIOUS
  <2>. QED  BY <1>3, <2>1, SumEmpty
<1>5. ASSUME NEW s \in SUBSET S, s # {}, \A x \in s : s \ {x} \in G PROVE s \in G
  <2>1. PICK p \in s : TRUE
    BY <1>5
  <2>. DEFINE u == s \cup T
  <2>7. IsFiniteSet(s) /\ IsFiniteSet(u) /\ p \in u
    BY <1>1
  <2>8. (\A x \in s : f[x] \in Nat) /\ (\A x \in u : f[x] \in Nat)
    OBVIOUS
  <2>. HIDE DEF u
  <2>2. Sum(s) = f[p] + Sum(s \ {p})
    BY <2>7, <2>8, SumRemove
  <2>3. Sum(s \cup T) = f[p] + Sum((s \cup T) \ {p})
    <3>1. Sum(u) = f[p] + Sum(u \ {p})
      BY <2>7, <2>8, SumRemove
    <3>. QED  BY <3>1 DEF u
  <2>4. (s \cup T) \ {p} = (s \ {p}) \cup T
    OBVIOUS
  <2>5. Sum((s \ {p}) \cup T) = Sum(s \ {p}) + Sum(T)
    BY <1>5
  <2>6. f[p] \in Nat /\ Sum(s \ {p}) \in Nat
    BY <1>2
  <2>. HIDE DEF Sum
  <2>. QED  BY <1>3, <2>2, <2>3, <2>4, <2>5, <2>6
<1>6. \A s \in SUBSET S : s \in G
  <2>. HIDE DEF G
  <2>. QED  BY <1>4, <1>5, SubsetInduction
<1>. QED  BY <1>6
\* A part has no larger sum, and the same when the rest is 0.
LEMMA SumPart ==
    ASSUME NEW f, NEW S, IsFiniteSet(S), NEW T \in SUBSET S, \A x \in S : f[x] \in Nat
    PROVE  /\ SumFunctionOnSet(f, T) <= SumFunctionOnSet(f, S)
           /\ (\A x \in S \ T : f[x] = 0) => SumFunctionOnSet(f, T) = SumFunctionOnSet(f, S)
<1>. DEFINE R == S \ T
<1>1. IsFiniteSet(T) /\ IsFiniteSet(R) /\ T \cap R = {} /\ T \cup R = S
  BY FS_Subset
<1>2. (\A x \in T : f[x] \in Nat) /\ (\A x \in R : f[x] \in Nat)
  OBVIOUS
<1>. HIDE DEF R
<1>3. \A x \in T \cup R : f[x] \in Nat
  BY <1>2
<1>4. SumFunctionOnSet(f, T \cup R) = SumFunctionOnSet(f, T) + SumFunctionOnSet(f, R)
  BY <1>1, <1>3, SumUnion
<1>5. SumFunctionOnSet(f, T) \in Nat /\ SumFunctionOnSet(f, R) \in Nat
  BY <1>1, <1>2, SumType
<1>6. (\A x \in R : f[x] = 0) => SumFunctionOnSet(f, R) = 0
  BY <1>1, SumZeros
<1>7. SumFunctionOnSet(f, S) = SumFunctionOnSet(f, T) + SumFunctionOnSet(f, R)
  BY <1>1, <1>4
<1>8. SumFunctionOnSet(f, T) <= SumFunctionOnSet(f, S)
  BY <1>5, <1>7
<1>9. (\A x \in R : f[x] = 0) => SumFunctionOnSet(f, T) = SumFunctionOnSet(f, S)
  BY <1>5, <1>6, <1>7
<1>. QED  BY <1>8, <1>9 DEF R

\* One member that grows makes the sum grow by as much.
LEMMA SumGrows ==
    ASSUME NEW f, NEW g, NEW S, IsFiniteSet(S), NEW y \in S, NEW a \in Nat,
           \A x \in S : f[x] \in Nat,
           \A x \in S : x # y => g[x] = f[x],
           g[y] = f[y] + a
    PROVE  SumFunctionOnSet(g, S) = SumFunctionOnSet(f, S) + a
<1>. DEFINE R == S \ {y}
<1>1. IsFiniteSet(R)
  BY FS_RemoveElement
<1>2. \A x \in S : g[x] \in Nat
  OBVIOUS
<1>3. SumFunctionOnSet(f, S) = f[y] + SumFunctionOnSet(f, R)
  BY SumRemove
<1>4. SumFunctionOnSet(g, S) = g[y] + SumFunctionOnSet(g, R)
  BY <1>2, SumRemove
<1>5. \A x \in R : f[x] \in Nat /\ f[x] = g[x]
  OBVIOUS
<1>. HIDE DEF R
<1>6. SumFunctionOnSet(f, R) = SumFunctionOnSet(g, R) /\ SumFunctionOnSet(f, R) \in Nat
  BY <1>1, <1>5, SumSame, SumType
<1>. QED  BY <1>3, <1>4, <1>6

================================================================================
