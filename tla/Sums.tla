---------------------------------- MODULE Sums ----------------------------------
(***************************************************************************)
(* What proofs about amounts keep needing: induction over the natural      *)
(* numbers, the rounding of divisions, and the sums that SumFunction of    *)
(* the community modules forms of the values of a function.                *)
(***************************************************************************)
EXTENDS Integers, FiniteSets, Functions, FiniteSetTheorems, WellFoundedInduction, TLAPS

-----------------------------------------------------------------------------
\* Induction.  The natural numbers are well founded, so that a set of them that is
\* closed under successors and has 0 leaves out none.

LEMMA NatSetInduction ==
    ASSUME NEW A, 0 \in A, \A n \in Nat : n \in A => n + 1 \in A
    PROVE  Nat \subseteq A
<1> SUFFICES ASSUME NEW T, T = Nat \ A, T # {} PROVE FALSE
  OBVIOUS
<1>1. PICK R : R = {ss \in Nat \X Nat : ss[1] < ss[2]}
  OBVIOUS
<1>2. IsWellFoundedOn(R, Nat)
  BY <1>1, NatLessThanWellFounded DEF OpToRel
<1>3. T \subseteq Nat
  OBVIOUS
<1>4. PICK x \in T : \A y \in T : ~ (<<y, x>> \in R)
  BY <1>2, <1>3, WFMin
<1>5. x \in Nat /\ x # 0
  OBVIOUS
<1>6. PICK y \in Nat : x = y + 1
  <2>1. x - 1 \in Nat /\ x = (x - 1) + 1
    BY <1>5
  <2> QED BY <2>1
<1>7. <<y, x>> \in R
  BY <1>1, <1>5, <1>6
<1>8. y \notin T
  BY <1>4, <1>7
<1> QED BY <1>6, <1>8

\* A set of natural numbers has a least one.
LEMMA LeastOf ==
    ASSUME NEW T, T \subseteq Nat, T # {}
    PROVE  \E x \in T : \A y \in T : x <= y
<1>1. PICK R : R = {ss \in Nat \X Nat : ss[1] < ss[2]}
  OBVIOUS
<1>2. IsWellFoundedOn(R, Nat)
  BY <1>1, NatLessThanWellFounded DEF OpToRel
<1>3. PICK x \in T : \A y \in T : ~ (<<y, x>> \in R)
  BY <1>2, WFMin
<1>4. \A y \in T : ~ (y < x)
  BY <1>1, <1>3
<1> QED BY <1>3, <1>4

-----------------------------------------------------------------------------
\* Sums.  SumFunctionOnSet takes the elements of a finite set in the order of CHOOSE;
\* the sum does not depend on it.

Pick(s) == CHOOSE x \in s : TRUE
SumStep(f, g, s) == IF s = {} THEN 0 ELSE f[Pick(s)] + g[s \ {Pick(s)}]
Iterates(g, f, S) == \A s \in SUBSET S : g[s] = SumStep(f, g, s)
Iteration(f, S) == CHOOSE g : g = [s \in SUBSET S |-> SumStep(f, g, s)]

LEMMA PickIsIn == ASSUME NEW s, s # {} PROVE Pick(s) \in s
BY DEF Pick

LEMMA SumIsIteration ==
    ASSUME NEW f, NEW S
    PROVE  SumFunctionOnSet(f, S) = Iteration(f, S)[S]
BY DEF SumFunctionOnSet, FoldFunctionOnSet, MapThenFoldSet, Iteration, SumStep, Pick

\* Smaller sets come first.
LEMMA PickShrinks ==
    ASSUME NEW S, IsFiniteSet(S), NEW s \in SUBSET S
    PROVE  /\ IsFiniteSet(s) /\ Cardinality(s) \in Nat /\ (Cardinality(s) = 0 <=> s = {})
           /\ \A x \in s : s \ {x} \in SUBSET S /\ Cardinality(s \ {x}) = Cardinality(s) - 1
           /\ s # {} => Pick(s) \in s /\ s \ {Pick(s)} \in SUBSET S
<1>1. IsFiniteSet(s)
  BY FS_Subset
<1>2. Cardinality(s) \in Nat /\ (Cardinality(s) = 0 <=> s = {})
  BY <1>1, FS_CardinalityType, FS_EmptySet
<1>3. \A x \in s : Cardinality(s \ {x}) = Cardinality(s) - 1
  BY <1>1, FS_RemoveElement
<1> QED BY <1>1, <1>2, <1>3, PickIsIn

LEMMA IterationUnique ==
    ASSUME NEW S, IsFiniteSet(S), NEW f, NEW g, NEW h,
           Iterates(g, f, S), Iterates(h, f, S)
    PROVE  \A s \in SUBSET S : g[s] = h[s]
<1> USE DEF Iterates
<1> DEFINE A == {n \in Nat : \A s \in SUBSET S : Cardinality(s) <= n => g[s] = h[s]}
<1>1. 0 \in A
  <2> SUFFICES ASSUME NEW s \in SUBSET S, Cardinality(s) <= 0 PROVE g[s] = h[s]
    OBVIOUS
  <2>1. s = {}
    BY PickShrinks
  <2> QED BY <2>1 DEF SumStep
<1>2. ASSUME NEW n \in Nat, n \in A PROVE n + 1 \in A
  <2> SUFFICES ASSUME NEW s \in SUBSET S, Cardinality(s) <= n + 1 PROVE g[s] = h[s]
    OBVIOUS
  <2>1. CASE s = {}
    BY <2>1 DEF SumStep
  <2>2. CASE s # {}
    <3>1. PICK t : t = s \ {Pick(s)}
      OBVIOUS
    <3>2. t \in SUBSET S /\ Cardinality(t) <= n
      BY <2>2, <3>1, PickShrinks
    <3>3. g[t] = h[t]
      BY <1>2, <3>2
    <3> QED BY <2>2, <3>1, <3>3 DEF SumStep
  <2> QED BY <2>1, <2>2
<1> HIDE DEF A
<1>3. Nat \subseteq A
  BY <1>1, <1>2, NatSetInduction
<1> TAKE s \in SUBSET S
<1>4. Cardinality(s) \in A /\ Cardinality(s) \in Nat
  BY <1>3, PickShrinks
<1> QED BY <1>4 DEF A

LEMMA IterationExists ==
    ASSUME NEW S, IsFiniteSet(S), NEW f
    PROVE  \E g : g = [s \in SUBSET S |-> SumStep(f, g, s)]
<1> DEFINE Upto(g, n) == \A s \in SUBSET S : Cardinality(s) <= n => g[s] = SumStep(f, g, s)
           A == {n \in Nat : \E g : Upto(g, n)}
<1>1. 0 \in A
  <2>1. PICK g : g = [s \in SUBSET S |-> 0]
    OBVIOUS
  <2>2. ASSUME NEW s \in SUBSET S, Cardinality(s) <= 0 PROVE g[s] = SumStep(f, g, s)
    <3>1. s = {}
      BY <2>2, PickShrinks
    <3> QED BY <2>1, <3>1 DEF SumStep
  <2> QED BY <2>2
<1>2. ASSUME NEW n \in Nat, n \in A PROVE n + 1 \in A
  <2>1. PICK g : Upto(g, n)
    BY <1>2
  <2>2. PICK h : h = [s \in SUBSET S |-> IF Cardinality(s) <= n THEN g[s] ELSE SumStep(f, g, s)]
    OBVIOUS
  <2>3. ASSUME NEW s \in SUBSET S, Cardinality(s) <= n + 1 PROVE h[s] = SumStep(f, h, s)
    <3>1. h[s] = SumStep(f, g, s)
      BY <2>1, <2>2
    <3>2. CASE s = {}
      BY <3>1, <3>2 DEF SumStep
    <3>3. CASE s # {}
      <4>1. PICK t : t = s \ {Pick(s)}
        OBVIOUS
      <4>2. t \in SUBSET S /\ Cardinality(t) <= n
        BY <2>3, <3>3, <4>1, PickShrinks
      <4>3. h[t] = g[t]
        BY <2>2, <4>2
      <4> QED BY <3>1, <3>3, <4>1, <4>3 DEF SumStep
    <3> QED BY <3>2, <3>3
  <2>4. Upto(h, n + 1)
    BY <2>3
  <2> QED BY <2>4
<1> HIDE DEF A
<1>3. Nat \subseteq A
  BY <1>1, <1>2, NatSetInduction
<1>4. Cardinality(S) \in A
  BY <1>3, FS_CardinalityType
<1>5. PICK g : Upto(g, Cardinality(S))
  BY <1>4 DEF A
<1>6. \A s \in SUBSET S : g[s] = SumStep(f, g, s)
  BY <1>5, FS_Subset
<1>7. PICK h : h = [s \in SUBSET S |-> g[s]]
  OBVIOUS
<1>8. ASSUME NEW s \in SUBSET S PROVE SumStep(f, g, s) = SumStep(f, h, s)
  BY <1>7, PickIsIn DEF SumStep
<1>9. h = [s \in SUBSET S |-> SumStep(f, h, s)]
  BY <1>6, <1>7, <1>8
<1> QED BY <1>9

LEMMA IterationSteps ==
    ASSUME NEW S, IsFiniteSet(S), NEW f
    PROVE  \A s \in SUBSET S : Iteration(f, S)[s] = SumStep(f, Iteration(f, S), s)
<1>1. PICK i : i = Iteration(f, S)
  OBVIOUS
<1>2. i = [s \in SUBSET S |-> SumStep(f, i, s)]
  BY <1>1, IterationExists DEF Iteration
<1>3. \A s \in SUBSET S : i[s] = SumStep(f, i, s)
  BY <1>2
<1> QED BY <1>1, <1>3

\* What it means to add up.
LEMMA SumIs ==
    ASSUME NEW S, IsFiniteSet(S), NEW f
    PROVE  SumFunctionOnSet(f, S) =
               IF S = {} THEN 0 ELSE f[Pick(S)] + SumFunctionOnSet(f, S \ {Pick(S)})
<1>1. CASE S = {}
  BY <1>1, IterationSteps, SumIsIteration DEF SumStep
<1>2. CASE S # {}
  <2>1. PICK t : t = S \ {Pick(S)}
    OBVIOUS
  <2>2. t \in SUBSET S /\ IsFiniteSet(t)
    BY <2>1, FS_Subset
  <2>3. PICK g, h : g = Iteration(f, S) /\ h = Iteration(f, t)
    OBVIOUS
  <2>4. Iterates(g, f, t) /\ Iterates(h, f, t)
    BY <2>2, <2>3, IterationSteps DEF Iterates
  <2>5. g[t] = h[t]
    <3>1. \A s \in SUBSET t : g[s] = h[s]
      BY <2>2, <2>4, IterationUnique
    <3> QED BY <3>1
  <2>6. g[S] = SumStep(f, g, S)
    BY <2>3, IterationSteps
  <2> QED BY <1>2, <2>1, <2>3, <2>5, <2>6, SumIsIteration DEF SumStep
<1> QED BY <1>1, <1>2

LEMMA SumOfNothing == ASSUME NEW f PROVE SumFunctionOnSet(f, {}) = 0
BY SumIs, FS_EmptySet

LEMMA SumIsNumber ==
    ASSUME NEW S, IsFiniteSet(S), NEW f, NEW N \in {Nat, Int}, \A x \in S : f[x] \in N
    PROVE  \A s \in SUBSET S : SumFunctionOnSet(f, s) \in N
<1> DEFINE A == {n \in Nat : \A s \in SUBSET S : Cardinality(s) <= n => SumFunctionOnSet(f, s) \in N}
<1>1. 0 \in A
  <2> SUFFICES ASSUME NEW s \in SUBSET S, Cardinality(s) <= 0 PROVE SumFunctionOnSet(f, s) \in N
    OBVIOUS
  <2>1. s = {}
    BY PickShrinks
  <2> QED BY <2>1, SumOfNothing
<1>2. ASSUME NEW n \in Nat, n \in A PROVE n + 1 \in A
  <2> SUFFICES ASSUME NEW s \in SUBSET S, Cardinality(s) <= n + 1 PROVE SumFunctionOnSet(f, s) \in N
    OBVIOUS
  <2>1. CASE s = {}
    BY <2>1, SumOfNothing
  <2>2. CASE s # {}
    <3>1. PICK t, x : t = s \ {Pick(s)} /\ x = Pick(s)
      OBVIOUS
    <3>2. t \in SUBSET S /\ Cardinality(t) <= n /\ x \in S
      BY <2>2, <3>1, PickShrinks
    <3>3. PICK k : k = SumFunctionOnSet(f, t)
      OBVIOUS
    <3>4. k \in N /\ f[x] \in N
      BY <1>2, <3>2, <3>3
    <3>5. SumFunctionOnSet(f, s) = f[x] + k
      BY <2>2, <3>1, <3>3, SumIs, PickShrinks
    <3> QED BY <3>4, <3>5
  <2> QED BY <2>1, <2>2
<1> HIDE DEF A
<1>3. Nat \subseteq A
  BY <1>1, <1>2, NatSetInduction
<1> TAKE s \in SUBSET S
<1>4. Cardinality(s) \in A /\ Cardinality(s) \in Nat
  BY <1>3, PickShrinks
<1> QED BY <1>4 DEF A

\* Any element may be the first.
LEMMA SumTakesOut ==
    ASSUME NEW S, IsFiniteSet(S), NEW f, \A x \in S : f[x] \in Int
    PROVE  \A s \in SUBSET S : \A x \in s :
               SumFunctionOnSet(f, s) = f[x] + SumFunctionOnSet(f, s \ {x})
<1> DEFINE Out(s) == \A x \in s : SumFunctionOnSet(f, s) = f[x] + SumFunctionOnSet(f, s \ {x})
           A == {n \in Nat : \A s \in SUBSET S : Cardinality(s) <= n => Out(s)}
<1>1. 0 \in A
  <2> SUFFICES ASSUME NEW s \in SUBSET S, Cardinality(s) <= 0 PROVE Out(s)
    OBVIOUS
  <2>1. s = {}
    BY PickShrinks
  <2> QED BY <2>1
<1>2. ASSUME NEW n \in Nat, n \in A PROVE n + 1 \in A
  <2> SUFFICES ASSUME NEW s \in SUBSET S, Cardinality(s) <= n + 1, NEW x \in s
               PROVE  SumFunctionOnSet(f, s) = f[x] + SumFunctionOnSet(f, s \ {x})
    OBVIOUS
  <2>1. PICK p : p = Pick(s)
    OBVIOUS
  <2>2. p \in s /\ IsFiniteSet(s) /\ Cardinality(s) \in Nat
    BY <2>1, PickShrinks
  <2>3. SumFunctionOnSet(f, s) = f[p] + SumFunctionOnSet(f, s \ {p})
    BY <2>1, <2>2, SumIs
  <2>4. CASE x = p
    BY <2>3, <2>4
  <2>5. CASE x # p
    <3>1. PICK t, r, b : t = s \ {p} /\ r = s \ {x} /\ b = s \ {p, x}
      OBVIOUS
    <3>2. t \in SUBSET S /\ r \in SUBSET S /\ b \in SUBSET S /\ x \in t /\ p \in r /\ t \ {x} = b /\ r \ {p} = b
      BY <2>2, <2>5, <3>1
    <3>3. Cardinality(t) <= n /\ Cardinality(r) <= n
      BY <2>2, <3>1, PickShrinks
    <3>4. Out(t) /\ Out(r)
      BY <1>2, <3>2, <3>3
    <3>5. PICK st, sr, sb : /\ st = SumFunctionOnSet(f, t) /\ sr = SumFunctionOnSet(f, r)
                            /\ sb = SumFunctionOnSet(f, b)
      OBVIOUS
    <3>6. st = f[x] + sb /\ sr = f[p] + sb
      BY <3>2, <3>4, <3>5
    <3>7. sb \in Int /\ f[x] \in Int /\ f[p] \in Int
      BY <2>2, <3>2, <3>5, SumIsNumber
    <3> QED BY <2>3, <3>1, <3>5, <3>6, <3>7
  <2> QED BY <2>4, <2>5
<1> HIDE DEF A
<1>3. Nat \subseteq A
  BY <1>1, <1>2, NatSetInduction
<1> TAKE s \in SUBSET S
<1>4. Cardinality(s) \in A /\ Cardinality(s) \in Nat
  BY <1>3, PickShrinks
<1> QED BY <1>4 DEF A

\* Only what is added up counts.
LEMMA SumOfSame ==
    ASSUME NEW S, IsFiniteSet(S), NEW f, NEW g, \A x \in S : f[x] = g[x]
    PROVE  \A s \in SUBSET S : SumFunctionOnSet(f, s) = SumFunctionOnSet(g, s)
<1> DEFINE A == {n \in Nat : \A s \in SUBSET S : Cardinality(s) <= n
                               => SumFunctionOnSet(f, s) = SumFunctionOnSet(g, s)}
<1>1. 0 \in A
  <2> SUFFICES ASSUME NEW s \in SUBSET S, Cardinality(s) <= 0
               PROVE  SumFunctionOnSet(f, s) = SumFunctionOnSet(g, s)
    OBVIOUS
  <2>1. s = {}
    BY PickShrinks
  <2> QED BY <2>1, SumOfNothing
<1>2. ASSUME NEW n \in Nat, n \in A PROVE n + 1 \in A
  <2> SUFFICES ASSUME NEW s \in SUBSET S, Cardinality(s) <= n + 1
               PROVE  SumFunctionOnSet(f, s) = SumFunctionOnSet(g, s)
    OBVIOUS
  <2>1. CASE s = {}
    BY <2>1, SumOfNothing
  <2>2. CASE s # {}
    <3>1. PICK t, x : t = s \ {Pick(s)} /\ x = Pick(s)
      OBVIOUS
    <3>2. t \in SUBSET S /\ Cardinality(t) <= n /\ x \in S /\ IsFiniteSet(s)
      BY <2>2, <3>1, PickShrinks
    <3>3. SumFunctionOnSet(f, t) = SumFunctionOnSet(g, t) /\ f[x] = g[x]
      BY <1>2, <3>2
    <3>4. /\ SumFunctionOnSet(f, s) = f[x] + SumFunctionOnSet(f, t)
          /\ SumFunctionOnSet(g, s) = g[x] + SumFunctionOnSet(g, t)
      BY <2>2, <3>1, <3>2, SumIs
    <3> QED BY <3>3, <3>4
  <2> QED BY <2>1, <2>2
<1> HIDE DEF A
<1>3. Nat \subseteq A
  BY <1>1, <1>2, NatSetInduction
<1> TAKE s \in SUBSET S
<1>4. Cardinality(s) \in A /\ Cardinality(s) \in Nat
  BY <1>3, PickShrinks
<1> QED BY <1>4 DEF A

\* One addend changes.
LEMMA SumChanges ==
    ASSUME NEW S, IsFiniteSet(S), NEW f, NEW g, NEW x \in S,
           \A y \in S : f[y] \in Int /\ g[y] \in Int, \A y \in S \ {x} : f[y] = g[y]
    PROVE  SumFunctionOnSet(g, S) = SumFunctionOnSet(f, S) + g[x] - f[x]
<1>1. PICK t : t = S \ {x}
  OBVIOUS
<1>2. IsFiniteSet(t) /\ \A y \in t : f[y] = g[y]
  BY <1>1, FS_Subset
<1>3. PICK k : k = SumFunctionOnSet(f, t)
  OBVIOUS
<1>4. SumFunctionOnSet(g, t) = k
  BY <1>2, <1>3, SumOfSame
<1>5. SumFunctionOnSet(f, S) = f[x] + k /\ SumFunctionOnSet(g, S) = g[x] + k
  BY <1>1, <1>3, <1>4, SumTakesOut
<1>6. k \in Int
  BY <1>1, <1>3, SumIsNumber
<1> QED BY <1>5, <1>6

\* One element more.
LEMMA SumGrows ==
    ASSUME NEW S, IsFiniteSet(S), NEW f, NEW x, x \notin S, \A y \in S \union {x} : f[y] \in Int
    PROVE  SumFunctionOnSet(f, S \union {x}) = SumFunctionOnSet(f, S) + f[x]
<1>1. PICK t : t = S \union {x}
  OBVIOUS
<1>2. IsFiniteSet(t) /\ t \ {x} = S /\ x \in t /\ \A y \in t : f[y] \in Int
  BY <1>1, FS_AddElement
<1>3. PICK k : k = SumFunctionOnSet(f, S)
  OBVIOUS
<1>4. SumFunctionOnSet(f, t) = f[x] + k
  BY <1>2, <1>3, SumTakesOut
<1>5. k \in Int
  BY <1>2, <1>3, SumIsNumber
<1> QED BY <1>1, <1>2, <1>3, <1>4, <1>5

\* Greater addends make a greater sum.
LEMMA SumIsMonotonic ==
    ASSUME NEW S, IsFiniteSet(S), NEW f, NEW g,
           \A x \in S : f[x] \in Int /\ g[x] \in Int /\ f[x] <= g[x]
    PROVE  \A s \in SUBSET S : SumFunctionOnSet(f, s) <= SumFunctionOnSet(g, s)
<1> DEFINE A == {n \in Nat : \A s \in SUBSET S : Cardinality(s) <= n
                               => SumFunctionOnSet(f, s) <= SumFunctionOnSet(g, s)}
<1>1. 0 \in A
  <2> SUFFICES ASSUME NEW s \in SUBSET S, Cardinality(s) <= 0
               PROVE  SumFunctionOnSet(f, s) <= SumFunctionOnSet(g, s)
    OBVIOUS
  <2>1. s = {}
    BY PickShrinks
  <2> QED BY <2>1, SumOfNothing
<1>2. ASSUME NEW n \in Nat, n \in A PROVE n + 1 \in A
  <2> SUFFICES ASSUME NEW s \in SUBSET S, Cardinality(s) <= n + 1
               PROVE  SumFunctionOnSet(f, s) <= SumFunctionOnSet(g, s)
    OBVIOUS
  <2>1. CASE s = {}
    BY <2>1, SumOfNothing
  <2>2. CASE s # {}
    <3>1. PICK t, x : t = s \ {Pick(s)} /\ x = Pick(s)
      OBVIOUS
    <3>2. t \in SUBSET S /\ Cardinality(t) <= n /\ x \in S /\ IsFiniteSet(s)
      BY <2>2, <3>1, PickShrinks
    <3>3. PICK j, k : j = SumFunctionOnSet(f, t) /\ k = SumFunctionOnSet(g, t)
      OBVIOUS
    <3>4. j <= k /\ f[x] <= g[x] /\ f[x] \in Int /\ g[x] \in Int
      BY <1>2, <3>2, <3>3
    <3>5. j \in Int /\ k \in Int
      BY <3>2, <3>3, SumIsNumber
    <3>6. SumFunctionOnSet(f, s) = f[x] + j /\ SumFunctionOnSet(g, s) = g[x] + k
      BY <2>2, <3>1, <3>2, <3>3, SumIs
    <3> QED BY <3>4, <3>5, <3>6
  <2> QED BY <2>1, <2>2
<1> HIDE DEF A
<1>3. Nat \subseteq A
  BY <1>1, <1>2, NatSetInduction
<1> TAKE s \in SUBSET S
<1>4. Cardinality(s) \in A /\ Cardinality(s) \in Nat
  BY <1>3, PickShrinks
<1> QED BY <1>4 DEF A

LEMMA SumOfZeros ==
    ASSUME NEW S, IsFiniteSet(S), NEW f, \A x \in S : f[x] = 0
    PROVE  SumFunctionOnSet(f, S) = 0
<1> DEFINE A == {n \in Nat : \A s \in SUBSET S : Cardinality(s) <= n => SumFunctionOnSet(f, s) = 0}
<1>1. 0 \in A
  <2> SUFFICES ASSUME NEW s \in SUBSET S, Cardinality(s) <= 0 PROVE SumFunctionOnSet(f, s) = 0
    OBVIOUS
  <2>1. s = {}
    BY PickShrinks
  <2> QED BY <2>1, SumOfNothing
<1>2. ASSUME NEW n \in Nat, n \in A PROVE n + 1 \in A
  <2> SUFFICES ASSUME NEW s \in SUBSET S, Cardinality(s) <= n + 1 PROVE SumFunctionOnSet(f, s) = 0
    OBVIOUS
  <2>1. CASE s = {}
    BY <2>1, SumOfNothing
  <2>2. CASE s # {}
    <3>1. PICK t, x : t = s \ {Pick(s)} /\ x = Pick(s)
      OBVIOUS
    <3>2. t \in SUBSET S /\ Cardinality(t) <= n /\ x \in S /\ IsFiniteSet(s)
      BY <2>2, <3>1, PickShrinks
    <3>3. SumFunctionOnSet(f, t) = 0 /\ f[x] = 0
      BY <1>2, <3>2
    <3>4. SumFunctionOnSet(f, s) = f[x] + SumFunctionOnSet(f, t)
      BY <2>2, <3>1, <3>2, SumIs
    <3> QED BY <3>3, <3>4
  <2> QED BY <2>1, <2>2
<1> HIDE DEF A
<1>3. Nat \subseteq A
  BY <1>1, <1>2, NatSetInduction
<1>4. Cardinality(S) \in A /\ Cardinality(S) \in Nat /\ S \in SUBSET S
  BY <1>3, FS_CardinalityType
<1> QED BY <1>4 DEF A

\* The same for functions, whose addends are all their values.
LEMMA SumAdds ==
    ASSUME NEW S, IsFiniteSet(S), NEW x, x \notin S, NEW f \in [S -> Int], NEW g \in [S \union {x} -> Int],
           \A y \in S : g[y] = f[y]
    PROVE  SumFunction(g) = SumFunction(f) + g[x]
<1>1. PICK k : k = SumFunctionOnSet(f, S)
  OBVIOUS
<1>2. SumFunctionOnSet(g, S) = k
  BY <1>1, SumOfSame
<1>3. SumFunctionOnSet(g, S \union {x}) = SumFunctionOnSet(g, S) + g[x]
  BY SumGrows
<1>4. DOMAIN f = S /\ DOMAIN g = S \union {x}
  OBVIOUS
<1> QED BY <1>1, <1>2, <1>3, <1>4 DEF SumFunction

LEMMA SumMoves ==
    ASSUME NEW S, IsFiniteSet(S), NEW x \in S, NEW f \in [S -> Int], NEW g \in [S -> Int],
           \A y \in S \ {x} : g[y] = f[y]
    PROVE  SumFunction(g) = SumFunction(f) + g[x] - f[x]
<1>1. SumFunctionOnSet(g, S) = SumFunctionOnSet(f, S) + g[x] - f[x]
  BY SumChanges
<1>2. DOMAIN f = S /\ DOMAIN g = S
  OBVIOUS
<1> QED BY <1>1, <1>2 DEF SumFunction

LEMMA SumFacts ==
    ASSUME NEW S, IsFiniteSet(S), NEW f \in [S -> Int], NEW g \in [S -> Int]
    PROVE  /\ SumFunction(f) \in Int
           /\ (\A y \in S : f[y] >= 0) => SumFunction(f) \in Nat
           /\ (\A y \in S : f[y] <= g[y]) => SumFunction(f) <= SumFunction(g)
<1>1. DOMAIN f = S /\ DOMAIN g = S /\ S \in SUBSET S
  OBVIOUS
<1>2. SumFunctionOnSet(f, S) \in Int
  BY <1>1, SumIsNumber
<1>3. (\A y \in S : f[y] >= 0) => SumFunctionOnSet(f, S) \in Nat
  BY <1>1, SumIsNumber
<1>4. (\A y \in S : f[y] <= g[y]) => SumFunctionOnSet(f, S) <= SumFunctionOnSet(g, S)
  BY <1>1, SumIsMonotonic
<1> QED BY <1>1, <1>2, <1>3, <1>4 DEF SumFunction

\* What is split everywhere is split in the sum.
IsSplit(S, f, g, h) ==
    /\ f \in [S -> Int] /\ g \in [S -> Int] /\ h \in [S -> Int]
    /\ \A y \in S : f[y] = g[y] + h[y]

LEMMA SumOfSums ==
    ASSUME NEW S, IsFiniteSet(S), NEW f, NEW g, NEW h, IsSplit(S, f, g, h)
    PROVE  SumFunction(f) = SumFunction(g) + SumFunction(h)
<1>0. /\ f \in [S -> Int] /\ g \in [S -> Int] /\ h \in [S -> Int]
      /\ \A y \in S : f[y] = g[y] + h[y]
  BY DEF IsSplit
<1> DEFINE Split(s) == SumFunctionOnSet(f, s) = SumFunctionOnSet(g, s) + SumFunctionOnSet(h, s)
           A == {n \in Nat : \A s \in SUBSET S : Cardinality(s) <= n => Split(s)}
<1>1. 0 \in A
  <2> SUFFICES ASSUME NEW s \in SUBSET S, Cardinality(s) <= 0 PROVE Split(s)
    OBVIOUS
  <2>1. s = {}
    BY PickShrinks
  <2> QED BY <2>1, SumOfNothing
<1>2. ASSUME NEW n \in Nat, n \in A PROVE n + 1 \in A
  <2> SUFFICES ASSUME NEW s \in SUBSET S, Cardinality(s) <= n + 1 PROVE Split(s)
    OBVIOUS
  <2>1. CASE s = {}
    BY <2>1, SumOfNothing
  <2>2. CASE s # {}
    <3>1. PICK t, x : t = s \ {Pick(s)} /\ x = Pick(s)
      OBVIOUS
    <3>2. t \in SUBSET S /\ Cardinality(t) <= n /\ x \in S /\ IsFiniteSet(s)
      BY <2>2, <3>1, PickShrinks
    <3>3. PICK i, j, k : /\ i = SumFunctionOnSet(f, t) /\ j = SumFunctionOnSet(g, t)
                         /\ k = SumFunctionOnSet(h, t)
      OBVIOUS
    <3>4. i = j + k /\ f[x] = g[x] + h[x] /\ g[x] \in Int /\ h[x] \in Int
      BY <1>0, <1>2, <3>2, <3>3
    <3>5. j \in Int /\ k \in Int
      <4>1. (\A y \in S : g[y] \in Int) /\ (\A y \in S : h[y] \in Int)
        BY <1>0
      <4>2. SumFunctionOnSet(g, t) \in Int
        BY <3>2, <4>1, SumIsNumber
      <4>3. SumFunctionOnSet(h, t) \in Int
        BY <3>2, <4>1, SumIsNumber
      <4> QED BY <3>3, <4>2, <4>3
    <3>6. /\ SumFunctionOnSet(f, s) = f[x] + i /\ SumFunctionOnSet(g, s) = g[x] + j
          /\ SumFunctionOnSet(h, s) = h[x] + k
      BY <2>2, <3>1, <3>2, <3>3, SumIs
    <3> QED BY <3>4, <3>5, <3>6
  <2> QED BY <2>1, <2>2
<1> HIDE DEF A
<1>3. Nat \subseteq A
  BY <1>1, <1>2, NatSetInduction
<1>4. Cardinality(S) \in A /\ Cardinality(S) \in Nat /\ S \in SUBSET S
  BY <1>3, FS_CardinalityType
<1>5. Split(S)
  BY <1>4 DEF A
<1>6. DOMAIN f = S /\ DOMAIN g = S /\ DOMAIN h = S
  BY <1>0
<1> QED BY <1>5, <1>6 DEF SumFunction

-----------------------------------------------------------------------------
\* Division rounds down.

LEMMA DivFacts ==
    ASSUME NEW a \in Nat, NEW b \in Nat, b > 0
    PROVE  a \div b \in Nat /\ b * (a \div b) <= a /\ a < b * (a \div b) + b
OBVIOUS

LEMMA DivMax ==
    ASSUME NEW a \in Nat, NEW b \in Nat, b > 0, NEW q \in Nat, b * q <= a
    PROVE  q <= a \div b
<1> DEFINE r == a \div b
<1>1. r \in Nat /\ a < b * r + b
  BY DivFacts
<1> HIDE DEF r
<1>2. b * q < b * r + b /\ b * (r + 1) = b * r + b
  BY <1>1
<1>3. q < r + 1
  <2> SUFFICES ASSUME q >= r + 1 PROVE FALSE
    BY <1>1
  <2>1. PICK k \in Nat : q = r + 1 + k
    <3>1. q - (r + 1) \in Nat
      BY <1>1
    <3> QED BY <1>1, <3>1
  <2>2. b * q = b * r + b + b * k /\ b * k >= 0
    BY <1>1, <2>1
  <2> QED BY <1>1, <1>2, <2>2
<1> QED BY <1>1, <1>3 DEF r

LEMMA DivGrows ==
    ASSUME NEW a \in Nat, NEW b \in Nat, NEW n \in Nat \ {0}, a <= b
    PROVE  a \div n \in Nat /\ b \div n \in Nat /\ a \div n <= b \div n
<1>1. a \div n \in Nat /\ n * (a \div n) <= a /\ b \div n \in Nat
  BY DivFacts
<1> QED BY <1>1, DivMax
================================================================================
