--------------------------- MODULE AssetTxs_proofs ---------------------------
(***************************************************************************)
(* Lemmas about the supply counter and about what AssetTxs reads off        *)
(* transactions and blocks, for the theorems on both assets.                *)
(***************************************************************************)
EXTENDS AssetTxs, FiniteSetTheorems, WellFoundedInduction, TLAPS

\* A non-empty set of naturals has a least element.
LEMMA LeastElement ==
    ASSUME NEW S, S \subseteq Nat, S # {}
    PROVE  \E k \in S : \A l \in S : k <= l
<1> DEFINE R == {ss \in Nat \X Nat : ss[1] < ss[2]}
<1>1. R = OpToRel(<, Nat)
    BY DEF OpToRel
<1>2. IsWellFoundedOn(R, Nat)
    BY <1>1, NatLessThanWellFounded
<1>3. PICK x \in S : \A y \in S : <<y, x>> \notin R
    <2> HIDE DEF R
    <2>1. QED
        BY <1>2, WFMin
<1>4. ASSUME NEW y \in S PROVE x <= y
    <2>1. <<y, x>> \in Nat \X Nat /\ <<y, x>>[1] = y /\ <<y, x>>[2] = x
        OBVIOUS
    <2>2. ~(y < x)
        BY <1>3, <2>1
    <2>3. QED
        BY <2>2
<1>5. QED
    BY <1>4
-----------------------------------------------------------------------------
(* Sums over finite sets.  SumFunctionOnSet folds + over a recursive        *)
(* function on the subsets of its argument; these lemmas take it apart.     *)

\* Induction over the subsets of a finite set: a property that a subset has
\* whenever all subsets with one element less have it.
LEMMA SubsetInduction ==
    ASSUME NEW S, IsFiniteSet(S), NEW P,
           \A T \in SUBSET S : (\A x \in T : T \ {x} \in P) => T \in P
    PROVE  S \in P
<1> SUFFICES ASSUME S \notin P PROVE FALSE
    OBVIOUS
<1> DEFINE bad == {T \in SUBSET S : T \notin P}
           cards == {Cardinality(T) : T \in bad}
<1>1. \A T \in SUBSET S : IsFiniteSet(T) /\ Cardinality(T) \in Nat
    BY FS_Subset, FS_CardinalityType
<1>2. cards # {} /\ cards \subseteq Nat
    BY <1>1
<1>3. PICK n \in cards : \A l \in cards : n <= l
    <2> HIDE DEF cards
    <2> QED BY <1>2, LeastElement
<1>4. PICK T \in bad : Cardinality(T) = n
    OBVIOUS
<1>5. ASSUME NEW x \in T PROVE T \ {x} \in P
    <2>1. Cardinality(T \ {x}) = Cardinality(T) - 1
        BY <1>1, <1>4, FS_RemoveElement
    <2>2. Cardinality(T \ {x}) \notin cards
        <3>1. n \in Nat /\ ~(n <= n - 1)
            BY <1>2
        <3> HIDE DEF cards
        <3>2. QED
            BY <1>3, <1>4, <2>1, <3>1
    <2>3. QED
        BY <2>2, <1>4
<1>6. QED
    BY <1>4, <1>5

Pick(s) == CHOOSE x \in s : TRUE
IsSum(f, S, g) == g = [s \in SUBSET S |-> IF s = {} THEN 0 ELSE f[Pick(s)] + g[s \ {Pick(s)}]]

LEMMA PickMember == ASSUME NEW s, s # {} PROVE Pick(s) \in s
BY DEF Pick

LEMMA SumUnfold ==
    ASSUME NEW f, NEW S
    PROVE  SumFunctionOnSet(f, S) = (CHOOSE g : IsSum(f, S, g))[S]
BY Zenon DEF SumFunctionOnSet, FoldFunctionOnSet, MapThenFoldSet, IsSum, Pick

\* The recursion of the fold over the subsets of a finite set has a solution.
LEMMA SumExists ==
    ASSUME NEW f, NEW S, IsFiniteSet(S)
    PROVE  \E g : IsSum(f, S, g)
<1> DEFINE Body(g, s) == IF s = {} THEN 0 ELSE f[Pick(s)] + g[s \ {Pick(s)}]
           Next(g) == [s \in SUBSET S |-> Body(g, s)]
           Upto(n, g) == /\ g = [s \in SUBSET S |-> g[s]]
                         /\ \A s \in SUBSET S : Cardinality(s) <= n => g[s] = Body(g, s)
           bad == {n \in Nat : \A g : ~Upto(n, g)}
<1>1. \A s \in SUBSET S : IsFiniteSet(s) /\ Cardinality(s) \in Nat
    BY FS_Subset, FS_CardinalityType
<1>2. ASSUME bad # {} PROVE FALSE
    <2> HIDE DEF bad
    <2>1. PICK n \in bad : \A l \in bad : n <= l
        <3>1. bad \subseteq Nat
            BY DEF bad
        <3> QED BY <1>2, <3>1, LeastElement
    <2>2. n \in Nat /\ \A g : ~Upto(n, g)
        BY <2>1 DEF bad
    <2>3. CASE n = 0
        <3> DEFINE g == [s \in SUBSET S |-> 0]
        <3>1. ASSUME NEW s \in SUBSET S, Cardinality(s) <= 0 PROVE g[s] = Body(g, s)
            <4>1. s = {}
                BY <1>1, <3>1, FS_EmptySet
            <4>2. QED
                BY <4>1
        <3>2. Upto(n, g)
            BY <2>3, <3>1
        <3>3. QED
            BY <2>2, <3>2
    <2>4. CASE n # 0
        <3>1. n - 1 \in Nat /\ n - 1 \notin bad
            BY <2>1, <2>2, <2>4
        <3>2. PICK g : Upto(n - 1, g)
            BY <3>1 DEF bad
        <3> DEFINE e == Next(g)
        <3>3. ASSUME NEW s \in SUBSET S, Cardinality(s) <= n PROVE e[s] = Body(e, s)
            <4>1. CASE s = {}
                BY <4>1
            <4>2. CASE s # {}
                <5> DEFINE x == Pick(s)
                           r == s \ {x}
                <5>1. x \in s /\ r \in SUBSET S
                    BY <4>2, PickMember
                <5>2. Cardinality(r) <= n - 1
                    <6>1. Cardinality(r) = Cardinality(s) - 1
                        BY <1>1, <5>1, FS_RemoveElement
                    <6>2. QED
                        BY <1>1, <2>2, <3>3, <6>1
                <5>3. g[r] = Body(g, r)
                    BY <3>2, <5>1, <5>2
                <5>4. e[r] = Body(g, r)
                    BY <5>1
                <5>5. e[s] = f[x] + g[r]
                    BY <4>2
                <5>6. QED
                    BY <4>2, <5>3, <5>4, <5>5
            <4>3. QED
                BY <4>1, <4>2
        <3>4. Upto(n, e)
            <4>1. e = [s \in SUBSET S |-> e[s]]
                OBVIOUS
            <4> HIDE DEF e
            <4> QED BY <3>3, <4>1
        <3>5. QED
            BY <2>2, <3>4
    <2>5. QED
        BY <2>3, <2>4
<1>3. Cardinality(S) \in Nat
    BY <1>1
<1>4. PICK g : Upto(Cardinality(S), g)
    BY <1>2, <1>3
<1>5. \A s \in SUBSET S : Cardinality(s) <= Cardinality(S)
    BY FS_Subset
<1>6. g = Next(g)
    BY <1>4, <1>5
<1>7. QED
    BY <1>6 DEF IsSum

\* Two solutions agree where both are defined and sum the same terms.
LEMMA SumAgree ==
    ASSUME NEW f, NEW e, NEW S, NEW T, NEW g, NEW h, IsSum(f, S, g), IsSum(e, T, h),
           NEW s, IsFiniteSet(s), s \subseteq S, s \subseteq T, \A x \in s : f[x] = e[x]
    PROVE  g[s] = h[s]
<1> DEFINE P == {r \in SUBSET s : g[r] = h[r]}
<1>1. ASSUME NEW r \in SUBSET s, \A x \in r : r \ {x} \in P
      PROVE  g[r] = h[r]
    <2>1. /\ g[r] = IF r = {} THEN 0 ELSE f[Pick(r)] + g[r \ {Pick(r)}]
          /\ h[r] = IF r = {} THEN 0 ELSE e[Pick(r)] + h[r \ {Pick(r)}]
        BY DEF IsSum
    <2>2. r # {} => Pick(r) \in r
        BY PickMember
    <2>3. QED
        BY <1>1, <2>1, <2>2
<1>2. s \in P
    <2>1. \A r \in SUBSET s : (\A x \in r : r \ {x} \in P) => r \in P
        BY <1>1
    <2> HIDE DEF P
    <2>2. QED
        BY <2>1, SubsetInduction
<1>3. QED
    BY <1>2

\* The sum depends only on the terms.
LEMMA SumSame ==
    ASSUME NEW f, NEW e, NEW S, IsFiniteSet(S), \A x \in S : f[x] = e[x]
    PROVE  SumFunctionOnSet(f, S) = SumFunctionOnSet(e, S)
<1> DEFINE g == CHOOSE g : IsSum(f, S, g)
           h == CHOOSE h : IsSum(e, S, h)
<1>1. IsSum(f, S, g) /\ IsSum(e, S, h)
    BY SumExists
<1>2. SumFunctionOnSet(f, S) = g[S] /\ SumFunctionOnSet(e, S) = h[S]
    BY SumUnfold
<1> HIDE DEF g, h
<1>3. g[S] = h[S]
    BY <1>1, SumAgree
<1>4. QED
    BY <1>2, <1>3

LEMMA SumEmpty == ASSUME NEW f PROVE SumFunctionOnSet(f, {}) = 0
<1>1. IsSum(f, {}, CHOOSE g : IsSum(f, {}, g))
    BY SumExists, FS_EmptySet
<1>2. \A g : IsSum(f, {}, g) => g[{}] = 0
    BY DEF IsSum
<1>3. QED
    BY <1>1, <1>2, SumUnfold

\* The first step of the fold.
LEMMA SumStep ==
    ASSUME NEW f, NEW S, IsFiniteSet(S), S # {}
    PROVE  SumFunctionOnSet(f, S) = f[Pick(S)] + SumFunctionOnSet(f, S \ {Pick(S)})
<1> DEFINE r == S \ {Pick(S)}
           g == CHOOSE g : IsSum(f, S, g)
           h == CHOOSE h : IsSum(f, r, h)
<1>1. IsFiniteSet(r)
    BY FS_Subset
<1>2. IsSum(f, S, g) /\ IsSum(f, r, h)
    BY <1>1, SumExists
<1>3. SumFunctionOnSet(f, S) = g[S] /\ SumFunctionOnSet(f, r) = h[r]
    BY SumUnfold
<1> HIDE DEF g, h
<1>4. g[S] = f[Pick(S)] + g[r]
    BY <1>2 DEF IsSum
<1>5. g[r] = h[r]
    <2>1. r \subseteq S /\ r \subseteq r
        OBVIOUS
    <2> HIDE DEF r
    <2>2. QED
        BY <1>1, <1>2, <2>1, SumAgree
<1>6. QED
    BY <1>3, <1>4, <1>5

\* Sums of integers are integers.
LEMMA SumInt ==
    ASSUME NEW f, NEW S, IsFiniteSet(S), \A x \in S : f[x] \in Int
    PROVE  SumFunctionOnSet(f, S) \in Int
<1> DEFINE P == {T \in SUBSET S : SumFunctionOnSet(f, T) \in Int}
<1>1. ASSUME NEW T \in SUBSET S, \A x \in T : T \ {x} \in P
      PROVE  T \in P
    <2>1. CASE T = {}
        BY <2>1, SumEmpty
    <2>2. CASE T # {}
        <3>1. IsFiniteSet(T) /\ Pick(T) \in T
            BY <2>2, FS_Subset, PickMember
        <3>2. SumFunctionOnSet(f, T) = f[Pick(T)] + SumFunctionOnSet(f, T \ {Pick(T)})
            BY <2>2, <3>1, SumStep
        <3>3. QED
            BY <1>1, <3>1, <3>2
    <2>3. QED
        BY <2>1, <2>2
<1> HIDE DEF P
<1>2. S \in P
    BY <1>1, SubsetInduction
<1>3. QED
    BY <1>2 DEF P

\* Which element is taken first does not matter.
LEMMA SumRemove ==
    ASSUME NEW f, NEW S, IsFiniteSet(S), \A x \in S : f[x] \in Int, NEW z \in S
    PROVE  SumFunctionOnSet(f, S) = f[z] + SumFunctionOnSet(f, S \ {z})
<1> DEFINE P == {T \in SUBSET S : \A x \in T : SumFunctionOnSet(f, T) = f[x] + SumFunctionOnSet(f, T \ {x})}
<1>0. \A T \in SUBSET S : IsFiniteSet(T) /\ SumFunctionOnSet(f, T) \in Int
    BY FS_Subset, SumInt
<1>1. ASSUME NEW T \in SUBSET S, \A x \in T : T \ {x} \in P
      PROVE  T \in P
    <2> SUFFICES ASSUME NEW x \in T PROVE SumFunctionOnSet(f, T) = f[x] + SumFunctionOnSet(f, T \ {x})
        OBVIOUS
    <2> DEFINE y == Pick(T)
    <2>1. y \in T /\ SumFunctionOnSet(f, T) = f[y] + SumFunctionOnSet(f, T \ {y})
        BY <1>0, SumStep, PickMember
    <2> HIDE DEF y
    <2>2. CASE x = y
        BY <2>1, <2>2
    <2>3. CASE x # y
        <3>1. SumFunctionOnSet(f, T \ {y}) = f[x] + SumFunctionOnSet(f, (T \ {y}) \ {x})
            BY <1>1, <2>1, <2>3
        <3>2. SumFunctionOnSet(f, T \ {x}) = f[y] + SumFunctionOnSet(f, (T \ {x}) \ {y})
            BY <1>1, <2>1, <2>3
        <3>3. (T \ {y}) \ {x} = (T \ {x}) \ {y}
            OBVIOUS
        <3>4. f[x] \in Int /\ f[y] \in Int /\ SumFunctionOnSet(f, (T \ {x}) \ {y}) \in Int
            BY <1>0, <2>1
        <3>5. \A a, b, c \in Int : a + (b + c) = b + (a + c)
            OBVIOUS
        <3> DEFINE q == SumFunctionOnSet(f, (T \ {x}) \ {y})
        <3>6. SumFunctionOnSet(f, T) = f[y] + (f[x] + q)
            BY <2>1, <3>1, <3>3, Zenon
        <3>7. f[y] + (f[x] + q) = f[x] + (f[y] + q)
            <4> HIDE DEF q
            <4> QED BY <3>4, <3>5 DEF q
        <3>8. QED
            BY <3>2, <3>6, <3>7, Zenon
    <2>4. QED
        BY <2>2, <2>3
<1> HIDE DEF P
<1>2. S \in P
    BY <1>1, SubsetInduction
<1>3. QED
    BY <1>2 DEF P

\* One more element.
LEMMA SumAdd ==
    ASSUME NEW f, NEW S, IsFiniteSet(S), NEW z, z \notin S,
           \A x \in S \cup {z} : f[x] \in Int
    PROVE  SumFunctionOnSet(f, S \cup {z}) = SumFunctionOnSet(f, S) + f[z]
<1>1. IsFiniteSet(S \cup {z})
    BY FS_AddElement
<1>2. SumFunctionOnSet(f, S \cup {z}) = f[z] + SumFunctionOnSet(f, (S \cup {z}) \ {z})
    BY <1>1, SumRemove
<1>3. (S \cup {z}) \ {z} = S
    OBVIOUS
<1>4. SumFunctionOnSet(f, S) \in Int /\ f[z] \in Int
    BY SumInt
<1>5. \A a, b \in Int : a + b = b + a
    OBVIOUS
<1>6. QED
    BY <1>2, <1>3, <1>4, <1>5, Zenon

\* The sum over two sets that have no element in common.
LEMMA SumUnion ==
    ASSUME NEW f, NEW S, NEW T, IsFiniteSet(S), IsFiniteSet(T), S \cap T = {},
           \A x \in S \cup T : f[x] \in Int
    PROVE  SumFunctionOnSet(f, S \cup T) = SumFunctionOnSet(f, S) + SumFunctionOnSet(f, T)
<1> DEFINE P == {U \in SUBSET T : SumFunctionOnSet(f, S \cup U) = SumFunctionOnSet(f, S) + SumFunctionOnSet(f, U)}
<1>0. SumFunctionOnSet(f, S) \in Int
    BY SumInt
<1>1. ASSUME NEW U \in SUBSET T, \A x \in U : U \ {x} \in P
      PROVE  U \in P
    <2>1. CASE U = {}
        <3>1. S \cup U = S
            BY <2>1
        <3>2. QED
            BY <1>0, <2>1, <3>1, SumEmpty
    <2>2. CASE U # {}
        <3> DEFINE x == Pick(U)
                   r == U \ {x}
        <3>1. x \in U /\ x \notin S /\ x \notin r /\ r \cup {x} = U /\ x \notin S \cup r
            BY <2>2, PickMember
        <3>2. IsFiniteSet(r) /\ IsFiniteSet(S \cup r)
            BY FS_Subset, FS_Union
        <3>3. S \cup U = (S \cup r) \cup {x}
            BY <3>1
        <3>4. r \in P
            BY <1>1, <3>1
        <3>5. f[x] \in Int /\ SumFunctionOnSet(f, r) \in Int
            BY <3>1, <3>2, SumInt
        <3> HIDE DEF x, r
        <3>6. SumFunctionOnSet(f, (S \cup r) \cup {x}) = SumFunctionOnSet(f, S \cup r) + f[x]
            <4>1. \A y \in (S \cup r) \cup {x} : f[y] \in Int
                BY <3>1
            <4>2. QED
                BY <3>1, <3>2, <4>1, SumAdd
        <3>7. SumFunctionOnSet(f, r \cup {x}) = SumFunctionOnSet(f, r) + f[x]
            <4>1. \A y \in r \cup {x} : f[y] \in Int
                BY <3>1
            <4>2. QED
                BY <3>1, <3>2, <4>1, SumAdd
        <3>8. \A a, b, c \in Int : (a + b) + c = a + (b + c)
            OBVIOUS
        <3>9. SumFunctionOnSet(f, S \cup r) = SumFunctionOnSet(f, S) + SumFunctionOnSet(f, r)
            BY <3>4
        <3>10. SumFunctionOnSet(f, S \cup U) = SumFunctionOnSet(f, S) + SumFunctionOnSet(f, U)
            <4>1. SumFunctionOnSet(f, S \cup U) = (SumFunctionOnSet(f, S) + SumFunctionOnSet(f, r)) + f[x]
                BY <3>3, <3>6, <3>9, Zenon
            <4>2. SumFunctionOnSet(f, U) = SumFunctionOnSet(f, r) + f[x]
                BY <3>1, <3>7, Zenon
            <4>3. (SumFunctionOnSet(f, S) + SumFunctionOnSet(f, r)) + f[x] = SumFunctionOnSet(f, S) + (SumFunctionOnSet(f, r) + f[x])
                BY <1>0, <3>5, <3>8
            <4>4. QED
                BY <4>1, <4>2, <4>3, Zenon
        <3>11. QED
            BY <3>10
    <2>3. QED
        BY <2>1, <2>2
<1> HIDE DEF P
<1>2. T \in P
    BY <1>1, SubsetInduction
<1>3. QED
    BY <1>2 DEF P

\* Sums of naturals are naturals.
LEMMA SumNat ==
    ASSUME NEW f, NEW S, IsFiniteSet(S), \A x \in S : f[x] \in Nat
    PROVE  SumFunctionOnSet(f, S) \in Nat
<1> DEFINE P == {T \in SUBSET S : SumFunctionOnSet(f, T) \in Nat}
<1>1. ASSUME NEW T \in SUBSET S, \A x \in T : T \ {x} \in P
      PROVE  T \in P
    <2>1. CASE T = {}
        BY <2>1, SumEmpty
    <2>2. CASE T # {}
        <3>1. IsFiniteSet(T) /\ Pick(T) \in T
            BY <2>2, FS_Subset, PickMember
        <3>2. SumFunctionOnSet(f, T) = f[Pick(T)] + SumFunctionOnSet(f, T \ {Pick(T)})
            BY <2>2, <3>1, SumStep
        <3>3. QED
            BY <1>1, <3>1, <3>2
    <2>3. QED
        BY <2>1, <2>2
<1> HIDE DEF P
<1>2. S \in P
    BY <1>1, SubsetInduction
<1>3. QED
    BY <1>2 DEF P
-----------------------------------------------------------------------------
(* Recursion over an interval.                                              *)

\* Induction over an interval.
LEMMA IntervalInduction ==
    ASSUME NEW m \in Nat, NEW P, 0 \in P, \A k \in 1..m : k - 1 \in P => k \in P
    PROVE  \A k \in 0..m : k \in P
<1> SUFFICES ASSUME NEW j \in 0..m, j \notin P PROVE FALSE
    OBVIOUS
<1> DEFINE bad == {k \in 0..m : k \notin P}
<1>1. bad # {} /\ bad \subseteq Nat
    OBVIOUS
<1>2. PICK k \in bad : \A l \in bad : k <= l
    <2> HIDE DEF bad
    <2> QED BY <1>1, LeastElement
<1>3. k \in 1..m /\ k - 1 \in 0..m
    BY <1>2
<1>4. k - 1 \notin bad
    BY <1>2, <1>3
<1>5. QED
    BY <1>2, <1>3, <1>4

\* A step function can be iterated.
StepFunction(n, X, F) == F \in [X \X (1..n) -> X]
Iterates(n, X, x, F, r) ==
    r \in [0..n -> X] /\ r[0] = x /\ \A k \in 1..n : r[k] = F[<<r[k - 1], k>>]

LEMMA IterationExists ==
    ASSUME NEW n \in Nat, NEW X, NEW x0 \in X, NEW F, StepFunction(n, X, F)
    PROVE  \E r : Iterates(n, X, x0, F, r)
<1>0. F \in [X \X (1..n) -> X]
    BY DEF StepFunction
<1> DEFINE Upto(m, r) == r[0] = x0 /\ \A k \in 1..m : r[k] = F[<<r[k - 1], k>>]
           P == {m \in 0..n : \E r \in [0..n -> X] : Upto(m, r)}
<1>1. 0 \in P
    <2> DEFINE r == [k \in 0..n |-> x0]
    <2>1. r \in [0..n -> X] /\ Upto(0, r)
        OBVIOUS
    <2>2. 0 \in 0..n
        OBVIOUS
    <2> HIDE DEF r, Upto
    <2>3. QED
        BY <2>1, <2>2
<1>2. ASSUME NEW m \in 1..n, m - 1 \in P PROVE m \in P
    <2>1. PICK r \in [0..n -> X] : Upto(m - 1, r)
        BY <1>2
    <2>2. r[m - 1] \in X
        OBVIOUS
    <2>3. F[<<r[m - 1], m>>] \in X
        BY <1>0, <2>2
    <2> DEFINE y == F[<<r[m - 1], m>>]
               q == [r EXCEPT ![m] = y]
    <2>4. q \in [0..n -> X] /\ q[m] = y /\ \A k \in 0..(m - 1) : q[k] = r[k]
        BY <2>3
    <2> HIDE DEF y, q
    <2>5. ASSUME NEW k \in 1..m PROVE q[k] = F[<<q[k - 1], k>>]
        <3>1. CASE k = m
            <4>1. m - 1 \in 0..(m - 1)
                OBVIOUS
            <4>2. q[m - 1] = r[m - 1] /\ q[m] = y
                BY <2>4, <4>1
            <4>3. QED
                BY <3>1, <4>2 DEF y
        <3>2. CASE k # m
            <4>1. k \in 1..(m - 1) /\ k \in 0..(m - 1) /\ k - 1 \in 0..(m - 1)
                BY <3>2
            <4>2. QED
                BY <2>1, <2>4, <4>1
        <3>3. QED
            BY <3>1, <3>2
    <2>6. Upto(m, q)
        <3>1. q[0] = x0
            BY <2>1, <2>4
        <3>2. QED
            BY <2>5, <3>1
    <2>7. QED
        BY <2>4, <2>6
<1>3. n \in P
    <2> HIDE DEF P
    <2>1. \A k \in 0..n : k \in P
        BY <1>1, <1>2, IntervalInduction
    <2> QED BY <2>1
<1>4. QED
    BY <1>3 DEF Iterates

-----------------------------------------------------------------------------
(* The supply counter.                                                      *)

\* The four checked operations of the supply counter keep it well formed and
\* keep CheckInvariant() true, whether or not they succeed.
LEMMA SupplyOpsSafe ==
    ASSUME NEW s \in SupplyType, SupplyInvariant(s), NEW n \in Int
    PROVE  /\ Mint(s, n) \in SupplyType /\ SupplyInvariant(Mint(s, n))
           /\ Burn(s, n) \in SupplyType /\ SupplyInvariant(Burn(s, n))
           /\ UndoMint(s, n) \in SupplyType /\ SupplyInvariant(UndoMint(s, n))
           /\ UndoBurn(s, n) \in SupplyType /\ SupplyInvariant(UndoBurn(s, n))
<1> USE MaxMoneyAssumption
    DEF SupplyType, SupplyInvariant, MoneyRange, Outstanding
<1>1. Mint(s, n) \in SupplyType /\ SupplyInvariant(Mint(s, n))
    BY DEF Mint, CanMint
<1>2. Burn(s, n) \in SupplyType /\ SupplyInvariant(Burn(s, n))
    BY DEF Burn, CanBurn
<1>3. UndoMint(s, n) \in SupplyType /\ SupplyInvariant(UndoMint(s, n))
    BY DEF UndoMint, CanUndoMint
<1>4. UndoBurn(s, n) \in SupplyType /\ SupplyInvariant(UndoBurn(s, n))
    BY DEF UndoBurn, CanUndoBurn
<1>5. QED
    BY <1>1, <1>2, <1>3, <1>4

\* So do the two composites that ConnectBlock and DisconnectBlock apply.
LEMMA DeltaSafe ==
    ASSUME NEW s \in SupplyType, SupplyInvariant(s), NEW m \in Int, NEW b \in Int
    PROVE  /\ Applied(s, m, b) \in SupplyType /\ SupplyInvariant(Applied(s, m, b))
           /\ Reversed(s, m, b) \in SupplyType /\ SupplyInvariant(Reversed(s, m, b))
<1>1. /\ Mint(s, m) \in SupplyType /\ SupplyInvariant(Mint(s, m))
      /\ UndoMint(s, m) \in SupplyType /\ SupplyInvariant(UndoMint(s, m))
    BY SupplyOpsSafe
<1>2. QED
    BY <1>1, SupplyOpsSafe DEF Applied, Reversed
-----------------------------------------------------------------------------
(* Transactions, blocks and views.                                          *)

\* First picks a member.
LEMMA FirstMember ==
    ASSUME NEW S, S \subseteq Nat, S # {}
    PROVE  First(S) \in S
BY LeastElement DEF First

\* What type correctness needs of the operators that read transactions.
LEMMA TxTypes ==
    ASSUME NEW t \in Txs
    PROVE  /\ Ins(t) \subseteq Outpoints /\ Outs(t) \subseteq Outpoints
           /\ IsAuthorityTx(t) \in BOOLEAN
           /\ IsAuthorityTx(t) => /\ AuthorityOutput(t) \in Outs(t)
                                  /\ Kind[AuthorityOutput(t)] = "marker"
<1>1. vin[t] \in Seq(Outpoints) /\ vout[t] \in Seq(Outpoints)
    BY TxConstants
<1>2. Ins(t) \subseteq Outpoints /\ Outs(t) \subseteq Outpoints
    BY <1>1 DEF Ins, Outs, Elems
<1>3. ASSUME IsAuthorityTx(t)
      PROVE  AuthorityOutput(t) \in Outs(t) /\ Kind[AuthorityOutput(t)] = "marker"
    <2> DEFINE ks == {k \in DOMAIN vout[t] : Kind[vout[t][k]] = "marker"}
    <2>1. ks # {} /\ ks \subseteq Nat
        BY <1>1, <1>3 DEF IsAuthorityTx
    <2>2. First(ks) \in ks
        BY <2>1, FirstMember
    <2>3. QED
        BY <2>2 DEF AuthorityOutput, Outs, Elems
<1>4. QED
    BY <1>2, <1>3 DEF IsAuthorityTx

\* A position of a block of the chain holds a transaction.
LEMMA BlockTx ==
    ASSUME NEW b \in Blocks, NEW k \in 1..Len(b)
    PROVE  b[k] \in Txs
<1>1. b \in Seq(Txs)
    BY TxConstants
<1>2. QED
    BY <1>1

\* The views that ConnectBlock and DisconnectBlock build stay inside Outpoints.
LEMMA ViewTypes ==
    ASSUME NEW b \in Blocks, NEW v \in SUBSET Outpoints
    PROVE  /\ UndoCoins(v, b) \in SUBSET Outpoints
           /\ \A k \in 1..Len(b) : Spend(b[k], v) \in SUBSET Outpoints
           /\ RestoredOutpoint(b, v) \in Outpoints \cup {NoOutpoint} \/ AuthorityTxs(b) = {}
<1>1. b \in Seq(Txs) /\ DOMAIN b = 1..Len(b) /\ Len(b) \in Nat
    BY TxConstants
<1>2. \A k \in DOMAIN b : Ins(b[k]) \subseteq Outpoints /\ Outs(b[k]) \subseteq Outpoints
    BY <1>1, TxTypes, BlockTx
<1>3. UndoCoins(v, b) \in SUBSET Outpoints
    BY <1>2 DEF UndoCoins
<1>4. ASSUME AuthorityTxs(b) # {}
      PROVE  RestoredOutpoint(b, v) \in Outpoints \cup {NoOutpoint}
    <2> DEFINE t == b[First(AuthorityTxs(b))]
               ks == {k \in DOMAIN vin[t] : vin[t][k] \in v /\ Kind[vin[t][k]] = "marker"}
    <2>a. AuthorityTxs(b) \subseteq Nat
        BY <1>1 DEF AuthorityTxs
    <2>1. First(AuthorityTxs(b)) \in AuthorityTxs(b)
        BY <2>a, <1>4, FirstMember
    <2>2. t \in Txs
        BY <1>1, <2>1 DEF AuthorityTxs
    <2>3. vin[t] \in Seq(Outpoints)
        BY <2>2, TxConstants
    <2>4. ks \subseteq Nat
        BY <2>3
    <2>5. ks # {} => First(ks) \in ks
        BY <2>4, FirstMember
    <2>6. QED
        BY <2>3, <2>5 DEF RestoredOutpoint
<1>5. QED
    BY <1>1, <1>2, <1>3, <1>4 DEF Spend
-----------------------------------------------------------------------------
(* The UTXO set of a chain.  Without recursion: what its first n blocks     *)
(* created, less what they spent.                                           *)

InsUpTo(b, m) == UNION {Ins(b[k]) : k \in 1..m}
OutsUpTo(b, m) == UNION {Outs(b[k]) : k \in 1..m}
Spent(c, n) == UNION {InsUpTo(c[h], Len(c[h])) : h \in 1..n}
Created(c, n) == GenesisCoins \cup UNION {OutsUpTo(c[h], Len(c[h])) : h \in 1..n}
CoinsAt(c, n) == Created(c, n) \ Spent(c, n)

\* The view after the first m transactions of block b, which found their
\* inputs unspent.
ViewAt(v, b, m) == (v \cup OutsUpTo(b, m)) \ InsUpTo(b, m)
Fits(v, b, m) == \A k \in 1..m : Ins(b[k]) # {} /\ Ins(b[k]) \subseteq ViewAt(v, b, k - 1)

\* Every block of the chain found its inputs unspent.
Linear(c) == \A h \in 1..Len(c) : Fits(CoinsAt(c, h - 1), c[h], Len(c[h]))

\* A member of Seq(Blocks), position by position.
LEMMA ChainTx ==
    ASSUME NEW c \in Seq(Blocks), NEW h \in 1..Len(c)
    PROVE  /\ c[h] \in Blocks /\ c[h] \in Seq(Txs) /\ Len(c[h]) \in Nat
           /\ DOMAIN c[h] = 1..Len(c[h])
           /\ \A k \in 1..Len(c[h]) : c[h][k] \in Txs
<1>1. c[h] \in Blocks
    OBVIOUS
<1>2. c[h] \in Seq(Txs)
    BY <1>1, TxConstants
<1>3. QED
    BY <1>1, <1>2

\* One block or one transaction more.
LEMMA UpToStep ==
    ASSUME NEW b, NEW m \in Nat
    PROVE  /\ InsUpTo(b, m + 1) = InsUpTo(b, m) \cup Ins(b[m + 1])
           /\ OutsUpTo(b, m + 1) = OutsUpTo(b, m) \cup Outs(b[m + 1])
           /\ InsUpTo(b, 0) = {} /\ OutsUpTo(b, 0) = {}
<1>1. 1..(m + 1) = (1..m) \cup {m + 1} /\ 1..0 = {}
    OBVIOUS
<1>2. QED
    BY <1>1 DEF InsUpTo, OutsUpTo

LEMMA ChainStep ==
    ASSUME NEW c, NEW n \in Nat
    PROVE  /\ Spent(c, n + 1) = Spent(c, n) \cup InsUpTo(c[n + 1], Len(c[n + 1]))
           /\ Created(c, n + 1) = Created(c, n) \cup OutsUpTo(c[n + 1], Len(c[n + 1]))
           /\ Spent(c, 0) = {} /\ Created(c, 0) = GenesisCoins
<1>1. 1..(n + 1) = (1..n) \cup {n + 1} /\ 1..0 = {}
    OBVIOUS
<1>2. QED
    BY <1>1 DEF Spent, Created

LEMMA ViewStart == ASSUME NEW v, NEW b PROVE ViewAt(v, b, 0) = v /\ Fits(v, b, 0)
<1>1. 1..0 = {}
    OBVIOUS
<1>2. QED
    BY <1>1 DEF ViewAt, Fits, InsUpTo, OutsUpTo

\* What a chain or a block spent was created before.
LEMMA SpentCreated ==
    ASSUME NEW c \in Seq(Blocks), Linear(c), NEW n \in 0..Len(c)
    PROVE  Spent(c, n) \subseteq Created(c, n)
<1> SUFFICES ASSUME NEW o \in Spent(c, n) PROVE o \in Created(c, n)
    OBVIOUS
<1>h. PICK h \in 1..n : o \in InsUpTo(c[h], Len(c[h]))
    BY DEF Spent
<1>1. PICK k \in 1..Len(c[h]) : o \in Ins(c[h][k])
    BY <1>h DEF InsUpTo
<1>2. h \in 1..Len(c) /\ h \in Nat /\ h - 1 \in Nat /\ Len(c) \in Nat
    OBVIOUS
<1>3. Len(c[h]) \in Nat
    BY <1>2, ChainTx
<1>4. o \in ViewAt(CoinsAt(c, h - 1), c[h], k - 1)
    BY <1>1, <1>2 DEF Linear, Fits
<1>5. o \in Created(c, h - 1) \/ o \in OutsUpTo(c[h], k - 1)
    BY <1>4 DEF ViewAt, CoinsAt
<1>6. 1..(h - 1) \subseteq 1..n /\ 1..(k - 1) \subseteq 1..Len(c[h])
    BY <1>2, <1>3
<1>7. CASE o \in Created(c, h - 1)
    BY <1>6, <1>7 DEF Created
<1>8. CASE o \in OutsUpTo(c[h], k - 1)
    <2>1. o \in OutsUpTo(c[h], Len(c[h]))
        BY <1>6, <1>8 DEF OutsUpTo
    <2>2. QED
        BY <2>1 DEF Created
<1>9. QED
    BY <1>5, <1>7, <1>8

LEMMA FitsCreated ==
    ASSUME NEW v, NEW b, NEW m \in Nat, Fits(v, b, m)
    PROVE  InsUpTo(b, m) \subseteq v \cup OutsUpTo(b, m)
<1> SUFFICES ASSUME NEW k \in 1..m, NEW o \in Ins(b[k]) PROVE o \in v \cup OutsUpTo(b, m)
    BY DEF InsUpTo
<1>1. o \in v \cup OutsUpTo(b, k - 1)
    BY DEF Fits, ViewAt
<1>2. 1..(k - 1) \subseteq 1..m
    OBVIOUS
<1>3. QED
    BY <1>1, <1>2 DEF OutsUpTo

\* A transaction whose inputs are unspent is not in the chain, nor in the
\* block so far: its outputs are new.
LEMMA FreshOuts ==
    ASSUME NEW c \in Seq(Blocks), NEW n \in 0..Len(c),
           NEW b \in Blocks, NEW m \in 0..Len(b),
           NEW t \in Txs, Ins(t) # {}, Ins(t) \subseteq ViewAt(CoinsAt(c, n), b, m),
           Linear(c), Fits(CoinsAt(c, n), b, m)
    PROVE  Outs(t) \cap (Created(c, n) \cup OutsUpTo(b, m)) = {}
<1> SUFFICES ASSUME NEW o \in Outs(t), o \in Created(c, n) \cup OutsUpTo(b, m) PROVE FALSE
    OBVIOUS
<1>1. o \notin GenesisCoins
    BY OutpointsAssumption
<1>2. PICK i \in Ins(t) : TRUE
    OBVIOUS
<1>3. i \in ViewAt(CoinsAt(c, n), b, m)
    BY <1>2
<1>4. i \notin InsUpTo(b, m)
    BY <1>3 DEF ViewAt
<1>5. CASE o \in OutsUpTo(b, m)
    <2>1. PICK k \in 1..m : o \in Outs(b[k])
        BY <1>5 DEF OutsUpTo
    <2>2. b[k] \in Txs
        BY TxConstants, BlockTx
    <2>3. b[k] = t
        BY <2>1, <2>2, OutpointsAssumption
    <2>4. QED
        BY <1>2, <1>4, <2>1, <2>3 DEF InsUpTo
<1>6. CASE o \in Created(c, n)
    <2>h. PICK h \in 1..n : o \in OutsUpTo(c[h], Len(c[h]))
        BY <1>1, <1>6 DEF Created
    <2>1. PICK k \in 1..Len(c[h]) : o \in Outs(c[h][k])
        BY <2>h DEF OutsUpTo
    <2>2. c[h][k] \in Txs /\ h \in 1..Len(c)
        BY ChainTx
    <2>3. c[h][k] = t
        BY <2>1, <2>2, OutpointsAssumption
    <2>4. i \in Spent(c, n)
        BY <1>2, <2>1, <2>3 DEF Spent, InsUpTo
    <2>5. Spent(c, n) \subseteq Created(c, n)
        BY SpentCreated
    <2>6. i \in OutsUpTo(b, m)
        BY <1>3, <2>4 DEF ViewAt, CoinsAt
    <2>7. PICK l \in 1..m : i \in Outs(b[l])
        BY <2>6 DEF OutsUpTo
    <2>8. QED
        \* i was created in the chain, and again in the block
        <3>1. i \in Created(c, n)
            BY <2>4, <2>5
        <3> DEFINE bad == {q \in 1..m : Outs(b[q]) \cap Created(c, n) # {}}
        <3>2. bad # {} /\ bad \subseteq Nat
            <4>1. l \in bad
                BY <2>7, <3>1
            <4>2. 1..m \subseteq Nat
                OBVIOUS
            <4>3. QED
                BY <4>1, <4>2
        <3>3. PICK q \in bad : \A r \in bad : q <= r
            <4> HIDE DEF bad
            <4> QED BY <3>2, LeastElement
        <3>4. Ins(b[q]) # {} /\ Ins(b[q]) \subseteq ViewAt(CoinsAt(c, n), b, q - 1)
            BY DEF Fits
        <3>5. b[q] \in Txs
            BY TxConstants, BlockTx
        <3>6. PICK p \in Outs(b[q]) : p \in Created(c, n)
            OBVIOUS
        <3>7. p \notin GenesisCoins
            BY <3>5, OutpointsAssumption
        <3>h. PICK g \in 1..n : p \in OutsUpTo(c[g], Len(c[g]))
            BY <3>6, <3>7 DEF Created
        <3>8. PICK j \in 1..Len(c[g]) : p \in Outs(c[g][j])
            BY <3>h DEF OutsUpTo
        <3>9. c[g][j] \in Txs /\ g \in 1..Len(c)
            BY ChainTx
        <3>10. c[g][j] = b[q]
            BY <3>5, <3>6, <3>8, <3>9, OutpointsAssumption
        <3>11. PICK y \in Ins(b[q]) : TRUE
            BY <3>4
        <3>12. y \in Spent(c, n)
            BY <3>8, <3>10, <3>11 DEF Spent, InsUpTo
        <3>13. y \in OutsUpTo(b, q - 1) /\ y \in Created(c, n)
            BY <2>5, <3>4, <3>11, <3>12 DEF ViewAt, CoinsAt
        <3>14. PICK r \in 1..(q - 1) : y \in Outs(b[r])
            BY <3>13 DEF OutsUpTo
        <3>15. r \in bad
            BY <3>13, <3>14
        <3>16. QED
            BY <3>3, <3>14, <3>15
<1>7. QED
    BY <1>5, <1>6

\* All outputs of a block that fits the chain are new.
LEMMA FreshBlock ==
    ASSUME NEW c \in Seq(Blocks), NEW n \in 0..Len(c), Linear(c),
           NEW b \in Blocks, NEW m \in 0..Len(b), Fits(CoinsAt(c, n), b, m)
    PROVE  OutsUpTo(b, m) \cap Created(c, n) = {}
<1> SUFFICES ASSUME NEW k \in 1..m PROVE Outs(b[k]) \cap Created(c, n) = {}
    BY DEF OutsUpTo
<1>1. b \in Seq(Txs) /\ Len(b) \in Nat /\ k - 1 \in 0..Len(b) /\ b[k] \in Txs
    BY TxConstants
<1>2. Fits(CoinsAt(c, n), b, k - 1)
    BY DEF Fits
<1>3. Ins(b[k]) # {} /\ Ins(b[k]) \subseteq ViewAt(CoinsAt(c, n), b, k - 1)
    BY DEF Fits
<1>4. QED
    BY <1>1, <1>2, <1>3, FreshOuts

\* UpdateCoins moves the view on by one transaction.
LEMMA SpendView ==
    ASSUME NEW c \in Seq(Blocks), NEW n \in 0..Len(c), Linear(c),
           NEW b \in Blocks, NEW m \in Nat, m < Len(b), Fits(CoinsAt(c, n), b, m),
           Ins(b[m + 1]) # {}, Ins(b[m + 1]) \subseteq ViewAt(CoinsAt(c, n), b, m)
    PROVE  /\ Spend(b[m + 1], ViewAt(CoinsAt(c, n), b, m)) = ViewAt(CoinsAt(c, n), b, m + 1)
           /\ Fits(CoinsAt(c, n), b, m + 1)
<1> DEFINE v == CoinsAt(c, n)
           t == b[m + 1]
<1>1. b \in Seq(Txs) /\ Len(b) \in Nat /\ m \in 0..Len(b) /\ m + 1 \in 1..Len(b)
    BY TxConstants
<1>2. t \in Txs
    BY <1>1
<1>3. Outs(t) \cap (Created(c, n) \cup OutsUpTo(b, m)) = {}
    BY <1>1, <1>2, FreshOuts
<1>4. InsUpTo(b, m) \subseteq v \cup OutsUpTo(b, m)
    BY FitsCreated
<1>5. v \subseteq Created(c, n)
    BY DEF CoinsAt
<1>6. Ins(t) \subseteq v \cup OutsUpTo(b, m)
    BY DEF ViewAt
<1>7. Outs(t) \cap (InsUpTo(b, m) \cup Ins(t)) = {}
    <2> HIDE DEF v, t
    <2> QED BY <1>3, <1>4, <1>5, <1>6
<1>8. /\ InsUpTo(b, m + 1) = InsUpTo(b, m) \cup Ins(t)
      /\ OutsUpTo(b, m + 1) = OutsUpTo(b, m) \cup Outs(t)
    BY UpToStep
<1>9. Spend(t, ViewAt(v, b, m)) = ViewAt(v, b, m + 1)
    <2> HIDE DEF v, t
    <2> QED BY <1>7, <1>8 DEF Spend, ViewAt
<1>10. Fits(v, b, m + 1)
    <2> SUFFICES ASSUME NEW k \in 1..(m + 1)
                 PROVE  Ins(b[k]) # {} /\ Ins(b[k]) \subseteq ViewAt(v, b, k - 1)
        BY DEF Fits
    <2>1. CASE k = m + 1
        BY <2>1
    <2>2. CASE k \in 1..m
        BY <2>2 DEF Fits
    <2>3. QED
        BY <2>1, <2>2
<1>11. QED
    BY <1>9, <1>10

\* Connecting a whole block gives the coins of the longer chain, and undoing it
\* gives back those of the shorter.
LEMMA ViewEnd ==
    ASSUME NEW c \in Seq(Blocks), Linear(c), NEW n \in Nat, n < Len(c)
    PROVE  /\ ViewAt(CoinsAt(c, n), c[n + 1], Len(c[n + 1])) = CoinsAt(c, n + 1)
           /\ UndoCoins(CoinsAt(c, n + 1), c[n + 1]) = CoinsAt(c, n)
<1> DEFINE b == c[n + 1]
           v == CoinsAt(c, n)
           I == InsUpTo(b, Len(b))
           O == OutsUpTo(b, Len(b))
<1>1. n \in 0..Len(c) /\ n + 1 \in 1..Len(c) /\ (n + 1) - 1 = n
    OBVIOUS
<1>2. b \in Blocks /\ Len(b) \in Nat /\ DOMAIN b = 1..Len(b) /\ Len(b) \in 0..Len(b)
    BY <1>1, ChainTx
<1>3. Fits(v, b, Len(b))
    BY <1>1 DEF Linear
<1>4. O \cap Created(c, n) = {}
    BY <1>1, <1>2, <1>3, FreshBlock
<1>5. Spent(c, n) \subseteq Created(c, n)
    BY <1>1, SpentCreated
<1>6. I \subseteq v \cup O
    BY <1>2, <1>3, FitsCreated
<1>7. /\ Spent(c, n + 1) = Spent(c, n) \cup I
      /\ Created(c, n + 1) = Created(c, n) \cup O
    BY ChainStep
<1>8. v = Created(c, n) \ Spent(c, n) /\ CoinsAt(c, n + 1) = Created(c, n + 1) \ Spent(c, n + 1)
    BY DEF CoinsAt
<1>9. ViewAt(v, b, Len(b)) = (v \cup O) \ I
    BY DEF ViewAt
<1>10. UndoCoins(CoinsAt(c, n + 1), b) = (CoinsAt(c, n + 1) \cup I) \ O
    BY <1>2 DEF UndoCoins, InsUpTo, OutsUpTo
<1> HIDE DEF b, v, I, O
<1>11. CoinsAt(c, n + 1) = (v \cup O) \ I
    BY <1>4, <1>5, <1>7, <1>8
<1>12. (CoinsAt(c, n + 1) \cup I) \ O = v
    BY <1>4, <1>6, <1>8, <1>11
<1>13. QED
    BY <1>9, <1>10, <1>11, <1>12 DEF v, b

\* Nothing unspent at the end was spent on the way.
LEMMA UnspentNotSpent ==
    ASSUME NEW c \in Seq(Blocks), NEW o, o \in CoinsAt(c, Len(c)),
           NEW h \in 1..Len(c), NEW k \in 1..Len(c[h])
    PROVE  o \notin Ins(c[h][k])
BY DEF CoinsAt, Spent, InsUpTo

\* The coins of a chain are outpoints.
LEMMA CoinsType ==
    ASSUME NEW c \in Seq(Blocks), NEW n \in 0..Len(c)
    PROVE  /\ CoinsAt(c, n) \subseteq Outpoints
           /\ \A b \in Blocks : \A m \in 0..Len(b) : ViewAt(CoinsAt(c, n), b, m) \subseteq Outpoints
<1>1. ASSUME NEW b \in Blocks, NEW m \in 0..Len(b) PROVE OutsUpTo(b, m) \subseteq Outpoints
    <2> SUFFICES ASSUME NEW k \in 1..m PROVE Outs(b[k]) \subseteq Outpoints
        BY DEF OutsUpTo
    <2>1. b \in Seq(Txs) /\ k \in 1..Len(b)
        BY TxConstants
    <2>2. b[k] \in Txs
        BY <2>1
    <2>3. QED
        BY <2>2, TxTypes
<1>2. ASSUME NEW h \in 1..n PROVE OutsUpTo(c[h], Len(c[h])) \subseteq Outpoints
    <2>1. c[h] \in Blocks /\ Len(c[h]) \in 0..Len(c[h])
        BY ChainTx
    <2>2. QED
        BY <1>1, <2>1
<1>3. Created(c, n) \subseteq Outpoints
    BY <1>2, TxConstants DEF Created
<1>4. CoinsAt(c, n) \subseteq Outpoints
    BY <1>3 DEF CoinsAt
<1>5. QED
    BY <1>1, <1>4 DEF ViewAt
-----------------------------------------------------------------------------
(* Amounts.                                                                 *)

\* Amounts are numbers, and add up over sets that have nothing in common.
LEMMA AmountNat == ASSUME NEW S \in SUBSET Outpoints, NEW kinds PROVE Amount(S, kinds) \in Nat
<1> DEFINE T == {o \in S : Kind[o] \in kinds}
<1>1. IsFiniteSet(T)
    BY TxConstants, FS_Subset
<1>2. \A x \in T : Value[x] \in Nat
    BY TxConstants, MaxMoneyAssumption
<1> HIDE DEF T
<1>3. SumFunctionOnSet(Value, T) \in Nat
    BY <1>1, <1>2, SumNat
<1>4. QED
    BY <1>3 DEF Amount, T

LEMMA AmountUnion ==
    ASSUME NEW S \in SUBSET Outpoints, NEW T \in SUBSET Outpoints, S \cap T = {}, NEW kinds
    PROVE  Amount(S \cup T, kinds) = Amount(S, kinds) + Amount(T, kinds)
<1> DEFINE A == {o \in S : Kind[o] \in kinds}
           B == {o \in T : Kind[o] \in kinds}
<1>1. IsFiniteSet(A) /\ IsFiniteSet(B)
    BY TxConstants, FS_Subset
<1>2. \A x \in A \cup B : Value[x] \in Int
    BY TxConstants, MaxMoneyAssumption
<1>3. A \cap B = {} /\ {o \in S \cup T : Kind[o] \in kinds} = A \cup B
    OBVIOUS
<1>4. SumFunctionOnSet(Value, A \cup B) = SumFunctionOnSet(Value, A) + SumFunctionOnSet(Value, B)
    <2>1. A \cap B = {}
        BY <1>3
    <2> HIDE DEF A, B
    <2>2. QED
        BY <1>1, <1>2, <2>1, SumUnion
<1>5. Amount(S \cup T, kinds) = SumFunctionOnSet(Value, A \cup B)
    BY <1>3, Zenon DEF Amount
<1>6. QED
    BY <1>4, <1>5, Zenon DEF Amount

LEMMA DeltaNat ==
    ASSUME NEW t \in Txs
    PROVE  MintedBy(t) \in Nat /\ BurnedBy(t) \in Nat
<1>1. Ins(t) \subseteq Outpoints /\ Outs(t) \subseteq Outpoints
    BY TxTypes
<1>2. Amount(Outs(t), {"asset"}) \in Nat /\ Amount(Ins(t), {"asset"}) \in Nat
    BY <1>1, AmountNat
<1>3. QED
    BY <1>2 DEF MintedBy, BurnedBy

\* A transaction that passes CheckTxInputs changes the amount in unspent
\* outputs by what it mints and burns.
LEMMA SpendAmount ==
    ASSUME NEW t \in Txs, NEW v \in SUBSET Outpoints, CheckTxInputs(t, v, TRUE),
           Outs(t) \cap (v \ Ins(t)) = {}
    PROVE  Amount(Spend(t, v), {"asset"}) = Amount(v, {"asset"}) + MintedBy(t) - BurnedBy(t)
<1> DEFINE A(S) == Amount(S, {"asset"})
           r == v \ Ins(t)
<1>1. Ins(t) \subseteq Outpoints /\ Outs(t) \subseteq Outpoints /\ Ins(t) \subseteq v
    BY TxTypes DEF CheckTxInputs
<1>2. r \in SUBSET Outpoints /\ r \cap Ins(t) = {} /\ r \cap Outs(t) = {} /\ r \cup Ins(t) = v
    BY <1>1
<1>3. Spend(t, v) = r \cup Outs(t)
    BY DEF Spend
<1> HIDE DEF r
<1>4. A(v) = A(r) + A(Ins(t))
    BY <1>1, <1>2, AmountUnion
<1>5. A(Spend(t, v)) = A(r) + A(Outs(t))
    BY <1>1, <1>2, <1>3, AmountUnion
<1>6. A(r) \in Nat /\ A(Ins(t)) \in Nat /\ A(Outs(t)) \in Nat
    BY <1>1, <1>2, AmountNat
<1>7. CASE IsAuthorityTx(t)
    <2>1. MintedBy(t) = A(Outs(t)) /\ BurnedBy(t) = A(Ins(t))
        BY <1>7 DEF MintedBy, BurnedBy
    <2> HIDE DEF A
    <2>2. QED
        BY <1>4, <1>5, <1>6, <2>1 DEF A
<1>8. CASE ~IsAuthorityTx(t)
    <2>1. MintedBy(t) = 0 /\ BurnedBy(t) = 0 /\ A(Ins(t)) = A(Outs(t))
        BY <1>8 DEF MintedBy, BurnedBy, CheckTxInputs
    <2> HIDE DEF A
    <2>2. QED
        BY <1>4, <1>5, <1>6, <2>1 DEF A
<1>9. QED
    BY <1>7, <1>8
-----------------------------------------------------------------------------
(* What a block or a chain mints, burns and tracks, as sums and as the last *)
(* authority transaction.                                                   *)

MintedUpTo(b, m) == SumFunctionOnSet([k \in DOMAIN b |-> MintedBy(b[k])], 1..m)
BurnedUpTo(b, m) == SumFunctionOnSet([k \in DOMAIN b |-> BurnedBy(b[k])], 1..m)
MintedAt(c, n) == SumFunctionOnSet([h \in DOMAIN c |-> Total(MintedBy, c[h])], 1..n)
BurnedAt(c, n) == SumFunctionOnSet([h \in DOMAIN c |-> Total(BurnedBy, c[h])], 1..n)
SupplyAt(c, n) == [minted |-> MintedAt(c, n), burned |-> BurnedAt(c, n)]

\* Sums over an interval.
LEMMA PrefixSum ==
    ASSUME NEW f, NEW N \in Nat, \A x \in 1..N : f[x] \in Nat
    PROVE  /\ SumFunctionOnSet(f, 1..0) = 0
           /\ \A m \in 0..N : SumFunctionOnSet(f, 1..m) \in Nat
           /\ \A m \in Nat : m < N =>
                  SumFunctionOnSet(f, 1..(m + 1)) = SumFunctionOnSet(f, 1..m) + f[m + 1]
<1>1. 1..0 = {}
    OBVIOUS
<1>2. SumFunctionOnSet(f, 1..0) = 0
    BY <1>1, SumEmpty, Zenon
<1>3. \A m \in Nat : IsFiniteSet(1..m)
    BY FS_Interval
<1>4. ASSUME NEW m \in 0..N PROVE SumFunctionOnSet(f, 1..m) \in Nat
    <2>1. \A x \in 1..m : f[x] \in Nat
        OBVIOUS
    <2>2. IsFiniteSet(1..m)
        BY <1>3
    <2>3. QED
        BY <2>1, <2>2, SumNat
<1>5. ASSUME NEW m \in Nat, m < N
      PROVE  SumFunctionOnSet(f, 1..(m + 1)) = SumFunctionOnSet(f, 1..m) + f[m + 1]
    <2>1. 1..(m + 1) = (1..m) \cup {m + 1} /\ m + 1 \notin 1..m
        OBVIOUS
    <2>2. \A x \in (1..m) \cup {m + 1} : f[x] \in Int
        BY <1>5
    <2>3. IsFiniteSet(1..m)
        BY <1>3
    <2> DEFINE S == 1..m
               z == m + 1
    <2>4. IsFiniteSet(S) /\ z \notin S /\ \A x \in S \cup {z} : f[x] \in Int
        BY <2>1, <2>2, <2>3
    <2>5. 1..(m + 1) = S \cup {z}
        BY <2>1
    <2>6. SumFunctionOnSet(f, S \cup {z}) = SumFunctionOnSet(f, S) + f[z]
        <3> HIDE DEF S, z
        <3>1. QED
            BY <2>4, SumAdd
    <2>7. QED
        BY <2>5, <2>6, Zenon
<1>6. QED
    BY <1>2, <1>4, <1>5

LEMMA BlockSums ==
    ASSUME NEW b \in Blocks
    PROVE  /\ MintedUpTo(b, 0) = 0 /\ BurnedUpTo(b, 0) = 0
           /\ \A m \in 0..Len(b) : MintedUpTo(b, m) \in Nat /\ BurnedUpTo(b, m) \in Nat
           /\ \A m \in Nat : m < Len(b) =>
                  /\ MintedUpTo(b, m + 1) = MintedUpTo(b, m) + MintedBy(b[m + 1])
                  /\ BurnedUpTo(b, m + 1) = BurnedUpTo(b, m) + BurnedBy(b[m + 1])
           /\ Total(MintedBy, b) = MintedUpTo(b, Len(b)) /\ Total(BurnedBy, b) = BurnedUpTo(b, Len(b))
           /\ Total(MintedBy, b) \in Nat /\ Total(BurnedBy, b) \in Nat
<1> DEFINE f == [k \in DOMAIN b |-> MintedBy(b[k])]
           g == [k \in DOMAIN b |-> BurnedBy(b[k])]
<1>1. b \in Seq(Txs) /\ Len(b) \in Nat /\ DOMAIN b = 1..Len(b)
    BY TxConstants
<1>2. \A k \in 1..Len(b) : b[k] \in Txs
    BY <1>1
<1>3. \A k \in 1..Len(b) : f[k] = MintedBy(b[k]) /\ g[k] = BurnedBy(b[k])
    BY <1>1
<1>4. \A k \in 1..Len(b) : f[k] \in Nat /\ g[k] \in Nat
    BY <1>2, <1>3, DeltaNat
<1>5. DOMAIN f = 1..Len(b) /\ DOMAIN g = 1..Len(b)
    BY <1>1
<1>6. Total(MintedBy, b) = SumFunctionOnSet(f, DOMAIN f) /\ Total(BurnedBy, b) = SumFunctionOnSet(g, DOMAIN g)
    BY Zenon DEF Total, SumFunction, SumFunctionOnSet, FoldFunction
<1>7. \A m : MintedUpTo(b, m) = SumFunctionOnSet(f, 1..m) /\ BurnedUpTo(b, m) = SumFunctionOnSet(g, 1..m)
    BY Zenon DEF MintedUpTo, BurnedUpTo
<1> HIDE DEF f, g
<1>8. /\ Total(MintedBy, b) = MintedUpTo(b, Len(b)) /\ Total(BurnedBy, b) = BurnedUpTo(b, Len(b))
    BY <1>5, <1>6, <1>7, Zenon
<1>9. /\ SumFunctionOnSet(f, 1..0) = 0 /\ SumFunctionOnSet(g, 1..0) = 0
      /\ \A m \in 0..Len(b) : SumFunctionOnSet(f, 1..m) \in Nat /\ SumFunctionOnSet(g, 1..m) \in Nat
      /\ \A m \in Nat : m < Len(b) =>
                  /\ SumFunctionOnSet(f, 1..(m + 1)) = SumFunctionOnSet(f, 1..m) + f[m + 1]
                  /\ SumFunctionOnSet(g, 1..(m + 1)) = SumFunctionOnSet(g, 1..m) + g[m + 1]
    BY <1>1, <1>4, PrefixSum
<1>10. \A m \in 0..Len(b) : MintedUpTo(b, m) \in Nat /\ BurnedUpTo(b, m) \in Nat
    BY <1>7, <1>9, Zenon
<1>11. MintedUpTo(b, 0) = 0 /\ BurnedUpTo(b, 0) = 0
    BY <1>7, <1>9, Zenon
<1>12. ASSUME NEW m \in Nat, m < Len(b)
       PROVE  /\ MintedUpTo(b, m + 1) = MintedUpTo(b, m) + MintedBy(b[m + 1])
              /\ BurnedUpTo(b, m + 1) = BurnedUpTo(b, m) + BurnedBy(b[m + 1])
    <2>1. m + 1 \in 1..Len(b)
        BY <1>1, <1>12
    <2>2. f[m + 1] = MintedBy(b[m + 1]) /\ g[m + 1] = BurnedBy(b[m + 1])
        BY <1>3, <2>1
    <2>3. QED
        BY <1>7, <1>9, <1>12, <2>2, Zenon
<1>13. Len(b) \in 0..Len(b)
    BY <1>1
<1>14. QED
    BY <1>8, <1>10, <1>11, <1>12, <1>13

LEMMA ChainSums ==
    ASSUME NEW c \in Seq(Blocks)
    PROVE  /\ SupplyAt(c, 0) = NewSupply
           /\ \A n \in 0..Len(c) : MintedAt(c, n) \in Nat /\ BurnedAt(c, n) \in Nat
           /\ \A n \in Nat : n < Len(c) =>
                  /\ MintedAt(c, n + 1) = MintedAt(c, n) + Total(MintedBy, c[n + 1])
                  /\ BurnedAt(c, n + 1) = BurnedAt(c, n) + Total(BurnedBy, c[n + 1])
<1> DEFINE f == [h \in DOMAIN c |-> Total(MintedBy, c[h])]
           g == [h \in DOMAIN c |-> Total(BurnedBy, c[h])]
<1>1. Len(c) \in Nat /\ DOMAIN c = 1..Len(c)
    OBVIOUS
<1>2. \A h \in 1..Len(c) : c[h] \in Blocks
    OBVIOUS
<1>3. \A h \in 1..Len(c) : f[h] = Total(MintedBy, c[h]) /\ g[h] = Total(BurnedBy, c[h])
    BY <1>1
<1>4. \A h \in 1..Len(c) : f[h] \in Nat /\ g[h] \in Nat
    BY <1>2, <1>3, BlockSums
<1>5. \A n : MintedAt(c, n) = SumFunctionOnSet(f, 1..n) /\ BurnedAt(c, n) = SumFunctionOnSet(g, 1..n)
    BY Zenon DEF MintedAt, BurnedAt
<1> HIDE DEF f, g
<1>6. /\ SumFunctionOnSet(f, 1..0) = 0 /\ SumFunctionOnSet(g, 1..0) = 0
      /\ \A m \in 0..Len(c) : SumFunctionOnSet(f, 1..m) \in Nat /\ SumFunctionOnSet(g, 1..m) \in Nat
      /\ \A m \in Nat : m < Len(c) =>
                  /\ SumFunctionOnSet(f, 1..(m + 1)) = SumFunctionOnSet(f, 1..m) + f[m + 1]
                  /\ SumFunctionOnSet(g, 1..(m + 1)) = SumFunctionOnSet(g, 1..m) + g[m + 1]
    BY <1>1, <1>4, PrefixSum
<1>7. \A n \in 0..Len(c) : MintedAt(c, n) \in Nat /\ BurnedAt(c, n) \in Nat
    BY <1>5, <1>6, Zenon
<1>8. SupplyAt(c, 0) = NewSupply
    BY <1>5, <1>6, Zenon DEF SupplyAt, NewSupply
<1>9. ASSUME NEW n \in Nat, n < Len(c)
      PROVE  /\ MintedAt(c, n + 1) = MintedAt(c, n) + Total(MintedBy, c[n + 1])
             /\ BurnedAt(c, n + 1) = BurnedAt(c, n) + Total(BurnedBy, c[n + 1])
    <2>1. n + 1 \in 1..Len(c)
        BY <1>1, <1>9
    <2>2. f[n + 1] = Total(MintedBy, c[n + 1]) /\ g[n + 1] = Total(BurnedBy, c[n + 1])
        BY <1>3, <2>1
    <2>3. QED
        BY <1>5, <1>6, <1>9, <2>2, Zenon
<1>10. QED
    BY <1>7, <1>8, <1>9
-----------------------------------------------------------------------------
(* What a block that ConnectBlock accepted from the view v satisfies.       *)

\* The first m transactions passed CheckTxInputs with the asset active.
Valued(v, b, m) == \A k \in 1..m : CheckTxInputs(b[k], ViewAt(v, b, k - 1), TRUE)

\* The unspent markers; a tracked outpoint names all of them.
Markers(v) == {o \in v : Kind[o] = "marker"}
Tracks(v, o) == Markers(v) = {o} \ {NoOutpoint}

\* Authority transactions spend the marker there is, others spend none.
Guarded(v, b, m) ==
    \A k \in 1..m :
        /\ IsAuthorityTx(b[k]) => Markers(ViewAt(v, b, k - 1)) \subseteq Ins(b[k])
        /\ ~IsAuthorityTx(b[k]) => Markers(Ins(b[k])) = {}

LEMMA ValuedFits ==
    ASSUME NEW v, NEW b, NEW m, Valued(v, b, m)
    PROVE  Fits(v, b, m)
BY DEF Valued, Fits, CheckTxInputs

LEMMA Balance ==
    \A a, m, b, p, q \in Nat : (a + m - b) + p - q = a + (m + p) - (b + q)
OBVIOUS

\* The asset in unspent outputs follows what the block mints and burns.
LEMMA BlockBacked ==
    ASSUME NEW c \in Seq(Blocks), Linear(c), NEW n \in 0..Len(c), NEW b \in Blocks,
           NEW m \in 0..Len(b), Valued(CoinsAt(c, n), b, m)
    PROVE  Amount(ViewAt(CoinsAt(c, n), b, m), {"asset"})
             = Amount(CoinsAt(c, n), {"asset"}) + MintedUpTo(b, m) - BurnedUpTo(b, m)
<1> DEFINE v == CoinsAt(c, n)
           A(k) == Amount(ViewAt(v, b, k), {"asset"})
           P == {k \in 0..m : A(k) = A(0) + MintedUpTo(b, k) - BurnedUpTo(b, k)}
<1>1. Len(b) \in Nat /\ m \in Nat
    BY TxConstants
<1>2. \A k \in 0..m : A(k) \in Nat /\ MintedUpTo(b, k) \in Nat /\ BurnedUpTo(b, k) \in Nat
    <2>1. \A k \in 0..m : ViewAt(v, b, k) \in SUBSET Outpoints
        BY <1>1, CoinsType
    <2>2. \A k \in 0..m : A(k) \in Nat
        BY <2>1, AmountNat
    <2>3. \A k \in 0..m : k \in 0..Len(b)
        BY <1>1
    <2>4. \A k \in 0..m : MintedUpTo(b, k) \in Nat /\ BurnedUpTo(b, k) \in Nat
        BY <2>3, BlockSums
    <2>5. QED
        BY <2>2, <2>4, Zenon
<1>3. 0 \in P
    <2>1. A(0) \in Nat
        BY <1>1, <1>2
    <2>2. MintedUpTo(b, 0) = 0 /\ BurnedUpTo(b, 0) = 0 /\ 0 \in 0..m
        <3>1. MintedUpTo(b, 0) = 0 /\ BurnedUpTo(b, 0) = 0
            BY BlockSums
        <3>2. QED
            BY <1>1, <3>1
    <2> HIDE DEF A
    <2>3. A(0) = A(0) + 0 - 0
        BY <2>1
    <2>4. QED
        BY <2>2, <2>3, Zenon
<1>4. ASSUME NEW k \in 1..m, k - 1 \in P PROVE k \in P
    <2> DEFINE j == k - 1
    <2>1. j \in Nat /\ j < Len(b) /\ j \in 0..m /\ j + 1 = k /\ k \in 0..m /\ k \in 1..Len(b) /\ j \in 0..Len(b)
        BY <1>1
    <2>2. b[k] \in Txs
        BY <2>1, BlockTx
    <2>3. CheckTxInputs(b[k], ViewAt(v, b, j), TRUE) /\ Fits(v, b, j)
        <3>1. Fits(v, b, m)
            BY ValuedFits
        <3>2. QED
            <4>1. k \in 1..m /\ \A i \in 1..j : i \in 1..m
                BY <1>1
            <4>2. Fits(v, b, j)
                <5> HIDE DEF j, v
                <5>1. QED
                    BY <3>1, <4>1, Zenon DEF Fits
            <4>3. QED
                BY <4>1, <4>2 DEF Valued
    <2>4. Ins(b[k]) # {} /\ Ins(b[k]) \subseteq ViewAt(v, b, j)
        BY <2>3 DEF CheckTxInputs
    <2>5. Spend(b[k], ViewAt(v, b, j)) = ViewAt(v, b, k)
        BY <2>1, <2>3, <2>4, SpendView
    <2>6. Outs(b[k]) \cap (ViewAt(v, b, j) \ Ins(b[k])) = {}
        <3>1. Outs(b[k]) \cap (Created(c, n) \cup OutsUpTo(b, j)) = {}
            BY <2>1, <2>2, <2>3, <2>4, FreshOuts
        <3>2. QED
            BY <3>1 DEF ViewAt, CoinsAt
    <2>7. ViewAt(v, b, j) \in SUBSET Outpoints
        BY <2>1, CoinsType
    <2>8. A(k) = A(j) + MintedBy(b[k]) - BurnedBy(b[k])
        BY <2>2, <2>3, <2>5, <2>6, <2>7, SpendAmount
    <2>9. /\ MintedUpTo(b, k) = MintedUpTo(b, j) + MintedBy(b[k])
          /\ BurnedUpTo(b, k) = BurnedUpTo(b, j) + BurnedBy(b[k])
        BY <2>1, BlockSums
    <2>10. A(j) = A(0) + MintedUpTo(b, j) - BurnedUpTo(b, j)
        BY <1>4
    <2>11. /\ A(0) \in Nat /\ MintedUpTo(b, j) \in Nat /\ BurnedUpTo(b, j) \in Nat
           /\ MintedBy(b[k]) \in Nat /\ BurnedBy(b[k]) \in Nat
        <3>1. 0 \in 0..m
            BY <1>1
        <3> HIDE DEF A
        <3>2. QED
            BY <1>2, <2>1, <2>2, <3>1, DeltaNat, Zenon
    <2> HIDE DEF A, j
    <2>12. A(k) = A(0) + MintedUpTo(b, k) - BurnedUpTo(b, k)
        <3>1. A(k) = (A(0) + MintedUpTo(b, j) - BurnedUpTo(b, j)) + MintedBy(b[k]) - BurnedBy(b[k])
            BY <2>8, <2>10, Zenon
        <3>2. @ = A(0) + (MintedUpTo(b, j) + MintedBy(b[k])) - (BurnedUpTo(b, j) + BurnedBy(b[k]))
            BY <2>11, Balance
        <3>3. QED
            BY <2>9, <3>1, <3>2, Zenon
    <2>13. QED
        BY <2>1, <2>12
<1>5. m \in P
    <2>1. m \in 0..m
        BY <1>1
    <2> HIDE DEF P
    <2>2. \A k \in 0..m : k \in P
        BY <1>1, <1>3, <1>4, IntervalInduction
    <2>3. QED
        BY <2>1, <2>2
<1>6. A(0) = Amount(CoinsAt(c, n), {"asset"})
    BY ViewStart
<1>7. QED
    BY <1>5, <1>6

LEMMA ChainBacked ==
    ASSUME NEW c \in Seq(Blocks), Linear(c),
           \A h \in 1..Len(c) : Valued(CoinsAt(c, h - 1), c[h], Len(c[h]))
    PROVE  \A n \in 0..Len(c) : Outstanding(SupplyAt(c, n)) = Amount(CoinsAt(c, n), {"asset"})
<1> DEFINE A(n) == Amount(CoinsAt(c, n), {"asset"})
           P == {n \in 0..Len(c) : A(n) = MintedAt(c, n) - BurnedAt(c, n)}
<1>1. Len(c) \in Nat
    OBVIOUS
<1>2. 0 \in P
    <2>1. CoinsAt(c, 0) = GenesisCoins
        BY ChainStep DEF CoinsAt
    <2>2. {o \in GenesisCoins : Kind[o] \in {"asset"}} = {}
        BY OutpointsAssumption
    <2>3. A(0) = 0
        BY <2>1, <2>2, SumEmpty DEF Amount
    <2>4. MintedAt(c, 0) = 0 /\ BurnedAt(c, 0) = 0
        BY ChainSums DEF SupplyAt, NewSupply
    <2> HIDE DEF A
    <2>5. QED
        BY <1>1, <2>3, <2>4
<1>3. ASSUME NEW k \in 1..Len(c), k - 1 \in P PROVE k \in P
    <2> DEFINE j == k - 1
               b == c[k]
    <2>1. j \in Nat /\ j < Len(c) /\ j \in 0..Len(c) /\ j + 1 = k /\ k \in 0..Len(c)
        BY <1>1
    <2>2. b \in Blocks /\ Len(b) \in Nat /\ Len(b) \in 0..Len(b)
        BY ChainTx
    <2>3. Valued(CoinsAt(c, j), b, Len(b))
        OBVIOUS
    <2>4. ViewAt(CoinsAt(c, j), b, Len(b)) = CoinsAt(c, k)
        BY <2>1, ViewEnd
    <2>5. A(k) = A(j) + MintedUpTo(b, Len(b)) - BurnedUpTo(b, Len(b))
        BY <2>1, <2>2, <2>3, <2>4, BlockBacked
    <2>6. /\ MintedAt(c, k) = MintedAt(c, j) + MintedUpTo(b, Len(b))
          /\ BurnedAt(c, k) = BurnedAt(c, j) + BurnedUpTo(b, Len(b))
        <3>1. /\ MintedAt(c, k) = MintedAt(c, j) + Total(MintedBy, b)
              /\ BurnedAt(c, k) = BurnedAt(c, j) + Total(BurnedBy, b)
            BY <2>1, ChainSums
        <3>2. /\ Total(MintedBy, b) = MintedUpTo(b, Len(b))
              /\ Total(BurnedBy, b) = BurnedUpTo(b, Len(b))
            BY <2>2, BlockSums
        <3> HIDE DEF b, j
        <3>3. QED
            BY <3>1, <3>2, Zenon
    <2>7. A(j) = MintedAt(c, j) - BurnedAt(c, j)
        BY <1>3
    <2>8. /\ MintedAt(c, j) \in Nat /\ BurnedAt(c, j) \in Nat
          /\ MintedUpTo(b, Len(b)) \in Nat /\ BurnedUpTo(b, Len(b)) \in Nat
        <3>1. MintedAt(c, j) \in Nat /\ BurnedAt(c, j) \in Nat
            BY <2>1, ChainSums
        <3>2. MintedUpTo(b, Len(b)) \in Nat /\ BurnedUpTo(b, Len(b)) \in Nat
            BY <2>2, BlockSums
        <3>3. QED
            BY <3>1, <3>2, Zenon
    <2> HIDE DEF A, j, b
    <2>9. A(k) = MintedAt(c, k) - BurnedAt(c, k)
        <3>1. \A m, q, x, y \in Nat : (m - q) + x - y = (m + x) - (q + y)
            OBVIOUS
        <3>2. A(k) = (MintedAt(c, j) - BurnedAt(c, j)) + MintedUpTo(b, Len(b)) - BurnedUpTo(b, Len(b))
            BY <2>5, <2>7, Zenon
        <3>3. @ = (MintedAt(c, j) + MintedUpTo(b, Len(b))) - (BurnedAt(c, j) + BurnedUpTo(b, Len(b)))
            BY <2>8, <3>1
        <3>4. QED
            BY <2>6, <3>2, <3>3, Zenon
    <2>10. QED
        BY <2>1, <2>9
<1>4. \A n \in 0..Len(c) : n \in P
    <2> HIDE DEF P
    <2>1. QED
        BY <1>1, <1>2, <1>3, IntervalInduction
<1>5. QED
    BY <1>4 DEF Outstanding, SupplyAt

\* One transaction more, as the tracker sees it.
LEMMA TrackStep ==
    ASSUME NEW c \in Seq(Blocks), Linear(c), NEW n \in 0..Len(c), NEW b \in Blocks,
           NEW m \in Nat, m < Len(b), Fits(CoinsAt(c, n), b, m + 1),
           Guarded(CoinsAt(c, n), b, m + 1), OneMarker(b[m + 1]),
           NEW o, Tracks(ViewAt(CoinsAt(c, n), b, m), o)
    PROVE  Tracks(ViewAt(CoinsAt(c, n), b, m + 1),
                  IF IsAuthorityTx(b[m + 1]) THEN AuthorityOutput(b[m + 1]) ELSE o)
<1> DEFINE v == ViewAt(CoinsAt(c, n), b, m)
           w == ViewAt(CoinsAt(c, n), b, m + 1)
           t == b[m + 1]
<1>1. Len(b) \in Nat /\ m + 1 \in 1..Len(b) /\ m + 1 \in 1..(m + 1) /\ (m + 1) - 1 = m
    BY TxConstants
<1>2. t \in Txs
    BY <1>1, BlockTx
<1>3. Fits(CoinsAt(c, n), b, m) /\ Ins(t) # {} /\ Ins(t) \subseteq v
    BY <1>1 DEF Fits
<1>4. w = (v \ Ins(t)) \cup Outs(t)
    <2>1. w = Spend(t, v)
        BY <1>3, SpendView
    <2>2. QED
        BY <2>1 DEF Spend
<1>5. /\ IsAuthorityTx(t) => Markers(v) \subseteq Ins(t)
      /\ ~IsAuthorityTx(t) => Markers(Ins(t)) = {}
    BY <1>1 DEF Guarded
<1>6. Markers(v) = {o} \ {NoOutpoint}
    BY DEF Tracks
<1>7. CASE IsAuthorityTx(t)
    <2>1. AuthorityOutput(t) \in Outs(t) /\ Kind[AuthorityOutput(t)] = "marker"
        BY <1>2, <1>7, TxTypes
    <2>2. AuthorityOutput(t) # NoOutpoint
        BY <1>2, <2>1, TxTypes, TxConstants
    <2>3. Markers(Outs(t)) = {AuthorityOutput(t)}
        BY <2>1 DEF Markers, OneMarker
    <2>4. Markers(w) = {AuthorityOutput(t)}
        <3> HIDE DEF v, w, t
        <3>1. QED
            BY <1>4, <1>5, <1>7, <2>3 DEF Markers
    <2>5. QED
        BY <1>7, <2>2, <2>4 DEF Tracks
<1>8. CASE ~IsAuthorityTx(t)
    <2>1. Markers(Outs(t)) = {}
        BY <1>8 DEF Markers, IsAuthorityTx, Outs, Elems
    <2>2. Markers(w) = Markers(v)
        <3> HIDE DEF v, w, t
        <3>1. QED
            BY <1>4, <1>5, <1>8, <2>1 DEF Markers
    <2>3. QED
        BY <1>8, <2>2 DEF Tracks
<1>9. QED
    BY <1>7, <1>8

\* Transactions that are not authority transactions leave the markers alone.
LEMMA QuietMarkers ==
    ASSUME NEW v, NEW b, NEW m \in Nat, Guarded(v, b, m),
           \A k \in 1..m : ~IsAuthorityTx(b[k])
    PROVE  Markers(ViewAt(v, b, m)) = Markers(v)
<1>1. \A k \in 1..m : Markers(Ins(b[k])) = {}
    BY DEF Guarded
<1>2. \A k \in 1..m : Markers(Outs(b[k])) = {}
    BY DEF Markers, IsAuthorityTx, Outs, Elems
<1>3. Markers(InsUpTo(b, m)) = {} /\ Markers(OutsUpTo(b, m)) = {}
    BY <1>1, <1>2 DEF Markers, InsUpTo, OutsUpTo
<1>4. QED
    BY <1>3 DEF Markers, ViewAt

LEMMA FirstLeast ==
    ASSUME NEW S, S \subseteq Nat, S # {}
    PROVE  First(S) \in S /\ \A l \in S : First(S) <= l
BY LeastElement DEF First

\* DisconnectBlock finds the outpoint that was tracked below the block.
LEMMA Restored ==
    ASSUME NEW v \in SUBSET Outpoints, NEW b \in Blocks, Fits(v, b, Len(b)),
           Guarded(v, b, Len(b)), NEW o, Tracks(v, o), AuthorityTxs(b) # {}
    PROVE  RestoredOutpoint(b, v) = o
<1> DEFINE f == First(AuthorityTxs(b))
           t == b[f]
           ks == {k \in DOMAIN vin[t] : vin[t][k] \in v /\ Kind[vin[t][k]] = "marker"}
<1>1. Len(b) \in Nat /\ DOMAIN b = 1..Len(b)
    BY TxConstants
<1>2. AuthorityTxs(b) \subseteq Nat
    BY <1>1 DEF AuthorityTxs
<1>3. f \in AuthorityTxs(b) /\ \A l \in AuthorityTxs(b) : f <= l
    BY <1>2, FirstLeast
<1>4. f \in 1..Len(b) /\ f - 1 \in Nat /\ IsAuthorityTx(t)
    BY <1>1, <1>3 DEF AuthorityTxs
<1>5. \A k \in 1..(f - 1) : k \in 1..Len(b) /\ ~IsAuthorityTx(b[k])
    <2>1. ASSUME NEW k \in 1..(f - 1) PROVE k \in 1..Len(b) /\ ~(f <= k)
        BY <1>1, <1>4
    <2> HIDE DEF f
    <2>2. QED
        BY <1>1, <1>3, <2>1, Zenon DEF AuthorityTxs
<1>6. Markers(ViewAt(v, b, f - 1)) = Markers(v)
    <2>1. Guarded(v, b, f - 1)
        BY <1>5 DEF Guarded
    <2> HIDE DEF f
    <2>2. QED
        BY <1>4, <1>5, <2>1, QuietMarkers
<1>7. t \in Txs /\ vin[t] \in Seq(Outpoints) /\ DOMAIN vin[t] \subseteq Nat
    BY <1>4, BlockTx, TxConstants
<1>8. Ins(t) \subseteq ViewAt(v, b, f - 1) /\ Markers(v) \subseteq Ins(t)
    <2> HIDE DEF f
    <2>1. QED
        BY <1>4, <1>6 DEF Fits, Guarded
<1>9. \A k \in DOMAIN vin[t] : vin[t][k] \in Ins(t)
    BY DEF Ins, Elems
<1>10. \A p \in Ins(t) : \E k \in DOMAIN vin[t] : vin[t][k] = p
    BY DEF Ins, Elems
<1> HIDE DEF f, t
<1>11. CASE o = NoOutpoint
    <2>1. Markers(v) = {}
        BY <1>11 DEF Tracks
    <2>2. ks = {}
        BY <2>1 DEF Markers
    <2>3. QED
        BY <1>11, <2>2 DEF RestoredOutpoint, f, t
<1>12. CASE o # NoOutpoint
    <2>1. Markers(v) = {o}
        BY <1>12 DEF Tracks
    <2>2. PICK k \in DOMAIN vin[t] : vin[t][k] = o
        BY <1>8, <1>10, <2>1
    <2>3. k \in ks
        BY <2>1, <2>2 DEF Markers
    <2>4. First(ks) \in ks
        BY <1>7, <2>3, FirstMember
    <2>5. vin[t][First(ks)] = o
        BY <2>1, <2>4 DEF Markers
    <2>6. RestoredOutpoint(b, v) = vin[t][First(ks)]
        BY <2>3 DEF RestoredOutpoint, f, t
    <2>7. QED
        BY <2>5, <2>6
<1>13. QED
    BY <1>11, <1>12

\* Once there is a marker there always is one.
LEMMA BlockMarkers ==
    ASSUME NEW c \in Seq(Blocks), Linear(c), NEW n \in 0..Len(c), NEW b \in Blocks,
           Fits(CoinsAt(c, n), b, Len(b)), Guarded(CoinsAt(c, n), b, Len(b)),
           Markers(CoinsAt(c, n)) # {} \/ AuthorityTxs(b) # {}
    PROVE  Markers(ViewAt(CoinsAt(c, n), b, Len(b))) # {}
<1> DEFINE v == CoinsAt(c, n)
           Has(k) == Markers(v) # {} \/ \E j \in 1..k : IsAuthorityTx(b[j])
           P == {k \in 0..Len(b) : Has(k) => Markers(ViewAt(v, b, k)) # {}}
<1>1. Len(b) \in Nat /\ DOMAIN b = 1..Len(b)
    BY TxConstants
<1>2. 0 \in P
    <2>1. ViewAt(v, b, 0) = v
        BY ViewStart
    <2>2. QED
        BY <1>1, <2>1
<1>3. ASSUME NEW k \in 1..Len(b), k - 1 \in P PROVE k \in P
    <2> DEFINE j == k - 1
    <2>1. j \in Nat /\ j < Len(b) /\ j + 1 = k /\ k \in 0..Len(b) /\ \A i \in 1..j : i \in 1..Len(b)
        BY <1>1
    <2>2. Has(k) => Has(j) \/ IsAuthorityTx(b[k])
        <3>1. \A i \in 1..k : i \in 1..j \/ i = k
            BY <1>1
        <3> HIDE DEF j
        <3>2. QED
            BY <3>1
    <2>3. b[k] \in Txs
        BY BlockTx
    <2>4. Fits(v, b, j) /\ Ins(b[k]) # {} /\ Ins(b[k]) \subseteq ViewAt(v, b, j)
        BY <2>1 DEF Fits
    <2>5. Spend(b[k], ViewAt(v, b, j)) = ViewAt(v, b, k)
        <3> HIDE DEF j
        <3>1. QED
            BY <2>1, <2>4, SpendView
    <2>6. /\ IsAuthorityTx(b[k]) => \E o \in Outs(b[k]) : Kind[o] = "marker"
          /\ ~IsAuthorityTx(b[k]) => Markers(Ins(b[k])) = {}
        BY <2>3, TxTypes DEF Guarded
    <2>7. Has(j) => Markers(ViewAt(v, b, j)) # {}
        BY <1>3
    <2> HIDE DEF v, j, Has
    <2>8. Has(k) => Markers(ViewAt(v, b, k)) # {}
        BY <2>2, <2>5, <2>6, <2>7 DEF Markers, Spend
    <2>9. QED
        BY <2>1, <2>8
<1>4. Len(b) \in P
    <2>1. Len(b) \in 0..Len(b)
        BY <1>1
    <2> HIDE DEF P
    <2>2. \A k \in 0..Len(b) : k \in P
        BY <1>1, <1>2, <1>3, IntervalInduction
    <2>3. QED
        BY <2>1, <2>2
<1>5. Has(Len(b))
    BY <1>1 DEF AuthorityTxs
<1>6. QED
    BY <1>4, <1>5

LEMMA ChainMarkers ==
    ASSUME NEW c \in Seq(Blocks), Linear(c),
           \A h \in 1..Len(c) : Guarded(CoinsAt(c, h - 1), c[h], Len(c[h])),
           NEW g \in 1..Len(c), AuthorityTxs(c[g]) # {}
    PROVE  Markers(CoinsAt(c, Len(c))) # {}
<1> DEFINE P == {n \in 0..Len(c) : g <= n => Markers(CoinsAt(c, n)) # {}}
<1>1. Len(c) \in Nat
    OBVIOUS
<1>2. 0 \in P
    BY <1>1
<1>3. ASSUME NEW k \in 1..Len(c), k - 1 \in P PROVE k \in P
    <2> DEFINE j == k - 1
    <2>1. j \in Nat /\ j < Len(c) /\ j \in 0..Len(c) /\ j + 1 = k /\ k \in 0..Len(c)
        BY <1>1
    <2>2. c[k] \in Blocks
        BY ChainTx
    <2>3. Fits(CoinsAt(c, j), c[k], Len(c[k])) /\ Guarded(CoinsAt(c, j), c[k], Len(c[k]))
        BY DEF Linear
    <2>4. g <= k => g <= j \/ g = k
        BY <1>1
    <2>5. ViewAt(CoinsAt(c, j), c[k], Len(c[k])) = CoinsAt(c, k)
        BY <2>1, ViewEnd
    <2>6. g <= k => Markers(CoinsAt(c, j)) # {} \/ AuthorityTxs(c[k]) # {}
        BY <1>3, <2>4
    <2>7. g <= k => Markers(CoinsAt(c, k)) # {}
        <3> HIDE DEF j
        <3>1. QED
            BY <2>1, <2>2, <2>3, <2>5, <2>6, BlockMarkers
    <2>8. QED
        BY <2>1, <2>7
<1>4. \A n \in 0..Len(c) : n \in P
    <2> HIDE DEF P
    <2>1. QED
        BY <1>1, <1>2, <1>3, IntervalInduction
<1>5. QED
    BY <1>1, <1>4
-----------------------------------------------------------------------------
(* Applying and reversing a block's delta.                                  *)

LEMMA AppliedIs ==
    ASSUME NEW s \in SupplyType, NEW m \in Nat, NEW b \in Nat, DeltaOK(s, m, b)
    PROVE  Applied(s, m, b) = [minted |-> s.minted + m, burned |-> s.burned + b]
<1>1. Mint(s, m) = [minted |-> s.minted + m, burned |-> s.burned]
    <2>1. CASE m = 0
        BY <2>1 DEF Mint, CanMint, SupplyType
    <2>2. CASE m > 0
        BY <2>2 DEF Mint, DeltaOK, SupplyType
    <2>3. QED
        BY <2>1, <2>2
<1> DEFINE r == Mint(s, m)
<1>2. r \in SupplyType /\ r.minted = s.minted + m /\ r.burned = s.burned
    BY <1>1 DEF SupplyType
<1>3. b > 0 => CanBurn(r, b)
    BY DEF DeltaOK
<1> HIDE DEF r
<1>4. Burn(r, b) = [minted |-> r.minted, burned |-> r.burned + b]
    <2>1. CASE b = 0
        BY <1>2, <2>1 DEF Burn, CanBurn, SupplyType
    <2>2. CASE b > 0
        BY <1>2, <1>3, <2>2 DEF Burn, SupplyType
    <2>3. QED
        BY <2>1, <2>2
<1>5. QED
    BY <1>2, <1>4 DEF Applied, r

\* A delta in one direction is reversed exactly, unless the counters below
\* the block had more burned than minted.
LEMMA ReversedIs ==
    ASSUME NEW x \in Nat, NEW y \in Nat, y <= x, NEW m \in Nat, NEW b \in Nat, m = 0 \/ b = 0,
           SupplyInvariant([minted |-> x + m, burned |-> y + b])
    PROVE  /\ ReversalOK([minted |-> x + m, burned |-> y + b], m, b)
           /\ Reversed([minted |-> x + m, burned |-> y + b], m, b) = [minted |-> x, burned |-> y]
<1> DEFINE s == [minted |-> x + m, burned |-> y + b]
<1>0. /\ x + m <= MaxMoney /\ y + b <= x + m /\ MaxMoney \in Nat
    BY MaxMoneyAssumption DEF SupplyInvariant, MoneyRange
<1>1. CASE m = 0
    <2>1. UndoMint(s, m) = s
        BY <1>1 DEF UndoMint, CanUndoMint
    <2>2. b > 0 => CanUndoBurn(s, b)
        BY <1>0, <1>1 DEF CanUndoBurn, MoneyRange
    <2>3. UndoBurn(s, b) = [minted |-> x, burned |-> y]
        <3>1. CASE b = 0
            BY <1>1, <3>1 DEF UndoBurn, CanUndoBurn
        <3>2. CASE b > 0
            BY <1>1, <2>2, <3>2 DEF UndoBurn
        <3>3. QED
            BY <3>1, <3>2
    <2>4. QED
        BY <1>1, <2>1, <2>2, <2>3 DEF ReversalOK, Reversed
<1>2. CASE b = 0
    <2>1. m > 0 => CanUndoMint(s, m)
        BY <1>0, <1>2 DEF CanUndoMint, MoneyRange
    <2>2. UndoMint(s, m) = [minted |-> x, burned |-> y]
        <3>1. CASE m = 0
            BY <1>2, <3>1 DEF UndoMint, CanUndoMint
        <3>2. CASE m > 0
            BY <1>2, <2>1, <3>2 DEF UndoMint
        <3>3. QED
            BY <3>1, <3>2
    <2>3. UndoBurn([minted |-> x, burned |-> y], b) = [minted |-> x, burned |-> y]
        BY <1>2 DEF UndoBurn, CanUndoBurn
    <2>4. QED
        BY <1>2, <2>1, <2>2, <2>3 DEF ReversalOK, Reversed
<1>3. QED
    BY <1>1, <1>2

LEMMA OneTotalZero ==
    ASSUME NEW b \in Blocks, OneDirection(b)
    PROVE  Total(MintedBy, b) = 0 \/ Total(BurnedBy, b) = 0
<1>1. Len(b) \in Nat /\ DOMAIN b = 1..Len(b) /\ 0 \in 0..Len(b) /\ Len(b) \in 0..Len(b)
    BY TxConstants
<1>2. /\ MintedUpTo(b, 0) = 0 /\ BurnedUpTo(b, 0) = 0
      /\ Total(MintedBy, b) = MintedUpTo(b, Len(b)) /\ Total(BurnedBy, b) = BurnedUpTo(b, Len(b))
    BY BlockSums
<1>3. ASSUME NEW k \in 1..Len(b)
      PROVE  /\ MintedUpTo(b, k) = MintedUpTo(b, k - 1) + MintedBy(b[k])
             /\ BurnedUpTo(b, k) = BurnedUpTo(b, k - 1) + BurnedBy(b[k])
    <2> DEFINE j == k - 1
    <2>1. j \in Nat /\ j < Len(b) /\ j + 1 = k
        BY <1>1
    <2> HIDE DEF j
    <2>2. MintedUpTo(b, k) = MintedUpTo(b, j) + MintedBy(b[k]) /\ BurnedUpTo(b, k) = BurnedUpTo(b, j) + BurnedBy(b[k])
        BY <2>1, BlockSums
    <2>3. QED
        BY <2>2 DEF j
<1>4. CASE \A k \in DOMAIN b : MintedBy(b[k]) = 0
    <2> DEFINE P == {k \in 0..Len(b) : MintedUpTo(b, k) = 0}
    <2>1. 0 \in P /\ \A k \in 1..Len(b) : k - 1 \in P => k \in P
        BY <1>1, <1>2, <1>3, <1>4
    <2> HIDE DEF P
    <2>2. Len(b) \in P
        BY <1>1, <2>1, IntervalInduction
    <2>3. QED
        BY <1>2, <2>2 DEF P
<1>5. CASE \A k \in DOMAIN b : BurnedBy(b[k]) = 0
    <2> DEFINE P == {k \in 0..Len(b) : BurnedUpTo(b, k) = 0}
    <2>1. 0 \in P /\ \A k \in 1..Len(b) : k - 1 \in P => k \in P
        BY <1>1, <1>2, <1>3, <1>5
    <2> HIDE DEF P
    <2>2. Len(b) \in P
        BY <1>1, <2>1, IntervalInduction
    <2>3. QED
        BY <1>2, <2>2 DEF P
<1>6. QED
    BY <1>4, <1>5 DEF OneDirection
-----------------------------------------------------------------------------
(* Chains that agree up to a height.                                        *)

LEMMA SamePrefix ==
    ASSUME NEW c \in Seq(Blocks), NEW d \in Seq(Blocks), NEW n \in Nat,
           n <= Len(c), n <= Len(d), \A h \in 1..n : c[h] = d[h]
    PROVE  CoinsAt(c, n) = CoinsAt(d, n) /\ SupplyAt(c, n) = SupplyAt(d, n)
<1>1. CoinsAt(c, n) = CoinsAt(d, n)
    BY DEF CoinsAt, Created, Spent
<1>2. DOMAIN c = 1..Len(c) /\ DOMAIN d = 1..Len(d) /\ Len(c) \in Nat /\ Len(d) \in Nat
    OBVIOUS
<1>3. IsFiniteSet(1..n)
    BY FS_Interval
<1>4. \A h \in 1..n : h \in DOMAIN c /\ h \in DOMAIN d
    BY <1>2
<1> DEFINE f == [h \in DOMAIN c |-> Total(MintedBy, c[h])]
           e == [h \in DOMAIN d |-> Total(MintedBy, d[h])]
           g == [h \in DOMAIN c |-> Total(BurnedBy, c[h])]
           k == [h \in DOMAIN d |-> Total(BurnedBy, d[h])]
<1>5. \A h \in 1..n : f[h] = e[h] /\ g[h] = k[h]
    BY <1>4
<1>6. MintedAt(c, n) = MintedAt(d, n)
    <2>1. MintedAt(c, n) = SumFunctionOnSet(f, 1..n) /\ MintedAt(d, n) = SumFunctionOnSet(e, 1..n)
        BY Zenon DEF MintedAt
    <2> HIDE DEF f, e
    <2>2. SumFunctionOnSet(f, 1..n) = SumFunctionOnSet(e, 1..n)
        BY <1>3, <1>5, SumSame
    <2>3. QED
        BY <2>1, <2>2, Zenon
<1>7. BurnedAt(c, n) = BurnedAt(d, n)
    <2>1. BurnedAt(c, n) = SumFunctionOnSet(g, 1..n) /\ BurnedAt(d, n) = SumFunctionOnSet(k, 1..n)
        BY Zenon DEF BurnedAt
    <2> HIDE DEF g, k
    <2>2. SumFunctionOnSet(g, 1..n) = SumFunctionOnSet(k, 1..n)
        BY <1>3, <1>5, SumSame
    <2>3. QED
        BY <2>1, <2>2, Zenon
<1>8. QED
    BY <1>1, <1>6, <1>7 DEF SupplyAt

\* One block more.
LEMMA LinearAppend ==
    ASSUME NEW c \in Seq(Blocks), Linear(c), NEW b \in Blocks,
           Fits(CoinsAt(c, Len(c)), b, Len(b))
    PROVE  LET d == Append(c, b)
           IN  /\ d \in Seq(Blocks) /\ Len(d) = Len(c) + 1 /\ d[Len(c) + 1] = b
               /\ \A h \in 1..Len(c) : d[h] = c[h]
               /\ \A n \in 0..Len(c) : CoinsAt(d, n) = CoinsAt(c, n) /\ SupplyAt(d, n) = SupplyAt(c, n)
               /\ Linear(d)
               /\ CoinsAt(d, Len(d)) = ViewAt(CoinsAt(c, Len(c)), b, Len(b))
<1> DEFINE d == Append(c, b)
<1>1. Len(c) \in Nat /\ d \in Seq(Blocks) /\ Len(d) = Len(c) + 1 /\ d[Len(c) + 1] = b
    OBVIOUS
<1>2. \A h \in 1..Len(c) : d[h] = c[h]
    OBVIOUS
<1> HIDE DEF d
<1>3. ASSUME NEW n \in 0..Len(c) PROVE CoinsAt(d, n) = CoinsAt(c, n) /\ SupplyAt(d, n) = SupplyAt(c, n)
    <2>1. n \in Nat /\ n <= Len(c) /\ n <= Len(d) /\ \A h \in 1..n : d[h] = c[h]
        BY <1>1, <1>2
    <2>2. QED
        BY <1>1, <2>1, SamePrefix
<1>4. Linear(d)
    <2> SUFFICES ASSUME NEW h \in 1..Len(d) PROVE Fits(CoinsAt(d, h - 1), d[h], Len(d[h]))
        BY DEF Linear
    <2>1. h - 1 \in 0..Len(c)
        BY <1>1
    <2>2. CoinsAt(d, h - 1) = CoinsAt(c, h - 1)
        BY <1>3, <2>1
    <2>3. CASE h <= Len(c)
        <3>1. h \in 1..Len(c)
            BY <1>1, <2>3
        <3>2. QED
            BY <1>2, <2>2, <3>1 DEF Linear
    <2>4. CASE h = Len(c) + 1
        BY <1>1, <2>2, <2>4
    <2>5. QED
        BY <1>1, <2>3, <2>4
<1>5. CoinsAt(d, Len(d)) = ViewAt(CoinsAt(c, Len(c)), b, Len(b))
    <2>1. Len(c) \in 0..Len(c) /\ Len(c) < Len(d)
        BY <1>1
    <2>2. ViewAt(CoinsAt(d, Len(c)), d[Len(c) + 1], Len(d[Len(c) + 1])) = CoinsAt(d, Len(c) + 1)
        BY <1>1, <1>4, <2>1, ViewEnd
    <2>3. QED
        BY <1>1, <1>3, <2>1, <2>2
<1>6. QED
    BY <1>1, <1>2, <1>3, <1>4, <1>5 DEF d

\* One block less.
LEMMA LinearFront ==
    ASSUME NEW c \in Seq(Blocks), Linear(c), c # <<>>
    PROVE  LET d == SubSeq(c, 1, Len(c) - 1)
           IN  /\ d \in Seq(Blocks) /\ Len(d) = Len(c) - 1 /\ Len(d) \in Nat
               /\ \A h \in 1..Len(d) : d[h] = c[h]
               /\ \A n \in 0..Len(d) : CoinsAt(d, n) = CoinsAt(c, n) /\ SupplyAt(d, n) = SupplyAt(c, n)
               /\ Linear(d)
<1> DEFINE d == SubSeq(c, 1, Len(c) - 1)
<1>1. Len(c) \in Nat /\ Len(c) >= 1
    OBVIOUS
<1>2. d \in Seq(Blocks) /\ Len(d) = Len(c) - 1 /\ Len(d) \in Nat
    <2>1. \A h \in 1..Len(c) : c[h] \in Blocks
        OBVIOUS
    <2>2. d \in Seq(Blocks)
        BY <1>1, <2>1
    <2>3. Len(d) = Len(c) - 1
        BY <1>1
    <2>4. QED
        BY <1>1, <2>2, <2>3
<1>3. \A h \in 1..Len(d) : d[h] = c[h]
    BY <1>1
<1> HIDE DEF d
<1>4. ASSUME NEW n \in 0..Len(d) PROVE CoinsAt(d, n) = CoinsAt(c, n) /\ SupplyAt(d, n) = SupplyAt(c, n)
    <2>1. n \in Nat /\ n <= Len(c) /\ n <= Len(d) /\ \A h \in 1..n : d[h] = c[h]
        BY <1>1, <1>2, <1>3
    <2>2. QED
        BY <1>2, <2>1, SamePrefix
<1>5. Linear(d)
    <2> SUFFICES ASSUME NEW h \in 1..Len(d) PROVE Fits(CoinsAt(d, h - 1), d[h], Len(d[h]))
        BY DEF Linear
    <2>1. h - 1 \in 0..Len(d) /\ h \in 1..Len(c)
        BY <1>1, <1>2
    <2>2. QED
        BY <1>3, <1>4, <2>1 DEF Linear
<1>6. QED
    BY <1>2, <1>3, <1>4, <1>5 DEF d
=============================================================================
