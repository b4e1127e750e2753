----------------------- MODULE ChainSelection_proofs -----------------------
(***************************************************************************)
(* For every block tree, every number of threads and every setting:        *)
(* candidates and what is chosen among them are linked.  Without           *)
(* invalidateblock the chain on disk is always one that was found valid.   *)
(* With blocks, headers, threads, flushes and deaths, and none of the      *)
(* operator's calls, the invariants of chain selection hold and the        *)
(* process never stops by itself.                                          *)
(***************************************************************************)
EXTENDS ChainSelection, FiniteSetTheorems, WellFoundedInduction, TLAPS
-----------------------------------------------------------------------------
(* The block tree. *)

LEMMA TreeTypes ==
  /\ Genesis \in Blocks /\ NoBlock \notin Blocks /\ IsFiniteSet(Blocks)
  /\ \A b \in Blocks \ {Genesis} : Parent[b] \in Blocks
  /\ \A b \in Blocks : Proof[b] \in Nat \ {0} /\ Addr[b] \in Nat
BY ChainAssumption

\* Induction from Genesis upwards: a set that has Genesis and, with a block, its
\* children, has every block.
LEMMA TreeInduction ==
  ASSUME NEW S, Genesis \in S, \A b \in Blocks \ {Genesis} : Parent[b] \in S => b \in S
  PROVE  Blocks \subseteq S
<1> DEFINE T == S \cap Blocks
<1>1. T \in SUBSET Blocks /\ Genesis \in T
  BY TreeTypes
<1>2. \A b \in Blocks \ {Genesis} : Parent[b] \in T => b \in T
  OBVIOUS
<1>3. T = Blocks
  <2> HIDE DEF T
  <2> QED BY <1>1, <1>2, ChainAssumption
<1> QED BY <1>3

\* A set that has, with a block, its parent.
Closed(S) == S \subseteq Blocks /\ \A x \in S : x # Genesis => Parent[x] \in S

\* What every closed set that has b has.
Below(b) == {x \in Blocks : \A S \in SUBSET Blocks : Closed(S) /\ b \in S => x \in S}

LEMMA BelowClosed == ASSUME NEW b \in Blocks PROVE Closed(Below(b)) /\ b \in Below(b)
<1>1. ASSUME NEW x \in Below(b), x # Genesis PROVE Parent[x] \in Below(b)
  <2>1. x \in Blocks /\ Parent[x] \in Blocks
    BY <1>1, TreeTypes DEF Below
  <2>2. ASSUME NEW S \in SUBSET Blocks, Closed(S), b \in S PROVE Parent[x] \in S
    BY <1>1, <2>2 DEF Below, Closed
  <2> QED BY <2>1, <2>2 DEF Below
<1>2. Below(b) \subseteq Blocks /\ b \in Below(b)
  BY DEF Below
<1> QED BY <1>1, <1>2 DEF Closed

LEMMA BelowStep ==
  ASSUME NEW b \in Blocks
  PROVE  Below(b) = IF b = Genesis THEN {b} ELSE {b} \cup Below(Parent[b])
<1>1. CASE b = Genesis
  <2>1. Closed({b}) /\ {b} \in SUBSET Blocks
    BY <1>1 DEF Closed
  <2>2. Below(b) \subseteq {b}
    BY <2>1 DEF Below
  <2> QED BY <1>1, <2>2, BelowClosed
<1>2. CASE b # Genesis
  <2> DEFINE p == Parent[b]
             U == {b} \cup Below(p)
  <2>1. p \in Blocks
    BY <1>2, TreeTypes
  <2>2. Closed(Below(p)) /\ p \in Below(p)
    BY <2>1, BelowClosed
  <2>3. Closed(U) /\ U \in SUBSET Blocks /\ b \in U
    BY <2>2 DEF Closed
  <2>4. Below(b) \subseteq U
    <3> HIDE DEF U
    <3> QED BY <2>3 DEF Below
  <2>5. Closed(Below(b)) /\ b \in Below(b)
    BY BelowClosed
  <2>6. p \in Below(b) /\ Below(b) \in SUBSET Blocks
    BY <1>2, <2>5 DEF Closed
  <2>7. Below(p) \subseteq Below(b)
    BY <2>5, <2>6 DEF Below
  <2> QED BY <1>2, <2>4, <2>5, <2>7
<1> QED BY <1>1, <1>2

IsChain(c) == c = [b \in Blocks |-> IF b = Genesis THEN {b} ELSE {b} \cup c[Parent[b]]]

LEMMA ChainExists == \E c : IsChain(c)
<1> DEFINE c == [b \in Blocks |-> Below(b)]
<1>1. ASSUME NEW b \in Blocks
      PROVE  Below(b) = IF b = Genesis THEN {b} ELSE {b} \cup c[Parent[b]]
  BY BelowStep, TreeTypes
<1>2. IsChain(c)
  BY <1>1 DEF IsChain
<1> QED BY <1>2

LEMMA ChainChosen == Chain = CHOOSE c : IsChain(c)
BY DEF Chain, IsChain

\* A block's chain is the block and the chain of its parent.
LEMMA ChainStep ==
  /\ Chain[Genesis] = {Genesis}
  /\ \A b \in Blocks \ {Genesis} : Chain[b] = {b} \cup Chain[Parent[b]]
<1>1. IsChain(Chain)
  BY ChainChosen, ChainExists
<1> HIDE DEF Chain
<1>2. ASSUME NEW b \in Blocks
      PROVE  Chain[b] = IF b = Genesis THEN {b} ELSE {b} \cup Chain[Parent[b]]
  BY <1>1 DEF IsChain
<1> QED BY <1>2, TreeTypes

\* Chains are sets of blocks between Genesis and the block.
LEMMA ChainTypes ==
  \A b \in Blocks : Chain[b] \subseteq Blocks /\ b \in Chain[b] /\ Genesis \in Chain[b]
<1> DEFINE S == {b \in Blocks : Chain[b] \subseteq Blocks /\ b \in Chain[b] /\ Genesis \in Chain[b]}
<1>1. Genesis \in S
  BY ChainStep, TreeTypes
<1>2. \A b \in Blocks \ {Genesis} : Parent[b] \in S => b \in S
  BY ChainStep
<1>3. Blocks \subseteq S
  <2> HIDE DEF S
  <2> QED BY <1>1, <1>2, TreeInduction
<1> QED BY <1>3

\* The ancestors of an ancestor are ancestors.
LEMMA ChainTrans ==
  \A b \in Blocks : \A a \in Chain[b] : Chain[a] \subseteq Chain[b]
<1> DEFINE S == {b \in Blocks : \A a \in Chain[b] : Chain[a] \subseteq Chain[b]}
<1>1. Genesis \in S
  BY ChainStep, TreeTypes
<1>2. \A b \in Blocks \ {Genesis} : Parent[b] \in S => b \in S
  BY ChainStep
<1>3. Blocks \subseteq S
  <2> HIDE DEF S
  <2> QED BY <1>1, <1>2, TreeInduction
<1> QED BY <1>3

\* Of two ancestors of a block one is an ancestor of the other.
LEMMA ChainLinear ==
  \A b \in Blocks : \A a, c \in Chain[b] : a \in Chain[c] \/ c \in Chain[a]
<1> DEFINE S == {b \in Blocks : \A a, c \in Chain[b] : a \in Chain[c] \/ c \in Chain[a]}
<1>1. Genesis \in S
  BY ChainStep, TreeTypes, ChainTypes
<1>2. ASSUME NEW b \in Blocks \ {Genesis}, Parent[b] \in S PROVE b \in S
  <2>1. Chain[b] = {b} \cup Chain[Parent[b]] /\ b \in Chain[b]
    BY ChainStep, ChainTypes
  <2> SUFFICES ASSUME NEW a \in Chain[b], NEW c \in Chain[b]
               PROVE  a \in Chain[c] \/ c \in Chain[a]
    OBVIOUS
  <2>2. CASE a = b
    BY <2>2
  <2>3. CASE c = b
    BY <2>3
  <2>4. CASE a # b /\ c # b
    BY <1>2, <2>1, <2>4
  <2> QED BY <2>2, <2>3, <2>4
<1>3. Blocks \subseteq S
  <2> HIDE DEF S
  <2> QED BY <1>1, <1>2, TreeInduction
<1> QED BY <1>3

\* No block is among the ancestors of its parent.
LEMMA NotBelowParent == \A b \in Blocks \ {Genesis} : b \notin Chain[Parent[b]]
<1> DEFINE S == {b \in Blocks : \A x \in Chain[b] : x # Genesis => x \notin Chain[Parent[x]]}
<1>1. Genesis \in S
  BY ChainStep, TreeTypes
<1>2. ASSUME NEW b \in Blocks \ {Genesis}, Parent[b] \in S PROVE b \in S
  <2>1. Chain[b] = {b} \cup Chain[Parent[b]]
    BY ChainStep
  <2> QED BY <1>2, <2>1
<1>3. Blocks \subseteq S
  <2> HIDE DEF S
  <2> QED BY <1>1, <1>2, TreeInduction
<1> QED BY <1>3, ChainTypes

\* A closed set that has a block has its chain.
LEMMA ChainInClosed ==
  ASSUME NEW L, \A x \in L \ {Genesis} : Parent[x] \in L
  PROVE  \A b \in Blocks : b \in L => Chain[b] \subseteq L
<1> DEFINE S == {b \in Blocks : b \in L => Chain[b] \subseteq L}
<1>1. Genesis \in S
  BY ChainStep, TreeTypes
<1>2. \A b \in Blocks \ {Genesis} : Parent[b] \in S => b \in S
  BY ChainStep
<1>3. Blocks \subseteq S
  <2> HIDE DEF S
  <2> QED BY <1>1, <1>2, TreeInduction
<1> QED BY <1>3

\* The work of the blocks of one chain.
Weighs(b, f) ==
  /\ f \in [Chain[b] -> Nat]
  /\ \A x \in Chain[b] : f[x] = IF x = Genesis THEN Proof[x] ELSE f[Parent[x]] + Proof[x]

LEMMA ParentInChain ==
  \A b \in Blocks : \A x \in Chain[b] : x # Genesis => Parent[x] \in Chain[b]
BY ChainStep, ChainTypes, ChainTrans, TreeTypes

LEMMA WeighsExists == \A b \in Blocks : \E f : Weighs(b, f)
<1> DEFINE S == {b \in Blocks : \E f : Weighs(b, f)}
<1>1. Genesis \in S
  <2> DEFINE f == [x \in Chain[Genesis] |-> Proof[x]]
  <2>1. Weighs(Genesis, f)
    BY ChainStep, TreeTypes DEF Weighs
  <2> HIDE DEF f
  <2> QED BY <2>1, TreeTypes
<1>2. ASSUME NEW b \in Blocks \ {Genesis}, Parent[b] \in S PROVE b \in S
  <2>1. PICK g : Weighs(Parent[b], g)
    BY <1>2
  <2> DEFINE f == [x \in Chain[b] |-> IF x = b THEN g[Parent[b]] + Proof[b] ELSE g[x]]
  <2>2. /\ Chain[b] = {b} \cup Chain[Parent[b]] /\ b \notin Chain[Parent[b]]
        /\ Parent[b] \in Blocks /\ Parent[b] \in Chain[Parent[b]] /\ Proof[b] \in Nat
    BY ChainStep, NotBelowParent, TreeTypes, ChainTypes
  <2>3. g \in [Chain[Parent[b]] -> Nat] /\ g[Parent[b]] \in Nat
    BY <2>1, <2>2 DEF Weighs
  <2>4. /\ f \in [Chain[b] -> Nat] /\ f[b] = g[Parent[b]] + Proof[b]
        /\ \A x \in Chain[Parent[b]] : f[x] = g[x]
    BY <2>2, <2>3
  <2> HIDE DEF f
  <2>5. ASSUME NEW x \in Chain[b]
        PROVE  f[x] = IF x = Genesis THEN Proof[x] ELSE f[Parent[x]] + Proof[x]
    <3>1. CASE x = b
      BY <2>2, <2>4, <3>1
    <3>2. CASE x # b
      <4>1. x \in Chain[Parent[b]]
        BY <2>2, <3>2
      <4>2. g[x] = IF x = Genesis THEN Proof[x] ELSE g[Parent[x]] + Proof[x]
        BY <2>1, <4>1 DEF Weighs
      <4>3. x # Genesis => Parent[x] \in Chain[Parent[b]]
        BY <2>2, <4>1, ParentInChain
      <4> QED BY <2>4, <4>1, <4>2, <4>3
    <3> QED BY <3>1, <3>2
  <2>6. Weighs(b, f)
    BY <2>4, <2>5 DEF Weighs
  <2> QED BY <2>6
<1>3. Blocks \subseteq S
  <2> HIDE DEF S
  <2> QED BY <1>1, <1>2, TreeInduction
<1> QED BY <1>3

LEMMA WeighsAgree ==
  ASSUME NEW b \in Blocks, NEW c \in Blocks, NEW f, NEW g, Weighs(b, f), Weighs(c, g)
  PROVE  \A x \in Blocks : x \in Chain[b] /\ x \in Chain[c] => f[x] = g[x]
<1> DEFINE S == {x \in Blocks : x \in Chain[b] /\ x \in Chain[c] => f[x] = g[x]}
<1>1. Genesis \in S
  BY TreeTypes DEF Weighs
<1>2. ASSUME NEW x \in Blocks \ {Genesis}, Parent[x] \in S PROVE x \in S
  <2> SUFFICES ASSUME x \in Chain[b], x \in Chain[c] PROVE f[x] = g[x]
    OBVIOUS
  <2>1. Parent[x] \in Chain[b] /\ Parent[x] \in Chain[c]
    BY ParentInChain
  <2>2. f[Parent[x]] = g[Parent[x]]
    BY <1>2, <2>1
  <2>3. f[x] = f[Parent[x]] + Proof[x] /\ g[x] = g[Parent[x]] + Proof[x]
    BY DEF Weighs
  <2> QED BY <2>2, <2>3
<1>3. Blocks \subseteq S
  <2> HIDE DEF S
  <2> QED BY <1>1, <1>2, TreeInduction
<1> QED BY <1>3

IsWork(w) ==
  w = [b \in Blocks |-> IF b = Genesis THEN Proof[b] ELSE w[Parent[b]] + Proof[b]]

LEMMA WorkExists == \E w : IsWork(w)
<1> DEFINE F(b) == CHOOSE f : Weighs(b, f)
           w == [b \in Blocks |-> F(b)[b]]
<1>1. ASSUME NEW b \in Blocks PROVE Weighs(b, F(b))
  BY WeighsExists
<1> HIDE DEF F
<1>2. ASSUME NEW b \in Blocks
      PROVE  w[b] = IF b = Genesis THEN Proof[b] ELSE w[Parent[b]] + Proof[b]
  <2>1. F(b)[b] = IF b = Genesis THEN Proof[b] ELSE F(b)[Parent[b]] + Proof[b]
    BY <1>1, ChainTypes DEF Weighs
  <2>2. CASE b # Genesis
    <3>1. Parent[b] \in Blocks /\ Parent[b] \in Chain[b] /\ Parent[b] \in Chain[Parent[b]]
      BY <2>2, TreeTypes, ChainTypes, ParentInChain
    <3>2. F(b)[Parent[b]] = F(Parent[b])[Parent[b]]
      BY <1>1, <3>1, WeighsAgree
    <3> QED BY <2>1, <2>2, <3>1, <3>2
  <2> QED BY <2>1, <2>2
<1>3. w = [b \in Blocks |-> w[b]]
  OBVIOUS
<1> HIDE DEF w
<1>4. IsWork(w)
  BY <1>2, <1>3 DEF IsWork
<1> QED BY <1>4

LEMMA WorkChosen == Work = CHOOSE w : IsWork(w)
BY DEF Work, IsWork

\* nChainWork: a natural number that grows along every chain.
LEMMA WorkStep ==
  /\ \A b \in Blocks : Work[b] \in Nat
  /\ \A b \in Blocks \ {Genesis} : Work[Parent[b]] < Work[b]
<1>1. IsWork(Work)
  BY WorkChosen, WorkExists
<1> HIDE DEF Work
<1>2. ASSUME NEW b \in Blocks
      PROVE  Work[b] = IF b = Genesis THEN Proof[b] ELSE Work[Parent[b]] + Proof[b]
  BY <1>1 DEF IsWork
<1> DEFINE S == {b \in Blocks : Work[b] \in Nat}
<1>3. Genesis \in S
  BY <1>2, TreeTypes
<1>4. \A b \in Blocks \ {Genesis} : Parent[b] \in S => b \in S
  BY <1>2, TreeTypes
<1>5. Blocks \subseteq S
  <2> HIDE DEF S
  <2> QED BY <1>3, <1>4, TreeInduction
<1>6. ASSUME NEW b \in Blocks \ {Genesis} PROVE Work[Parent[b]] < Work[b]
  <2>1. Work[Parent[b]] \in Nat /\ Proof[b] \in Nat \ {0} /\ Work[b] = Work[Parent[b]] + Proof[b]
    BY <1>2, <1>5, TreeTypes
  <2> QED BY <2>1
<1> QED BY <1>5, <1>6

\* A proper ancestor has less work.
LEMMA WorkGrows == \A b \in Blocks : \A a \in Chain[b] : a = b \/ Work[a] < Work[b]
<1> DEFINE S == {b \in Blocks : \A a \in Chain[b] : a = b \/ Work[a] < Work[b]}
<1>1. Genesis \in S
  BY ChainStep, TreeTypes
<1>2. ASSUME NEW b \in Blocks \ {Genesis}, Parent[b] \in S PROVE b \in S
  <2> SUFFICES ASSUME NEW a \in Chain[b], a # b PROVE Work[a] < Work[b]
    OBVIOUS
  <2>1. a \in Chain[Parent[b]] /\ Parent[b] \in Blocks /\ a \in Blocks
    BY ChainStep, TreeTypes, ChainTypes
  <2>2. a = Parent[b] \/ Work[a] < Work[Parent[b]]
    BY <1>2, <2>1
  <2>3. Work[a] \in Nat /\ Work[b] \in Nat /\ Work[Parent[b]] \in Nat /\ Work[Parent[b]] < Work[b]
    BY <2>1, WorkStep
  <2> QED BY <2>2, <2>3
<1>3. Blocks \subseteq S
  <2> HIDE DEF S
  <2> QED BY <1>1, <1>2, TreeInduction
<1> QED BY <1>3

\* Two blocks that are ancestors of each other are one.
LEMMA ChainAnti ==
  ASSUME NEW a \in Blocks, NEW b \in Blocks, a \in Chain[b], b \in Chain[a]
  PROVE  a = b
<1>1. Work[a] \in Nat /\ Work[b] \in Nat
  BY WorkStep
<1>2. (a = b \/ Work[a] < Work[b]) /\ (b = a \/ Work[b] < Work[a])
  BY WorkGrows
<1> QED BY <1>1, <1>2

\* A non-empty set of naturals has a least element.
LEMMA LeastNatural ==
  ASSUME NEW S, S \subseteq Nat, S # {}
  PROVE  \E k \in S : \A l \in S : k <= l
<1> DEFINE R == {ss \in Nat \X Nat : ss[1] < ss[2]}
<1>1. R = OpToRel(<, Nat)
  BY DEF OpToRel
<1>2. IsWellFoundedOn(R, Nat)
  BY <1>1, NatLessThanWellFounded
<1>3. PICK x \in S : \A y \in S : <<y, x>> \notin R
  <2> HIDE DEF R
  <2> QED BY <1>2, WFMin
<1>4. ASSUME NEW y \in S PROVE x <= y
  <2>1. <<y, x>> \in Nat \X Nat /\ <<y, x>>[1] = y /\ <<y, x>>[2] = x
    OBVIOUS
  <2>2. ~(y < x)
    BY <1>3, <2>1
  <2> QED BY <2>2
<1> QED BY <1>4

\* Some blocks of one chain have a last one.
LEMMA TopExists ==
  ASSUME NEW b \in Blocks, NEW S, S \subseteq Chain[b], S # {}
  PROVE  TopOf(S) \in S /\ S \subseteq Chain[TopOf(S)]
<1> DEFINE D(x) == Work[b] - Work[x]
           N == {D(x) : x \in S}
<1>1. ASSUME NEW x \in S PROVE x \in Blocks /\ D(x) \in Nat
  <2>1. x \in Chain[b] /\ x \in Blocks /\ b \in Blocks
    BY ChainTypes
  <2>2. x = b \/ Work[x] < Work[b]
    BY <2>1, WorkGrows
  <2>3. Work[x] \in Nat /\ Work[b] \in Nat
    BY <2>1, WorkStep
  <2> QED BY <2>1, <2>2, <2>3
<1>2. PICK k \in N : \A l \in N : k <= l
  <2>1. N \subseteq Nat /\ N # {}
    BY <1>1
  <2> HIDE DEF N
  <2> QED BY <2>1, LeastNatural
<1>3. PICK t \in S : k = D(t)
  BY <1>2
<1>4. ASSUME NEW x \in S PROVE x \in Chain[t]
  <2>1. t \in Blocks /\ x \in Blocks /\ Work[t] \in Nat /\ Work[x] \in Nat /\ Work[b] \in Nat
    BY <1>1, WorkStep
  <2>2. x \in Chain[t] \/ t \in Chain[x]
    BY ChainLinear
  <2>3. D(t) <= D(x)
    BY <1>2, <1>3
  <2>4. ~(Work[t] < Work[x])
    BY <2>1, <2>3
  <2>5. t \in Chain[x] => t = x
    BY <2>1, <2>4, WorkGrows
  <2> QED BY <2>1, <2>2, <2>5, ChainTypes
<1> QED BY <1>4 DEF TopOf

\* The block of a chain that follows an ancestor.
LEMMA NextExists ==
  \A m \in Blocks : \A a \in Chain[m] :
    a # m => \E b \in Chain[m] \ {Genesis} : Parent[b] = a
<1> DEFINE S == {m \in Blocks : \A a \in Chain[m] :
                   a # m => \E b \in Chain[m] \ {Genesis} : Parent[b] = a}
<1>1. Genesis \in S
  BY ChainStep, TreeTypes
<1>2. ASSUME NEW m \in Blocks \ {Genesis}, Parent[m] \in S PROVE m \in S
  <2> SUFFICES ASSUME NEW a \in Chain[m], a # m
               PROVE  \E b \in Chain[m] \ {Genesis} : Parent[b] = a
    OBVIOUS
  <2>1. Chain[m] = {m} \cup Chain[Parent[m]]
    BY ChainStep
  <2>2. CASE a = Parent[m]
    BY <2>1, <2>2
  <2>3. CASE a # Parent[m]
    BY <1>2, <2>1, <2>3
  <2> QED BY <2>2, <2>3
<1>3. Blocks \subseteq S
  <2> HIDE DEF S
  <2> QED BY <1>1, <1>2, TreeInduction
<1> QED BY <1>3

\* CBlockIndexWorkComparator is a strict order, and so is being tied.
LEMMA WorseOrder ==
  ASSUME NEW s \in [Blocks -> Int], NEW a \in Blocks, NEW b \in Blocks, NEW c \in Blocks
  PROVE  /\ ~WorseAt(s, a, a)
         /\ WorseAt(s, a, b) => ~WorseAt(s, b, a)
         /\ WorseAt(s, a, b) /\ WorseAt(s, b, c) => WorseAt(s, a, c)
         /\ WorseAt(s, a, c) => WorseAt(s, a, b) \/ WorseAt(s, b, c)
<1>1. /\ Work[a] \in Nat /\ Work[b] \in Nat /\ Work[c] \in Nat
      /\ Addr[a] \in Nat /\ Addr[b] \in Nat /\ Addr[c] \in Nat
      /\ s[a] \in Int /\ s[b] \in Int /\ s[c] \in Int
  BY WorkStep, TreeTypes
<1> QED BY <1>1 DEF WorseAt

\* An ancestor is never better.
LEMMA AncestorWorse ==
  ASSUME NEW s \in [Blocks -> Int], NEW b \in Blocks, NEW a \in Chain[b]
  PROVE  a # b => WorseAt(s, a, b)
BY WorkGrows DEF WorseAt

\* Some candidates have a best one.
LEMMA BestExists ==
  ASSUME NEW s \in [Blocks -> Int], NEW C, C \subseteq Blocks, C # {}
  PROVE  \E b \in C : \A c \in C : ~WorseAt(s, b, c)
<1> DEFINE Over(b) == {c \in C : WorseAt(s, b, c)}
           N == {Cardinality(Over(b)) : b \in C}
<1>1. ASSUME NEW b \in C PROVE IsFiniteSet(Over(b)) /\ Cardinality(Over(b)) \in Nat
  <2>1. Over(b) \in SUBSET Blocks
    OBVIOUS
  <2>2. IsFiniteSet(Over(b))
    BY <2>1, TreeTypes, FS_Subset
  <2> QED BY <2>2, FS_CardinalityType
<1>2. PICK k \in N : \A l \in N : k <= l
  <2>1. N \subseteq Nat /\ N # {}
    BY <1>1
  <2> HIDE DEF N
  <2> QED BY <2>1, LeastNatural
<1>3. PICK b \in C : k = Cardinality(Over(b))
  BY <1>2
<1>4. ASSUME NEW c \in C, WorseAt(s, b, c) PROVE FALSE
  <2>1. Over(c) \in SUBSET Over(b) /\ c \in Over(b) /\ c \notin Over(c)
    BY <1>4, WorseOrder
  <2>2. Cardinality(Over(c)) <= Cardinality(Over(b)) /\ Cardinality(Over(b)) # Cardinality(Over(c))
    BY <1>1, <2>1, FS_Subset
  <2>3. Cardinality(Over(b)) <= Cardinality(Over(c))
    BY <1>2, <1>3
  <2>4. Cardinality(Over(b)) \in Nat /\ Cardinality(Over(c)) \in Nat
    BY <1>1
  <2> HIDE DEF Over
  <2> QED BY <2>2, <2>3, <2>4
<1> QED BY <1>4
-----------------------------------------------------------------------------
(* The inductive invariant. *)

\* What was received: in the entry i.
Received(i) ==
  /\ i[Genesis].data
  /\ \A b \in Blocks : i[b].data => i[b].tx
  /\ \A b \in Blocks : i[b].tx => b \notin setting.malformed

\* Linked blocks have all their ancestors, and everything chosen is linked.
Links ==
  /\ Received(idx) /\ Received(disk.idx)
  /\ Genesis \in linked
  /\ \A b \in linked : idx[b].tx
  /\ \A b \in linked \ {Genesis} : Parent[b] \in linked
  /\ cand \subseteq linked /\ tip \in linked
  /\ \A b \in unlinked : idx[b].tx
  /\ \A t \in Threads : thr[t].most # NoBlock => thr[t].most \in linked
  /\ \A b \in Blocks \ dirty : disk.idx[b].tx = idx[b].tx
  /\ \A b \in Blocks : disk.idx[b].tx => idx[b].tx
  /\ \A b \in Chain[disk.best] : disk.idx[b].tx

\* Who is where in ActivateBestChain.
Places ==
  /\ \A t \in Threads :
       /\ thr[t].pc = "loop" => t \in setting.threads
       /\ thr[t].most # NoBlock => thr[t].pc = "loop"
  /\ sec.pc # "free" => thr[sec.by].pc = "loop"
  /\ sec.pc = "find" => thr[sec.by].most = NoBlock
  /\ sec.pc = "step" => thr[sec.by].most # NoBlock /\ thr[sec.by].most # tip

Basic == TypeOK /\ Links /\ Places

\* Blocks that are invalid, whether the node knows it or not.
Invalid == setting.bad \cup setting.malformed

\* Flags have a cause among the ancestors.
Caused(i) ==
  \A b \in Blocks : /\ i[b].failedValid => b \in Invalid
                    /\ i[b].failedChild => \E a \in Chain[b] : a \in Invalid

\* Nothing invalid was ever made part of the active chain.
Blame ==
  /\ Caused(idx) /\ Caused(disk.idx)
  /\ failedSet \subseteq setting.bad
  /\ \A b \in Chain[tip] : b \notin setting.bad
  /\ \A b \in Chain[disk.best] : b \notin setting.bad

\* Neither the RPC calls nor pruning.
Plain == setting.ops \subseteq {"crash"}

\* A flag has its cause in the same index, a failed block that is not linked
\* has a failed ancestor that was never received.
Marks(i) ==
  /\ \A b \in Blocks : i[b].data = i[b].tx
  /\ \A b \in Blocks : i[b].failedChild => \E a \in Chain[b] : i[a].failedValid
  /\ \A b \in Blocks :
       FailedIn(i, b) /\ (\E a \in Chain[b] : ~i[a].tx) =>
         \E a \in Chain[b] : FailedIn(i, a) /\ ~i[a].tx

Flags ==
  /\ fault = "none"
  /\ Marks(idx) /\ Marks(disk.idx)
  /\ \A b \in failedSet : b \in linked /\ idx[b].failedValid
  /\ \A b \in Blocks :
       /\ disk.idx[b].failedValid => idx[b].failedValid
       /\ disk.idx[b].failedChild => Failed(b)
       /\ b \notin dirty /\ idx[b].failedValid => disk.idx[b].failedValid
       /\ b \notin dirty /\ ~idx[b].tx /\ Failed(b) => FailedIn(disk.idx, b)

\* mapBlocksUnlinked has the received blocks that wait, unless their parent is
\* failed, only those, and each once.
Waits ==
  /\ \A b \in Blocks : idx[b].tx /\ b \notin linked =>
       /\ Parent[b] \notin linked
       /\ b \in unlinked \/ Failed(Parent[b])
  /\ \A b \in unlinked : HasUnseen(b)
  /\ \A b \in Blocks : pairs[b] \in {0, 1}

\* No member of the set is worse than the tip; and one of them is valid,
\* received, and no worse than any block that could be chosen and is not in it.
Usable(b) == \A a \in Chain[b] : ~Failed(a)
TopCandidate(h) ==
  /\ h \in cand /\ Usable(h) /\ \A a \in Chain[h] : a \notin setting.bad
  /\ \A b \in linked : Usable(b) => b \in cand \/ Worse(b, h)
NoneWorse == \A b \in cand : ~Worse(b, tip)

\* A single thread goes to the best candidate, and stays there.
Chosen(b) == b \in cand /\ \A c \in cand : ~Worse(b, c)
Steady ==
  OneThread =>
    /\ (\A t \in Threads : thr[t].pc = "idle") => Chosen(tip)
    /\ \A t \in Threads : thr[t].most # NoBlock => Chosen(thr[t].most)

Best1 == NoneWorse /\ (\E h \in cand : TopCandidate(h)) /\ Steady

\* A member of gFailedBlocks is marked invalid, as AcceptBlockHeader asserts.
Remembered == fault # "failedit" /\ \A b \in failedSet : idx[b].failedValid

IInv ==
  /\ Basic
  /\ Without("invalidate") => Blame
  /\ Without("reconsider") => Remembered
  /\ Plain => Flags /\ Waits /\ Best1

-----------------------------------------------------------------------------
(* What the invariant says of chains. *)

LEMMA SeqInt == ASSUME TypeOK PROVE seq \in [Blocks -> Int]
BY ChainAssumption DEF TypeOK

\* The chain of a linked block is linked and was received.
LEMMA LinkedChain ==
  ASSUME TypeOK, Links, NEW b \in linked
  PROVE  b \in Blocks /\ Chain[b] \subseteq linked /\ \A a \in Chain[b] : a \in Blocks /\ idx[a].tx
<1>1. b \in Blocks /\ linked \subseteq Blocks
  BY DEF TypeOK
<1>2. \A x \in linked \ {Genesis} : Parent[x] \in linked
  BY DEF Links
<1>3. Chain[b] \subseteq linked
  BY <1>1, <1>2, ChainInClosed
<1>4. \A a \in linked : idx[a].tx
  BY DEF Links
<1> QED BY <1>1, <1>3, <1>4

LEMMA BestIn ==
  ASSUME TypeOK, cand # {}
  PROVE  Best \in cand /\ \A c \in cand : ~Worse(Best, c)
<1>1. cand \subseteq Blocks
  BY DEF TypeOK
<1>2. \E b \in cand : \A c \in cand : ~WorseAt(seq, b, c)
  BY <1>1, SeqInt, BestExists
<1> QED BY <1>2 DEF Best, Worse

\* The next block to connect is the one above the tip.
LEMMA NextIn ==
  ASSUME Basic, NEW t \in Threads, Stepping(t), tip \in Chain[thr[t].most]
  PROVE  /\ thr[t].most \in linked /\ thr[t].most \in Blocks /\ thr[t].most # tip
         /\ NextToConnect(t) \in Chain[thr[t].most] \ {Genesis}
         /\ Parent[NextToConnect(t)] = tip
         /\ NextToConnect(t) \in linked /\ NextToConnect(t) \in Blocks
<1>1. thr[t].most # NoBlock /\ thr[t].most # tip
  BY DEF Basic, Places, Stepping
<1>2. thr[t].most \in linked
  BY <1>1 DEF Basic, Links
<1>3. thr[t].most \in Blocks /\ Chain[thr[t].most] \subseteq linked /\ linked \subseteq Blocks
  BY <1>2, LinkedChain DEF Basic, TypeOK
<1>4. \E b \in Chain[thr[t].most] \ {Genesis} : Parent[b] = tip
  BY <1>1, <1>3, NextExists
<1>5. NextToConnect(t) \in Chain[thr[t].most] \ {Genesis} /\ Parent[NextToConnect(t)] = tip
  BY <1>4 DEF NextToConnect
<1> QED BY <1>1, <1>2, <1>3, <1>5

\* The states of a thread and of cs_main that the actions lead to.
LEMMA SmallTypes ==
  /\ Idle \in [pc : {"idle", "loop"}, most : Blocks \cup {NoBlock}]
  /\ Loop \in [pc : {"idle", "loop"}, most : Blocks \cup {NoBlock}]
  /\ \A m \in Blocks \cup {NoBlock} :
       [pc |-> "loop", most |-> m] \in [pc : {"idle", "loop"}, most : Blocks \cup {NoBlock}]
  /\ Idle.pc = "idle" /\ Idle.most = NoBlock /\ Loop.pc = "loop" /\ Loop.most = NoBlock
  /\ Free.pc = "free" /\ Free \in {Free} \cup [pc : {"find", "step"}, by : Threads, old : Blocks]
BY DEF Idle, Loop, Free

-----------------------------------------------------------------------------
(* Types, links and places are kept by every step of every setting. *)

\* The blocks that wait, after the three things that happen to mapBlocksUnlinked.
LEMMA UnlinkedKept == UNCHANGED pairs => unlinked' = unlinked
BY DEF unlinked

LEMMA UnlinkedErased ==
  ASSUME TypeOK, NEW S, pairs' = Erased(S)
  PROVE  unlinked' = unlinked \ S /\ pairs' \in [Blocks -> Nat]
<1>1. \A x \in Blocks : pairs'[x] = (IF x \in S THEN 0 ELSE pairs[x])
  BY DEF Erased
<1>2. unlinked' = unlinked \ S
  BY <1>1 DEF unlinked
<1>3. pairs' \in [Blocks -> Nat]
  BY DEF Erased, TypeOK
<1> QED BY <1>2, <1>3

LEMMA UnlinkedInserted ==
  ASSUME TypeOK, NEW S \in SUBSET Blocks, pairs' = Inserted(S)
  PROVE  unlinked' = unlinked \cup S /\ pairs' \in [Blocks -> Nat]
<1>1. pairs \in [Blocks -> Nat]
  BY DEF TypeOK
<1>2. \A x \in Blocks : pairs'[x] = (IF x \in S THEN pairs[x] + 1 ELSE pairs[x])
  BY DEF Inserted
<1>3. unlinked' = unlinked \cup S
  BY <1>1, <1>2 DEF unlinked
<1>4. pairs' \in [Blocks -> Nat]
  BY <1>1 DEF Inserted
<1> QED BY <1>3, <1>4

\* Links depend on what was received, not on flags.
LEMMA LinksFrame ==
  ASSUME TypeOK, Links,
         \A b \in Blocks : idx'[b].tx = idx[b].tx /\ idx'[b].data = idx[b].data,
         UNCHANGED <<setting, linked, disk>>,
         cand' \subseteq linked, tip' \in linked, dirty \subseteq dirty',
         \A b \in unlinked' : b \in unlinked \/ b \in linked,
         \A t \in Threads : thr'[t].most # NoBlock => thr'[t].most \in linked
  PROVE  Links'
<1>1. Genesis \in Blocks /\ linked \subseteq Blocks /\ unlinked \subseteq Blocks
  BY TreeTypes DEF TypeOK, unlinked
<1>2. Received(idx)'
  BY <1>1 DEF Links, Received
<1>3. Received(disk.idx)'
  BY DEF Links, Received
<1>4. Genesis \in linked' /\ cand' \subseteq linked' /\ tip' \in linked'
  BY DEF Links
<1>5. (\A b \in linked : idx[b].tx)' /\ (\A b \in unlinked : idx[b].tx)'
  BY <1>1 DEF Links
<1>6. (\A b \in linked \ {Genesis} : Parent[b] \in linked)'
  BY DEF Links
<1>7. (\A t \in Threads : thr[t].most # NoBlock => thr[t].most \in linked)'
  OBVIOUS
<1>8. (\A b \in Blocks \ dirty : disk.idx[b].tx = idx[b].tx)' /\ (\A b \in Blocks : disk.idx[b].tx => idx[b].tx)'
  BY DEF Links
<1>9. (\A b \in Chain[disk.best] : disk.idx[b].tx)'
  BY DEF Links
<1> QED BY <1>2, <1>3, <1>4, <1>5, <1>6, <1>7, <1>8, <1>9 DEF Links

\* Places depend on the threads and on cs_main alone.
LEMMA PlacesFrame ==
  ASSUME Places, UNCHANGED <<setting, thr, sec, tip>>
  PROVE  Places'
BY DEF Places

\* AcceptBlockHeader changes flags only.
LEMMA HeaderChanges ==
  ASSUME TypeOK, NEW b \in Blocks, AcceptBlockHeader(b)
  PROVE  /\ UNCHANGED <<setting, linked, seq, nextSeq, precious, cand, pairs, failedSet,
                        tip, thr, sec, disk>>
         /\ idx' \in [Blocks -> Entry] /\ dirty \subseteq dirty' /\ dirty' \subseteq Blocks
         /\ \A x \in Blocks : idx'[x].tx = idx[x].tx /\ idx'[x].data = idx[x].data
         /\ fault' \in {fault, "failedit"}
<1>1. UNCHANGED <<setting, linked, seq, nextSeq, precious, cand, pairs, failedSet,
                  tip, thr, sec, disk>> /\ Parent[b] \in Blocks
  BY DEF AcceptBlockHeader, Known
<1>2. idx \in [Blocks -> Entry] /\ dirty \subseteq Blocks
  BY DEF TypeOK
<1>3. CASE idx' = [idx EXCEPT ![b].known = TRUE] /\ dirty' = dirty \cup {b} /\ UNCHANGED fault
  BY <1>1, <1>2, <1>3 DEF Entry
<1>4. CASE fault' = "failedit" /\ UNCHANGED <<idx, dirty>>
  BY <1>1, <1>2, <1>4
<1>5. ASSUME NEW f \in Blocks,
             idx' = [x \in Blocks |-> [idx[x] EXCEPT !.failedChild =
                                         @ \/ x \in Chain[Parent[b]] \ Chain[f]]],
             dirty' = dirty \cup (Chain[Parent[b]] \ Chain[f]), UNCHANGED fault
      PROVE  /\ idx' \in [Blocks -> Entry] /\ dirty \subseteq dirty' /\ dirty' \subseteq Blocks
             /\ \A x \in Blocks : idx'[x].tx = idx[x].tx /\ idx'[x].data = idx[x].data
             /\ fault' \in {fault, "failedit"}
  <2>1. Chain[Parent[b]] \subseteq Blocks
    BY <1>1, ChainTypes
  <2> QED BY <1>2, <1>5, <2>1 DEF Entry
<1>6. FailedBelow(Parent[b]) \subseteq Blocks
  BY DEF FailedBelow, TypeOK
<1> QED BY <1>1, <1>3, <1>4, <1>5, <1>6 DEF AcceptBlockHeader

LEMMA HeaderBasic ==
  ASSUME Basic, NEW b \in Blocks, AcceptBlockHeader(b)
  PROVE  Basic'
<1>1. TypeOK'
  BY HeaderChanges DEF Basic, TypeOK
<1>2. Links'
  BY HeaderChanges, LinksFrame, UnlinkedKept DEF Basic, Links
<1>3. Places'
  BY HeaderChanges, PlacesFrame DEF Basic
<1> QED BY <1>1, <1>2, <1>3 DEF Basic

\* What ReceivedBlockTransactions links: the block, and above it what waited.
LEMMA NowLinkedIs ==
  ASSUME TypeOK, NEW b \in Blocks \ {Genesis}
  PROVE  /\ NowLinked(b) \subseteq Blocks /\ b \in NowLinked(b)
         /\ \A x \in NowLinked(b) : b \in Chain[x] /\ (x = b \/ x \in unlinked)
         /\ \A x \in NowLinked(b) \ {b} : x # Genesis /\ Parent[x] \in NowLinked(b)
<1>1. NowLinked(b) \subseteq Blocks /\ b \in NowLinked(b)
  BY ChainTypes DEF NowLinked
<1>2. ASSUME NEW x \in NowLinked(b)
      PROVE  b \in Chain[x] /\ (x = b \/ x \in unlinked)
  <2>1. x \in Blocks /\ b \in Chain[x] /\ x \in Chain[x] /\ (Chain[x] \ Chain[b]) \subseteq unlinked
    BY ChainTypes DEF NowLinked
  <2>2. x \in Chain[b] => x = b
    BY <2>1, ChainAnti
  <2> QED BY <2>1, <2>2
<1>3. ASSUME NEW x \in NowLinked(b), x # b
      PROVE  x # Genesis /\ Parent[x] \in NowLinked(b)
  <2>1. x \in Blocks /\ b \in Chain[x] /\ (Chain[x] \ Chain[b]) \subseteq unlinked
    BY DEF NowLinked
  <2>2. x # Genesis
    BY <2>1, ChainStep
  <2>3. Chain[x] = {x} \cup Chain[Parent[x]] /\ Parent[x] \in Blocks
    BY <2>1, <2>2, ChainStep, TreeTypes
  <2> QED BY <1>3, <2>1, <2>2, <2>3 DEF NowLinked
<1> QED BY <1>1, <1>2, <1>3

\* The three outcomes of ProcessNewBlock.
Ignored(t) == thr' = [thr EXCEPT ![t] = Loop] /\ UNCHANGED <<index, cand>>
Refused(b) ==
  /\ b \in setting.malformed /\ ~idx[b].data
  /\ idx' = [idx EXCEPT ![b].failedValid = TRUE]
  /\ dirty' = dirty \cup {b}
  /\ UNCHANGED <<setting, thr, linked, seq, nextSeq, pairs, cand, failedSet, precious>>
Stored(t, b) ==
  /\ b \notin setting.malformed /\ ~idx[b].data
  /\ ReceivedBlockTransactions(b)
  /\ thr' = [thr EXCEPT ![t] = Loop]
  /\ UNCHANGED <<setting, failedSet, precious>>

LEMMA ProcessCases ==
  ASSUME NEW t \in Threads, NEW b \in Blocks, NEW r \in BOOLEAN, ProcessNewBlock(t, b, r)
  PROVE  /\ b # Genesis /\ ~Failed(b) /\ t \in setting.threads /\ thr[t].pc = "idle"
         /\ Unlocked /\ UNCHANGED <<setting, tip, sec, fault, disk>>
         /\ Ignored(t) \/ Refused(b) \/ Stored(t, b)
<1>1. /\ b # Genesis /\ ~Failed(b) /\ t \in setting.threads /\ thr[t].pc = "idle"
      /\ Unlocked /\ UNCHANGED <<setting, tip, sec, fault, disk>>
  BY DEF ProcessNewBlock
<1>2. CASE ~Wanted(b, r)
  BY <1>2 DEF ProcessNewBlock, Ignored
<1>3. CASE Wanted(b, r) /\ b \in setting.malformed
  <2>1. ~idx[b].data
    BY <1>3 DEF Wanted
  <2> QED BY <1>1, <1>3, <2>1 DEF ProcessNewBlock, Refused
<1>4. CASE Wanted(b, r) /\ b \notin setting.malformed
  <2>1. ~idx[b].data
    BY <1>4 DEF Wanted
  <2> QED BY <1>1, <1>4, <2>1 DEF ProcessNewBlock, Stored
<1> QED BY <1>1, <1>2, <1>3, <1>4

\* A block is stored whose parent is linked, or is not.
Extends(b, s) ==
  /\ Parent[b] \in linked
  /\ seq' = [x \in Blocks |-> IF x \in NowLinked(b) THEN s[x] ELSE seq[x]]
  /\ cand' = cand \cup {x \in NowLinked(b) : ~WorseAt(seq', x, tip)}
  /\ nextSeq' = nextSeq + Cardinality(Visits(b, NowLinked(b))) /\ nextSeq' <= MaxSeq + 1
  /\ linked' = linked \cup NowLinked(b)
  /\ pairs' = Erased(NowLinked(b) \ {b})
Orphan(b) ==
  /\ Parent[b] \notin linked
  /\ linked' = linked \ {b} /\ pairs' = Waiting(b)
  /\ UNCHANGED <<seq, nextSeq, cand>>

LEMMA StoredCases ==
  ASSUME NEW t \in Threads, NEW b \in Blocks, Stored(t, b)
  PROVE  /\ idx' = [idx EXCEPT ![b].data = TRUE, ![b].tx = TRUE] /\ dirty' = dirty \cup {b}
         /\ (\E s \in Numberings(b, NowLinked(b)) : Extends(b, s)) \/ Orphan(b)
<1>1. CASE Parent[b] \in linked
  BY <1>1 DEF Stored, ReceivedBlockTransactions, Extends
<1>2. CASE Parent[b] \notin linked
  BY <1>2 DEF Stored, ReceivedBlockTransactions, Orphan
<1> QED BY <1>1, <1>2

\* The blocks that wait, in the two cases.
LEMMA StoredUnlinked ==
  ASSUME TypeOK, NEW b \in Blocks
  PROVE  /\ \A s : Extends(b, s) => /\ unlinked' = unlinked \ (NowLinked(b) \ {b})
                                   /\ pairs' \in [Blocks -> Nat]
         /\ Orphan(b) => /\ unlinked' = IF Failed(Parent[b]) THEN unlinked ELSE unlinked \cup {b}
                         /\ pairs' \in [Blocks -> Nat]
<1>1. ASSUME NEW s, Extends(b, s)
      PROVE  unlinked' = unlinked \ (NowLinked(b) \ {b}) /\ pairs' \in [Blocks -> Nat]
  <2>1. pairs' = Erased(NowLinked(b) \ {b})
    BY <1>1 DEF Extends
  <2> QED BY <2>1, UnlinkedErased
<1>2. CASE Orphan(b) /\ Failed(Parent[b])
  <2>1. pairs' = pairs
    BY <1>2 DEF Orphan, Waiting
  <2> QED BY <1>1, <1>2, <2>1, UnlinkedKept DEF TypeOK
<1>3. CASE Orphan(b) /\ ~Failed(Parent[b])
  <2>1. pairs' = Inserted({b})
    BY <1>3 DEF Orphan, Waiting
  <2> QED BY <1>1, <1>3, <2>1, UnlinkedInserted
<1> QED BY <1>1, <1>2, <1>3

\* The turns of the queue are finitely many.
LEMMA VisitsFinite ==
  ASSUME TypeOK, NEW b \in Blocks, NEW S \in SUBSET Blocks
  PROVE  Cardinality(Visits(b, S)) \in Nat
<1> DEFINE n(x) == IF x = b THEN 1 ELSE pairs[x]
           turns(x) == {x} \X (1..n(x))
           U == {turns(x) : x \in S}
<1>1. IsFiniteSet(S)
  BY TreeTypes, FS_Subset
<1>2. IsFiniteSet(U)
  <2> DEFINE f == [x \in S |-> turns(x)]
  <2>1. f \in Surjection(S, U)
    <3>1. f \in [S -> U] /\ \A T \in U : \E x \in S : f[x] = T
      BY Zenon
    <3> QED BY <3>1 DEF Surjection
  <2> HIDE DEF f, U
  <2> QED BY <1>1, <2>1, FS_Surjection
<1>3. ASSUME NEW x \in S PROVE IsFiniteSet(turns(x))
  <2>1. n(x) \in Nat
    BY DEF TypeOK
  <2> HIDE DEF n
  <2>2. IsFiniteSet(1..n(x))
    BY <2>1, FS_Interval
  <2>3. IsFiniteSet({x})
    BY FS_Singleton
  <2> QED BY <2>2, <2>3, FS_Product
<1>4. IsFiniteSet(UNION U)
  <2>1. \A T \in U : IsFiniteSet(T)
    BY <1>3
  <2> HIDE DEF U
  <2> QED BY <1>2, <2>1, FS_UNION
<1>5. Visits(b, S) = UNION U
  BY DEF Visits
<1> QED BY <1>4, <1>5, FS_CardinalityType

LEMMA EntryStored ==
  ASSUME TypeOK, NEW b \in Blocks, idx' = [idx EXCEPT ![b].data = TRUE, ![b].tx = TRUE]
  PROVE  /\ idx' \in [Blocks -> Entry] /\ idx'[b].data /\ idx'[b].tx
         /\ \A x \in Blocks \ {b} : idx'[x] = idx[x]
         /\ idx'[b].failedValid = idx[b].failedValid /\ idx'[b].failedChild = idx[b].failedChild
<1>1. idx \in [Blocks -> Entry]
  BY DEF TypeOK
<1>2. idx' = [idx EXCEPT ![b] = [idx[b] EXCEPT !.data = TRUE, !.tx = TRUE]]
  BY <1>1
<1>3. idx'[b] = [idx[b] EXCEPT !.data = TRUE, !.tx = TRUE] /\ \A x \in Blocks \ {b} : idx'[x] = idx[x]
  BY <1>1, <1>2
<1>4. [idx[b] EXCEPT !.data = TRUE, !.tx = TRUE] \in Entry
  BY <1>1 DEF Entry
<1>5. idx' \in [Blocks -> Entry]
  BY <1>1, <1>2, <1>4
<1>6. idx[b] \in Entry
  BY <1>1
<1> QED BY <1>3, <1>5, <1>6 DEF Entry

LEMMA StoredTypes ==
  ASSUME Basic, NEW t \in Threads, NEW b \in Blocks \ {Genesis}, Stored(t, b),
         UNCHANGED <<setting, tip, sec, fault, disk>>
  PROVE  TypeOK'
<1>1. /\ idx' \in [Blocks -> Entry]
      /\ linked \subseteq Blocks /\ cand \subseteq Blocks
      /\ dirty' \subseteq Blocks /\ NowLinked(b) \subseteq Blocks
  <2>1. idx' = [idx EXCEPT ![b].data = TRUE, ![b].tx = TRUE] /\ dirty' = dirty \cup {b}
    BY StoredCases
  <2>2. idx' \in [Blocks -> Entry] /\ NowLinked(b) \subseteq Blocks
    BY <2>1, EntryStored, NowLinkedIs DEF Basic
  <2> QED BY <2>1, <2>2 DEF Basic, TypeOK
<1>2. thr' \in [Threads -> [pc : {"idle", "loop"}, most : Blocks \cup {NoBlock}]]
  BY SmallTypes DEF Basic, TypeOK, Stored
<1>3. linked' \subseteq Blocks /\ cand' \subseteq Blocks /\ pairs' \in [Blocks -> Nat]
  <2>1. CASE Orphan(b)
    BY <1>1, <2>1, StoredUnlinked DEF Orphan, Basic
  <2>2. ASSUME NEW s \in Numberings(b, NowLinked(b)), Extends(b, s)
        PROVE  linked' \subseteq Blocks /\ cand' \subseteq Blocks /\ pairs' \in [Blocks -> Nat]
    <3>1. /\ linked' = linked \cup NowLinked(b) /\ pairs' \in [Blocks -> Nat]
          /\ cand' \subseteq cand \cup NowLinked(b)
      BY <2>2, StoredUnlinked DEF Extends, Basic
    <3> QED BY <1>1, <3>1
  <2> QED BY <2>1, <2>2, StoredCases
<1>4. seq' \in [Blocks -> (-MaxPrecious)..MaxSeq] /\ nextSeq' \in 1..(MaxSeq + 1)
  <2>1. seq \in [Blocks -> (-MaxPrecious)..MaxSeq] /\ nextSeq \in 1..(MaxSeq + 1)
    BY DEF Basic, TypeOK
  <2>2. CASE Orphan(b)
    BY <2>1, <2>2 DEF Orphan
  <2>3. ASSUME NEW s \in Numberings(b, NowLinked(b)), Extends(b, s)
        PROVE  seq' \in [Blocks -> (-MaxPrecious)..MaxSeq] /\ nextSeq' \in 1..(MaxSeq + 1)
    <3> DEFINE n == Cardinality(Visits(b, NowLinked(b)))
    <3>1. n \in Nat
      BY <1>1, VisitsFinite DEF Basic
    <3>2. s \in [NowLinked(b) -> nextSeq..(nextSeq - 1 + n)]
      BY DEF Numberings
    <3>3. nextSeq' = nextSeq + n /\ nextSeq' <= MaxSeq + 1 /\ MaxSeq \in Nat /\ MaxPrecious \in Nat
      BY <2>3, ChainAssumption DEF Extends
    <3> HIDE DEF n
    <3>4. \A x \in nextSeq..(nextSeq - 1 + n) : x \in (-MaxPrecious)..MaxSeq
      BY <2>1, <3>1, <3>3
    <3>5. seq' = [x \in Blocks |-> IF x \in NowLinked(b) THEN s[x] ELSE seq[x]]
      BY <2>3 DEF Extends
    <3>6. seq' \in [Blocks -> (-MaxPrecious)..MaxSeq]
      BY <2>1, <3>2, <3>4, <3>5
    <3> QED BY <2>1, <3>1, <3>3, <3>6
  <2> QED BY <2>2, <2>3, StoredCases
<1> QED BY <1>1, <1>2, <1>3, <1>4 DEF Basic, TypeOK, Stored

LEMMA StoredLinks ==
  ASSUME Basic, NEW t \in Threads, NEW b \in Blocks \ {Genesis}, Stored(t, b),
         UNCHANGED <<setting, tip, sec, fault, disk>>
  PROVE  Links'
<1>1. /\ linked \subseteq Blocks /\ cand \subseteq linked /\ unlinked \subseteq Blocks
      /\ Genesis \in linked /\ tip \in linked
      /\ \A x \in linked \ {Genesis} : Parent[x] \in linked
      /\ \A x \in linked : idx[x].tx
      /\ \A x \in unlinked : idx[x].tx
  BY DEF Basic, TypeOK, Links, unlinked
<1>2. /\ idx'[b].data /\ idx'[b].tx /\ b \notin setting.malformed
      /\ \A x \in Blocks \ {b} : idx'[x] = idx[x]
      /\ dirty' = dirty \cup {b}
  BY StoredCases, EntryStored DEF Basic, Stored
<1>3. /\ linked \subseteq linked' /\ linked' \subseteq Blocks
      /\ \A x \in linked' \ {Genesis} : Parent[x] \in linked'
      /\ \A x \in linked' : idx'[x].tx
      /\ cand' \subseteq linked'
      /\ \A x \in unlinked' : idx'[x].tx
  <2>1. ASSUME NEW s \in Numberings(b, NowLinked(b)), Extends(b, s) PROVE <1>3!:
    <3>1. /\ linked' = linked \cup NowLinked(b) /\ unlinked' \subseteq unlinked
          /\ cand' \subseteq cand \cup NowLinked(b) /\ Parent[b] \in linked
      BY <2>1, StoredUnlinked DEF Extends, Basic
    <3> QED BY <1>1, <1>2, <3>1, NowLinkedIs DEF Basic
  <2>2. CASE Orphan(b)
    <3>1. b \notin linked
      BY <1>1, <2>2 DEF Orphan
    <3>2. linked' = linked /\ unlinked' \subseteq unlinked \cup {b} /\ cand' = cand
      BY <2>2, <3>1, StoredUnlinked DEF Orphan, Basic
    <3> QED BY <1>1, <1>2, <3>2
  <2> QED BY <2>1, <2>2, StoredCases
<1>4. Received(idx)'
  BY <1>2, TreeTypes DEF Basic, Links, Received
<1>5. Received(disk.idx)'
  BY DEF Basic, Links, Received
<1>6. (\A u \in Threads : thr[u].most # NoBlock => thr[u].most \in linked)'
  BY <1>3, SmallTypes DEF Basic, Links, TypeOK, Stored
<1>7. (\A x \in Blocks \ dirty : disk.idx[x].tx = idx[x].tx)' /\ (\A x \in Blocks : disk.idx[x].tx => idx[x].tx)'
  BY <1>2 DEF Basic, Links
<1>8. (\A x \in Chain[disk.best] : disk.idx[x].tx)'
  BY DEF Basic, Links
<1> QED BY <1>1, <1>3, <1>4, <1>5, <1>6, <1>7, <1>8 DEF Links

\* A thread enters ActivateBestChain.
LEMMA PlacesLoop ==
  ASSUME TypeOK, Places, NEW t \in Threads, t \in setting.threads, sec.pc = "free",
         thr' = [thr EXCEPT ![t] = Loop], UNCHANGED <<setting, sec>>
  PROVE  Places'
BY SmallTypes DEF TypeOK, Places

LEMMA ProcessBasic ==
  ASSUME Basic, NEW t \in Threads, NEW b \in Blocks, NEW r \in BOOLEAN, ProcessNewBlock(t, b, r)
  PROVE  Basic'
<1>1. /\ b # Genesis /\ t \in setting.threads /\ sec.pc = "free"
      /\ UNCHANGED <<setting, tip, sec, fault, disk>>
  BY ProcessCases DEF Unlocked
<1>2. CASE Ignored(t)
  <2>1. TypeOK'
    BY <1>1, <1>2, SmallTypes DEF Basic, TypeOK, Ignored, index
  <2>2. Links'
    BY <1>1, <1>2, SmallTypes, LinksFrame, UnlinkedKept DEF Basic, TypeOK, Links, Ignored, index
  <2>3. Places'
    BY <1>1, <1>2, PlacesLoop DEF Basic, Ignored
  <2> QED BY <2>1, <2>2, <2>3 DEF Basic
<1>3. CASE Refused(b)
  <2>1. idx' \in [Blocks -> Entry] /\ \A x \in Blocks : idx'[x].tx = idx[x].tx /\ idx'[x].data = idx[x].data
    <3>1. idx \in [Blocks -> Entry] /\ idx' = [idx EXCEPT ![b].failedValid = TRUE]
      BY <1>3 DEF Basic, TypeOK, Refused
    <3> QED BY <3>1 DEF Entry
  <2>2. TypeOK'
    BY <1>1, <1>3, <2>1 DEF Basic, TypeOK, Refused
  <2>3. Links'
    BY <1>1, <1>3, <2>1, LinksFrame, UnlinkedKept DEF Basic, Links, Refused
  <2>4. Places'
    BY <1>1, <1>3, PlacesFrame DEF Basic, Refused
  <2> QED BY <2>2, <2>3, <2>4 DEF Basic
<1>4. CASE Stored(t, b)
  <2>1. TypeOK' /\ Links'
    BY <1>1, <1>4, StoredTypes, StoredLinks
  <2>2. Places'
    BY <1>1, <1>4, PlacesLoop DEF Basic, Stored
  <2> QED BY <2>1, <2>2 DEF Basic
<1> QED BY <1>2, <1>3, <1>4, ProcessCases

ThrType == [Threads -> [pc : {"idle", "loop"}, most : Blocks \cup {NoBlock}]]
SecType == {Free} \cup [pc : {"find", "step"}, by : Threads, old : Blocks]

\* A thread lets go of cs_main: it returns, or goes on with a target m.
LEMMA LetGo ==
  ASSUME Basic, NEW t \in Threads, thr[t].pc = "loop", UNCHANGED setting,
         Return(t) \/ \E m \in linked \cup {NoBlock} : NextRound(t, m)
  PROVE  /\ thr' \in ThrType /\ sec' \in SecType /\ Places'
         /\ \A u \in Threads : thr'[u].most # NoBlock => thr'[u].most \in linked
<1>1. thr \in ThrType /\ linked \subseteq Blocks
  BY DEF Basic, TypeOK, ThrType
<1>2. /\ \A u \in Threads : thr[u].most # NoBlock => thr[u].most \in linked
      /\ \A u \in Threads : /\ thr[u].pc = "loop" => u \in setting.threads
                            /\ thr[u].most # NoBlock => thr[u].pc = "loop"
  BY DEF Basic, Links, Places
<1>3. CASE Return(t)
  <2>1. sec' = Free /\ thr' = [thr EXCEPT ![t] = Idle]
    BY <1>3 DEF Return
  <2>2. thr' \in ThrType /\ sec' \in SecType
    BY <1>1, <2>1, SmallTypes DEF ThrType, SecType
  <2>3. thr'[t] = Idle /\ \A u \in Threads \ {t} : thr'[u] = thr[u]
    BY <1>1, <2>1 DEF ThrType
  <2>4. Places'
    BY <1>2, <2>1, <2>3, SmallTypes DEF Places
  <2> QED BY <1>2, <2>2, <2>3, <2>4, SmallTypes
<1>4. ASSUME NEW m \in linked \cup {NoBlock}, NextRound(t, m)
      PROVE  /\ thr' \in ThrType /\ sec' \in SecType /\ Places'
             /\ \A u \in Threads : thr'[u].most # NoBlock => thr'[u].most \in linked
  <2>1. sec' = Free /\ thr' = [thr EXCEPT ![t] = [pc |-> "loop", most |-> m]]
    BY <1>4 DEF NextRound
  <2>2. thr' \in ThrType /\ sec' \in SecType
    BY <1>1, <2>1, SmallTypes DEF ThrType, SecType
  <2>3. thr'[t].pc = "loop" /\ thr'[t].most = m /\ \A u \in Threads \ {t} : thr'[u] = thr[u]
    BY <1>1, <2>1 DEF ThrType
  <2>4. Places'
    BY <1>2, <2>1, <2>3, SmallTypes DEF Places
  <2> QED BY <1>2, <2>2, <2>3, <2>4
<1> QED BY <1>3, <1>4

LEMMA EnterBasic ==
  ASSUME Basic, NEW t \in Threads, EnterRound(t)
  PROVE  Basic'
<1>1. UNCHANGED <<index, cand, tip, fault, disk>> /\ thr[t].pc = "loop" /\ sec.pc = "free"
  BY DEF EnterRound, Unlocked
<1>2. CASE thr[t].most = tip
  <2>1. Return(t)
    BY <1>2 DEF EnterRound
  <2>2. /\ thr' \in ThrType /\ sec' \in SecType /\ Places'
        /\ \A u \in Threads : thr'[u].most # NoBlock => thr'[u].most \in linked
    BY <1>1, <2>1, LetGo DEF index
  <2>3. TypeOK'
    BY <1>1, <2>2 DEF Basic, TypeOK, index, ThrType, SecType
  <2>4. Links'
    BY <1>1, <2>2, LinksFrame, UnlinkedKept DEF Basic, Links, index
  <2> QED BY <2>2, <2>3, <2>4 DEF Basic
<1>3. CASE thr[t].most # tip
  <2>1. /\ sec' = [pc |-> IF thr[t].most = NoBlock THEN "find" ELSE "step", by |-> t, old |-> tip]
        /\ UNCHANGED thr
    BY <1>3 DEF EnterRound
  <2>2. sec' \in SecType /\ sec'.by = t /\ sec'.pc = IF thr[t].most = NoBlock THEN "find" ELSE "step"
    BY <2>1 DEF Basic, TypeOK, SecType
  <2>3. TypeOK'
    BY <1>1, <2>1, <2>2 DEF Basic, TypeOK, index, SecType
  <2>4. Links'
    BY <1>1, <2>1, LinksFrame, UnlinkedKept DEF Basic, Links, index
  <2>5. Places'
    BY <1>1, <1>3, <2>1, <2>2 DEF Basic, Places, index
  <2> QED BY <2>3, <2>4, <2>5 DEF Basic
<1> QED BY <1>2, <1>3

\* The outcomes of one turn of FindMostWorkChain.
AtTop(t) ==
  /\ cand # {} => (Obstacles = {} /\ Best = tip)
  /\ Return(t)
  /\ UNCHANGED <<idx, cand, pairs>>
Found(t) ==
  /\ cand # {} /\ Obstacles = {} /\ Best # tip
  /\ thr' = [thr EXCEPT ![t].most = Best]
  /\ sec' = [sec EXCEPT !.pc = "step"]
  /\ UNCHANGED <<idx, cand, pairs>>
Beyond(first) == Chain[Best] \ Chain[first]
GaveUp(first) ==
  /\ cand # {} /\ Obstacles # {} /\ first = TopOf(Obstacles)
  /\ cand' = cand \ (Beyond(first) \cup {first})
  /\ idx' = [x \in Blocks |-> [idx[x] EXCEPT !.failedChild =
                                 @ \/ (Failed(first) /\ x \in Beyond(first))]]
  /\ pairs' = SetAside(first, Beyond(first))
  /\ UNCHANGED <<thr, sec>>

LEMMA FindCases ==
  ASSUME NEW t \in Threads, FindMostWorkChain(t)
  PROVE  /\ NoFailures /\ sec.pc = "find" /\ sec.by = t
         /\ UNCHANGED <<setting, linked, seq, nextSeq, precious, failedSet, tip, dirty, fault, disk>>
         /\ AtTop(t) \/ Found(t) \/ \E first : GaveUp(first)
BY DEF FindMostWorkChain, AtTop, Found, GaveUp, Beyond

\* The first obstacle is failed or missing; what lies beyond it is linked.
LEMMA ObstacleIs ==
  ASSUME Basic, NEW first, GaveUp(first)
  PROVE  /\ Best \in cand /\ first \in Blocks /\ first \in Chain[Best] /\ first \notin Chain[tip]
         /\ Failed(first) \/ ~idx[first].data
         /\ Beyond(first) \subseteq linked /\ Beyond(first) \subseteq Blocks
         /\ \A x \in Beyond(first) : first \in Chain[x]
<1>1. Best \in cand
  BY BestIn DEF Basic, GaveUp
<1>2. Best \in linked
  BY <1>1 DEF Basic, Links
<1>3. Best \in Blocks /\ Chain[Best] \subseteq linked /\ Chain[Best] \subseteq Blocks
  BY <1>2, LinkedChain, ChainTypes DEF Basic
<1>4. first \in Obstacles
  <2>1. Obstacles \subseteq Chain[Best] /\ Obstacles # {} /\ first = TopOf(Obstacles)
    BY DEF Obstacles, GaveUp
  <2> HIDE DEF Obstacles
  <2> QED BY <1>3, <2>1, TopExists
<1>5. first \in Chain[Best] /\ first \notin Chain[tip] /\ (Failed(first) \/ ~idx[first].data)
  BY <1>4 DEF Obstacles
<1>6. ASSUME NEW x \in Beyond(first) PROVE first \in Chain[x]
  BY <1>3, <1>5, ChainLinear DEF Beyond
<1> QED BY <1>1, <1>3, <1>5, <1>6 DEF Beyond

LEMMA GaveUpEntry ==
  ASSUME TypeOK, NEW first, GaveUp(first)
  PROVE  /\ idx' \in [Blocks -> Entry]
         /\ \A x \in Blocks :
              /\ idx'[x].tx = idx[x].tx /\ idx'[x].data = idx[x].data
              /\ idx'[x].failedValid = idx[x].failedValid
              /\ idx'[x].failedChild = (idx[x].failedChild \/ (Failed(first) /\ x \in Beyond(first)))
<1>1. idx \in [Blocks -> Entry]
  BY DEF TypeOK
<1>2. idx' = [x \in Blocks |-> [idx[x] EXCEPT !.failedChild =
                                 @ \/ (Failed(first) /\ x \in Beyond(first))]]
  BY DEF GaveUp
<1> HIDE DEF Failed, Beyond
<1> QED BY <1>1, <1>2 DEF Entry

LEMMA FindBasic ==
  ASSUME Basic, NEW t \in Threads, FindMostWorkChain(t)
  PROVE  Basic'
<1>1. /\ sec.pc = "find" /\ sec.by = t /\ thr[t].pc = "loop" /\ thr[t].most = NoBlock
      /\ UNCHANGED <<setting, linked, seq, nextSeq, precious, failedSet, tip, dirty, fault, disk>>
  BY FindCases, SmallTypes DEF Basic, Places
<1>2. CASE AtTop(t)
  <2>1. Return(t) /\ UNCHANGED <<idx, cand, pairs>>
    BY <1>2 DEF AtTop
  <2>2. /\ thr' \in ThrType /\ sec' \in SecType /\ Places'
        /\ \A u \in Threads : thr'[u].most # NoBlock => thr'[u].most \in linked
    BY <1>1, <2>1, LetGo
  <2>3. TypeOK'
    BY <1>1, <2>1, <2>2 DEF Basic, TypeOK, ThrType, SecType
  <2>4. Links'
    BY <1>1, <2>1, <2>2, LinksFrame, UnlinkedKept DEF Basic, Links
  <2> QED BY <2>2, <2>3, <2>4 DEF Basic
<1>3. CASE Found(t)
  <2>1. Best \in linked /\ Best \in Blocks /\ Best # NoBlock /\ Best # tip
    BY <1>3, BestIn, LinkedChain, TreeTypes DEF Basic, Links, Found
  <2>2. thr \in ThrType /\ sec \in SecType
    BY DEF Basic, TypeOK, ThrType, SecType
  <2>3. /\ thr' = [thr EXCEPT ![t].most = Best] /\ sec' = [sec EXCEPT !.pc = "step"]
        /\ UNCHANGED <<idx, cand, pairs>>
    BY <1>3 DEF Found
  <2> HIDE DEF Best
  <2>4. /\ thr' \in ThrType /\ thr'[t].most = Best /\ thr'[t].pc = "loop"
        /\ \A u \in Threads \ {t} : thr'[u] = thr[u]
    BY <1>1, <2>1, <2>2, <2>3 DEF ThrType
  <2>5. sec \in [pc : {"find", "step"}, by : Threads, old : Blocks]
    BY <1>1, <2>2, SmallTypes DEF SecType
  <2>6. sec' \in SecType /\ sec'.pc = "step" /\ sec'.by = t
    BY <1>1, <2>3, <2>5 DEF SecType
  <2>7. TypeOK'
    BY <1>1, <2>3, <2>4, <2>6 DEF Basic, TypeOK, ThrType, SecType
  <2>8. Links'
    BY <1>1, <2>1, <2>3, <2>4, LinksFrame, UnlinkedKept DEF Basic, Links
  <2>9. Places'
    BY <1>1, <2>1, <2>4, <2>6 DEF Basic, Places
  <2> QED BY <2>7, <2>8, <2>9 DEF Basic
<1>4. ASSUME NEW first, GaveUp(first) PROVE Basic'
  <2>1. cand' \subseteq cand /\ UNCHANGED <<thr, sec>>
    BY <1>4 DEF GaveUp
  <2>2. Beyond(first) \subseteq linked /\ Beyond(first) \subseteq Blocks
    BY <1>4, ObstacleIs
  <2>7. unlinked' \subseteq unlinked \cup Beyond(first) /\ pairs' \in [Blocks -> Nat]
    <3>1. pairs' = SetAside(first, Beyond(first)) /\ pairs \in [Blocks -> Nat]
      BY <1>4 DEF GaveUp, Basic, TypeOK
    <3>2. CASE Failed(first)
      <4>1. pairs' = pairs
        BY <3>1, <3>2 DEF SetAside
      <4> QED BY <3>1, <4>1, UnlinkedKept
    <3>3. CASE ~Failed(first)
      <4>1. pairs' = Inserted(Beyond(first))
        BY <3>1, <3>3 DEF SetAside
      <4> QED BY <2>2, <4>1, UnlinkedInserted DEF Basic
    <3> QED BY <3>2, <3>3
  <2>3. idx' \in [Blocks -> Entry] /\ \A x \in Blocks : idx'[x].tx = idx[x].tx /\ idx'[x].data = idx[x].data
    BY <1>4, GaveUpEntry DEF Basic
  <2> HIDE DEF Beyond
  <2>4. TypeOK'
    BY <1>1, <2>1, <2>2, <2>3, <2>7 DEF Basic, TypeOK
  <2>5. Links'
    BY <1>1, <2>1, <2>2, <2>3, <2>7, LinksFrame DEF Basic, Links
  <2>6. Places'
    BY <1>1, <2>1, PlacesFrame DEF Basic
  <2> QED BY <2>4, <2>5, <2>6 DEF Basic
<1> QED BY <1>2, <1>3, <1>4, FindCases

\* The thread inside ActivateBestChainStep.
LEMMA StepperIs ==
  ASSUME Basic, NEW t \in Threads, Stepping(t)
  PROVE  /\ sec.pc = "step" /\ sec.by = t /\ fault = "none" /\ thr[t].pc = "loop"
         /\ thr[t].most \in linked /\ thr[t].most \in Blocks /\ thr[t].most # tip
         /\ tip \in Blocks /\ tip \in linked
<1>1. sec.pc = "step" /\ sec.by = t /\ fault = "none"
  BY DEF Stepping, NoFailures
<1>2. thr[t].pc = "loop" /\ thr[t].most # NoBlock /\ thr[t].most # tip
  BY <1>1 DEF Basic, Places
<1>3. thr[t].most \in linked /\ tip \in linked /\ linked \subseteq Blocks
  BY <1>2 DEF Basic, Links, TypeOK
<1> QED BY <1>1, <1>2, <1>3

\* The outcomes of DisconnectTip.
Undone(t) ==
  /\ idx[tip].data /\ tip' = Parent[tip] /\ UNCHANGED fault
  /\ IF tip' = thr[t].most THEN Return(t) ELSE UNCHANGED <<thr, sec>>
Unread == fault' = "read" /\ UNCHANGED <<tip, thr, sec>>

LEMMA DisconnectCases ==
  ASSUME Basic, NEW t \in Threads, DisconnectTip(t)
  PROVE  /\ Stepping(t) /\ tip # Genesis /\ tip \notin Chain[thr[t].most]
         /\ Parent[tip] \in linked /\ Parent[tip] \in Blocks
         /\ UNCHANGED <<index, cand, disk>>
         /\ (~idx[tip].data /\ Unread) \/ Undone(t)
<1>1. Stepping(t) /\ tip \notin Chain[thr[t].most] /\ UNCHANGED <<index, cand, disk>>
  BY DEF DisconnectTip
<1>2. tip # Genesis
  BY <1>1, StepperIs, ChainTypes
<1>3. Parent[tip] \in linked /\ Parent[tip] \in Blocks
  BY <1>1, <1>2, StepperIs, TreeTypes DEF Basic, Links
<1>4. (~idx[tip].data /\ Unread) \/ Undone(t)
  BY DEF DisconnectTip, Unread, Undone
<1> QED BY <1>1, <1>2, <1>3, <1>4

LEMMA DisconnectBasic ==
  ASSUME Basic, NEW t \in Threads, DisconnectTip(t)
  PROVE  Basic'
<1>1. /\ UNCHANGED <<index, cand, disk>> /\ thr[t].pc = "loop"
      /\ Parent[tip] \in linked /\ Parent[tip] \in Blocks
  BY DisconnectCases, StepperIs
<1>2. CASE Unread
  <2>1. TypeOK'
    BY <1>1, <1>2 DEF Basic, TypeOK, index, Unread
  <2>2. Links'
    BY <1>1, <1>2, LinksFrame, UnlinkedKept DEF Basic, Links, index, Unread
  <2>3. Places'
    BY <1>1, <1>2, PlacesFrame DEF Basic, index, Unread
  <2> QED BY <2>1, <2>2, <2>3 DEF Basic
<1>3. CASE Undone(t)
  <2>1. tip' = Parent[tip] /\ UNCHANGED fault
    BY <1>3 DEF Undone
  <2>2. /\ thr' \in ThrType /\ sec' \in SecType /\ Places'
        /\ \A u \in Threads : thr'[u].most # NoBlock => thr'[u].most \in linked
    <3>1. CASE tip' = thr[t].most
      <4>1. Return(t)
        BY <1>3, <3>1 DEF Undone
      <4> QED BY <1>1, <4>1, LetGo DEF index
    <3>2. CASE tip' # thr[t].most
      <4>1. UNCHANGED <<thr, sec>> /\ sec.by = t
        BY <1>3, <3>2, DisconnectCases, StepperIs DEF Undone
      <4>2. Places'
        BY <1>1, <3>2, <4>1 DEF Basic, Places, index
      <4> QED BY <4>1, <4>2 DEF Basic, TypeOK, ThrType, SecType, Links
    <3> QED BY <3>1, <3>2
  <2>3. TypeOK'
    BY <1>1, <2>1, <2>2 DEF Basic, TypeOK, index, ThrType, SecType
  <2>4. Links'
    BY <1>1, <2>1, <2>2, LinksFrame, UnlinkedKept DEF Basic, Links, index
  <2> QED BY <2>2, <2>3, <2>4 DEF Basic
<1> QED BY <1>2, <1>3, DisconnectCases

\* The outcomes of ConnectTip, for the block b.
Connected(t, b) ==
  /\ idx[b].data /\ tip' = b
  /\ idx' = [idx EXCEPT ![b].scripts = @ \/ ~Failed(b)]
  /\ dirty' = IF idx[b].scripts /\ ~Failed(b) THEN dirty ELSE dirty \cup {b}
  /\ cand' = Pruned(seq, cand, b) /\ fault' = PruneFault(cand')
  /\ IF b = thr[t].most THEN Return(t)
     ELSE IF Work[b] > Work[sec.old] THEN NextRound(t, thr[t].most)
     ELSE UNCHANGED <<thr, sec>>
Unconnected == fault' = "read" /\ UNCHANGED <<idx, dirty, cand, tip, thr, sec>>

LEMMA ConnectCases ==
  ASSUME Basic, NEW t \in Threads, ConnectTip(t)
  PROVE  \E b \in linked :
           /\ Stepping(t) /\ tip \in Chain[thr[t].most]
           /\ b \in Chain[thr[t].most] /\ b \in Blocks \ {Genesis} /\ Parent[b] = tip
           /\ UNCHANGED <<setting, linked, seq, nextSeq, precious, pairs, failedSet, disk>>
           /\ (~idx[b].data /\ Unconnected) \/ (b \notin setting.bad /\ Connected(t, b))
<1> DEFINE b == NextToConnect(t)
<1>1. /\ Stepping(t) /\ tip \in Chain[thr[t].most]
      /\ UNCHANGED <<setting, linked, seq, nextSeq, precious, pairs, failedSet, disk>>
  BY DEF ConnectTip
<1>2. b \in linked /\ b \in Chain[thr[t].most] /\ b \in Blocks \ {Genesis} /\ Parent[b] = tip
  BY <1>1, NextIn
<1>3. (~idx[b].data /\ Unconnected) \/ (b \notin setting.bad /\ Connected(t, b))
  BY DEF ConnectTip, Unconnected, Connected
<1> HIDE DEF b
<1> QED BY <1>1, <1>2, <1>3

\* What Connected does to the index: nothing but the scripts flag.
LEMMA ConnectedEntry ==
  ASSUME TypeOK, NEW t \in Threads, NEW b \in Blocks, Connected(t, b)
  PROVE  /\ idx' \in [Blocks -> Entry]
         /\ \A x \in Blocks :
              /\ idx'[x].tx = idx[x].tx /\ idx'[x].data = idx[x].data
              /\ idx'[x].failedValid = idx[x].failedValid
              /\ idx'[x].failedChild = idx[x].failedChild
         /\ dirty \subseteq dirty' /\ dirty' \subseteq Blocks /\ cand' \subseteq cand
<1>1. idx \in [Blocks -> Entry] /\ dirty \subseteq Blocks
  BY DEF TypeOK
<1>2. idx' = [idx EXCEPT ![b].scripts = @ \/ ~Failed(b)]
  BY DEF Connected
<1>3. /\ idx' \in [Blocks -> Entry]
      /\ \A x \in Blocks :
           /\ idx'[x].tx = idx[x].tx /\ idx'[x].data = idx[x].data
           /\ idx'[x].failedValid = idx[x].failedValid
           /\ idx'[x].failedChild = idx[x].failedChild
  <2> HIDE DEF Failed
  <2> QED BY <1>1, <1>2 DEF Entry
<1>4. dirty \subseteq dirty' /\ dirty' \subseteq Blocks /\ cand' \subseteq cand
  BY <1>1 DEF Connected, Pruned
<1> QED BY <1>3, <1>4

LEMMA ConnectBasic ==
  ASSUME Basic, NEW t \in Threads, ConnectTip(t)
  PROVE  Basic'
<1>1. PICK b \in linked :
        /\ Stepping(t) /\ b \in Blocks
        /\ UNCHANGED <<setting, linked, seq, nextSeq, precious, pairs, failedSet, disk>>
        /\ Unconnected \/ Connected(t, b)
  BY ConnectCases
<1>2. CASE Unconnected
  <2>1. TypeOK'
    BY <1>1, <1>2 DEF Basic, TypeOK, Unconnected
  <2>2. Links'
    BY <1>1, <1>2, LinksFrame, UnlinkedKept DEF Basic, Links, Unconnected
  <2>3. Places'
    BY <1>1, <1>2, PlacesFrame DEF Basic, Unconnected
  <2> QED BY <2>1, <2>2, <2>3 DEF Basic
<1>3. CASE Connected(t, b)
  <2>1. tip' = b /\ fault' \in {"none", "candidates"}
    BY <1>3 DEF Connected, PruneFault
  <2>2. /\ thr' \in ThrType /\ sec' \in SecType /\ Places'
        /\ \A u \in Threads : thr'[u].most # NoBlock => thr'[u].most \in linked
    <3>1. CASE Return(t) \/ NextRound(t, thr[t].most)
      BY <1>1, <3>1, LetGo, StepperIs
    <3>2. CASE b # thr[t].most /\ UNCHANGED <<thr, sec>>
      <4>1. sec.by = t
        BY <1>1, StepperIs
      <4>2. Places'
        BY <1>1, <2>1, <3>2, <4>1 DEF Basic, Places
      <4> QED BY <3>2, <4>2 DEF Basic, TypeOK, ThrType, SecType, Links
    <3> QED BY <1>3, <3>1, <3>2 DEF Connected
  <2>3. /\ idx' \in [Blocks -> Entry]
        /\ \A x \in Blocks : idx'[x].tx = idx[x].tx /\ idx'[x].data = idx[x].data
        /\ dirty \subseteq dirty' /\ dirty' \subseteq Blocks /\ cand' \subseteq cand
    BY <1>1, <1>3, ConnectedEntry DEF Basic
  <2>4. TypeOK'
    BY <1>1, <2>1, <2>2, <2>3 DEF Basic, TypeOK, ThrType, SecType
  <2>5. Links'
    BY <1>1, <2>1, <2>2, <2>3, LinksFrame, UnlinkedKept DEF Basic, Links
  <2> QED BY <2>2, <2>4, <2>5 DEF Basic
<1> QED BY <1>1, <1>2, <1>3

\* What ConnectTipFails does, for the block b.
Rejected(t, b) ==
  /\ b \in setting.bad /\ idx[b].data
  /\ idx' = [idx EXCEPT ![b].failedValid = TRUE]
  /\ failedSet' = failedSet \cup {b} /\ dirty' = dirty \cup {b} /\ cand' = cand \ {b}
  /\ NextRound(t, NoBlock)

LEMMA FailsCases ==
  ASSUME Basic, NEW t \in Threads, ConnectTipFails(t)
  PROVE  /\ Stepping(t)
         /\ UNCHANGED <<setting, linked, seq, nextSeq, precious, pairs, tip, fault, disk>>
         /\ \E b \in linked : b \in Blocks \ {Genesis} /\ Rejected(t, b)
<1> DEFINE b == NextToConnect(t)
<1>1. /\ Stepping(t) /\ tip \in Chain[thr[t].most]
      /\ UNCHANGED <<setting, linked, seq, nextSeq, precious, pairs, tip, fault, disk>>
  BY DEF ConnectTipFails
<1>2. b \in linked /\ b \in Blocks \ {Genesis}
  BY <1>1, NextIn
<1>3. Rejected(t, b)
  BY DEF ConnectTipFails, Rejected, MostAfterFailure
<1> HIDE DEF b
<1> QED BY <1>1, <1>2, <1>3

LEMMA RejectedEntry ==
  ASSUME TypeOK, NEW b \in Blocks, idx' = [idx EXCEPT ![b].failedValid = TRUE]
  PROVE  /\ idx' \in [Blocks -> Entry]
         /\ \A x \in Blocks :
              /\ idx'[x].tx = idx[x].tx /\ idx'[x].data = idx[x].data
              /\ idx'[x].failedValid = (idx[x].failedValid \/ x = b)
              /\ idx'[x].failedChild = idx[x].failedChild
<1>1. idx \in [Blocks -> Entry]
  BY DEF TypeOK
<1> QED BY <1>1 DEF Entry

LEMMA FailsBasic ==
  ASSUME Basic, NEW t \in Threads, ConnectTipFails(t)
  PROVE  Basic'
<1>1. /\ UNCHANGED <<setting, linked, seq, nextSeq, precious, pairs, tip, fault, disk>>
      /\ thr[t].pc = "loop"
  BY FailsCases, StepperIs
<1>2. PICK b \in linked : b \in Blocks /\ Rejected(t, b)
  BY FailsCases
<1>3. /\ thr' \in ThrType /\ sec' \in SecType /\ Places'
      /\ \A u \in Threads : thr'[u].most # NoBlock => thr'[u].most \in linked
  BY <1>1, <1>2, LetGo DEF Rejected
<1>4. idx' \in [Blocks -> Entry] /\ \A x \in Blocks : idx'[x].tx = idx[x].tx /\ idx'[x].data = idx[x].data
  BY <1>2, RejectedEntry DEF Basic, Rejected
<1>5. TypeOK'
  BY <1>1, <1>2, <1>3, <1>4 DEF Basic, TypeOK, ThrType, SecType, Rejected
<1>6. Links'
  BY <1>1, <1>2, <1>3, <1>4, LinksFrame, UnlinkedKept DEF Basic, Links, Rejected
<1> QED BY <1>3, <1>5, <1>6 DEF Basic

\* The block index on disk once the dirty entries are written.
LEMMA WrittenIs ==
  ASSUME Basic
  PROVE  /\ IndexWritten \in [Blocks -> Entry] /\ disk.idx \in [Blocks -> Entry]
         /\ \A b \in Blocks : IndexWritten[b] = IF b \in dirty THEN idx[b] ELSE disk.idx[b]
         /\ \A b \in Blocks : IndexWritten[b].tx = idx[b].tx
<1>1. idx \in [Blocks -> Entry] /\ disk.idx \in [Blocks -> Entry]
  BY DEF Basic, TypeOK
<1>2. \A b \in Blocks : IndexWritten[b] = IF b \in dirty THEN idx[b] ELSE disk.idx[b]
  BY DEF IndexWritten
<1>3. IndexWritten \in [Blocks -> Entry]
  BY <1>1 DEF IndexWritten
<1>4. \A b \in Blocks \ dirty : disk.idx[b].tx = idx[b].tx
  BY DEF Basic, Links
<1> QED BY <1>1, <1>2, <1>3, <1>4

\* A flush: of the index alone, or with the coins.
LEMMA FlushBasic ==
  ASSUME Basic, WriteIndex \/ FlushAll
  PROVE  Basic'
<1>1. /\ UNCHANGED <<setting, idx, linked, seq, nextSeq, precious, cand, pairs, failedSet,
                     tip, thr, sec, fault>>
      /\ dirty' = {}
  BY DEF WriteIndex, FlushAll
<1>2. disk'.idx = IndexWritten /\ disk'.best \in {disk.best, tip} /\ disk' \in [idx : [Blocks -> Entry], best : Blocks]
  BY WrittenIs DEF WriteIndex, FlushAll, Flushed, Basic, TypeOK
<1>3. TypeOK'
  BY <1>1, <1>2 DEF Basic, TypeOK
<1>4. Places'
  BY <1>1, PlacesFrame DEF Basic
<1>5. Links'
  <2>1. Received(disk.idx)'
    BY <1>1, <1>2, WrittenIs, TreeTypes DEF Basic, Links, Received
  <2>2. Received(idx)'
    BY <1>1 DEF Basic, Links, Received
  <2>3. ASSUME NEW b \in Chain[disk'.best] PROVE disk'.idx[b].tx
    <3>1. b \in Blocks /\ idx[b].tx
      <4>1. CASE disk'.best = tip
        BY <2>3, <4>1, LinkedChain DEF Basic, Links
      <4>2. CASE disk'.best = disk.best
        BY <2>3, <4>2, ChainTypes DEF Basic, Links, TypeOK
      <4> QED BY <1>2, <4>1, <4>2
    <3> QED BY <1>2, <3>1, WrittenIs
  <2>4. (\A b \in Blocks \ dirty : disk.idx[b].tx = idx[b].tx)' /\ (\A b \in Blocks : disk.idx[b].tx => idx[b].tx)'
    BY <1>1, <1>2, WrittenIs
  <2> QED BY <1>1, <2>1, <2>2, <2>3, <2>4, UnlinkedKept DEF Basic, Links
<1> QED BY <1>3, <1>4, <1>5 DEF Basic

LEMMA PruneBasic ==
  ASSUME Basic, NEW b \in Blocks, PruneOneBlockFile(b)
  PROVE  Basic'
<1>1. /\ UNCHANGED <<setting, linked, seq, nextSeq, precious, cand, failedSet, tip, thr, sec, fault>>
      /\ dirty' = {} /\ pairs' = Erased({b}) /\ b # Genesis /\ idx[b].data
      /\ idx' = [idx EXCEPT ![b].data = FALSE]
      /\ disk' = [idx |-> [x \in Blocks |-> IF x \in dirty \cup {b} THEN idx'[x] ELSE disk.idx[x]],
                  best |-> tip]
  BY DEF PruneOneBlockFile
<1>2. idx \in [Blocks -> Entry] /\ disk.idx \in [Blocks -> Entry] /\ tip \in Blocks
  BY DEF Basic, TypeOK
<1>3. /\ idx' \in [Blocks -> Entry] /\ idx'[b].tx = idx[b].tx /\ ~idx'[b].data
      /\ \A x \in Blocks \ {b} : idx'[x] = idx[x]
  BY <1>1, <1>2 DEF Entry
<1>4. /\ disk' \in [idx : [Blocks -> Entry], best : Blocks] /\ disk'.best = tip
      /\ \A x \in Blocks : disk'.idx[x] = IF x \in dirty \cup {b} THEN idx'[x] ELSE disk.idx[x]
  BY <1>1, <1>2, <1>3
<1>8. unlinked' = unlinked \ {b} /\ pairs' \in [Blocks -> Nat]
  BY <1>1, UnlinkedErased DEF Basic
<1>5. TypeOK'
  BY <1>1, <1>3, <1>4, <1>8 DEF Basic, TypeOK
<1>6. Places'
  BY <1>1, PlacesFrame DEF Basic
<1>7. Links'
  <2>1. Received(idx)'
    BY <1>1, <1>3, TreeTypes DEF Basic, Links, Received
  <2>2. Received(disk.idx)'
    BY <1>1, <1>3, <1>4, <2>1, TreeTypes DEF Basic, Links, Received
  <2>3. \A x \in Blocks : disk'.idx[x].tx = idx'[x].tx /\ idx'[x].tx = idx[x].tx
    BY <1>3, <1>4 DEF Basic, Links
  <2>4. linked \subseteq Blocks /\ unlinked \subseteq Blocks
    BY DEF Basic, TypeOK, unlinked
  <2>5. (\A x \in linked : idx[x].tx)' /\ (\A x \in unlinked : idx[x].tx)'
    BY <1>1, <1>8, <2>3, <2>4 DEF Basic, Links
  <2>6. \A x \in Chain[disk'.best] : disk'.idx[x].tx
    BY <1>4, <2>3, LinkedChain DEF Basic, Links
  <2> QED BY <1>1, <2>1, <2>2, <2>3, <2>5, <2>6 DEF Basic, Links
<1> QED BY <1>5, <1>6, <1>7 DEF Basic

\* LoadBlockIndexDB adds flags to the entries on disk.
LEMMA LoadedIs ==
  ASSUME NEW i \in [Blocks -> Entry]
  PROVE  /\ Loaded(i) \in [Blocks -> Entry]
         /\ \A b \in Blocks :
              /\ Loaded(i)[b].tx = i[b].tx /\ Loaded(i)[b].data = i[b].data
              /\ Loaded(i)[b].failedValid = i[b].failedValid
              /\ i[b].failedChild => Loaded(i)[b].failedChild
              /\ Loaded(i)[b].failedChild =>
                   i[b].failedChild \/ \E a \in Chain[b] \ {b} :
                                         /\ FailedIn(i, a)
                                         /\ \A x \in Chain[b] \ Chain[a] : i[x].tx
<1> DEFINE Cond(b) == /\ i[b].tx /\ ~i[b].failedValid
                      /\ \E a \in Chain[b] \ {b} :
                           FailedIn(i, a) /\ \A x \in Chain[b] \ Chain[a] : i[x].tx
<1>1. Loaded(i) = [b \in Blocks |-> [i[b] EXCEPT !.failedChild = @ \/ Cond(b)]]
  BY DEF Loaded
<1>2. \A b \in Blocks : Cond(b) => \E a \in Chain[b] \ {b} :
                                     FailedIn(i, a) /\ \A x \in Chain[b] \ Chain[a] : i[x].tx
  OBVIOUS
<1>3. \A b \in Blocks : Cond(b) \in BOOLEAN
  OBVIOUS
<1> HIDE DEF Cond
<1>4. /\ Loaded(i) \in [Blocks -> Entry]
      /\ \A b \in Blocks :
           /\ Loaded(i)[b].tx = i[b].tx /\ Loaded(i)[b].data = i[b].data
           /\ Loaded(i)[b].failedValid = i[b].failedValid
           /\ Loaded(i)[b].failedChild = (i[b].failedChild \/ Cond(b))
  BY <1>1, <1>3 DEF Entry
<1> QED BY <1>2, <1>4

\* What Restart does.
LEMMA RestartIs ==
  ASSUME Basic, NEW t \in Threads, Restart(t)
  PROVE  /\ idx' = Loaded(disk.idx) /\ linked' = LinkedOnDisk(disk.idx)
         /\ idx' \in [Blocks -> Entry] /\ disk.idx \in [Blocks -> Entry]
         /\ dirty' = {b \in Blocks : idx'[b] # disk.idx[b]}
         /\ unlinked' = {b \in Blocks \ linked' : disk.idx[b].tx /\ Parent[b] \notin linked'}
         /\ pairs' \in [Blocks -> {0, 1}]
         /\ seq' \in [Blocks -> {0}] /\ failedSet' = {} /\ tip' = disk.best /\ sec' = Free
         /\ cand' = {b \in Blocks : /\ idx'[b].tx /\ ~FailedIn(idx', b) /\ b \in linked'
                                    /\ ~WorseAt(seq', b, tip')}
         /\ fault' = PruneFault(cand')
         /\ thr' = [u \in Threads |-> IF u = t THEN Loop ELSE Idle]
         /\ UNCHANGED <<setting, disk>> /\ t \in setting.threads
<1>1. disk.idx \in [Blocks -> Entry]
  BY DEF Basic, TypeOK
<1>2. Loaded(disk.idx) \in [Blocks -> Entry]
  BY <1>1, LoadedIs
<1>3. /\ idx' = Loaded(disk.idx) /\ linked' = LinkedOnDisk(disk.idx)
      /\ dirty' = {b \in Blocks : idx'[b] # disk.idx[b]}
      /\ pairs' = [b \in Blocks |-> IF b \notin linked' /\ disk.idx[b].tx /\ Parent[b] \notin linked'
                                     THEN 1 ELSE 0]
      /\ seq' = [b \in Blocks |-> 0] /\ failedSet' = {} /\ tip' = disk.best /\ sec' = Free
      /\ cand' = Pruned(seq', SelectableIn(idx', linked'), disk.best)
      /\ fault' = PruneFault(cand')
      /\ thr' = [u \in Threads |-> IF u = t THEN Loop ELSE Idle]
      /\ UNCHANGED <<setting, disk>> /\ t \in setting.threads
  BY DEF Restart
<1>4. seq' \in [Blocks -> {0}]
  BY <1>3
<1>5. cand' = {b \in Blocks : /\ idx'[b].tx /\ ~FailedIn(idx', b) /\ b \in linked'
                              /\ ~WorseAt(seq', b, tip')}
  BY <1>3 DEF Pruned, SelectableIn
<1>6. pairs' \in [Blocks -> {0, 1}]
  BY <1>3
<1>7. unlinked' = {b \in Blocks \ linked' : disk.idx[b].tx /\ Parent[b] \notin linked'}
  BY <1>3 DEF unlinked
<1> QED BY <1>1, <1>2, <1>3, <1>4, <1>5, <1>6, <1>7

LEMMA RestartBasic ==
  ASSUME Basic, NEW t \in Threads, Restart(t)
  PROVE  Basic'
<1>1. /\ idx' \in [Blocks -> Entry] /\ UNCHANGED <<setting, disk>> /\ sec' = Free
      /\ thr' = [u \in Threads |-> IF u = t THEN Loop ELSE Idle] /\ t \in setting.threads
      /\ dirty' = {b \in Blocks : idx'[b] # disk.idx[b]} /\ tip' = disk.best
      /\ cand' \subseteq linked' /\ linked' = LinkedOnDisk(disk.idx)
      /\ unlinked' \subseteq {b \in Blocks : disk.idx[b].tx}
  BY RestartIs
<1>2. \A b \in Blocks : idx'[b].tx = disk.idx[b].tx /\ idx'[b].data = disk.idx[b].data
  BY RestartIs, LoadedIs
<1>3. TypeOK'
  <2>1. seq' \in [Blocks -> (-MaxPrecious)..MaxSeq] /\ nextSeq' \in 1..(MaxSeq + 1)
    <3>1. seq' \in [Blocks -> {0}] /\ nextSeq' = 1
      BY RestartIs DEF Restart
    <3>2. 0 \in (-MaxPrecious)..MaxSeq /\ 1 \in 1..(MaxSeq + 1)
      BY ChainAssumption
    <3> QED BY <3>1, <3>2
  <2>2. precious' \in [work : Nat, seq : (-MaxPrecious - 1)..-1]
    <3>1. precious' = [work |-> 0, seq |-> -1] /\ -1 \in (-MaxPrecious - 1)..-1
      BY ChainAssumption DEF Restart
    <3> QED BY <3>1
  <2>3. thr' \in [Threads -> [pc : {"idle", "loop"}, most : Blocks \cup {NoBlock}]]
    BY <1>1, SmallTypes
  <2>4. failedSet' \subseteq Blocks /\ fault' \in {"none", "candidates"} /\ linked' \subseteq Blocks
        /\ pairs' \in [Blocks -> Nat]
    BY RestartIs DEF PruneFault, LinkedOnDisk
  <2> QED BY <1>1, <2>1, <2>2, <2>3, <2>4 DEF Basic, TypeOK
<1>4. Links'
  <2>1. \A b \in linked' : b \in Blocks /\ \A a \in Chain[b] : disk.idx[a].tx
    BY <1>1 DEF LinkedOnDisk
  <2>2. Received(idx)'
    BY <1>1, <1>2, TreeTypes DEF Basic, Links, Received
  <2>3. Received(disk.idx)'
    BY <1>1 DEF Basic, Links, Received
  <2>4. Genesis \in linked'
    <3>1. disk.idx[Genesis].tx
      BY TreeTypes DEF Basic, Links, Received
    <3> QED BY <1>1, <3>1, ChainStep, TreeTypes DEF LinkedOnDisk
  <2>5. tip' \in linked'
    BY <1>1 DEF Basic, Links, TypeOK, LinkedOnDisk
  <2>6. \A b \in linked' \ {Genesis} : Parent[b] \in linked'
    BY <1>1, <2>1, TreeTypes, ChainStep DEF LinkedOnDisk
  <2>7. (\A b \in linked : idx[b].tx)' /\ (\A b \in unlinked : idx[b].tx)'
    BY <1>1, <1>2, <2>1, ChainTypes
  <2>8. (\A u \in Threads : thr[u].most # NoBlock => thr[u].most \in linked)'
    BY <1>1, SmallTypes
  <2>9. (\A b \in Blocks \ dirty : disk.idx[b].tx = idx[b].tx)' /\ (\A b \in Blocks : disk.idx[b].tx => idx[b].tx)'
    BY <1>1, <1>2
  <2>10. (\A b \in Chain[disk.best] : disk.idx[b].tx)'
    BY <1>1 DEF Basic, Links
  <2> QED BY <1>1, <2>2, <2>3, <2>4, <2>5, <2>6, <2>7, <2>8, <2>9, <2>10 DEF Links
<1>5. Places'
  BY <1>1, SmallTypes DEF Places
<1> QED BY <1>3, <1>4, <1>5 DEF Basic

\* The tip that InvalidateBlock leaves is an ancestor of the tip.
LEMMA NewTipIs ==
  ASSUME Basic, NEW p \in Blocks \ {Genesis}
  PROVE  /\ TopOf(Chain[tip] \ Disconnected(p)) \in Chain[tip]
         /\ Disconnected(p) \subseteq Blocks
<1>1. tip \in Blocks /\ Chain[tip] \subseteq Blocks /\ Genesis \in Chain[tip]
  BY ChainTypes DEF Basic, TypeOK
<1>2. Genesis \notin Disconnected(p) /\ Disconnected(p) \subseteq Chain[tip]
  BY TreeTypes, ChainTypes DEF Disconnected
<1> DEFINE S == Chain[tip] \ Disconnected(p)
<1>3. S \subseteq Chain[tip] /\ S # {}
  BY <1>1, <1>2
<1> HIDE DEF S
<1>4. TopOf(S) \in S
  BY <1>1, <1>3, TopExists
<1> QED BY <1>1, <1>2, <1>3, <1>4 DEF S

\* The entries when p is marked invalid and the blocks gone failed.
Marked(p) ==
  [x \in Blocks |-> [idx[x] EXCEPT !.failedChild = @ \/ x \in Disconnected(p) \ {p},
                                   !.failedValid = @ \/ x = p]]

LEMMA MarkedIs ==
  ASSUME TypeOK, NEW p \in Blocks
  PROVE  /\ Marked(p) \in [Blocks -> Entry]
         /\ \A x \in Blocks : Marked(p)[x].tx = idx[x].tx /\ Marked(p)[x].data = idx[x].data
<1>1. idx \in [Blocks -> Entry]
  BY DEF TypeOK
<1> HIDE DEF Disconnected
<1> QED BY <1>1 DEF Marked, Entry

LEMMA InvalidateBasic ==
  ASSUME Basic, NEW t \in Threads, NEW p \in Blocks, InvalidateBlock(t, p)
  PROVE  Basic'
<1> DEFINE gone == Disconnected(p)
           newTip == TopOf(Chain[tip] \ gone)
           again == Restored(Marked(p), newTip)
<1>1. /\ UNCHANGED <<setting, linked, seq, nextSeq, precious, pairs, sec, disk>>
      /\ p # Genesis /\ sec.pc = "free" /\ t \in setting.threads
  BY DEF InvalidateBlock, Called, Unlocked
<1>2. newTip \in Chain[tip] /\ newTip \in linked /\ newTip \in Blocks /\ gone \subseteq Blocks
  BY <1>1, NewTipIs, LinkedChain DEF Basic, Links
<1>3. again \subseteq linked
  BY DEF Restored, SelectableIn
<1>4. CASE fault' = "read" /\ UNCHANGED <<idx, tip, cand, failedSet, dirty, thr>>
  <2>1. TypeOK'
    BY <1>1, <1>4 DEF Basic, TypeOK
  <2>2. Links'
    BY <1>1, <1>4, LinksFrame, UnlinkedKept DEF Basic, Links
  <2>3. Places'
    BY <1>1, <1>4, PlacesFrame DEF Basic
  <2> QED BY <2>1, <2>2, <2>3 DEF Basic
<1>5. CASE /\ idx' = Marked(p) /\ tip' = newTip
           /\ cand' = (cand \ (gone \cup {p})) \cup again
           /\ failedSet' = (failedSet \cup {p}) \ again
           /\ dirty' = dirty \cup gone \cup {p}
           /\ thr' = [thr EXCEPT ![t] = Loop]
           /\ UNCHANGED fault
  <2> HIDE DEF gone, newTip, again
  <2>1. idx' \in [Blocks -> Entry] /\ \A x \in Blocks : idx'[x].tx = idx[x].tx /\ idx'[x].data = idx[x].data
    BY <1>5, MarkedIs DEF Basic
  <2>2. /\ thr' \in ThrType
        /\ \A u \in Threads : thr'[u].most # NoBlock => thr'[u].most \in linked
    BY <1>5, SmallTypes DEF Basic, TypeOK, Links, ThrType
  <2>3. cand' \subseteq linked /\ linked \subseteq Blocks /\ dirty \subseteq dirty' /\ dirty' \subseteq Blocks
    BY <1>2, <1>3, <1>5 DEF Basic, TypeOK, Links
  <2>4. TypeOK'
    BY <1>1, <1>2, <1>5, <2>1, <2>2, <2>3 DEF Basic, TypeOK, ThrType
  <2>5. Links'
    BY <1>1, <1>2, <1>5, <2>1, <2>2, <2>3, LinksFrame, UnlinkedKept DEF Basic, Links
  <2>6. Places'
    BY <1>1, <1>5, PlacesLoop DEF Basic
  <2> QED BY <2>4, <2>5, <2>6 DEF Basic
<1> QED BY <1>4, <1>5 DEF InvalidateBlock, Marked

\* What ReconsiderBlock does: flags are cleared, candidates are added.
LEMMA ReconsiderIs ==
  ASSUME TypeOK, NEW t \in Threads, NEW p \in Blocks, ReconsiderBlock(t, p)
  PROVE  /\ UNCHANGED <<setting, linked, seq, nextSeq, precious, pairs, failedSet, tip, sec,
                        fault, disk>>
         /\ thr' = [thr EXCEPT ![t] = Loop] /\ sec.pc = "free" /\ t \in setting.threads
         /\ idx' \in [Blocks -> Entry]
         /\ \A x \in Blocks :
              /\ idx'[x].tx = idx[x].tx /\ idx'[x].data = idx[x].data
              /\ idx'[x].failedValid => idx[x].failedValid
              /\ idx'[x].failedChild => idx[x].failedChild
         /\ dirty \subseteq dirty' /\ dirty' \subseteq Blocks /\ cand' \subseteq cand \cup linked
<1> DEFINE below == {b \in Known : p \in Chain[b] /\ (Failed(b) \/ ~idx[b].tx)}
           cleared == {b \in below \cup Chain[p] : Failed(b)}
<1>1. /\ UNCHANGED <<setting, linked, seq, nextSeq, precious, pairs, failedSet, tip, sec,
                     fault, disk>>
      /\ thr' = [thr EXCEPT ![t] = Loop] /\ sec.pc = "free" /\ t \in setting.threads
      /\ idx' = [x \in Blocks |->
                   IF x \in cleared
                   THEN [idx[x] EXCEPT !.failedValid = FALSE, !.failedChild = FALSE]
                   ELSE idx[x]]
      /\ dirty' = dirty \cup below \cup cleared
      /\ cand' = cand \cup {b \in SelectableIn(idx', linked) \cap below : Worse(tip, b)}
  BY DEF ReconsiderBlock, Called, Unlocked
<1>2. below \subseteq Blocks /\ cleared \subseteq Blocks
  BY ChainTypes DEF Known
<1> HIDE DEF below, cleared
<1>3. idx \in [Blocks -> Entry] /\ dirty \subseteq Blocks
  BY DEF TypeOK
<1>4. /\ idx' \in [Blocks -> Entry]
      /\ \A x \in Blocks :
           /\ idx'[x].tx = idx[x].tx /\ idx'[x].data = idx[x].data
           /\ idx'[x].failedValid => idx[x].failedValid
           /\ idx'[x].failedChild => idx[x].failedChild
  <2>1. idx' = [x \in Blocks |->
                   IF x \in cleared
                   THEN [idx[x] EXCEPT !.failedValid = FALSE, !.failedChild = FALSE]
                   ELSE idx[x]]
    BY <1>1
  <2> QED BY <1>3, <2>1 DEF Entry
<1>5. cand' \subseteq cand \cup linked
  BY <1>1 DEF SelectableIn
<1> QED BY <1>1, <1>2, <1>3, <1>4, <1>5

LEMMA ReconsiderBasic ==
  ASSUME Basic, NEW t \in Threads, NEW p \in Blocks, ReconsiderBlock(t, p)
  PROVE  Basic'
<1>1. TypeOK /\ Links /\ Places
  BY DEF Basic
<1>2. /\ thr' \in ThrType
      /\ \A u \in Threads : thr'[u].most # NoBlock => thr'[u].most \in linked
  <2>1. thr' = [thr EXCEPT ![t] = Loop]
    BY DEF ReconsiderBlock
  <2> QED BY <1>1, <2>1, SmallTypes DEF TypeOK, Links, ThrType
<1>3. TypeOK'
  BY <1>1, <1>2, ReconsiderIs DEF TypeOK, ThrType
<1>4. Links'
  BY <1>1, <1>2, ReconsiderIs, LinksFrame, UnlinkedKept DEF Links
<1>5. Places'
  BY <1>1, ReconsiderIs, PlacesLoop
<1> QED BY <1>3, <1>4, <1>5 DEF Basic

LEMMA PreciousBasic ==
  ASSUME Basic, NEW t \in Threads, NEW p \in Blocks, PreciousBlock(t, p)
  PROVE  Basic'
<1> DEFINE id == IF Work[tip] > precious.work THEN -1 ELSE precious.seq
<1>1. /\ UNCHANGED <<setting, idx, linked, nextSeq, pairs, failedSet, dirty, tip, sec, disk>>
      /\ thr' = [thr EXCEPT ![t] = Loop] /\ sec.pc = "free" /\ t \in setting.threads
      /\ id >= -MaxPrecious /\ seq' = [seq EXCEPT ![p] = id]
      /\ precious' = [work |-> Work[tip], seq |-> id - 1]
  BY DEF PreciousBlock, Called, Unlocked, NextPrecious
<1>2. cand' \subseteq cand \cup linked /\ fault' \in {fault, "none", "candidates"}
  <2>1. CASE p \in SelectableIn(idx, linked)
    <3>1. p \in linked
      BY <2>1 DEF SelectableIn
    <3> QED BY <2>1, <3>1 DEF PreciousBlock, Pruned, PruneFault
  <2>2. CASE p \notin SelectableIn(idx, linked)
    BY <2>2 DEF PreciousBlock
  <2> QED BY <2>1, <2>2
<1>3. /\ thr' \in ThrType
      /\ \A u \in Threads : thr'[u].most # NoBlock => thr'[u].most \in linked
  BY <1>1, SmallTypes DEF Basic, TypeOK, Links, ThrType
<1>4. /\ seq' \in [Blocks -> (-MaxPrecious)..MaxSeq]
      /\ precious' \in [work : Nat, seq : (-MaxPrecious - 1)..-1]
  <2>1. /\ precious.seq \in (-MaxPrecious - 1)..-1 /\ Work[tip] \in Nat
        /\ seq \in [Blocks -> (-MaxPrecious)..MaxSeq]
        /\ MaxPrecious \in Nat /\ MaxSeq \in Nat
    BY ChainAssumption, WorkStep DEF Basic, TypeOK
  <2>2. id \in (-MaxPrecious)..-1
    BY <1>1, <2>1
  <2> HIDE DEF id
  <2>3. id \in (-MaxPrecious)..MaxSeq /\ id - 1 \in (-MaxPrecious - 1)..-1
    BY <2>1, <2>2
  <2> QED BY <1>1, <2>1, <2>3
<1> HIDE DEF id
<1>5. TypeOK'
  BY <1>1, <1>2, <1>3, <1>4 DEF Basic, TypeOK, ThrType
<1>6. Links'
  BY <1>1, <1>2, <1>3, LinksFrame, UnlinkedKept DEF Basic, Links
<1>7. Places'
  BY <1>1, PlacesLoop DEF Basic
<1> QED BY <1>5, <1>6, <1>7 DEF Basic

LEMMA InitBasic == ASSUME Init PROVE Basic
<1>1. /\ idx \in [Blocks -> Entry]
      /\ idx[Genesis].data /\ idx[Genesis].tx
      /\ \A b \in Blocks : ~FailedIn(idx, b)
      /\ \A b \in Blocks \ {Genesis} : ~idx[b].data /\ ~idx[b].tx
  BY TreeTypes DEF Init, Unknown, Entry, FailedIn
<1>2. /\ setting \in Settings /\ linked = {Genesis} /\ cand = {Genesis} /\ tip = Genesis
      /\ pairs = [b \in Blocks |-> 0] /\ failedSet = {} /\ dirty = {} /\ sec = Free /\ fault = "none"
      /\ thr = [t \in Threads |-> Idle] /\ disk = [idx |-> idx, best |-> Genesis]
      /\ nextSeq = 2 /\ precious = [work |-> 0, seq |-> -1]
      /\ seq = [b \in Blocks |-> IF b = Genesis THEN 1 ELSE 0]
  BY DEF Init
<1>3. TypeOK
  <2>1. seq \in [Blocks -> (-MaxPrecious)..MaxSeq] /\ nextSeq \in 1..(MaxSeq + 1)
    <3>1. 0 \in (-MaxPrecious)..MaxSeq /\ 1 \in (-MaxPrecious)..MaxSeq /\ 2 \in 1..(MaxSeq + 1)
      BY ChainAssumption
    <3> QED BY <1>2, <3>1
  <2>2. precious \in [work : Nat, seq : (-MaxPrecious - 1)..-1]
    <3>1. -1 \in (-MaxPrecious - 1)..-1
      BY ChainAssumption
    <3> QED BY <1>2, <3>1
  <2>3. thr \in [Threads -> [pc : {"idle", "loop"}, most : Blocks \cup {NoBlock}]]
    BY <1>2, SmallTypes
  <2>4. disk \in [idx : [Blocks -> Entry], best : Blocks]
    BY <1>1, <1>2, TreeTypes
  <2> QED BY <1>1, <1>2, <2>1, <2>2, <2>3, <2>4, TreeTypes DEF TypeOK
<1>4. Links
  <2>1. Genesis \notin setting.malformed
    BY <1>2, ChainAssumption
  <2>2. Received(idx) /\ Received(disk.idx)
    BY <1>1, <1>2, <2>1 DEF Received
  <2>3. \A b \in Chain[disk.best] : disk.idx[b].tx
    BY <1>1, <1>2, ChainStep
  <2>4. unlinked = {}
    BY <1>2 DEF unlinked
  <2> QED BY <1>1, <1>2, <2>2, <2>3, <2>4, SmallTypes DEF Links
<1>5. Places
  BY <1>2, SmallTypes DEF Places
<1> QED BY <1>3, <1>4, <1>5 DEF Basic

LEMMA NextBasic == ASSUME Basic, [Next]_vars PROVE Basic'
<1>1. CASE UNCHANGED vars
  BY <1>1, UnlinkedKept DEF vars, index, Basic, TypeOK, Links, Received, Places
<1>2. ASSUME NEW b \in Blocks, AcceptBlockHeader(b) \/ PruneOneBlockFile(b) PROVE Basic'
  BY <1>2, HeaderBasic, PruneBasic
<1>3. ASSUME NEW t \in Threads, Activate(t) \/ Restart(t) PROVE Basic'
  BY <1>3, EnterBasic, FindBasic, DisconnectBasic, ConnectBasic, FailsBasic, RestartBasic
     DEF Activate
<1>4. ASSUME NEW t \in Threads, NEW b \in Blocks,
             \/ \E r \in BOOLEAN : ProcessNewBlock(t, b, r)
             \/ InvalidateBlock(t, b) \/ ReconsiderBlock(t, b) \/ PreciousBlock(t, b)
      PROVE  Basic'
  BY <1>4, ProcessBasic, InvalidateBasic, ReconsiderBasic, PreciousBasic
<1>5. CASE WriteIndex \/ FlushAll
  BY <1>5, FlushBasic
<1> QED BY <1>1, <1>2, <1>3, <1>4, <1>5 DEF Next

-----------------------------------------------------------------------------
(* Without invalidateblock nothing invalid is ever active, or on disk as such. *)

\* The outcomes of AcceptBlockHeader.
NewHeader(b) ==
  idx' = [idx EXCEPT ![b].known = TRUE] /\ dirty' = dirty \cup {b} /\ UNCHANGED fault
Walked(b, f) == Chain[Parent[b]] \ Chain[f]
MarkedDown(b, f) ==
  /\ f \in failedSet /\ f \in Chain[Parent[b]] /\ idx[f].failedValid
  /\ idx' = [x \in Blocks |-> [idx[x] EXCEPT !.failedChild = @ \/ x \in Walked(b, f)]]
  /\ dirty' = dirty \cup Walked(b, f) /\ UNCHANGED fault
NotMarked ==
  (\E f \in failedSet : ~idx[f].failedValid) /\ fault' = "failedit" /\ UNCHANGED <<idx, dirty>>

LEMMA HeaderCases ==
  ASSUME NEW b \in Blocks, AcceptBlockHeader(b)
  PROVE  Parent[b] \in Blocks /\ (NewHeader(b) \/ NotMarked \/ \E f : MarkedDown(b, f))
<1>1. FailedBelow(Parent[b]) \subseteq failedSet \cap Chain[Parent[b]]
  BY DEF FailedBelow
<1>2. Parent[b] \in Blocks
  BY DEF AcceptBlockHeader, Known
<1>3. CASE FailedBelow(Parent[b]) = {}
  BY <1>2, <1>3 DEF AcceptBlockHeader, NewHeader
<1>4. CASE FailedBelow(Parent[b]) # {}
  <2>1. PICK f \in FailedBelow(Parent[b]) :
          IF ~idx[f].failedValid
          THEN fault' = "failedit" /\ UNCHANGED <<idx, dirty>>
          ELSE /\ idx' = [x \in Blocks |-> [idx[x] EXCEPT !.failedChild = @ \/ x \in Walked(b, f)]]
               /\ dirty' = dirty \cup Walked(b, f) /\ UNCHANGED fault
    BY <1>4 DEF AcceptBlockHeader, Walked
  <2>2. CASE ~idx[f].failedValid
    BY <1>1, <1>2, <2>1, <2>2 DEF NotMarked
  <2>3. CASE idx[f].failedValid
    <3>1. MarkedDown(b, f)
      BY <1>1, <2>1, <2>3 DEF MarkedDown
    <3> QED BY <1>2, <3>1
  <2> QED BY <2>2, <2>3
<1> QED BY <1>3, <1>4

\* What AcceptBlockHeader does to the flags.
LEMMA NewHeaderFlags ==
  ASSUME TypeOK, NEW b \in Blocks, NewHeader(b)
  PROVE  \A x \in Blocks : /\ idx'[x].failedValid = idx[x].failedValid
                           /\ idx'[x].failedChild = idx[x].failedChild
<1>1. idx \in [Blocks -> Entry] /\ idx' = [idx EXCEPT ![b].known = TRUE]
  BY DEF TypeOK, NewHeader
<1> QED BY <1>1 DEF Entry

LEMMA MarkedDownFlags ==
  ASSUME TypeOK, NEW b \in Blocks, NEW f, Parent[b] \in Blocks, MarkedDown(b, f)
  PROVE  /\ f \in Blocks /\ Walked(b, f) \subseteq Blocks
         /\ \A x \in Blocks : /\ idx'[x].failedValid = idx[x].failedValid
                              /\ idx'[x].failedChild = (idx[x].failedChild \/ x \in Walked(b, f))
         /\ \A x \in Walked(b, f) : f \in Chain[x]
<1>1. /\ f \in failedSet /\ f \in Chain[Parent[b]]
      /\ idx' = [x \in Blocks |-> [idx[x] EXCEPT !.failedChild = @ \/ x \in Walked(b, f)]]
  BY DEF MarkedDown
<1>2. f \in Blocks /\ idx \in [Blocks -> Entry]
  BY <1>1 DEF TypeOK
<1>3. Walked(b, f) \subseteq Blocks /\ \A x \in Walked(b, f) : f \in Chain[x]
  BY <1>1, ChainTypes, ChainLinear DEF Walked
<1> HIDE DEF Walked
<1> QED BY <1>1, <1>2, <1>3 DEF Entry

LEMMA BlameFrame ==
  ASSUME Blame, UNCHANGED <<setting, disk>>, Caused(idx)', failedSet' \subseteq setting.bad,
         \A b \in Chain[tip'] : b \notin setting.bad
  PROVE  Blame'
<1>1. Caused(disk.idx)'
  BY DEF Blame, Caused, Invalid
<1> QED BY <1>1 DEF Blame

\* Flags that do not change keep their cause.
LEMMA CausedFrame ==
  ASSUME Caused(idx), UNCHANGED setting,
         \A x \in Blocks : /\ idx'[x].failedValid => idx[x].failedValid
                           /\ idx'[x].failedChild => idx[x].failedChild
  PROVE  Caused(idx)'
BY DEF Caused, Invalid

LEMMA HeaderBlame ==
  ASSUME Basic, Blame, NEW b \in Blocks, AcceptBlockHeader(b)
  PROVE  Blame'
<1>1. UNCHANGED <<setting, failedSet, tip, disk>>
  BY HeaderChanges DEF Basic
<1>2. Caused(idx)'
  <2>1. CASE NewHeader(b)
    BY <1>1, <2>1, NewHeaderFlags, CausedFrame DEF Basic, Blame
  <2>2. CASE NotMarked
    BY <1>1, <2>2, CausedFrame DEF Blame, NotMarked
  <2>3. ASSUME NEW f, MarkedDown(b, f) PROVE Caused(idx)'
    <3>1. f \in Invalid
      BY <2>3 DEF Blame, MarkedDown, Invalid
    <3>2. /\ \A x \in Blocks : /\ idx'[x].failedValid = idx[x].failedValid
                               /\ idx'[x].failedChild = (idx[x].failedChild \/ x \in Walked(b, f))
          /\ \A x \in Walked(b, f) : f \in Chain[x]
      BY <2>3, HeaderCases, MarkedDownFlags DEF Basic
    <3> HIDE DEF Walked
    <3> QED BY <1>1, <3>1, <3>2 DEF Blame, Caused, Invalid
  <2> QED BY <2>1, <2>2, <2>3, HeaderCases
<1> QED BY <1>1, <1>2, BlameFrame DEF Blame

LEMMA ProcessBlame ==
  ASSUME Basic, Blame, NEW t \in Threads, NEW b \in Blocks, NEW r \in BOOLEAN,
         ProcessNewBlock(t, b, r)
  PROVE  Blame'
<1>1. UNCHANGED <<setting, tip, disk>>
  BY ProcessCases
<1>2. CASE Ignored(t)
  <2>1. UNCHANGED <<idx, failedSet>>
    BY <1>2 DEF Ignored, index
  <2> QED BY <1>1, <2>1, CausedFrame, BlameFrame DEF Blame
<1>3. CASE Refused(b)
  <2>1. Caused(idx)'
    <3>1. \A x \in Blocks :
            /\ idx'[x].failedValid = (idx[x].failedValid \/ x = b)
            /\ idx'[x].failedChild = idx[x].failedChild
      BY <1>3, RejectedEntry DEF Basic, Refused
    <3> QED BY <1>1, <1>3, <3>1 DEF Blame, Caused, Invalid, Refused
  <2> QED BY <1>1, <1>3, <2>1, BlameFrame DEF Blame, Refused
<1>4. CASE Stored(t, b)
  <2>1. \A x \in Blocks : /\ idx'[x].failedValid = idx[x].failedValid
                          /\ idx'[x].failedChild = idx[x].failedChild
    BY <1>4, StoredCases, EntryStored DEF Basic
  <2> QED BY <1>1, <1>4, <2>1, CausedFrame, BlameFrame DEF Blame, Stored
<1> QED BY <1>2, <1>3, <1>4, ProcessCases

LEMMA FindBlame ==
  ASSUME Basic, Blame, NEW t \in Threads, FindMostWorkChain(t)
  PROVE  Blame'
<1>1. UNCHANGED <<setting, failedSet, tip, disk>>
  BY FindCases
<1>2. CASE UNCHANGED idx
  BY <1>1, <1>2, CausedFrame, BlameFrame DEF Blame
<1>3. ASSUME NEW first, GaveUp(first) PROVE Blame'
  <2>1. /\ \A x \in Blocks :
             /\ idx'[x].failedValid = idx[x].failedValid
             /\ idx'[x].failedChild = (idx[x].failedChild \/ (Failed(first) /\ x \in Beyond(first)))
        /\ first \in Blocks
        /\ \A x \in Beyond(first) : x \in Blocks /\ first \in Chain[x]
    BY <1>3, GaveUpEntry, ObstacleIs DEF Basic
  <2>2. Failed(first) => \E a \in Chain[first] : a \in Invalid
    BY <2>1, ChainTypes DEF Blame, Caused, Failed, FailedIn
  <2>3. \A x \in Beyond(first) : Chain[first] \subseteq Chain[x]
    BY <2>1, ChainTrans
  <2> HIDE DEF Beyond, Failed
  <2>4. Caused(idx)'
    BY <1>1, <2>1, <2>2, <2>3 DEF Blame, Caused, Invalid
  <2> QED BY <1>1, <2>4, BlameFrame DEF Blame
<1> QED BY <1>2, <1>3, FindCases DEF AtTop, Found

LEMMA StepBlame ==
  ASSUME Basic, Blame, NEW t \in Threads, DisconnectTip(t) \/ ConnectTip(t) \/ ConnectTipFails(t)
  PROVE  Blame'
<1>1. CASE DisconnectTip(t)
  <2>1. UNCHANGED <<setting, idx, failedSet, disk>> /\ tip' \in {tip, Parent[tip]} /\ tip # Genesis
    BY <1>1, DisconnectCases DEF index, Unread, Undone
  <2>2. Chain[tip'] \subseteq Chain[tip]
    BY <2>1, ChainStep DEF Basic, TypeOK
  <2> QED BY <2>1, <2>2, CausedFrame, BlameFrame DEF Blame
<1>2. CASE ConnectTip(t)
  <2>1. PICK b \in linked : /\ b \in Blocks \ {Genesis} /\ Parent[b] = tip
                            /\ UNCHANGED <<setting, failedSet, disk>>
                            /\ Unconnected \/ (b \notin setting.bad /\ Connected(t, b))
    BY <1>2, ConnectCases
  <2>2. CASE Unconnected
    BY <2>1, <2>2, CausedFrame, BlameFrame DEF Blame, Unconnected
  <2>3. CASE b \notin setting.bad /\ Connected(t, b)
    <3>1. tip' = b /\ Chain[b] = {b} \cup Chain[tip]
      BY <2>1, <2>3, ChainStep DEF Connected
    <3>2. \A x \in Blocks : /\ idx'[x].failedValid = idx[x].failedValid
                            /\ idx'[x].failedChild = idx[x].failedChild
      BY <2>1, <2>3, ConnectedEntry DEF Basic
    <3> QED BY <2>1, <2>3, <3>1, <3>2, CausedFrame, BlameFrame DEF Blame
  <2> QED BY <2>1, <2>2, <2>3
<1>3. CASE ConnectTipFails(t)
  <2>1. UNCHANGED <<setting, tip, disk>>
    BY <1>3, FailsCases
  <2>2. PICK b \in linked : b \in Blocks /\ Rejected(t, b)
    BY <1>3, FailsCases
  <2>3. b \in setting.bad /\ failedSet' = failedSet \cup {b}
    BY <2>2 DEF Rejected
  <2>4. \A x \in Blocks :
          /\ idx'[x].failedValid = (idx[x].failedValid \/ x = b)
          /\ idx'[x].failedChild = idx[x].failedChild
    BY <2>2, RejectedEntry DEF Basic, Rejected
  <2>5. Caused(idx)'
    BY <2>1, <2>3, <2>4 DEF Blame, Caused, Invalid
  <2> QED BY <2>1, <2>3, <2>5, BlameFrame DEF Blame
<1> QED BY <1>1, <1>2, <1>3

LEMMA DiskBlame ==
  ASSUME Basic, Blame, WriteIndex \/ FlushAll \/ \E b \in Blocks : PruneOneBlockFile(b)
  PROVE  Blame'
<1>1. UNCHANGED <<setting, failedSet, tip>>
  BY DEF WriteIndex, FlushAll, PruneOneBlockFile
<1>2. disk'.best \in {disk.best, tip}
  <2>1. CASE WriteIndex \/ FlushAll
    BY <2>1 DEF WriteIndex, FlushAll, Flushed, Basic, TypeOK
  <2>2. ASSUME NEW b \in Blocks, PruneOneBlockFile(b) PROVE disk'.best = tip
    <3>1. disk' = [idx |-> disk'.idx, best |-> tip]
      BY <2>2 DEF PruneOneBlockFile
    <3> QED BY <3>1
  <2> QED BY <2>1, <2>2
<1>3. \A x \in Blocks :
        /\ idx'[x].failedValid = idx[x].failedValid /\ idx'[x].failedChild = idx[x].failedChild
        /\ disk'.idx[x].failedValid => idx[x].failedValid \/ disk.idx[x].failedValid
        /\ disk'.idx[x].failedChild => idx[x].failedChild \/ disk.idx[x].failedChild
  <2>1. CASE WriteIndex \/ FlushAll
    <3>1. UNCHANGED idx /\ disk'.idx = IndexWritten
      BY <2>1 DEF WriteIndex, FlushAll, Flushed, Basic, TypeOK
    <3> QED BY <3>1, WrittenIs
  <2>2. ASSUME NEW b \in Blocks, PruneOneBlockFile(b) PROVE <1>3!:
    <3>1. /\ idx' = [idx EXCEPT ![b].data = FALSE]
          /\ disk'.idx = [x \in Blocks |-> IF x \in dirty \cup {b} THEN idx'[x] ELSE disk.idx[x]]
      BY <2>2 DEF PruneOneBlockFile
    <3>2. idx \in [Blocks -> Entry]
      BY DEF Basic, TypeOK
    <3>3. \A x \in Blocks : /\ idx'[x].failedValid = idx[x].failedValid
                            /\ idx'[x].failedChild = idx[x].failedChild
      BY <3>1, <3>2 DEF Entry
    <3>4. \A x \in Blocks : disk'.idx[x] = IF x \in dirty \cup {b} THEN idx'[x] ELSE disk.idx[x]
      BY <3>1
    <3> QED BY <3>3, <3>4
  <2> QED BY <2>1, <2>2
<1>4. Caused(idx)' /\ Caused(disk.idx)'
  BY <1>1, <1>3 DEF Blame, Caused, Invalid
<1> QED BY <1>1, <1>2, <1>4 DEF Blame

LEMMA RestartBlame ==
  ASSUME Basic, Blame, NEW t \in Threads, Restart(t)
  PROVE  Blame'
<1>1. /\ UNCHANGED <<setting, disk>> /\ idx' = Loaded(disk.idx) /\ tip' = disk.best
      /\ failedSet' = {} /\ disk.idx \in [Blocks -> Entry]
  BY RestartIs
<1>2. Caused(idx)'
  <2> SUFFICES ASSUME NEW b \in Blocks
               PROVE  /\ idx'[b].failedValid => b \in Invalid
                      /\ idx'[b].failedChild => \E a \in Chain[b] : a \in Invalid
    BY <1>1 DEF Caused, Invalid
  <2>1. idx'[b].failedValid => b \in Invalid
    BY <1>1, LoadedIs DEF Blame, Caused
  <2>2. ASSUME NEW a \in Chain[b], FailedIn(disk.idx, a) PROVE \E c \in Chain[b] : c \in Invalid
    <3>1. a \in Blocks /\ a \in Chain[a] /\ Chain[a] \subseteq Chain[b]
      BY ChainTypes, ChainTrans
    <3> QED BY <2>2, <3>1 DEF Blame, Caused, FailedIn
  <2>3. idx'[b].failedChild => disk.idx[b].failedChild \/ \E a \in Chain[b] : FailedIn(disk.idx, a)
    BY <1>1, LoadedIs
  <2> QED BY <2>1, <2>2, <2>3 DEF Blame, Caused
<1> QED BY <1>1, <1>2, BlameFrame DEF Blame

LEMMA NextBlame ==
  ASSUME Basic, Without("invalidate"), Blame, [Next]_vars
  PROVE  Blame'
<1>1. CASE UNCHANGED vars
  BY <1>1 DEF vars, index, Blame, Caused, Invalid
<1>2. ASSUME NEW b \in Blocks, AcceptBlockHeader(b) \/ PruneOneBlockFile(b) PROVE Blame'
  BY <1>2, HeaderBlame, DiskBlame
<1>3. ASSUME NEW t \in Threads, EnterRound(t) PROVE Blame'
  <2>1. UNCHANGED <<setting, idx, failedSet, tip, disk>>
    BY <1>3 DEF EnterRound, index
  <2> QED BY <2>1, CausedFrame, BlameFrame DEF Blame
<1>4. ASSUME NEW t \in Threads, Activate(t) \/ Restart(t) PROVE Blame'
  BY <1>3, <1>4, FindBlame, StepBlame, RestartBlame DEF Activate
<1>5. ASSUME NEW t \in Threads, NEW b \in Blocks, InvalidateBlock(t, b) PROVE Blame'
  BY <1>5 DEF InvalidateBlock, Called, Without
<1>6. ASSUME NEW t \in Threads, NEW b \in Blocks, ReconsiderBlock(t, b) PROVE Blame'
  BY <1>6, ReconsiderIs, CausedFrame, BlameFrame DEF Basic, Blame
<1>7. ASSUME NEW t \in Threads, NEW b \in Blocks, PreciousBlock(t, b) PROVE Blame'
  <2>1. UNCHANGED <<setting, idx, failedSet, tip, disk>>
    BY <1>7 DEF PreciousBlock
  <2> QED BY <2>1, CausedFrame, BlameFrame DEF Blame
<1>8. ASSUME NEW t \in Threads, NEW b \in Blocks, NEW r \in BOOLEAN, ProcessNewBlock(t, b, r)
      PROVE  Blame'
  BY <1>8, ProcessBlame
<1>9. CASE WriteIndex \/ FlushAll
  BY <1>9, DiskBlame
<1> QED BY <1>1, <1>2, <1>4, <1>5, <1>6, <1>7, <1>8, <1>9 DEF Next

LEMMA InitBlame == ASSUME Init PROVE Blame
<1>1. idx \in [Blocks -> Entry] /\ \A b \in Blocks : ~idx[b].failedValid /\ ~idx[b].failedChild
  BY TreeTypes DEF Init, Unknown, Entry
<1>2. /\ setting \in Settings /\ tip = Genesis /\ failedSet = {}
      /\ disk.idx = idx /\ disk.best = Genesis
  BY DEF Init
<1>3. Genesis \notin setting.bad
  BY <1>2, ChainAssumption
<1> QED BY <1>1, <1>2, <1>3, ChainStep DEF Blame, Caused

\* What is never marked or missing: an active chain without a bad block.
LEMMA BlameDisk == ASSUME Basic, Blame PROVE DiskConsistent
<1> SUFFICES ASSUME NEW b \in Chain[disk.best]
             PROVE  disk.idx[b].tx /\ ~FailedIn(disk.idx, b)
  BY DEF DiskConsistent
<1>1. disk.best \in Blocks /\ b \in Blocks /\ Chain[b] \subseteq Chain[disk.best] /\ Chain[b] \subseteq Blocks
      /\ b \in Chain[b]
  BY ChainTypes, ChainTrans DEF Basic, TypeOK
<1>2. \A a \in Chain[b] : a \notin Invalid
  BY <1>1 DEF Basic, Links, Received, Blame, Invalid
<1>3. ~disk.idx[b].failedValid /\ ~disk.idx[b].failedChild
  BY <1>1, <1>2 DEF Blame, Caused
<1> QED BY <1>1, <1>3 DEF Basic, Links, FailedIn

LEMMA BlameActive ==
  ASSUME Basic, Blame
  PROVE  \A b \in Chain[tip] : ~Failed(b) /\ idx[b].tx /\ b \in linked
<1> SUFFICES ASSUME NEW b \in Chain[tip] PROVE ~Failed(b) /\ idx[b].tx /\ b \in linked
  OBVIOUS
<1>1. /\ tip \in Blocks /\ b \in Blocks /\ Chain[b] \subseteq Chain[tip] /\ Chain[b] \subseteq Blocks
      /\ b \in Chain[b] /\ Chain[tip] \subseteq linked /\ \A a \in Chain[tip] : idx[a].tx
  BY ChainTypes, ChainTrans, LinkedChain DEF Basic, Links, TypeOK
<1>2. \A a \in Chain[b] : a \notin Invalid
  BY <1>1 DEF Basic, Links, Received, Blame, Invalid
<1>3. ~idx[b].failedValid /\ ~idx[b].failedChild
  BY <1>1, <1>2 DEF Blame, Caused
<1> QED BY <1>1, <1>3 DEF Failed, FailedIn

-----------------------------------------------------------------------------
(* With headers, blocks, threads, flushes and deaths only: failure flags.   *)

\* The flags and the receipts of the index do not change.
SameMarks ==
  \A x \in Blocks : /\ idx'[x].tx = idx[x].tx /\ idx'[x].data = idx[x].data
                    /\ idx'[x].failedValid = idx[x].failedValid
                    /\ idx'[x].failedChild = idx[x].failedChild

\* Flags are added only.
MoreMarks ==
  \A x \in Blocks : /\ idx'[x].tx = idx[x].tx /\ idx'[x].data = idx[x].data
                    /\ idx[x].failedValid => idx'[x].failedValid
                    /\ idx[x].failedChild => idx'[x].failedChild

LEMMA MarksFrame ==
  ASSUME Marks(idx), SameMarks
  PROVE  Marks(idx)'
<1>1. \A b \in Blocks : Chain[b] \subseteq Blocks
  BY ChainTypes
<1>2. \A b \in Blocks : idx'[b].data = idx'[b].tx
  BY DEF Marks, SameMarks
<1>3. \A b \in Blocks : idx'[b].failedChild => \E a \in Chain[b] : idx'[a].failedValid
  BY <1>1 DEF Marks, SameMarks
<1>4. \A b \in Blocks : FailedIn(idx', b) <=> FailedIn(idx, b)
  BY DEF SameMarks, FailedIn
<1>5. \A b \in Blocks :
        FailedIn(idx', b) /\ (\E a \in Chain[b] : ~idx'[a].tx) =>
          \E a \in Chain[b] : FailedIn(idx', a) /\ ~idx'[a].tx
  BY <1>1, <1>4 DEF Marks, SameMarks
<1> QED BY <1>2, <1>3, <1>5 DEF Marks

LEMMA FlagsFrame ==
  ASSUME Flags, SameMarks, UNCHANGED <<linked, disk, failedSet>>, dirty \subseteq dirty',
         fault' = "none", failedSet \subseteq Blocks
  PROVE  Flags'
<1>1. Marks(idx)'
  BY MarksFrame DEF Flags
<1>2. Marks(disk.idx)'
  BY DEF Flags, Marks, FailedIn
<1>3. (\A b \in failedSet : b \in linked /\ idx[b].failedValid)'
  BY DEF Flags, SameMarks
<1>4. \A b \in Blocks : (FailedIn(idx', b) <=> FailedIn(idx, b)) /\ (FailedIn(disk.idx, b)' <=> FailedIn(disk.idx, b))
  BY DEF SameMarks, FailedIn
<1>5. ASSUME NEW b \in Blocks
      PROVE  (/\ disk.idx[b].failedValid => idx[b].failedValid
              /\ disk.idx[b].failedChild => Failed(b)
              /\ b \notin dirty /\ idx[b].failedValid => disk.idx[b].failedValid
              /\ b \notin dirty /\ ~idx[b].tx /\ Failed(b) => FailedIn(disk.idx, b))'
  <2>1. /\ disk.idx[b].failedValid => idx[b].failedValid
        /\ disk.idx[b].failedChild => Failed(b)
        /\ b \notin dirty /\ idx[b].failedValid => disk.idx[b].failedValid
        /\ b \notin dirty /\ ~idx[b].tx /\ Failed(b) => FailedIn(disk.idx, b)
    BY DEF Flags
  <2>2. idx'[b].failedValid = idx[b].failedValid /\ idx'[b].tx = idx[b].tx /\ disk' = disk
    BY DEF SameMarks
  <2> QED BY <1>4, <2>1, <2>2 DEF Failed
<1> QED BY <1>1, <1>2, <1>3, <1>5 DEF Flags

\* More flags, of blocks that were received and linked, or are dirty.
LEMMA FlagsMore ==
  ASSUME Flags, MoreMarks, Marks(idx)', UNCHANGED <<linked, disk>>, dirty \subseteq dirty',
         fault' = "none", failedSet \subseteq Blocks, failedSet' \subseteq Blocks,
         \A x \in failedSet' : x \in failedSet \/ (x \in linked /\ idx'[x].failedValid),
         \A x \in Blocks \ dirty' :
           /\ idx'[x].failedValid => idx[x].failedValid
           /\ ~idx[x].tx /\ FailedIn(idx', x) => Failed(x)
  PROVE  Flags'
<1>2. Marks(disk.idx)'
  BY DEF Flags, Marks, FailedIn
<1>3. (\A b \in failedSet : b \in linked /\ idx[b].failedValid)'
  BY DEF Flags, MoreMarks
<1>4. \A b \in Blocks : (FailedIn(idx, b) => FailedIn(idx', b)) /\ (FailedIn(disk.idx, b)' <=> FailedIn(disk.idx, b))
  BY DEF MoreMarks, FailedIn
<1>5. ASSUME NEW b \in Blocks
      PROVE  (/\ disk.idx[b].failedValid => idx[b].failedValid
              /\ disk.idx[b].failedChild => Failed(b)
              /\ b \notin dirty /\ idx[b].failedValid => disk.idx[b].failedValid
              /\ b \notin dirty /\ ~idx[b].tx /\ Failed(b) => FailedIn(disk.idx, b))'
  <2>1. /\ disk.idx[b].failedValid => idx[b].failedValid
        /\ disk.idx[b].failedChild => Failed(b)
        /\ b \notin dirty /\ idx[b].failedValid => disk.idx[b].failedValid
        /\ b \notin dirty /\ ~idx[b].tx /\ Failed(b) => FailedIn(disk.idx, b)
    BY DEF Flags
  <2>2. /\ idx[b].failedValid => idx'[b].failedValid
        /\ idx'[b].tx = idx[b].tx /\ disk' = disk
    BY DEF MoreMarks
  <2> QED BY <1>4, <2>1, <2>2 DEF Failed
<1> QED BY <1>2, <1>3, <1>5 DEF Flags

\* A block is linked unless it or an ancestor has not been received.
LEMMA LinkedOrUnseen ==
  ASSUME Basic, Waits
  PROVE  \A b \in Blocks : b \in linked <=> ~HasUnseen(b)
<1> DEFINE S == {b \in Blocks : b \in linked \/ HasUnseen(b)}
<1>1. Genesis \in S
  BY TreeTypes DEF Basic, Links
<1>2. ASSUME NEW b \in Blocks \ {Genesis}, Parent[b] \in S PROVE b \in S
  <2>1. Chain[b] = {b} \cup Chain[Parent[b]]
    BY ChainStep
  <2>2. CASE HasUnseen(Parent[b])
    BY <2>1, <2>2 DEF HasUnseen
  <2>3. CASE Parent[b] \in linked
    BY <2>1, <2>3 DEF HasUnseen, Waits
  <2> QED BY <1>2, <2>2, <2>3
<1>3. Blocks \subseteq S
  <2> HIDE DEF S
  <2> QED BY <1>1, <1>2, TreeInduction
<1>4. \A b \in linked : ~HasUnseen(b)
  BY LinkedChain DEF Basic, HasUnseen
<1> QED BY <1>3, <1>4

\* The parts that depend neither on threads nor on the tip.
LEMMA WaitsFrame ==
  ASSUME Basic, Waits, UNCHANGED <<linked, pairs>>, MoreMarks
  PROVE  Waits'
<1>1. \A b \in Blocks : Failed(b) => FailedIn(idx', b)
  BY DEF MoreMarks, Failed, FailedIn
<1>5. unlinked' = unlinked
  BY UnlinkedKept
<1>2. \A b \in unlinked : b \in Blocks /\ Chain[b] \subseteq Blocks
  BY ChainTypes DEF unlinked
<1>3. (\A b \in unlinked : HasUnseen(b))'
  BY <1>2, <1>5 DEF Waits, HasUnseen, MoreMarks
<1>4. ASSUME NEW b \in Blocks, idx'[b].tx, b \notin linked
      PROVE  Parent[b] \notin linked /\ (b \in unlinked \/ FailedIn(idx', Parent[b]))
  <2>1. b # Genesis /\ idx[b].tx
    BY <1>4 DEF MoreMarks, Basic, Links
  <2>2. Parent[b] \in Blocks
    BY <2>1, TreeTypes
  <2> QED BY <1>1, <1>4, <2>1, <2>2 DEF Waits
<1> QED BY <1>3, <1>4, <1>5 DEF Waits, Failed

LEMMA HeaderFlags ==
  ASSUME Basic, Flags, Waits, NEW b \in Blocks, AcceptBlockHeader(b)
  PROVE  Flags' /\ MoreMarks
<1>1. /\ UNCHANGED <<linked, failedSet, disk>> /\ dirty \subseteq dirty' /\ failedSet \subseteq Blocks
      /\ \A x \in Blocks : idx'[x].tx = idx[x].tx /\ idx'[x].data = idx[x].data
      /\ fault = "none"
  BY HeaderChanges DEF Basic, TypeOK, Flags
<1>2. CASE NewHeader(b)
  <2>1. SameMarks /\ MoreMarks
    BY <1>1, <1>2, NewHeaderFlags DEF Basic, SameMarks, MoreMarks
  <2> QED BY <1>1, <1>2, <2>1, FlagsFrame DEF NewHeader
<1>3. CASE NotMarked
  BY <1>3 DEF NotMarked, Flags
<1>4. ASSUME NEW f, MarkedDown(b, f) PROVE Flags' /\ MoreMarks
  <2> DEFINE W == Walked(b, f)
  <2>1. /\ f \in Blocks /\ W \subseteq Blocks /\ Parent[b] \in Blocks
        /\ \A x \in Blocks : /\ idx'[x].failedValid = idx[x].failedValid
                             /\ idx'[x].failedChild = (idx[x].failedChild \/ x \in W)
        /\ \A x \in W : f \in Chain[x]
    BY <1>4, HeaderCases, MarkedDownFlags DEF Basic
  <2>2. MoreMarks
    BY <1>1, <2>1 DEF MoreMarks
  <2>3. idx[f].failedValid /\ f \in linked /\ dirty' = dirty \cup W /\ fault' = "none"
    BY <1>1, <1>4 DEF MarkedDown, Flags
  <2>4. \A x \in Blocks : FailedIn(idx', x) <=> (Failed(x) \/ x \in W)
    BY <2>1 DEF Failed, FailedIn
  <2>5. Marks(idx)'
    <3>1. \A x \in Blocks : idx'[x].data = idx'[x].tx
      BY <1>1 DEF Flags, Marks
    <3>2. \A x \in Blocks : idx'[x].failedChild => \E a \in Chain[x] : idx'[a].failedValid
      BY <2>1, <2>3, ChainTypes DEF Flags, Marks
    <3>3. ASSUME NEW x \in Blocks, FailedIn(idx', x), NEW z \in Chain[x], ~idx'[z].tx
          PROVE  \E a \in Chain[x] : FailedIn(idx', a) /\ ~idx'[a].tx
      <4>1. z \in Blocks /\ ~idx[z].tx /\ Chain[x] \subseteq Blocks
        BY <1>1, <3>3, ChainTypes
      <4>2. CASE Failed(x)
        <5>1. PICK a \in Chain[x] : FailedIn(idx, a) /\ ~idx[a].tx
          BY <3>3, <4>1, <4>2 DEF Flags, Marks, Failed
        <5>2. a \in Blocks /\ FailedIn(idx', a) /\ ~idx'[a].tx
          BY <1>1, <2>4, <4>1, <5>1 DEF Failed
        <5> QED BY <5>2
      <4>3. CASE x \in W
        <5>1. x \in Chain[Parent[b]]
          BY <4>3 DEF Walked
        <5>2. z \in Chain[Parent[b]]
          BY <2>1, <5>1, ChainTrans
        <5>3. z \notin Chain[f]
          BY <2>3, <4>1, LinkedChain DEF Basic
        <5>4. z \in W
          BY <5>2, <5>3 DEF Walked
        <5> HIDE DEF W
        <5> QED BY <2>4, <3>3, <4>1, <5>4
      <4> QED BY <2>4, <3>3, <4>2, <4>3
    <3> QED BY <3>1, <3>2, <3>3 DEF Marks
  <2> HIDE DEF W
  <2>6. Flags'
    BY <1>1, <2>1, <2>2, <2>3, <2>4, <2>5, FlagsMore
  <2> QED BY <2>2, <2>6
<1> QED BY <1>2, <1>3, <1>4, HeaderCases

\* A block is marked invalid that was never received, or is linked.
LEMMA RejectedFlags ==
  ASSUME Basic, Flags, NEW b \in Blocks, idx' = [idx EXCEPT ![b].failedValid = TRUE],
         ~idx[b].tx \/ b \in linked, dirty' = dirty \cup {b},
         failedSet' = failedSet \/ (failedSet' = failedSet \cup {b} /\ b \in linked),
         UNCHANGED <<linked, disk, fault>>
  PROVE  Flags' /\ MoreMarks
<1>1. \A x \in Blocks :
        /\ idx'[x].tx = idx[x].tx /\ idx'[x].data = idx[x].data
        /\ idx'[x].failedValid = (idx[x].failedValid \/ x = b)
        /\ idx'[x].failedChild = idx[x].failedChild
  BY RejectedEntry DEF Basic
<1>2. MoreMarks
  BY <1>1 DEF MoreMarks
<1>3. \A x \in Blocks : FailedIn(idx', x) <=> (Failed(x) \/ x = b)
  BY <1>1 DEF Failed, FailedIn
<1>4. Marks(idx)'
  <2>1. \A x \in Blocks : idx'[x].data = idx'[x].tx
    BY <1>1 DEF Flags, Marks
  <2>2. \A x \in Blocks : idx'[x].failedChild => \E a \in Chain[x] : idx'[a].failedValid
    BY <1>1, ChainTypes DEF Flags, Marks
  <2>3. ASSUME NEW x \in Blocks, FailedIn(idx', x), NEW z \in Chain[x], ~idx'[z].tx
        PROVE  \E a \in Chain[x] : FailedIn(idx', a) /\ ~idx'[a].tx
    <3>1. z \in Blocks /\ ~idx[z].tx /\ Chain[x] \subseteq Blocks /\ x \in Chain[x]
      BY <1>1, <2>3, ChainTypes
    <3>2. CASE Failed(x)
      <4>1. PICK a \in Chain[x] : FailedIn(idx, a) /\ ~idx[a].tx
        BY <2>3, <3>1, <3>2 DEF Flags, Marks, Failed
      <4>2. a \in Blocks /\ FailedIn(idx', a) /\ ~idx'[a].tx
        BY <1>1, <1>3, <3>1, <4>1 DEF Failed
      <4> QED BY <4>2
    <3>3. CASE x = b
      <4>1. b \notin linked
        BY <2>3, <3>1, <3>3, LinkedChain DEF Basic
      <4>2. ~idx'[x].tx
        BY <1>1, <3>3, <4>1
      <4> QED BY <2>3, <3>1, <4>2
    <3> QED BY <1>3, <2>3, <3>2, <3>3
  <2> QED BY <2>1, <2>2, <2>3 DEF Marks
<1>5. failedSet \subseteq Blocks /\ fault = "none"
  BY DEF Basic, TypeOK, Flags
<1>6. Flags'
  BY <1>1, <1>2, <1>3, <1>4, <1>5, FlagsMore
<1> QED BY <1>2, <1>6

LEMMA StoredMarks ==
  ASSUME TypeOK, NEW t \in Threads, NEW b \in Blocks, Stored(t, b)
  PROVE  /\ idx'[b].tx /\ idx'[b].data
         /\ \A x \in Blocks \ {b} : idx'[x].tx = idx[x].tx /\ idx'[x].data = idx[x].data
         /\ \A x \in Blocks : /\ idx'[x].failedValid = idx[x].failedValid
                              /\ idx'[x].failedChild = idx[x].failedChild
                              /\ FailedIn(idx', x) <=> Failed(x)
                              /\ idx[x].tx => idx'[x].tx
<1>1. /\ idx'[b].data /\ idx'[b].tx /\ \A x \in Blocks \ {b} : idx'[x] = idx[x]
      /\ idx'[b].failedValid = idx[b].failedValid /\ idx'[b].failedChild = idx[b].failedChild
  BY StoredCases, EntryStored
<1> QED BY <1>1 DEF Failed, FailedIn

LEMMA StoredFlags ==
  ASSUME Basic, Flags, NEW t \in Threads, NEW b \in Blocks \ {Genesis}, Stored(t, b), ~Failed(b),
         UNCHANGED <<setting, tip, sec, fault, disk>>
  PROVE  Flags'
<1>1. linked \subseteq linked' /\ dirty' = dirty \cup {b} /\ failedSet' = failedSet /\ failedSet \subseteq Blocks
  <2>1. linked \subseteq linked'
    <3>1. ASSUME NEW s \in Numberings(b, NowLinked(b)), Extends(b, s) PROVE linked \subseteq linked'
      BY <3>1 DEF Extends
    <3>2. CASE Orphan(b)
      BY <3>2 DEF Orphan, Basic, Links
    <3> QED BY <3>1, <3>2, StoredCases
  <2> QED BY <2>1, StoredCases DEF Stored, Basic, TypeOK
<1>2. /\ idx'[b].tx /\ idx'[b].data
      /\ \A x \in Blocks \ {b} : idx'[x].tx = idx[x].tx /\ idx'[x].data = idx[x].data
      /\ \A x \in Blocks : /\ idx'[x].failedValid = idx[x].failedValid
                           /\ idx'[x].failedChild = idx[x].failedChild
                           /\ FailedIn(idx', x) <=> Failed(x)
                           /\ idx[x].tx => idx'[x].tx
  BY StoredMarks DEF Basic
<1>3. Marks(idx)'
  <2>0. idx'[b] \in Entry
    BY StoredCases, EntryStored DEF Basic
  <2>1. \A x \in Blocks : idx'[x].data = idx'[x].tx
    BY <1>2, <2>0 DEF Flags, Marks, Entry
  <2>2. \A x \in Blocks : idx'[x].failedChild => \E a \in Chain[x] : idx'[a].failedValid
    BY <1>2, ChainTypes DEF Flags, Marks
  <2>3. ASSUME NEW x \in Blocks, FailedIn(idx', x), NEW z \in Chain[x], ~idx'[z].tx
        PROVE  \E a \in Chain[x] : FailedIn(idx', a) /\ ~idx'[a].tx
    <3>1. z \in Blocks /\ ~idx[z].tx /\ Chain[x] \subseteq Blocks /\ FailedIn(idx, x)
      BY <1>2, <2>3, ChainTypes DEF Failed
    <3>2. PICK a \in Chain[x] : FailedIn(idx, a) /\ ~idx[a].tx
      BY <2>3, <3>1 DEF Flags, Marks
    <3>3. a \in Blocks /\ a # b
      BY <3>1, <3>2 DEF Failed
    <3> QED BY <1>2, <3>2, <3>3 DEF Failed
  <2> QED BY <2>1, <2>2, <2>3 DEF Marks
<1>4. Marks(disk.idx)'
  BY DEF Flags, Marks, FailedIn
<1>5. (\A x \in failedSet : x \in linked /\ idx[x].failedValid)'
  BY <1>1, <1>2 DEF Flags
<1>6. ASSUME NEW x \in Blocks
      PROVE  (/\ disk.idx[x].failedValid => idx[x].failedValid
              /\ disk.idx[x].failedChild => Failed(x)
              /\ x \notin dirty /\ idx[x].failedValid => disk.idx[x].failedValid
              /\ x \notin dirty /\ ~idx[x].tx /\ Failed(x) => FailedIn(disk.idx, x))'
  <2>1. /\ disk.idx[x].failedValid => idx[x].failedValid
        /\ disk.idx[x].failedChild => Failed(x)
        /\ x \notin dirty /\ idx[x].failedValid => disk.idx[x].failedValid
        /\ x \notin dirty /\ ~idx[x].tx /\ Failed(x) => FailedIn(disk.idx, x)
    BY DEF Flags
  <2>2. disk' = disk /\ (FailedIn(disk.idx, x)' <=> FailedIn(disk.idx, x))
    BY DEF FailedIn
  <2>3. /\ x \notin dirty' => x \notin dirty
        /\ idx'[x].failedValid = idx[x].failedValid
        /\ (FailedIn(idx', x) <=> Failed(x)) /\ (idx[x].tx => idx'[x].tx)
    BY <1>1, <1>2
  <2> QED BY <2>1, <2>2, <2>3 DEF Failed
<1> QED BY <1>1, <1>3, <1>4, <1>5, <1>6 DEF Flags

\* A block that waits keeps waiting, or is linked now.
LEMMA StoredWaits ==
  ASSUME Basic, Flags, Waits, NEW t \in Threads, NEW b \in Blocks \ {Genesis}, Stored(t, b), ~Failed(b)
  PROVE  Waits'
<1>1. /\ idx'[b].tx
      /\ \A x \in Blocks \ {b} : idx'[x].tx = idx[x].tx
      /\ \A x \in Blocks : FailedIn(idx', x) <=> Failed(x)
  BY StoredMarks DEF Basic
<1>2. ~idx[b].tx /\ b \notin linked /\ \A x \in Blocks : x \in linked <=> ~HasUnseen(x)
  BY LinkedOrUnseen, LinkedChain, ChainTypes DEF Stored, Flags, Marks, Basic, Links
<1>3. Chain[b] = {b} \cup Chain[Parent[b]] /\ Parent[b] \in Blocks /\ b \notin Chain[Parent[b]]
  BY ChainStep, TreeTypes, NotBelowParent
\* A failed block above the one that arrives waits for another as well.
<1>4. ASSUME NEW x \in Blocks, Failed(x), HasUnseen(x)
      PROVE  \E a \in Chain[x] : a \in Blocks /\ a # b /\ ~idx[a].tx
  <2>1. PICK a \in Chain[x] : FailedIn(idx, a) /\ ~idx[a].tx
    BY <1>4 DEF Flags, Marks, Failed, HasUnseen
  <2>2. a \in Blocks /\ a # b
    BY <2>1, ChainTypes DEF Failed
  <2> QED BY <2>1, <2>2
<1>5. ASSUME NEW x \in Blocks, idx[x].tx, x \notin linked, x \notin unlinked
      PROVE  x # Genesis /\ Parent[x] \in Blocks /\ Parent[x] \notin linked /\ Failed(Parent[x])
             /\ \E a \in Chain[Parent[x]] : a \in Blocks /\ a # b /\ ~idx[a].tx
  <2>1. x # Genesis /\ Parent[x] \notin linked /\ Failed(Parent[x])
    BY <1>5 DEF Waits, Basic, Links
  <2>2. Parent[x] \in Blocks
    BY <2>1, TreeTypes
  <2> QED BY <1>2, <1>4, <2>1, <2>2
<1>8. b \notin unlinked /\ pairs[b] = 0 /\ pairs \in [Blocks -> Nat]
  BY <1>2 DEF Basic, TypeOK, Links, unlinked
<1>6. CASE Orphan(b)
  <2>1. /\ linked' = linked /\ Parent[b] \notin linked
        /\ unlinked' = IF Failed(Parent[b]) THEN unlinked ELSE unlinked \cup {b}
    BY <1>2, <1>6, StoredUnlinked DEF Orphan, Basic
  <2>6. \A x \in Blocks : pairs'[x] \in {0, 1}
    BY <1>6, <1>8 DEF Orphan, Waiting, Inserted, Waits
  <2>2. PICK z \in Chain[Parent[b]] : ~idx[z].tx
    BY <1>2, <1>3, <2>1 DEF HasUnseen
  <2>3. z \in Blocks /\ z # b /\ ~idx'[z].tx /\ z \in Chain[b]
    BY <1>1, <1>3, <2>2, ChainTypes
  <2>4. ASSUME NEW x \in unlinked' PROVE \E a \in Chain[x] : ~idx'[a].tx
    <3>1. CASE x = b
      BY <2>3, <3>1
    <3>2. CASE x # b
      <4>1. x \in unlinked /\ x \in Blocks
        BY <2>1, <2>4, <3>2 DEF unlinked
      <4>2. PICK a \in Chain[x] : ~idx[a].tx
        BY <4>1 DEF Waits, HasUnseen
      <4>3. CASE a = b
        <5>1. z \in Chain[x]
          BY <2>3, <4>1, <4>3, ChainTrans
        <5> QED BY <2>3, <5>1
      <4>4. CASE a # b
        BY <1>1, <4>1, <4>2, <4>4, ChainTypes
      <4> QED BY <4>3, <4>4
    <3> QED BY <3>1, <3>2
  <2>5. ASSUME NEW x \in Blocks, idx'[x].tx, x \notin linked
        PROVE  Parent[x] \notin linked /\ (x \in unlinked' \/ FailedIn(idx', Parent[x]))
    <3>1. CASE x = b
      BY <1>1, <1>3, <2>1, <3>1
    <3>2. CASE x # b
      <4>1. idx[x].tx /\ x # Genesis /\ Parent[x] \in Blocks
        BY <1>1, <2>5, <3>2, TreeTypes DEF Basic, Links
      <4> QED BY <1>1, <2>1, <2>5, <4>1 DEF Waits
    <3> QED BY <3>1, <3>2
  <2> QED BY <2>1, <2>4, <2>5, <2>6 DEF Waits, HasUnseen, Failed
<1>7. ASSUME NEW s \in Numberings(b, NowLinked(b)), Extends(b, s) PROVE Waits'
  <2> DEFINE new == NowLinked(b)
  <2>1. linked' = linked \cup new /\ unlinked' = unlinked \ new /\ Parent[b] \in linked
    BY <1>7, <1>8, StoredUnlinked DEF Extends, Basic
  <2>6. \A x \in Blocks : pairs'[x] \in {0, 1}
    BY <1>7 DEF Extends, Erased, Waits
  <2>2. /\ new \subseteq Blocks /\ b \in new
        /\ \A x \in new : b \in Chain[x] /\ (x = b \/ x \in unlinked)
    BY NowLinkedIs DEF Basic
  \* A block above b that does not wait has a failed ancestor that does not come.
  <2>3. ASSUME NEW y \in Blocks, b \in Chain[y], y # b, y \notin unlinked, idx[y].tx
        PROVE  \E a \in Chain[Parent[y]] : a \in Blocks /\ a # b /\ ~idx[a].tx
    <3>1. y \notin linked
      BY <1>2, <2>3, LinkedChain DEF Basic
    <3> QED BY <1>5, <2>3, <3>1
  <2>4. ASSUME NEW x \in unlinked' PROVE \E a \in Chain[x] : ~idx'[a].tx
    <3>1. x \in unlinked /\ x \in Blocks /\ x \notin new
      BY <2>1, <2>4 DEF unlinked
    <3>2. PICK a \in Chain[x] : ~idx[a].tx
      BY <3>1 DEF Waits, HasUnseen
    <3>3. CASE a # b
      BY <1>1, <3>1, <3>2, <3>3, ChainTypes
    <3>4. CASE a = b
      <4>1. PICK y \in Chain[x] \ Chain[b] : y \notin unlinked
        BY <3>1, <3>2, <3>4 DEF NowLinked
      <4>2. y \in Blocks /\ y # b /\ y # Genesis
        BY <3>1, <4>1, ChainTypes
      <4>3. b \in Chain[y]
        BY <3>1, <3>2, <3>4, <4>1, ChainLinear
      <4>4. CASE ~idx[y].tx
        BY <1>1, <4>1, <4>2, <4>4
      <4>5. CASE idx[y].tx
        <5>1. PICK c \in Chain[Parent[y]] : c \in Blocks /\ c # b /\ ~idx[c].tx
          BY <2>3, <4>1, <4>2, <4>3, <4>5
        <5>2. c \in Chain[x]
          BY <3>1, <4>1, <4>2, <5>1, ChainTrans, ChainStep
        <5> QED BY <1>1, <5>1, <5>2
      <4> QED BY <4>4, <4>5
    <3> QED BY <3>3, <3>4
  <2>5. ASSUME NEW x \in Blocks, idx'[x].tx, x \notin linked'
        PROVE  Parent[x] \notin linked' /\ (x \in unlinked' \/ FailedIn(idx', Parent[x]))
    <3>1. x # b /\ x \notin new /\ x \notin linked /\ idx[x].tx
      BY <1>1, <2>1, <2>2, <2>5
    <3>2. x # Genesis /\ Parent[x] \in Blocks /\ Chain[x] = {x} \cup Chain[Parent[x]]
      BY <3>1, TreeTypes, ChainStep DEF Basic, Links
    <3>3. Parent[x] \notin linked /\ (x \in unlinked \/ Failed(Parent[x]))
      BY <3>1 DEF Waits
    <3>4. Parent[x] \notin new
      <4> SUFFICES ASSUME Parent[x] \in new PROVE FALSE
        OBVIOUS
      <4>1. b \in Chain[Parent[x]] /\ (Chain[Parent[x]] \ Chain[b]) \subseteq unlinked
        BY DEF NowLinked
      <4>2. CASE x \in unlinked
        BY <3>1, <3>2, <4>1, <4>2 DEF NowLinked
      <4>3. CASE x \notin unlinked
        <5>1. PICK a \in Chain[Parent[x]] : a \in Blocks /\ a # b /\ ~idx[a].tx
          BY <1>5, <3>1, <4>3
        <5>2. a \notin unlinked
          BY <5>1 DEF Basic, Links
        <5>3. a \in Chain[Parent[b]]
          BY <1>3, <4>1, <5>1, <5>2
        <5> QED BY <2>1, <5>1, <5>3, LinkedChain DEF Basic
      <4> QED BY <4>2, <4>3
    <3> QED BY <1>1, <2>1, <3>1, <3>2, <3>3, <3>4
  <2> QED BY <2>4, <2>5, <2>6 DEF Waits, HasUnseen, Failed
<1> QED BY <1>6, <1>7, StoredCases

\* FindMostWorkChain marks what is linked, and drops nothing that waits.
LEMMA GaveUpFlags ==
  ASSUME Basic, Flags, NEW first, GaveUp(first), UNCHANGED <<linked, disk, dirty, failedSet, fault>>
  PROVE  Flags' /\ MoreMarks /\ Failed(first) /\ UNCHANGED pairs
<1>1. /\ \A x \in Blocks :
           /\ idx'[x].tx = idx[x].tx /\ idx'[x].data = idx[x].data
           /\ idx'[x].failedValid = idx[x].failedValid
           /\ idx'[x].failedChild = (idx[x].failedChild \/ (Failed(first) /\ x \in Beyond(first)))
      /\ first \in Blocks /\ first \in Chain[Best] /\ (Failed(first) \/ ~idx[first].data) /\ Best \in cand
      /\ Beyond(first) \subseteq linked
      /\ \A x \in Beyond(first) : x \in Blocks /\ first \in Chain[x]
  BY GaveUpEntry, ObstacleIs DEF Basic
<1>2. Failed(first)
  <2>1. idx[first].tx
    BY <1>1, LinkedChain DEF Basic, Links
  <2> QED BY <1>1, <2>1 DEF Flags, Marks
<1>3. pairs' = pairs
  BY <1>2 DEF GaveUp, SetAside
<1> HIDE DEF Beyond
<1>4. MoreMarks
  BY <1>1 DEF MoreMarks
<1>5. \A x \in Blocks : FailedIn(idx', x) <=> (Failed(x) \/ x \in Beyond(first))
  BY <1>1, <1>2 DEF Failed, FailedIn
<1>6. Marks(idx)'
  <2>1. \A x \in Blocks : idx'[x].data = idx'[x].tx
    BY <1>1 DEF Flags, Marks
  <2>2. PICK a \in Chain[first] : idx[a].failedValid
    BY <1>1, <1>2, ChainTypes DEF Flags, Marks, Failed, FailedIn
  <2>3. \A x \in Beyond(first) : a \in Chain[x]
    BY <1>1, <2>2, ChainTrans
  <2>4. \A x \in Blocks : idx'[x].failedChild => \E c \in Chain[x] : idx'[c].failedValid
    BY <1>1, <2>2, <2>3, ChainTypes DEF Flags, Marks
  <2>5. ASSUME NEW x \in Blocks, FailedIn(idx', x), NEW z \in Chain[x], ~idx'[z].tx
        PROVE  \E c \in Chain[x] : FailedIn(idx', c) /\ ~idx'[c].tx
    <3>1. z \in Blocks /\ ~idx[z].tx /\ Chain[x] \subseteq Blocks
      BY <1>1, <2>5, ChainTypes
    <3>2. x \notin linked
      BY <2>5, <3>1, LinkedChain DEF Basic
    <3>3. FailedIn(idx, x)
      BY <1>1, <1>5, <2>5, <3>2 DEF Failed
    <3>4. PICK c \in Chain[x] : FailedIn(idx, c) /\ ~idx[c].tx
      BY <2>5, <3>1, <3>3 DEF Flags, Marks
    <3> QED BY <1>1, <1>5, <3>1, <3>4 DEF Failed
  <2> QED BY <2>1, <2>4, <2>5 DEF Marks
<1>7. \A x \in Blocks : ~idx[x].tx => x \notin Beyond(first)
  BY <1>1 DEF Basic, Links
<1>8. Flags'
  <2>1. failedSet \subseteq Blocks /\ fault = "none" /\ failedSet' = failedSet /\ fault' = fault
        /\ dirty' = dirty /\ linked' = linked /\ disk' = disk
    BY DEF Basic, TypeOK, Flags
  <2>2. \A x \in Blocks \ dirty' :
           /\ idx'[x].failedValid => idx[x].failedValid
           /\ ~idx[x].tx /\ FailedIn(idx', x) => Failed(x)
    BY <1>1, <1>5, <1>7
  <2> QED BY <1>4, <1>6, <2>1, <2>2, FlagsMore
<1> QED BY <1>2, <1>3, <1>4, <1>8

LEMMA FlushFlags ==
  ASSUME Basic, Flags, WriteIndex \/ FlushAll
  PROVE  Flags' /\ UNCHANGED <<setting, idx, linked, seq, cand, pairs, tip, thr, sec>>
<1>1. UNCHANGED <<setting, idx, linked, seq, cand, pairs, failedSet, tip, thr, sec, fault>> /\ dirty' = {}
  BY DEF WriteIndex, FlushAll
<1>2. disk'.idx = IndexWritten
  BY DEF WriteIndex, FlushAll, Flushed, Basic, TypeOK
<1> DEFINE w == IndexWritten
<1>3. /\ \A b \in Blocks : w[b] = IF b \in dirty THEN idx[b] ELSE disk.idx[b]
      /\ \A b \in Blocks : w[b].tx = idx[b].tx
  BY WrittenIs
<1> HIDE DEF w
<1>4. \A b \in Blocks :
        /\ disk.idx[b].failedValid => idx[b].failedValid
        /\ disk.idx[b].failedChild => Failed(b)
        /\ b \notin dirty /\ idx[b].failedValid => disk.idx[b].failedValid
        /\ b \notin dirty /\ ~idx[b].tx /\ Failed(b) => FailedIn(disk.idx, b)
  BY DEF Flags
<1>5. ASSUME NEW b \in Blocks
      PROVE  /\ w[b].failedValid <=> idx[b].failedValid
             /\ FailedIn(w, b) => Failed(b)
             /\ ~idx[b].tx /\ Failed(b) => FailedIn(w, b)
  <2>1. CASE b \in dirty
    BY <1>3, <2>1 DEF Failed, FailedIn
  <2>2. CASE b \notin dirty
    <3>1. FailedIn(w, b) <=> FailedIn(disk.idx, b)
      BY <1>3, <2>2 DEF FailedIn
    <3>2. FailedIn(disk.idx, b) => Failed(b)
      BY <1>4 DEF Failed, FailedIn
    <3> QED BY <1>3, <1>4, <2>2, <3>1, <3>2
  <2> QED BY <2>1, <2>2
<1>6. Marks(w)
  <2>1. \A b \in Blocks : w[b].data = w[b].tx
    BY <1>3 DEF Flags, Marks
  <2>2. ASSUME NEW b \in Blocks, w[b].failedChild PROVE \E a \in Chain[b] : w[a].failedValid
    <3>1. \E a \in Chain[b] : a \in Blocks /\ idx[a].failedValid
      <4>1. CASE b \in dirty
        BY <1>3, <2>2, <4>1, ChainTypes DEF Flags, Marks
      <4>2. CASE b \notin dirty
        <5>1. PICK a \in Chain[b] : disk.idx[a].failedValid
          BY <1>3, <2>2, <4>2 DEF Flags, Marks
        <5> QED BY <1>4, <5>1, ChainTypes
      <4> QED BY <4>1, <4>2
    <3> QED BY <1>5, <3>1
  <2>3. ASSUME NEW b \in Blocks, FailedIn(w, b), NEW z \in Chain[b], ~w[z].tx
        PROVE  \E a \in Chain[b] : FailedIn(w, a) /\ ~w[a].tx
    <3>1. z \in Blocks /\ ~idx[z].tx /\ FailedIn(idx, b) /\ Chain[b] \subseteq Blocks
      BY <1>3, <1>5, <2>3, ChainTypes DEF Failed
    <3>2. PICK a \in Chain[b] : FailedIn(idx, a) /\ ~idx[a].tx
      BY <2>3, <3>1 DEF Flags, Marks
    <3> QED BY <1>3, <1>5, <3>1, <3>2 DEF Failed
  <2> QED BY <2>1, <2>2, <2>3 DEF Marks
<1>7. Marks(disk.idx)'
  BY <1>2, <1>6 DEF w, Marks, FailedIn
<1>8. Marks(idx)' /\ (\A b \in failedSet : b \in linked /\ idx[b].failedValid)' /\ fault' = "none"
  BY <1>1 DEF Flags, Marks, FailedIn
<1>9. ASSUME NEW b \in Blocks
      PROVE  (/\ disk.idx[b].failedValid => idx[b].failedValid
              /\ disk.idx[b].failedChild => Failed(b)
              /\ b \notin dirty /\ idx[b].failedValid => disk.idx[b].failedValid
              /\ b \notin dirty /\ ~idx[b].tx /\ Failed(b) => FailedIn(disk.idx, b))'
  <2>1. disk'.idx[b] = w[b] /\ idx' = idx
    BY <1>1, <1>2 DEF w
  <2>2. (FailedIn(disk.idx, b)' <=> FailedIn(w, b)) /\ (Failed(b)' <=> Failed(b))
    BY <2>1 DEF Failed, FailedIn
  <2> QED BY <1>5, <2>1, <2>2 DEF FailedIn
<1> QED BY <1>1, <1>7, <1>8, <1>9 DEF Flags

\* Once the candidates are seen not to be empty, see RestartBest.
LEMMA RestartFlags ==
  ASSUME Basic, Flags, NEW t \in Threads, Restart(t), fault' = "none"
  PROVE  Flags'
<1>1. /\ idx' = Loaded(disk.idx) /\ failedSet' = {} /\ UNCHANGED disk
      /\ dirty' = {b \in Blocks : idx'[b] # disk.idx[b]} /\ disk.idx \in [Blocks -> Entry]
  BY RestartIs
<1> DEFINE i == disk.idx
<1>2. \A b \in Blocks :
        /\ idx'[b].tx = i[b].tx /\ idx'[b].data = i[b].data
        /\ idx'[b].failedValid = i[b].failedValid
        /\ i[b].failedChild => idx'[b].failedChild
        /\ idx'[b].failedChild =>
             i[b].failedChild \/ \E a \in Chain[b] \ {b} :
                                   FailedIn(i, a) /\ \A x \in Chain[b] \ Chain[a] : i[x].tx
  BY <1>1, LoadedIs
<1>3. Marks(i)
  BY DEF Flags
<1> HIDE DEF i
<1>4. \A b \in Blocks : FailedIn(i, b) => FailedIn(idx', b)
  BY <1>2 DEF FailedIn
<1>5. \A b \in Blocks : FailedIn(i, b) => \E a \in Chain[b] : i[a].failedValid
  BY <1>3, ChainTypes DEF Marks, FailedIn
<1>6. Marks(idx)'
  <2>1. \A b \in Blocks : idx'[b].data = idx'[b].tx
    BY <1>2, <1>3 DEF Marks
  <2>2. ASSUME NEW b \in Blocks, idx'[b].failedChild PROVE \E a \in Chain[b] : idx'[a].failedValid
    <3>1. \E c \in Chain[b] : FailedIn(i, c)
      BY <1>2, <2>2, ChainTypes DEF FailedIn
    <3>2. PICK c \in Chain[b] : FailedIn(i, c)
      BY <3>1
    <3>3. c \in Blocks /\ Chain[c] \subseteq Chain[b] /\ Chain[b] \subseteq Blocks
      BY ChainTypes, ChainTrans
    <3>4. PICK a \in Chain[c] : i[a].failedValid
      BY <1>5, <3>2, <3>3
    <3> QED BY <1>2, <3>3, <3>4
  <2>3. ASSUME NEW b \in Blocks, FailedIn(idx', b), NEW z \in Chain[b], ~idx'[z].tx
        PROVE  \E a \in Chain[b] : FailedIn(idx', a) /\ ~idx'[a].tx
    <3>1. z \in Blocks /\ ~i[z].tx /\ Chain[b] \subseteq Blocks /\ b \in Chain[b]
      BY <1>2, <2>3, ChainTypes
    <3>2. ASSUME NEW c \in Chain[b], FailedIn(i, c), z \in Chain[c]
          PROVE  \E a \in Chain[b] : FailedIn(idx', a) /\ ~idx'[a].tx
      <4>1. c \in Blocks /\ Chain[c] \subseteq Chain[b]
        BY ChainTypes, ChainTrans
      <4>2. PICK a \in Chain[c] : FailedIn(i, a) /\ ~i[a].tx
        BY <1>3, <3>1, <3>2, <4>1 DEF Marks
      <4> QED BY <1>2, <1>4, <3>1, <4>1, <4>2
    <3>3. CASE FailedIn(i, b)
      BY <2>3, <3>1, <3>2, <3>3
    <3>4. CASE ~FailedIn(i, b)
      <4>1. idx'[b].failedChild /\ ~i[b].failedChild
        BY <1>2, <2>3, <3>4 DEF FailedIn
      <4>2. PICK c \in Chain[b] \ {b} : FailedIn(i, c) /\ \A x \in Chain[b] \ Chain[c] : i[x].tx
        BY <1>2, <4>1
      <4> QED BY <2>3, <3>1, <3>2, <4>2
    <3> QED BY <3>3, <3>4
  <2> QED BY <2>1, <2>2, <2>3 DEF Marks
<1>7. Marks(disk.idx)'
  BY <1>1, <1>3 DEF i, Marks, FailedIn
<1>8. ASSUME NEW b \in Blocks
      PROVE  (/\ disk.idx[b].failedValid => idx[b].failedValid
              /\ disk.idx[b].failedChild => Failed(b)
              /\ b \notin dirty /\ idx[b].failedValid => disk.idx[b].failedValid
              /\ b \notin dirty /\ ~idx[b].tx /\ Failed(b) => FailedIn(disk.idx, b))'
  <2>1. disk'.idx = i /\ (b \notin dirty' => idx'[b] = i[b])
    BY <1>1 DEF i
  <2>2. b \notin dirty' => (FailedIn(idx', b) <=> FailedIn(i, b))
    BY <2>1 DEF FailedIn
  <2>3. i[b].failedChild => FailedIn(idx', b)
    BY <1>2 DEF FailedIn
  <2> QED BY <1>2, <2>1, <2>2, <2>3 DEF Failed
<1> QED BY <1>1, <1>6, <1>7, <1>8 DEF Flags

LEMMA RestartWaits ==
  ASSUME Basic, NEW t \in Threads, Restart(t)
  PROVE  Waits'
<1>1. /\ linked' = LinkedOnDisk(disk.idx)
      /\ unlinked' = {b \in Blocks \ linked' : disk.idx[b].tx /\ Parent[b] \notin linked'}
      /\ \A b \in Blocks : idx'[b].tx = disk.idx[b].tx
      /\ pairs' \in [Blocks -> {0, 1}]
  BY RestartIs, LoadedIs
<1>2. \A b \in Blocks : b \in linked' <=> \A a \in Chain[b] : disk.idx[a].tx
  BY <1>1 DEF LinkedOnDisk
<1>3. ASSUME NEW b \in Blocks, idx'[b].tx, b \notin linked'
      PROVE  Parent[b] \notin linked' /\ b \in unlinked'
  <2>1. b # Genesis
    BY <1>1, <1>2, <1>3, ChainStep
  <2>2. Parent[b] \in Blocks /\ Chain[b] = {b} \cup Chain[Parent[b]]
    BY <2>1, TreeTypes, ChainStep
  <2>3. Parent[b] \notin linked'
    BY <1>1, <1>2, <1>3, <2>2
  <2> QED BY <1>1, <1>3, <2>3
<1>4. ASSUME NEW b \in unlinked' PROVE \E a \in Chain[b] : ~idx'[a].tx
  BY <1>1, <1>2, ChainTypes
<1> QED BY <1>1, <1>3, <1>4 DEF Waits, HasUnseen

-----------------------------------------------------------------------------
(* With headers, blocks, threads, flushes and deaths only: the candidates.  *)

\* A single thread is all there is.
LEMMA OnlyThread ==
  ASSUME NEW s \in Settings, Cardinality(s.threads) = 1, NEW t \in s.threads, NEW u \in s.threads
  PROVE  u = t
<1>1. s.threads \subseteq Threads /\ IsFiniteSet(Threads)
  BY ChainAssumption DEF Setting
<1>2. IsFiniteSet(s.threads)
  BY <1>1, FS_Subset
<1>3. \E x : s.threads = {x}
  BY <1>2, FS_Singleton
<1> QED BY <1>3

\* What is left to show of a step of the thread t.
LEMMA SteadyOne ==
  ASSUME Basic', NEW t \in Threads, t \in setting'.threads,
         OneThread' => IF thr'[t].pc = "idle" THEN Chosen(tip)'
                       ELSE thr'[t].most # NoBlock => Chosen(thr[t].most)'
  PROVE  Steady'
<1> SUFFICES ASSUME OneThread'
             PROVE  /\ (\A u \in Threads : thr'[u].pc = "idle") => Chosen(tip)'
                    /\ \A u \in Threads : thr'[u].most # NoBlock => Chosen(thr[u].most)'
  BY DEF Steady
<1>1. setting' \in Settings /\ Cardinality(setting'.threads) = 1
  BY DEF Basic, TypeOK, OneThread
<1>2. \A u \in Threads : thr'[u].pc = "loop" => u = t
  BY <1>1, OnlyThread DEF Basic, Places
<1>3. \A u \in Threads : thr'[u].most # NoBlock => thr'[u].pc = "loop"
  BY DEF Basic, Places
<1>4. ASSUME NEW u \in Threads, thr'[u].most # NoBlock PROVE Chosen(thr[u].most)'
  <2>1. u = t /\ thr'[t].pc = "loop"
    BY <1>2, <1>3, <1>4
  <2> QED BY <1>4, <2>1
<1> QED BY <1>4

\* A linked block with nothing bad below it is not marked, nor is an ancestor.
LEMMA UsableNext ==
  ASSUME Basic', Blame', NEW h \in linked', \A a \in Chain[h] : a \notin setting'.bad
  PROVE  h \in Blocks /\ \A a \in Chain[h] : ~FailedIn(idx', a)
<1>1. h \in Blocks /\ linked' \subseteq Blocks /\ \A x \in linked' \ {Genesis} : Parent[x] \in linked'
  BY DEF Basic, TypeOK, Links
<1>2. Chain[h] \subseteq linked'
  BY <1>1, ChainInClosed
<1>3. \A a \in Chain[h] : idx'[a].tx /\ a \in Blocks
  BY <1>1, <1>2 DEF Basic, Links
<1>4. \A a \in Chain[h] : a \notin setting'.bad \cup setting'.malformed
  BY <1>3 DEF Basic, Links, Received
<1>5. ASSUME NEW a \in Chain[h] PROVE ~idx'[a].failedValid /\ ~idx'[a].failedChild
  <2>1. Chain[a] \subseteq Chain[h] /\ a \in Blocks
    BY <1>1, <1>3, ChainTrans
  <2> QED BY <1>4, <2>1 DEF Blame, Caused, Invalid
<1> QED BY <1>1, <1>5 DEF FailedIn

\* Flags grow: the best candidate stays when only worse or failed ones go.
LEMMA BestFrame ==
  ASSUME Basic, Basic', Blame', NEW h \in cand, TopCandidate(h), MoreMarks,
         UNCHANGED <<setting, linked, seq>>, h \in cand',
         \A b \in cand : b \in cand' \/ Worse(b, h) \/ \E a \in Chain[b] : FailedIn(idx', a)
  PROVE  TopCandidate(h)'
<1>1. h \in linked' /\ \A a \in Chain[h] : a \notin setting'.bad
  BY DEF Basic, Links, TopCandidate
<1>2. \A a \in Chain[h] : ~FailedIn(idx', a)
  BY <1>1, UsableNext
<1>3. ASSUME NEW b \in linked, \A a \in Chain[b] : ~FailedIn(idx', a)
      PROVE  b \in cand' \/ Worse(b, h)
  <2>1. \A a \in Chain[b] : a \in Blocks
    BY LinkedChain DEF Basic
  <2>2. Usable(b)
    BY <1>3, <2>1 DEF Usable, MoreMarks, Failed, FailedIn
  <2> QED BY <1>3, <2>2 DEF TopCandidate
<1> QED BY <1>1, <1>2, <1>3 DEF TopCandidate, Usable, Failed, Worse

\* Nothing but flags changes.
LEMMA BestMarked ==
  ASSUME Basic, Basic', Blame', Best1, MoreMarks, UNCHANGED <<setting, linked, seq, cand, tip, thr>>
  PROVE  Best1'
<1>1. PICK h \in cand : TopCandidate(h)
  BY DEF Best1
<1>2. TopCandidate(h)'
  BY <1>1, BestFrame
<1>3. NoneWorse' /\ Steady'
  BY DEF Best1, NoneWorse, Steady, Chosen, Worse, OneThread
<1> QED BY <1>1, <1>2, <1>3 DEF Best1

LEMMA StoredBest ==
  ASSUME Basic, Basic', Blame', Flags, Best1, NEW t \in Threads, NEW b \in Blocks \ {Genesis},
         t \in setting.threads, Stored(t, b), UNCHANGED <<setting, tip>>
  PROVE  Best1'
<1>1. PICK h \in cand : TopCandidate(h)
  BY DEF Best1
<1>2. /\ cand \subseteq linked /\ tip \in linked /\ linked \subseteq Blocks /\ tip \in Blocks
      /\ cand' \subseteq linked' /\ linked' \subseteq Blocks
      /\ seq \in [Blocks -> Int] /\ seq' \in [Blocks -> Int]
  BY ChainAssumption DEF Basic, TypeOK, Links
<1>3. \A x \in Blocks : FailedIn(idx', x) <=> Failed(x)
  BY StoredMarks DEF Basic
<1>4. Steady'
  <2>1. thr'[t] = Loop /\ Loop.pc = "loop" /\ Loop.most = NoBlock
    BY SmallTypes DEF Stored, Basic, TypeOK
  <2> QED BY <2>1, SteadyOne
<1>5. b \notin linked
  <2>1. ~idx[b].tx
    BY DEF Stored, Flags, Marks
  <2> QED BY <2>1 DEF Basic, Links
<1>6. \A x \in linked : Usable(x) => x \in cand \/ Worse(x, h)
  BY <1>1 DEF TopCandidate
<1>7. ASSUME NEW x \in linked', \A a \in Chain[x] : ~FailedIn(idx', a) PROVE Usable(x)
  BY <1>2, <1>3, <1>7, ChainTypes DEF Usable
<1>8. h \in linked' => \A a \in Chain[h] : ~FailedIn(idx', a) /\ a \notin setting'.bad
  BY <1>1, UsableNext DEF TopCandidate
<1>9. CASE Orphan(b)
  <2>1. linked' = linked /\ seq' = seq /\ cand' = cand
    BY <1>5, <1>9 DEF Orphan
  <2>2. TopCandidate(h)'
    BY <1>1, <1>2, <1>6, <1>7, <1>8, <2>1 DEF TopCandidate, Usable, Failed, Worse
  <2>3. NoneWorse'
    BY <2>1 DEF Best1, NoneWorse, Worse
  <2> QED BY <1>1, <1>4, <2>1, <2>2, <2>3 DEF Best1
<1>10. ASSUME NEW s \in Numberings(b, NowLinked(b)), Extends(b, s) PROVE Best1'
  <2>1. /\ seq' = [x \in Blocks |-> IF x \in NowLinked(b) THEN s[x] ELSE seq[x]]
        /\ cand' = cand \cup {x \in NowLinked(b) : ~WorseAt(seq', x, tip)}
        /\ linked' = linked \cup NowLinked(b)
    BY <1>10 DEF Extends
  <2>2. \A x \in NowLinked(b) : x \notin linked
    BY <1>5, NowLinkedIs, LinkedChain DEF Basic
  <2>3. \A x \in linked : seq'[x] = seq[x]
    BY <1>2, <2>1, <2>2
  <2>4. \A x, y \in linked : WorseAt(seq', x, y) <=> Worse(x, y)
    BY <2>3 DEF WorseAt, Worse
  <2> HIDE DEF NowLinked, WorseAt
  <2>5. ~WorseAt(seq', h, tip)
    BY <1>1, <1>2, <2>4 DEF Best1, NoneWorse
  <2>6. NoneWorse'
    BY <1>2, <2>1, <2>4 DEF Best1, NoneWorse, Worse
  <2>7. ASSUME NEW x \in linked', Usable(x) PROVE x \in cand' \/ WorseAt(seq', x, h)
    <3>1. CASE x \in linked
      BY <1>1, <1>2, <1>6, <2>1, <2>4, <2>7, <3>1
    <3>2. CASE x \in NowLinked(b)
      <4>1. x \in cand' \/ WorseAt(seq', x, tip)
        BY <2>1, <3>2
      <4>2. x \in Blocks /\ h \in Blocks
        BY <1>2
      <4> QED BY <1>2, <2>5, <4>1, <4>2, WorseOrder
    <3> QED BY <2>1, <2>7, <3>1, <3>2
  <2>8. h \in cand' /\ h \in linked'
    BY <1>2, <2>1
  <2>9. TopCandidate(h)'
    BY <1>7, <1>8, <2>7, <2>8 DEF TopCandidate, Usable, Failed, Worse
  <2> QED BY <1>4, <2>6, <2>8, <2>9 DEF Best1
<1> QED BY <1>9, <1>10, StoredCases

LEMMA EnterBest ==
  ASSUME Basic, Basic', Blame', Best1, NEW t \in Threads, EnterRound(t)
  PROVE  Best1'
<1>1. UNCHANGED <<setting, idx, linked, seq, cand, tip>> /\ thr[t].pc = "loop"
  BY DEF EnterRound, index
<1>2. CASE thr[t].most # tip
  <2>1. UNCHANGED thr /\ MoreMarks
    BY <1>1, <1>2 DEF EnterRound, MoreMarks
  <2> QED BY <1>1, <2>1, BestMarked
<1>3. CASE thr[t].most = tip
  <2>1. PICK h \in cand : TopCandidate(h)
    BY DEF Best1
  <2>2. TopCandidate(h)' /\ NoneWorse'
    BY <1>1, <2>1 DEF Best1, TopCandidate, Usable, Failed, Worse, NoneWorse
  <2>3. t \in setting.threads
    BY <1>1 DEF Basic, Places
  <2>4. thr'[t].pc = "idle"
    BY <1>3, SmallTypes DEF EnterRound, Return, Basic, TypeOK
  <2>5. OneThread => Chosen(tip)
    BY <1>3, TreeTypes DEF Best1, Steady, Basic, TypeOK
  <2>6. OneThread' => Chosen(tip)'
    BY <1>1, <2>5 DEF OneThread, Chosen, Worse
  <2>7. Steady'
    BY <1>1, <2>3, <2>4, <2>6, SteadyOne
  <2> QED BY <1>1, <2>1, <2>2, <2>7 DEF Best1
<1> QED BY <1>2, <1>3

LEMMA FindBest ==
  ASSUME Basic, Basic', Blame', Flags, Best1, NEW t \in Threads, FindMostWorkChain(t)
  PROVE  Best1'
<1>1. /\ sec.pc = "find" /\ sec.by = t /\ thr[t].pc = "loop" /\ thr[t].most = NoBlock
      /\ UNCHANGED <<setting, linked, seq, tip>>
      /\ UNCHANGED <<disk, dirty, failedSet, fault>>
  BY FindCases, SmallTypes DEF Basic, Places
<1>2. PICK h \in cand : TopCandidate(h)
  BY DEF Best1
<1>3. t \in setting.threads /\ t \in setting'.threads
  BY <1>1 DEF Basic, Places
<1>4. Best \in cand /\ \A c \in cand : ~Worse(Best, c)
  BY <1>2, BestIn DEF Basic
<1>5. ASSUME UNCHANGED <<idx, cand>> PROVE TopCandidate(h)' /\ NoneWorse' /\ h \in cand'
  BY <1>1, <1>2, <1>5 DEF Best1, TopCandidate, Usable, Failed, Worse, NoneWorse
<1>6. CASE AtTop(t)
  <2>1. Best = tip /\ Return(t) /\ UNCHANGED <<idx, cand>>
    BY <1>2, <1>6 DEF AtTop
  <2>2. Chosen(tip)'
    BY <1>1, <1>4, <2>1 DEF Chosen, Worse
  <2>3. thr'[t].pc = "idle"
    BY <2>1, SmallTypes DEF Return, Basic, TypeOK
  <2>4. Steady'
    BY <1>3, <2>2, <2>3, SteadyOne
  <2> QED BY <1>5, <2>1, <2>4 DEF Best1
<1>7. CASE Found(t)
  <2>1. PICK m : m = Best
    OBVIOUS
  <2>2. thr' = [thr EXCEPT ![t].most = m] /\ UNCHANGED <<idx, cand>>
    BY <1>7, <2>1 DEF Found
  <2>3. thr'[t].pc = "loop" /\ thr'[t].most = m
    BY <1>1, <2>2 DEF Basic, TypeOK
  <2>4. m \in cand /\ \A c \in cand : ~Worse(m, c)
    BY <1>4, <2>1
  <2>5. Chosen(m)'
    BY <1>1, <2>2, <2>4 DEF Chosen, Worse
  <2>6. Chosen(thr[t].most)'
    BY <2>3, <2>5
  <2>7. Steady'
    BY <1>3, <2>3, <2>6, SteadyOne
  <2> QED BY <1>5, <2>2, <2>7 DEF Best1
<1>8. ASSUME NEW first, GaveUp(first) PROVE Best1'
  <2>1. cand' = cand \ (Beyond(first) \cup {first}) /\ UNCHANGED thr
    BY <1>8 DEF GaveUp
  <2>2. MoreMarks /\ Failed(first)
    BY <1>1, <1>8, GaveUpFlags
  <2>3. first \in Blocks /\ \A x \in Beyond(first) : first \in Chain[x]
    BY <1>8, ObstacleIs
  <2>4. FailedIn(idx', first)
    BY <2>2, <2>3 DEF MoreMarks, Failed, FailedIn
  <2>5. \A x \in Beyond(first) \cup {first} : first \in Chain[x]
    BY <2>3, ChainTypes
  <2>6. h \in cand'
    BY <1>2, <2>1, <2>2, <2>5 DEF TopCandidate, Usable
  <2>7. TopCandidate(h)'
    <3>1. \A b \in cand : b \in cand' \/ \E a \in Chain[b] : FailedIn(idx', a)
      BY <2>1, <2>4, <2>5
    <3> QED BY <1>1, <1>2, <2>2, <2>6, <3>1, BestFrame
  <2>8. NoneWorse'
    BY <1>1, <2>1 DEF Best1, NoneWorse, Worse
  <2>9. Steady'
    BY <1>1, <1>3, <2>1, SteadyOne
  <2> QED BY <2>6, <2>7, <2>8, <2>9 DEF Best1
<1> QED BY <1>6, <1>7, <1>8, FindCases

LEMMA DisconnectBest ==
  ASSUME Basic, Basic', Flags, Best1, NEW t \in Threads, DisconnectTip(t)
  PROVE  Best1' /\ fault' = "none" /\ UNCHANGED index
<1>1. /\ Stepping(t) /\ tip # Genesis /\ UNCHANGED <<index, cand>>
      /\ Parent[tip] \in Blocks /\ tip \in Blocks /\ tip \in linked /\ fault = "none"
      /\ (~idx[tip].data /\ Unread) \/ Undone(t)
      /\ thr[t].pc = "loop" /\ thr[t].most \in Blocks
  BY DisconnectCases, StepperIs
<1>2. idx[tip].data
  BY <1>1 DEF Basic, Links, Flags, Marks
<1>3. tip' = Parent[tip] /\ fault' = "none" /\ (IF tip' = thr[t].most THEN Return(t) ELSE UNCHANGED <<thr, sec>>)
  BY <1>1, <1>2 DEF Undone
<1>4. PICK h \in cand : TopCandidate(h)
  BY DEF Best1
<1>5. UNCHANGED <<setting, idx, linked, seq>>
  BY <1>1 DEF index
<1>6. TopCandidate(h)'
  BY <1>1, <1>4, <1>5 DEF TopCandidate, Usable, Failed, Worse
<1>7. NoneWorse'
  <2>1. PICK p : p = Parent[tip]
    OBVIOUS
  <2>2. seq \in [Blocks -> Int] /\ cand \subseteq Blocks /\ p \in Blocks
    BY <1>1, <2>1, SeqInt DEF Basic, TypeOK
  <2>3. Worse(p, tip)
    <3>1. p \in Chain[tip] /\ p # tip
      BY <1>1, <2>1, ParentInChain, NotBelowParent, ChainTypes
    <3> QED BY <1>1, <2>2, <3>1, AncestorWorse DEF Worse
  <2>4. ASSUME NEW b \in cand PROVE ~Worse(b, p)
    <3>1. b \in Blocks /\ ~Worse(b, tip)
      BY <2>2 DEF Best1, NoneWorse
    <3> QED BY <1>1, <2>2, <2>3, <3>1, WorseOrder DEF Worse
  <2> QED BY <1>1, <1>3, <1>5, <2>1, <2>4 DEF NoneWorse, Worse
<1>8. t \in setting.threads /\ t \in setting'.threads
  BY <1>1, <1>5 DEF Basic, Places
<1>9. PICK m : m = thr[t].most
  OBVIOUS
<1>10. OneThread' => Chosen(m)'
  <2>1. OneThread => Chosen(m)
    BY <1>1, <1>9, TreeTypes DEF Best1, Steady
  <2> QED BY <1>1, <1>5, <2>1 DEF OneThread, Chosen, Worse
<1>11. Steady'
  <2>1. CASE tip' = m
    <3>1. thr'[t].pc = "idle"
      BY <1>3, <1>9, <2>1, SmallTypes DEF Return, Basic, TypeOK
    <3> QED BY <1>8, <1>10, <2>1, <3>1, SteadyOne
  <2>2. CASE tip' # m
    <3>1. thr'[t].pc = "loop" /\ thr'[t].most = m
      BY <1>1, <1>3, <1>9, <2>2
    <3>2. OneThread' => Chosen(thr[t].most)'
      BY <1>10, <3>1
    <3> QED BY <1>8, <3>1, <3>2, SteadyOne
  <2> QED BY <2>1, <2>2
<1> QED BY <1>1, <1>3, <1>4, <1>6, <1>7, <1>11 DEF Best1

LEMMA ConnectBest ==
  ASSUME Basic, Basic', Blame', Flags, Best1, NEW t \in Threads, ConnectTip(t)
  PROVE  /\ Best1' /\ SameMarks /\ fault' = "none" /\ dirty \subseteq dirty'
         /\ UNCHANGED <<setting, linked, seq, nextSeq, precious, pairs, failedSet, disk>>
<1>1. PICK b \in linked :
        /\ Stepping(t) /\ b \in Chain[thr[t].most] /\ b \in Blocks
        /\ UNCHANGED <<setting, linked, seq, nextSeq, precious, pairs, failedSet, disk>>
        /\ (~idx[b].data /\ Unconnected) \/ Connected(t, b)
  BY ConnectCases
<1>2. Connected(t, b)
  BY <1>1 DEF Basic, Links, Flags, Marks
<1>3. /\ tip' = b /\ cand' = {x \in cand : ~Worse(x, b)} /\ fault' = PruneFault(cand')
      /\ IF b = thr[t].most THEN Return(t)
         ELSE IF Work[b] > Work[sec.old] THEN NextRound(t, thr[t].most)
         ELSE UNCHANGED <<thr, sec>>
  BY <1>2 DEF Connected, Pruned, Worse
<1>4. SameMarks /\ MoreMarks /\ dirty \subseteq dirty'
  BY <1>1, <1>2, ConnectedEntry DEF Basic, SameMarks, MoreMarks
<1>5. PICK h \in cand : TopCandidate(h)
  BY DEF Best1
<1>6. seq \in [Blocks -> Int] /\ cand \subseteq Blocks /\ linked \subseteq Blocks
  BY SeqInt DEF Basic, TypeOK
<1>7. NoneWorse'
  BY <1>1, <1>3 DEF NoneWorse, Worse
<1>8. \A a \in Chain[b] : a \notin setting'.bad /\ ~FailedIn(idx', a) /\ a \in Blocks
  <2>1. b \in linked' /\ \A a \in Chain[b] : a \notin setting'.bad
    BY <1>1, <1>3 DEF Blame
  <2> QED BY <1>1, <2>1, UsableNext, ChainTypes
<1>9. \E g \in cand' : TopCandidate(g)'
  <2>1. CASE ~Worse(h, b)
    <3>1. h \in cand'
      BY <1>3, <1>5, <2>1
    <3>2. \A x \in cand : x \in cand' \/ Worse(x, h)
      <4>1. ASSUME NEW x \in cand, Worse(x, b) PROVE Worse(x, h)
        BY <1>1, <1>5, <1>6, <2>1, <4>1, WorseOrder DEF Worse
      <4> QED BY <1>3, <4>1
    <3>3. TopCandidate(h)'
      BY <1>1, <1>4, <1>5, <3>1, <3>2, BestFrame
    <3> QED BY <3>1, <3>3
  <2>2. CASE Worse(h, b)
    <3>1. Usable(b)
      BY <1>4, <1>8 DEF Usable, SameMarks, Failed, FailedIn
    <3>2. b \in cand \/ Worse(b, h)
      BY <1>1, <1>5, <3>1 DEF TopCandidate
    <3>3. ~Worse(b, h) /\ ~Worse(b, b)
      BY <1>1, <1>5, <1>6, <2>2, WorseOrder DEF Worse
    <3>4. b \in cand'
      BY <1>3, <3>2, <3>3
    <3>5. ASSUME NEW x \in linked, \A a \in Chain[x] : ~FailedIn(idx', a)
          PROVE  x \in cand' \/ Worse(x, b)
      <4>1. Usable(x)
        BY <1>4, <1>6, <3>5, ChainTypes DEF Usable, SameMarks, Failed, FailedIn
      <4>2. x \in cand \/ Worse(x, h)
        BY <1>5, <4>1 DEF TopCandidate
      <4>3. Worse(x, h) => Worse(x, b)
        BY <1>1, <1>5, <1>6, <2>2, WorseOrder DEF Worse
      <4> QED BY <1>3, <4>2, <4>3
    <3>6. TopCandidate(b)'
      BY <1>1, <1>8, <3>4, <3>5 DEF TopCandidate, Usable, Failed, Worse
    <3> QED BY <3>4, <3>6
  <2> QED BY <2>1, <2>2
<1>10. fault' = "none"
  BY <1>3, <1>9 DEF PruneFault
<1>11. thr[t].pc = "loop" /\ thr[t].most \in Blocks
  BY <1>1, StepperIs
<1>12. t \in setting.threads /\ t \in setting'.threads
  BY <1>1, <1>11 DEF Basic, Places
<1>13. PICK m : m = thr[t].most
  OBVIOUS
<1>14. OneThread' => Chosen(m)'
  <2>1. OneThread => Chosen(m)
    BY <1>11, <1>13, TreeTypes DEF Best1, Steady
  <2>2. ~Worse(m, b)
    <3>1. m \in Blocks /\ b \in Chain[m]
      BY <1>1, <1>11, <1>13
    <3>2. b # m => Worse(b, m)
      BY <1>6, <3>1, AncestorWorse DEF Worse
    <3> QED BY <1>1, <1>6, <3>1, <3>2, WorseOrder DEF Worse
  <2> QED BY <1>1, <1>3, <2>1, <2>2 DEF OneThread, Chosen, Worse
<1>15. Steady'
  <2>1. CASE b = m
    <3>1. thr'[t].pc = "idle" /\ tip' = m
      BY <1>3, <1>13, <2>1, SmallTypes DEF Return, Basic, TypeOK
    <3> QED BY <1>12, <1>14, <3>1, SteadyOne
  <2>2. CASE b # m
    <3>1. thr'[t].pc = "loop" /\ thr'[t].most = m
      <4>1. NextRound(t, m) \/ thr' = thr
        BY <1>3, <1>13, <2>2
      <4>2. thr \in [Threads -> [pc : {"idle", "loop"}, most : Blocks \cup {NoBlock}]]
        BY DEF Basic, TypeOK
      <4> QED BY <1>11, <1>13, <4>1, <4>2 DEF NextRound
    <3>2. OneThread' => Chosen(thr[t].most)'
      BY <1>14, <3>1
    <3> QED BY <1>12, <3>1, <3>2, SteadyOne
  <2> QED BY <2>1, <2>2
<1> QED BY <1>1, <1>4, <1>7, <1>9, <1>10, <1>15 DEF Best1

LEMMA FailsBest ==
  ASSUME Basic, Basic', Blame', Flags, Best1, NEW t \in Threads, ConnectTipFails(t)
  PROVE  Best1' /\ Flags' /\ MoreMarks
<1>1. /\ UNCHANGED <<setting, linked, seq, nextSeq, precious, pairs, tip, fault, disk>>
      /\ thr[t].pc = "loop"
  BY FailsCases, StepperIs
<1>2. PICK b \in linked : b \in Blocks /\ Rejected(t, b)
  BY FailsCases
<1>3. /\ b \in setting.bad /\ cand' = cand \ {b} /\ NextRound(t, NoBlock)
      /\ idx' = [idx EXCEPT ![b].failedValid = TRUE]
      /\ failedSet' = failedSet \cup {b} /\ dirty' = dirty \cup {b}
  BY <1>2 DEF Rejected
<1>4. Flags' /\ MoreMarks
  BY <1>1, <1>2, <1>3, RejectedFlags
<1>5. FailedIn(idx', b) /\ b \in Chain[b]
  BY <1>2, <1>3, RejectedEntry, ChainTypes DEF Basic, FailedIn
<1>6. PICK h \in cand : TopCandidate(h)
  BY DEF Best1
<1>7. h \in cand'
  BY <1>3, <1>5, <1>6 DEF TopCandidate
<1>8. TopCandidate(h)'
  <2>1. \A x \in cand : x \in cand' \/ \E a \in Chain[x] : FailedIn(idx', a)
    BY <1>3, <1>5
  <2> QED BY <1>1, <1>4, <1>6, <1>7, <2>1, BestFrame
<1>9. NoneWorse'
  BY <1>1, <1>3 DEF Best1, NoneWorse, Worse
<1>10. Steady'
  <2>1. thr'[t].pc = "loop" /\ thr'[t].most = NoBlock
    BY <1>3 DEF NextRound, Basic, TypeOK
  <2>2. t \in setting'.threads
    BY <1>1 DEF Basic, Places
  <2> QED BY <2>1, <2>2, SteadyOne
<1> QED BY <1>4, <1>7, <1>8, <1>9, <1>10 DEF Best1

\* The best block on disk is a candidate after a restart.
LEMMA RestartBest ==
  ASSUME Basic, Basic', Blame', NEW t \in Threads, Restart(t)
  PROVE  Best1' /\ fault' = "none"
<1>1. PICK h : h = tip'
  OBVIOUS
<1>2. /\ h \in linked' /\ h \in Blocks /\ seq' \in [Blocks -> Int] /\ linked' \subseteq Blocks
      /\ \A x \in linked' : idx'[x].tx
  BY <1>1, ChainAssumption DEF Basic, TypeOK, Links
<1>3. \A a \in Chain[h] : a \notin setting'.bad
  BY <1>1 DEF Blame
<1>4. \A a \in Chain[h] : ~FailedIn(idx', a)
  BY <1>2, <1>3, UsableNext
<1>5. /\ cand' = {b \in Blocks : /\ idx'[b].tx /\ ~FailedIn(idx', b) /\ b \in linked'
                                 /\ ~WorseAt(seq', b, h)}
      /\ fault' = PruneFault(cand') /\ t \in setting'.threads
      /\ thr' = [u \in Threads |-> IF u = t THEN Loop ELSE Idle]
  BY <1>1, RestartIs
<1>6. h \in cand'
  BY <1>2, <1>4, <1>5, ChainTypes, WorseOrder
<1>7. ASSUME NEW b \in linked', \A a \in Chain[b] : ~FailedIn(idx', a)
      PROVE  b \in cand' \/ WorseAt(seq', b, h)
  BY <1>2, <1>5, <1>7, ChainTypes
<1>8. TopCandidate(h)'
  BY <1>3, <1>4, <1>6, <1>7 DEF TopCandidate, Usable, Failed, Worse
<1>9. NoneWorse'
  BY <1>1, <1>5 DEF NoneWorse, Worse
<1>10. Steady'
  <2>1. thr'[t] = Loop /\ Loop.pc = "loop" /\ Loop.most = NoBlock
    BY <1>5, SmallTypes
  <2> QED BY <1>5, <2>1, SteadyOne
<1> QED BY <1>5, <1>6, <1>8, <1>9, <1>10 DEF Best1, PruneFault

-----------------------------------------------------------------------------
(* Without reconsiderblock a block of gFailedBlocks stays marked.           *)

LEMMA RememberedFrame ==
  ASSUME TypeOK, Remembered, failedSet' = failedSet, fault' # "failedit",
         \A x \in Blocks : idx[x].failedValid => idx'[x].failedValid
  PROVE  Remembered'
BY DEF TypeOK, Remembered

LEMMA HeaderRemembered ==
  ASSUME Basic, Remembered, NEW b \in Blocks, AcceptBlockHeader(b)
  PROVE  Remembered'
<1>1. failedSet' = failedSet
  BY HeaderChanges DEF Basic
<1>2. CASE NewHeader(b)
  BY <1>1, <1>2, NewHeaderFlags, RememberedFrame DEF Basic, NewHeader, Remembered
<1>3. CASE NotMarked
  BY <1>3 DEF NotMarked, Remembered
<1>4. ASSUME NEW f, MarkedDown(b, f) PROVE Remembered'
  <2>1. fault' = fault
    BY <1>4 DEF MarkedDown
  <2>2. \A x \in Blocks : idx'[x].failedValid = idx[x].failedValid
    BY <1>4, HeaderCases, MarkedDownFlags DEF Basic
  <2> QED BY <1>1, <2>1, <2>2, RememberedFrame DEF Basic, Remembered
<1> QED BY <1>2, <1>3, <1>4, HeaderCases

LEMMA ProcessRemembered ==
  ASSUME Basic, Remembered, NEW t \in Threads, NEW b \in Blocks, NEW r \in BOOLEAN,
         ProcessNewBlock(t, b, r)
  PROVE  Remembered'
<1>1. fault' = fault
  BY ProcessCases
<1>2. failedSet' = failedSet
  BY ProcessCases DEF Ignored, index, Refused, Stored
<1>3. \A x \in Blocks : idx[x].failedValid => idx'[x].failedValid
  <2>1. CASE Ignored(t)
    BY <2>1 DEF Ignored, index
  <2>2. CASE Refused(b)
    BY <2>2, RejectedEntry DEF Basic, Refused
  <2>3. CASE Stored(t, b)
    BY <2>3, StoredMarks DEF Basic
  <2> QED BY <2>1, <2>2, <2>3, ProcessCases
<1> QED BY <1>1, <1>2, <1>3, RememberedFrame DEF Basic, Remembered

LEMMA ActivateRemembered ==
  ASSUME Basic, Remembered, NEW t \in Threads, Activate(t)
  PROVE  Remembered'
<1>1. CASE EnterRound(t)
  BY <1>1, RememberedFrame DEF EnterRound, index, Basic, Remembered
<1>2. CASE FindMostWorkChain(t)
  <2>1. failedSet' = failedSet /\ fault' = fault
    BY <1>2, FindCases
  <2>2. \A x \in Blocks : idx'[x].failedValid = idx[x].failedValid
    BY <1>2, FindCases, GaveUpEntry DEF Basic, AtTop, Found
  <2> QED BY <2>1, <2>2, RememberedFrame DEF Basic, Remembered
<1>3. CASE DisconnectTip(t)
  <2>1. UNCHANGED <<idx, failedSet>> /\ fault' \in {fault, "read"}
    BY <1>3, DisconnectCases DEF index, Unread, Undone
  <2> QED BY <2>1, RememberedFrame DEF Basic, Remembered
<1>4. CASE ConnectTip(t)
  <2>1. PICK b \in linked : b \in Blocks /\ UNCHANGED failedSet /\ (Unconnected \/ Connected(t, b))
    BY <1>4, ConnectCases
  <2>2. \A x \in Blocks : idx'[x].failedValid = idx[x].failedValid
    BY <2>1, ConnectedEntry DEF Basic, Unconnected
  <2>3. fault' \in {"none", "candidates", "read"}
    BY <2>1 DEF Unconnected, Connected, PruneFault
  <2> QED BY <2>1, <2>2, <2>3, RememberedFrame DEF Basic
<1>5. CASE ConnectTipFails(t)
  <2>1. PICK b \in linked : b \in Blocks /\ Rejected(t, b)
    BY <1>5, FailsCases
  <2>2. failedSet' = failedSet \cup {b} /\ idx' = [idx EXCEPT ![b].failedValid = TRUE] /\ fault' = fault
    BY <1>5, <2>1, FailsCases DEF Rejected
  <2>3. \A x \in Blocks : idx'[x].failedValid = (idx[x].failedValid \/ x = b)
    BY <2>1, <2>2, RejectedEntry DEF Basic
  <2> QED BY <2>1, <2>2, <2>3 DEF Basic, TypeOK, Remembered
<1> QED BY <1>1, <1>2, <1>3, <1>4, <1>5 DEF Activate

\* invalidateblock marks what it puts into gFailedBlocks.
LEMMA InvalidateRemembered ==
  ASSUME Basic, Remembered, NEW t \in Threads, NEW p \in Blocks, InvalidateBlock(t, p)
  PROVE  Remembered'
<1>1. CASE fault' = "read" /\ UNCHANGED <<idx, failedSet>>
  BY <1>1, RememberedFrame DEF Basic
<1>2. CASE idx' = Marked(p) /\ failedSet' \subseteq failedSet \cup {p} /\ UNCHANGED fault
  <2>1. \A x \in Blocks : idx'[x].failedValid = (idx[x].failedValid \/ x = p)
    <3>1. idx \in [Blocks -> Entry] /\ idx' = Marked(p)
      BY <1>2 DEF Basic, TypeOK
    <3> HIDE DEF Disconnected
    <3> QED BY <3>1 DEF Marked, Entry
  <2> QED BY <1>2, <2>1 DEF Basic, TypeOK, Remembered
<1> QED BY <1>1, <1>2 DEF InvalidateBlock, Marked

LEMMA NextRemembered ==
  ASSUME Basic, Without("reconsider"), Remembered, [Next]_vars
  PROVE  Remembered'
<1>1. CASE UNCHANGED vars
  BY <1>1 DEF vars, index, Remembered
<1>2. ASSUME NEW b \in Blocks, PruneOneBlockFile(b) PROVE Remembered'
  <2>1. UNCHANGED <<failedSet, fault>> /\ idx' = [idx EXCEPT ![b].data = FALSE] /\ idx \in [Blocks -> Entry]
    BY <1>2 DEF PruneOneBlockFile, Basic, TypeOK
  <2>2. \A x \in Blocks : idx'[x].failedValid = idx[x].failedValid
    BY <2>1 DEF Entry
  <2> QED BY <2>1, <2>2, RememberedFrame DEF Basic, Remembered
<1>3. ASSUME NEW t \in Threads, Restart(t) PROVE Remembered'
  <2>1. failedSet' = {} /\ fault' \in {"none", "candidates"}
    BY <1>3, RestartIs DEF PruneFault
  <2> QED BY <2>1 DEF Remembered
<1>4. ASSUME NEW t \in Threads, NEW b \in Blocks, ReconsiderBlock(t, b) PROVE Remembered'
  BY <1>4 DEF ReconsiderBlock, Called, Without
<1>5. ASSUME NEW t \in Threads, NEW b \in Blocks, PreciousBlock(t, b) PROVE Remembered'
  <2>1. UNCHANGED <<idx, failedSet>> /\ fault' \in {fault, "none", "candidates"}
    BY <1>5 DEF PreciousBlock, PruneFault
  <2> QED BY <2>1, RememberedFrame DEF Basic, Remembered
<1>6. CASE WriteIndex \/ FlushAll
  <2>1. UNCHANGED <<idx, failedSet, fault>>
    BY <1>6 DEF WriteIndex, FlushAll
  <2> QED BY <2>1, RememberedFrame DEF Basic, Remembered
<1> QED BY <1>1, <1>2, <1>3, <1>4, <1>5, <1>6, HeaderRemembered, ActivateRemembered,
           ProcessRemembered, InvalidateRemembered DEF Next

-----------------------------------------------------------------------------
(* The invariant holds in every state of every setting. *)

\* What a node meets does not change.
LEMMA SettingKept == ASSUME [Next]_vars PROVE setting' = setting
<1>1. CASE UNCHANGED vars
  BY <1>1 DEF vars, index
<1>2. ASSUME NEW b \in Blocks, AcceptBlockHeader(b) \/ PruneOneBlockFile(b) PROVE setting' = setting
  BY <1>2 DEF AcceptBlockHeader, PruneOneBlockFile
<1>3. ASSUME NEW t \in Threads, Activate(t) \/ Restart(t) PROVE setting' = setting
  BY <1>3 DEF Activate, EnterRound, FindMostWorkChain, DisconnectTip, ConnectTip, ConnectTipFails,
              Restart, index
<1>4. ASSUME NEW t \in Threads, NEW b \in Blocks,
             \/ \E r \in BOOLEAN : ProcessNewBlock(t, b, r)
             \/ InvalidateBlock(t, b) \/ ReconsiderBlock(t, b) \/ PreciousBlock(t, b)
      PROVE  setting' = setting
  BY <1>4 DEF ProcessNewBlock, InvalidateBlock, ReconsiderBlock, PreciousBlock
<1>5. CASE WriteIndex \/ FlushAll
  BY <1>5 DEF WriteIndex, FlushAll
<1> QED BY <1>1, <1>2, <1>3, <1>4, <1>5 DEF Next

LEMMA ProcessPlain ==
  ASSUME Basic, Basic', Blame', Flags, Waits, Best1, NEW t \in Threads, NEW b \in Blocks,
         NEW r \in BOOLEAN, ProcessNewBlock(t, b, r)
  PROVE  Flags' /\ Waits' /\ Best1'
<1>1. /\ b # Genesis /\ ~Failed(b) /\ t \in setting.threads
      /\ UNCHANGED <<setting, tip, sec, fault, disk>> /\ fault = "none"
  BY ProcessCases DEF Flags
<1>2. CASE Ignored(t)
  <2>1. UNCHANGED <<idx, linked, seq, pairs, failedSet, dirty, cand>> /\ thr' = [thr EXCEPT ![t] = Loop]
    BY <1>2 DEF Ignored, index
  <2>2. SameMarks /\ MoreMarks
    BY <2>1 DEF SameMarks, MoreMarks
  <2>3. Flags' /\ Waits'
    BY <1>1, <2>1, <2>2, FlagsFrame, WaitsFrame DEF Basic, TypeOK
  <2>4. (\E h \in cand : TopCandidate(h))' /\ NoneWorse'
    <3>1. PICK h \in cand : TopCandidate(h)
      BY DEF Best1
    <3>2. TopCandidate(h)' /\ NoneWorse'
      BY <1>1, <2>1, <3>1 DEF Best1, TopCandidate, Usable, Failed, Worse, NoneWorse
    <3> QED BY <2>1, <3>1, <3>2
  <2>5. thr'[t] = Loop /\ Loop.pc = "loop" /\ Loop.most = NoBlock
    BY <2>1, SmallTypes DEF Basic, TypeOK
  <2>6. Steady'
    BY <1>1, <2>5, SteadyOne
  <2> QED BY <2>3, <2>4, <2>6 DEF Best1
<1>3. CASE Refused(b)
  <2>1. /\ UNCHANGED <<thr, linked, seq, pairs, cand, failedSet>> /\ dirty' = dirty \cup {b}
        /\ idx' = [idx EXCEPT ![b].failedValid = TRUE] /\ ~idx[b].tx
    BY <1>3 DEF Refused, Flags, Marks
  <2>2. Flags' /\ MoreMarks
    BY <1>1, <2>1, RejectedFlags
  <2> QED BY <1>1, <2>1, <2>2, WaitsFrame, BestMarked
<1>4. CASE Stored(t, b)
  BY <1>1, <1>4, StoredFlags, StoredWaits, StoredBest
<1> QED BY <1>2, <1>3, <1>4, ProcessCases

LEMMA ActivatePlain ==
  ASSUME Basic, Basic', Blame', Flags, Waits, Best1, NEW t \in Threads, Activate(t)
  PROVE  Flags' /\ Waits' /\ Best1'
<1>1. failedSet \subseteq Blocks /\ fault = "none"
  BY DEF Basic, TypeOK, Flags
<1>2. CASE EnterRound(t)
  <2>1. UNCHANGED <<idx, linked, pairs, failedSet, dirty, fault, disk>>
    BY <1>2 DEF EnterRound, index
  <2>2. SameMarks /\ MoreMarks
    BY <2>1 DEF SameMarks, MoreMarks
  <2> QED BY <1>1, <1>2, <2>1, <2>2, FlagsFrame, WaitsFrame, EnterBest
<1>3. CASE FindMostWorkChain(t)
  <2>1. UNCHANGED <<linked, failedSet, dirty, fault, disk>>
    BY <1>3, FindCases
  <2>2. CASE UNCHANGED <<idx, pairs>>
    <3>1. SameMarks /\ MoreMarks
      BY <2>2 DEF SameMarks, MoreMarks
    <3> QED BY <1>1, <1>3, <2>1, <2>2, <3>1, FlagsFrame, WaitsFrame, FindBest
  <2>3. ASSUME NEW first, GaveUp(first) PROVE Flags' /\ Waits' /\ Best1'
    <3>1. Flags' /\ MoreMarks /\ UNCHANGED pairs
      BY <2>1, <2>3, GaveUpFlags
    <3> QED BY <1>3, <2>1, <3>1, WaitsFrame, FindBest
  <2> QED BY <1>3, <2>2, <2>3, FindCases DEF AtTop, Found
<1>4. CASE DisconnectTip(t)
  <2>1. Best1' /\ fault' = "none" /\ UNCHANGED <<idx, linked, pairs, failedSet, dirty, disk>>
    BY <1>4, DisconnectBest, DisconnectCases DEF index
  <2>2. SameMarks /\ MoreMarks
    BY <2>1 DEF SameMarks, MoreMarks
  <2> QED BY <1>1, <2>1, <2>2, FlagsFrame, WaitsFrame
<1>5. CASE ConnectTip(t)
  <2>1. /\ Best1' /\ SameMarks /\ fault' = "none" /\ dirty \subseteq dirty'
        /\ UNCHANGED <<linked, pairs, failedSet, disk>>
    BY <1>5, ConnectBest
  <2>2. MoreMarks
    BY <2>1 DEF SameMarks, MoreMarks
  <2> QED BY <1>1, <2>1, <2>2, FlagsFrame, WaitsFrame
<1>6. CASE ConnectTipFails(t)
  <2>1. Best1' /\ Flags' /\ MoreMarks /\ UNCHANGED <<linked, pairs>>
    BY <1>6, FailsBest, FailsCases
  <2> QED BY <2>1, WaitsFrame
<1> QED BY <1>2, <1>3, <1>4, <1>5, <1>6 DEF Activate

LEMMA NextPlain ==
  ASSUME Basic, Basic', Blame', Plain, Flags, Waits, Best1, [Next]_vars
  PROVE  Flags' /\ Waits' /\ Best1'
<1>1. CASE UNCHANGED vars
  <2>1. UNCHANGED <<setting, idx, linked, seq, pairs, failedSet, dirty, cand, tip, thr, fault, disk>>
    BY <1>1 DEF vars, index
  <2>2. SameMarks /\ MoreMarks
    BY <2>1 DEF SameMarks, MoreMarks
  <2>3. failedSet \subseteq Blocks /\ fault' = "none"
    BY <2>1 DEF Basic, TypeOK, Flags
  <2> QED BY <2>1, <2>2, <2>3, FlagsFrame, WaitsFrame, BestMarked
<1>2. ASSUME NEW b \in Blocks, AcceptBlockHeader(b) PROVE Flags' /\ Waits' /\ Best1'
  <2>1. UNCHANGED <<setting, linked, seq, cand, pairs, tip, thr>>
    BY <1>2, HeaderChanges DEF Basic
  <2>2. Flags' /\ MoreMarks
    BY <1>2, HeaderFlags
  <2> QED BY <2>1, <2>2, WaitsFrame, BestMarked
<1>3. ASSUME NEW t \in Threads, Restart(t) PROVE Flags' /\ Waits' /\ Best1'
  BY <1>3, RestartBest, RestartFlags, RestartWaits
<1>4. CASE WriteIndex \/ FlushAll
  <2>1. Flags' /\ UNCHANGED <<setting, idx, linked, seq, cand, pairs, tip, thr>>
    BY <1>4, FlushFlags
  <2>2. MoreMarks
    BY <2>1 DEF MoreMarks
  <2> QED BY <2>1, <2>2, WaitsFrame, BestMarked
<1>5. ASSUME NEW b \in Blocks, PruneOneBlockFile(b) PROVE FALSE
  BY <1>5 DEF PruneOneBlockFile, Plain
<1>6. ASSUME NEW t \in Threads, NEW b \in Blocks,
             InvalidateBlock(t, b) \/ ReconsiderBlock(t, b) \/ PreciousBlock(t, b)
      PROVE  FALSE
  BY <1>6 DEF InvalidateBlock, ReconsiderBlock, PreciousBlock, Called, Plain
<1> QED BY <1>1, <1>2, <1>3, <1>4, <1>5, <1>6, ActivatePlain, ProcessPlain DEF Next

LEMMA InitPlain == ASSUME Init, Basic PROVE Flags /\ Waits /\ Best1
<1>1. /\ idx[Genesis].data /\ idx[Genesis].tx
      /\ \A b \in Blocks : ~FailedIn(idx, b) /\ idx[b].data = idx[b].tx
      /\ \A b \in Blocks \ {Genesis} : ~idx[b].tx
  BY TreeTypes DEF Init, Unknown, FailedIn
<1>2. /\ setting \in Settings /\ linked = {Genesis} /\ cand = {Genesis} /\ tip = Genesis
      /\ pairs = [b \in Blocks |-> 0] /\ failedSet = {} /\ dirty = {} /\ fault = "none"
      /\ thr = [t \in Threads |-> Idle] /\ disk = [idx |-> idx, best |-> Genesis]
  BY DEF Init
<1>3. Marks(idx)
  BY <1>1 DEF Marks, FailedIn
<1>4. Flags
  <2>1. disk.idx = idx
    BY <1>2
  <2> QED BY <1>1, <1>2, <1>3, <2>1 DEF Flags, Failed, FailedIn
<1>5. Waits
  <2>1. unlinked = {} /\ \A b \in Blocks : pairs[b] \in {0, 1}
    BY <1>2 DEF unlinked
  <2> QED BY <1>1, <1>2, <2>1 DEF Waits
<1>6. ~Worse(Genesis, Genesis)
  BY SeqInt, WorseOrder, TreeTypes DEF Basic, Worse
<1>7. TopCandidate(Genesis)
  <2>1. Genesis \notin setting.bad
    BY <1>2, ChainAssumption
  <2> QED BY <1>1, <1>2, <2>1, ChainStep, TreeTypes DEF TopCandidate, Usable, Failed
<1>8. NoneWorse /\ Steady
  BY <1>2, <1>6, SmallTypes DEF NoneWorse, Steady, Chosen
<1> QED BY <1>2, <1>4, <1>5, <1>7, <1>8 DEF Best1

LEMMA InitInv == ASSUME Init PROVE IInv
<1>1. Basic /\ Blame
  BY InitBasic, InitBlame
<1>2. Remembered
  BY DEF Init, Remembered
<1> QED BY <1>1, <1>2, InitPlain DEF IInv

LEMMA NextInv == ASSUME IInv, [Next]_vars PROVE IInv'
<1>1. setting' = setting
  BY SettingKept
<1>2. Basic'
  BY NextBasic DEF IInv
<1>3. ASSUME Without("invalidate")' PROVE Blame'
  BY <1>1, <1>3, NextBlame DEF IInv, Without
<1>4. ASSUME Without("reconsider")' PROVE Remembered'
  BY <1>1, <1>4, NextRemembered DEF IInv, Without
<1>5. ASSUME Plain' PROVE Flags' /\ Waits' /\ Best1'
  <2>1. Plain
    BY <1>1, <1>5 DEF Plain
  <2>2. Without("invalidate")'
    BY <1>5 DEF Plain, Without
  <2> QED BY <1>2, <1>3, <2>1, <2>2, NextPlain DEF IInv
<1> QED BY <1>2, <1>3, <1>4, <1>5 DEF IInv

-----------------------------------------------------------------------------
(* What the invariant says. *)

LEMMA LinkedOnly == ASSUME Basic PROVE CandidatesLinked
<1> SUFFICES ASSUME NEW b \in cand PROVE Chain[b] \subseteq linked /\ ~HasUnseen(b)
  BY DEF CandidatesLinked
<1>1. b \in linked
  BY DEF Basic, Links
<1> QED BY <1>1, LinkedChain DEF Basic, HasUnseen

\* A failed block has an ancestor that was found invalid.
LEMMA FailedHasCause ==
  ASSUME Flags
  PROVE  \A b \in Blocks : Failed(b) => HasInvalid(b)
BY ChainTypes DEF Flags, Marks, Failed, FailedIn, HasInvalid

\* Below a block with nothing invalid, nothing is failed.
LEMMA UsableUnlessInvalid ==
  ASSUME Flags, NEW b \in Blocks, ~HasInvalid(b)
  PROVE  Usable(b)
<1> SUFFICES ASSUME NEW a \in Chain[b], Failed(a) PROVE FALSE
  BY DEF Usable
<1>1. a \in Blocks /\ Chain[a] \subseteq Chain[b]
  BY ChainTypes, ChainTrans
<1>2. HasInvalid(a)
  BY <1>1, FailedHasCause
<1> QED BY <1>1, <1>2 DEF HasInvalid

\* Without pruning, what has no data was never received.
LEMMA MissingUnseen ==
  ASSUME Flags, NEW b \in Blocks
  PROVE  HasMissing(b) <=> HasUnseen(b)
BY ChainTypes DEF Flags, Marks, HasMissing, HasUnseen

LEMMA WaitingKnown == ASSUME Basic, Flags, Waits PROVE UnlinkedComplete
<1> SUFFICES ASSUME NEW b \in Blocks \ {Genesis}
             PROVE  /\ idx[b].data /\ ~HasInvalid(b) =>
                         /\ HasUnseen(b) => b \in unlinked
                         /\ HasMissing(b) => b \in unlinked
                    /\ b \in unlinked => idx[b].data /\ HasMissing(b)
  BY DEF UnlinkedComplete, Known
<1>1. idx[b].data = idx[b].tx /\ (HasMissing(b) <=> HasUnseen(b))
  BY MissingUnseen DEF Flags, Marks
<1>2. ASSUME idx[b].tx, ~HasInvalid(b), HasUnseen(b) PROVE b \in unlinked
  <2>1. b \notin linked
    BY <1>2, LinkedOrUnseen
  <2>2. b \in unlinked \/ Failed(Parent[b])
    BY <1>2, <2>1 DEF Waits
  <2>3. ~Failed(Parent[b])
    <3>1. Parent[b] \in Chain[b]
      BY ChainStep, ChainTypes, TreeTypes
    <3>2. Usable(b)
      BY <1>2, UsableUnlessInvalid
    <3> QED BY <3>1, <3>2 DEF Usable
  <2> QED BY <2>2, <2>3
<1>3. b \in unlinked => idx[b].tx /\ HasUnseen(b)
  BY DEF Basic, Links, Waits
<1> QED BY <1>1, <1>2, <1>3

LEMMA KeysFixed == ASSUME Basic, Waits PROVE CandidateKeysFixed
<1> SUFFICES ASSUME NEW b \in Blocks \ {Genesis}, ~idx[b].tx
             PROVE  /\ NowLinked(b) \cap cand = {}
                    /\ \A x \in NowLinked(b) \ {b} : pairs[x] = 1
  BY DEF CandidateKeysFixed, Known
<1>2. b \notin linked
  BY DEF Basic, Links
<1>3. \A x \in NowLinked(b) : x \notin linked
  BY <1>2, NowLinkedIs, LinkedChain DEF Basic
<1>4. \A x \in NowLinked(b) \ {b} : x \in Blocks /\ pairs[x] > 0
  BY NowLinkedIs DEF Basic, unlinked
<1>5. \A x \in NowLinked(b) \ {b} : pairs[x] = 1
  BY <1>4 DEF Waits
<1> QED BY <1>3, <1>5 DEF Basic, Links

LEMMA IndexKept == ASSUME Basic, Blame, Flags, Waits PROVE IndexConsistent
<1>1. FailedBelowInvalid
  BY FailedHasCause DEF FailedBelowInvalid, Known
<1>2. ActiveChainValid
  BY BlameActive DEF ActiveChainValid
<1> QED BY <1>1, <1>2, LinkedOnly, WaitingKnown, KeysFixed DEF IndexConsistent, Basic

\* A single thread that has returned has left nothing better behind.
LEMMA NothingBetter ==
  ASSUME Basic, Flags, Waits, Best1, Quiet, OneThread, NEW b \in Blocks, ~HasUnseen(b), Usable(b)
  PROVE  ~Worse(tip, b) /\ (~Worse(b, tip) => b \in cand)
<1>1. b \in linked
  BY LinkedOrUnseen
<1>2. tip \in cand /\ \A c \in cand : ~Worse(tip, c)
  BY DEF Best1, Steady, Quiet, Chosen
<1>3. PICK h \in cand : TopCandidate(h)
  BY DEF Best1
<1>4. b \in cand \/ Worse(b, h)
  BY <1>1, <1>3 DEF TopCandidate
<1>5. seq \in [Blocks -> Int] /\ h \in Blocks /\ tip \in Blocks
  BY SeqInt DEF Basic, TypeOK
<1>6. ~Worse(tip, h)
  BY <1>2
<1>7. ~Worse(tip, b)
  BY <1>2, <1>4, <1>5, <1>6, WorseOrder DEF Worse
<1>8. Worse(b, h) => Worse(b, tip)
  BY <1>5, <1>6, WorseOrder DEF Worse
<1> QED BY <1>4, <1>7, <1>8

LEMMA TipKept == ASSUME Basic, Flags, Waits, Best1 PROVE TipIsBest
<1> SUFFICES ASSUME Quiet, OneThread, NEW b \in Blocks, ~HasMissing(b), \A a \in Chain[b] : ~Failed(a)
             PROVE  ~Worse(tip, b)
  BY DEF TipIsBest, Known
<1>1. ~HasUnseen(b) /\ Usable(b)
  BY MissingUnseen DEF Usable
<1> QED BY <1>1, NothingBetter

LEMMA CandidatesKept == ASSUME Basic, Flags, Waits, Best1 PROVE CandidatesExact
<1> SUFFICES ASSUME Quiet, OneThread, NEW b \in Blocks
             PROVE  IF ~Worse(b, tip) /\ ~HasUnseen(b)
                    THEN ~HasInvalid(b) /\ (HasMissing(b) => b = tip) => b \in cand
                    ELSE b \notin cand
  BY DEF CandidatesExact, CandidatesChecked, Known
<1>1. ASSUME ~Worse(b, tip), ~HasUnseen(b), ~HasInvalid(b) PROVE b \in cand
  BY <1>1, UsableUnlessInvalid, NothingBetter
<1>2. ASSUME Worse(b, tip) \/ HasUnseen(b) PROVE b \notin cand
  BY <1>2, LinkedOnly DEF Best1, NoneWorse, CandidatesLinked
<1> QED BY <1>1, <1>2

-----------------------------------------------------------------------------
(* The theorems. *)

\* The invariant holds throughout, whatever a node meets.
THEOREM Invariance == Safety => []IInv
<1>1. Init => IInv
  BY InitInv
<1>2. IInv /\ [Next]_vars => IInv'
  BY NextInv
<1> QED BY <1>1, <1>2, PTL DEF Safety

\* FindMostWorkChain's assert on nChainTx: in every setting, with every RPC call,
\* pruning, any number of threads and deaths, a candidate and its ancestors have
\* all been received and linked.
THEOREM CandidatesAlwaysLinked == Safety => [](TypeOK /\ CandidatesLinked)
<1>1. IInv => TypeOK /\ CandidatesLinked
  BY LinkedOnly DEF IInv, Basic
<1> QED BY <1>1, Invariance, PTL

\* FlushStateToDisk writes the index before the coins: where invalidateblock is not
\* called (the exception is part of DiskConsistent), the best block of the coins on
\* disk and its ancestors are received and never marked invalid in the index on
\* disk, whenever the process dies, for any number of threads and with pruning,
\* reconsiderblock and preciousblock.
THEOREM DiskAlwaysConsistent == Safety => []DiskConsistent
<1>1. IInv => DiskConsistent
  BY BlameDisk DEF IInv, DiskConsistent
<1> QED BY <1>1, Invariance, PTL

\* ConnectTip never leaves a failed block in the active chain: without
\* invalidateblock this holds for any number of threads, with reconsiderblock,
\* preciousblock and pruning.
THEOREM ActiveChainAlwaysValid == Safety => [](Without("invalidate") => ActiveChainValid)
<1>1. IInv => (Without("invalidate") => ActiveChainValid)
  BY BlameActive DEF IInv, ActiveChainValid
<1> QED BY <1>1, Invariance, PTL

\* AcceptBlockHeader's assert on gFailedBlocks: without reconsiderblock every
\* member it comes across is marked BLOCK_FAILED_VALID, also after
\* invalidateblock, pruning and a restart.
THEOREM FailedBlocksMarked == Safety => [](Without("reconsider") => fault # "failedit")
<1>1. IInv => (Without("reconsider") => fault # "failedit")
  BY DEF IInv, Remembered
<1> QED BY <1>1, Invariance, PTL

\* No assert fails and no read of a block fails while headers and blocks, valid
\* or not, arrive in any order, any number of threads activate, and the process
\* is killed at any point: neither PruneBlockIndexCandidates runs out of
\* candidates nor ConnectTip or DisconnectTip out of data.
THEOREM AssertsAlwaysHold == Safety => [](Plain => AssertsHold /\ NoFailures)
<1>1. IInv => (Plain => AssertsHold /\ NoFailures)
  BY DEF IInv, Flags, AssertsHold, NoFailures
<1> QED BY <1>1, Invariance, PTL

\* CheckBlockIndex, under the same events: flags have a cause, the active chain
\* is valid, mapBlocksUnlinked has what waits, candidates are linked, and no block
\* that arrives renumbers one or finds two copies of a pair that waits for it.
THEOREM IndexAlwaysConsistent == Safety => [](Plain => IndexConsistent)
<1>1. IInv => (Plain => IndexConsistent)
  <2>1. Plain => Without("invalidate")
    BY DEF Plain, Without
  <2> QED BY <2>1, IndexKept DEF IInv
<1> QED BY <1>1, Invariance, PTL

\* ActivateBestChain, under the same events: when the one thread that calls it
\* has returned, no usable chain sorts before the active one.
THEOREM TipAlwaysBest == Safety => [](Plain => TipIsBest)
<1>1. IInv => (Plain => TipIsBest)
  BY TipKept DEF IInv
<1> QED BY <1>1, Invariance, PTL

\* And setBlockIndexCandidates then is what CheckBlockIndex computes it to be.
THEOREM CandidatesAlwaysExact == Safety => [](Plain => CandidatesExact)
<1>1. IInv => (Plain => CandidatesExact)
  BY CandidatesKept DEF IInv
<1> QED BY <1>1, Invariance, PTL

\* All of it holds with the fairness that the liveness of the loop needs.
COROLLARY ChainSelectionFair ==
  Spec => [](/\ DiskConsistent
             /\ Plain => AssertsHold /\ IndexConsistent /\ TipIsBest /\ CandidatesExact)
<1>1. Spec => Safety
  BY PTL DEF Spec
<1> QED BY <1>1, DiskAlwaysConsistent, AssertsAlwaysHold, IndexAlwaysConsistent, TipAlwaysBest,
           CandidatesAlwaysExact, PTL
=============================================================================
