---------------------- MODULE WitnessCompaction_proofs ----------------------
(***************************************************************************)
(* The block index in memory and the one in the database point at data that *)
(* is there, at every instant of a compaction and after a death at any step *)
(* of it: for every block tree, every number and size of files, every       *)
(* horizon and every setting whose files lie without a gap above the append *)
(* file.                                                                    *)
(***************************************************************************)
EXTENDS WitnessCompaction, FunctionTheorems, FiniteSetTheorems, WellFoundedInduction, TLAPS

\* A non-empty set of naturals has a least element.
LEMMA LeastNatural ==
    ASSUME NEW S, S \subseteq Nat, S # {}
    PROVE  \E k \in S : \A l \in S : k <= l
<1> DEFINE R == {ss \in Nat \X Nat : ss[1] < ss[2]}
<1>1. R = OpToRel(<, Nat)
    BY DEF OpToRel
<1>2. IsWellFoundedOn(R, Nat)
    BY <1>1, NatLessThanWellFounded
<1>3. PICK x \in S : \A y \in S : <<y, x>> \notin R
    <2> HIDE DEF R
    <2>1. QED
        BY <1>2, WFMin
<1>4. ASSUME NEW y \in S PROVE x <= y
    <2>1. <<y, x>> \in Nat \X Nat /\ <<y, x>>[1] = y /\ <<y, x>>[2] = x
        OBVIOUS
    <2>2. ~(y < x)
        BY <1>3, <2>1
    <2>3. QED
        BY <2>2
<1>5. QED
    BY <1>4

\* A set with 0 and with the successor of each of its naturals has them all.
LEMMA Induction ==
    ASSUME NEW P, 0 \in P, \A k \in Nat : k \in P => k + 1 \in P
    PROVE  Nat \subseteq P
<1> SUFFICES ASSUME NEW j \in Nat, j \notin P PROVE FALSE
    OBVIOUS
<1> DEFINE bad == {k \in Nat : k \notin P}
<1>1. bad # {} /\ bad \subseteq Nat
    OBVIOUS
<1>2. PICK k \in bad : \A l \in bad : k <= l
    <2> HIDE DEF bad
    <2> QED BY <1>1, LeastNatural
<1>3. k - 1 \in Nat /\ k - 1 \notin bad
    BY <1>2
<1>4. QED
    BY <1>2, <1>3

\* A non-empty set of numbers up to a bound has a greatest element.
LEMMA GreatestNumber ==
    ASSUME NEW n \in Nat, NEW S, S \subseteq 0..n, S # {}
    PROVE  \E k \in S : \A l \in S : l <= k
<1> DEFINE T == {n - k : k \in S}
<1>1. T \subseteq Nat /\ T # {}
    <2>1. \A k \in S : n - k \in Nat
        OBVIOUS
    <2>2. QED
        BY <2>1
<1>2. PICK t \in T : \A l \in T : t <= l
    <2> HIDE DEF T
    <2> QED BY <1>1, LeastNatural
<1>3. PICK k \in S : t = n - k
    BY <1>2
<1>4. ASSUME NEW l \in S PROVE l <= k
    <2>1. n - l \in T
        OBVIOUS
    <2>2. t <= n - l
        BY <1>2, <2>1
    <2>3. QED
        BY <1>3, <2>2
<1>5. QED
    BY <1>4
-----------------------------------------------------------------------------
(* The block tree: Back is defined by recursion, which has a solution.       *)

Here == [b \in Blocks |-> b]
Before1(g) == [b \in Blocks |-> g[Parent[b]]]
IsBack(g) == g = [k \in Nat |-> IF k = 0 THEN Here ELSE Before1(g[k - 1])]

LEMMA BackChosen == Back = CHOOSE g : IsBack(g)
BY Zenon DEF Back, IsBack, Here, Before1

Walked(n, r) ==
    /\ r \in [Nat -> [Blocks -> Blocks]] /\ r[0] = Here
    /\ \A k \in 1..n : r[k] = Before1(r[k - 1])

LEMMA TreeTypes ==
    /\ Genesis \in Blocks /\ Here \in [Blocks -> Blocks]
    /\ \A b \in Blocks : Parent[b] \in Blocks /\ Height[b] \in Nat
    /\ \A g \in [Blocks -> Blocks] : Before1(g) \in [Blocks -> Blocks]
BY CompactionConstants DEF Here, Before1

LEMMA WalkExists == ASSUME NEW n \in Nat PROVE \E r : Walked(n, r)
<1> DEFINE P == {k \in Nat : \E r : Walked(k, r)}
<1>1. 0 \in P
    <2> DEFINE r == [k \in Nat |-> Here]
    <2>1. r \in [Nat -> [Blocks -> Blocks]] /\ r[0] = Here
        BY TreeTypes
    <2> HIDE DEF r
    <2>2. Walked(0, r)
        BY <2>1 DEF Walked
    <2>3. QED
        BY <2>2
<1>2. ASSUME NEW k \in Nat, k \in P PROVE k + 1 \in P
    <2>1. PICK r : Walked(k, r)
        BY <1>2
    <2>2. r \in [Nat -> [Blocks -> Blocks]] /\ r[k] \in [Blocks -> Blocks]
        BY <2>1 DEF Walked
    <2> DEFINE y == Before1(r[k])
               q == [r EXCEPT ![k + 1] = y]
    <2>3. y \in [Blocks -> Blocks]
        BY <2>2, TreeTypes
    <2> HIDE DEF y
    <2>4. q \in [Nat -> [Blocks -> Blocks]] /\ q[k + 1] = y /\ \A j \in 0..k : q[j] = r[j]
        BY <2>2, <2>3
    <2> HIDE DEF q
    <2>5. ASSUME NEW j \in 1..(k + 1) PROVE q[j] = Before1(q[j - 1])
        <3>1. j - 1 \in 0..k /\ (j = k + 1 \/ (j \in 1..k /\ j \in 0..k))
            BY ONLY k \in Nat, j \in 1..(k + 1)
        <3>2. CASE j = k + 1
            <4>1. q[j - 1] = r[k]
                BY <2>4, <3>1, <3>2
            <4>2. QED
                BY <2>4, <3>2, <4>1 DEF y
        <3>3. CASE j \in 1..k /\ j \in 0..k
            <4>1. q[j] = r[j] /\ q[j - 1] = r[j - 1]
                BY <2>4, <3>1, <3>3
            <4>2. r[j] = Before1(r[j - 1])
                BY <2>1, <3>3 DEF Walked
            <4>3. QED
                BY <4>1, <4>2
        <3>4. QED
            BY <3>1, <3>2, <3>3
    <2>6. q[0] = Here
        BY <2>1, <2>4 DEF Walked
    <2>7. Walked(k + 1, q)
        BY <2>4, <2>5, <2>6 DEF Walked
    <2>8. QED
        BY <2>7
<1>3. Nat \subseteq P
    <2> HIDE DEF P
    <2> QED BY <1>1, <1>2, Induction
<1>4. QED
    BY <1>3

LEMMA WalksAgree ==
    ASSUME NEW n \in Nat, NEW m \in Nat, NEW r, NEW q, Walked(n, r), Walked(m, q)
    PROVE  \A k \in Nat : k <= n /\ k <= m => r[k] = q[k]
<1> DEFINE P == {k \in Nat : k <= n /\ k <= m => r[k] = q[k]}
<1>1. 0 \in P
    BY DEF Walked
<1>2. ASSUME NEW k \in Nat, k \in P PROVE k + 1 \in P
    <2> SUFFICES ASSUME k + 1 <= n, k + 1 <= m PROVE r[k + 1] = q[k + 1]
        OBVIOUS
    <2>1. r[k] = q[k] /\ k + 1 \in 1..n /\ k + 1 \in 1..m /\ (k + 1) - 1 = k
        BY <1>2
    <2>2. r[k + 1] = Before1(r[k]) /\ q[k + 1] = Before1(q[k])
        BY <2>1 DEF Walked
    <2>3. QED
        BY <2>1, <2>2
<1>3. Nat \subseteq P
    <2> HIDE DEF P
    <2> QED BY <1>1, <1>2, Induction
<1>4. QED
    BY <1>3

LEMMA BackExists == \E g : IsBack(g)
<1> DEFINE W(k) == CHOOSE r : Walked(k, r)
           g == [k \in Nat |-> W(k)[k]]
<1>1. ASSUME NEW k \in Nat PROVE Walked(k, W(k))
    BY WalkExists
<1>2. ASSUME NEW k \in Nat PROVE g[k] = IF k = 0 THEN Here ELSE Before1(g[k - 1])
    <2>1. CASE k = 0
        BY <1>1, <2>1 DEF Walked
    <2>2. CASE k # 0
        <3>1. k - 1 \in Nat /\ k - 1 <= k /\ k - 1 <= k - 1 /\ k \in 1..k
            BY <2>2
        <3>2. Walked(k, W(k)) /\ Walked(k - 1, W(k - 1))
            BY <1>1, <3>1
        <3> HIDE DEF W
        <3>3. W(k)[k - 1] = W(k - 1)[k - 1]
            BY <3>1, <3>2, WalksAgree
        <3>4. W(k)[k] = Before1(W(k)[k - 1])
            BY <3>1, <3>2 DEF Walked
        <3>5. QED
            BY <2>2, <3>1, <3>3, <3>4
    <2>3. QED
        BY <2>1, <2>2
<1>3. g = [k \in Nat |-> g[k]]
    OBVIOUS
<1> HIDE DEF g
<1>4. g = [k \in Nat |-> IF k = 0 THEN Here ELSE Before1(g[k - 1])]
    BY <1>2, <1>3
<1>5. QED
    BY <1>4 DEF IsBack

LEMMA BackStep ==
    /\ Back[0] = Here
    /\ \A k \in Nat : Back[k + 1] = Before1(Back[k])
<1>1. IsBack(Back)
    BY BackChosen, BackExists
<1>2. \A k \in Nat : Back[k] = IF k = 0 THEN Here ELSE Before1(Back[k - 1])
    BY <1>1 DEF IsBack
<1>3. ASSUME NEW k \in Nat PROVE Back[k + 1] = Before1(Back[k])
    <2>1. k + 1 \in Nat /\ k + 1 # 0 /\ (k + 1) - 1 = k
        OBVIOUS
    <2>2. QED
        BY <1>2, <2>1
<1>4. QED
    BY <1>2, <1>3

\* GetAncestor walks down to the height it is asked for.
LEMMA AncestorHeight ==
    ASSUME NEW b \in Blocks, NEW h \in Nat
    PROVE  /\ AncestorAt(b, h) \in Blocks
           /\ h <= Height[b] => Height[AncestorAt(b, h)] = h
<1> DEFINE P == {k \in Nat : /\ Back[k] \in [Blocks -> Blocks]
                            /\ \A c \in Blocks : k <= Height[c] => Height[Back[k][c]] = Height[c] - k}
<1>1. 0 \in P
    <2>1. Back[0] = Here /\ \A c \in Blocks : Here[c] = c /\ Height[c] \in Nat
        BY BackStep, TreeTypes DEF Here
    <2>2. QED
        BY <2>1, TreeTypes
<1>2. ASSUME NEW k \in Nat, k \in P PROVE k + 1 \in P
    <2>1. Back[k + 1] = Before1(Back[k]) /\ Back[k] \in [Blocks -> Blocks]
        BY <1>2, BackStep
    <2>2. Back[k + 1] \in [Blocks -> Blocks]
        BY <2>1, TreeTypes
    <2>3. ASSUME NEW c \in Blocks, k + 1 <= Height[c] PROVE Height[Back[k + 1][c]] = Height[c] - (k + 1)
        <3>1. Parent[c] \in Blocks /\ Height[c] = Height[Parent[c]] + 1 /\ Height[Parent[c]] \in Nat
            BY <2>3, CompactionConstants, TreeTypes
        <3>2. Back[k + 1][c] = Back[k][Parent[c]]
            BY <2>1 DEF Before1
        <3>3. Height[Back[k][Parent[c]]] = Height[Parent[c]] - k
            BY <1>2, <2>3, <3>1
        <3>4. QED
            BY <3>1, <3>2, <3>3
    <2>4. QED
        BY <2>2, <2>3
<1>3. Nat \subseteq P
    <2> HIDE DEF P
    <2> QED BY <1>1, <1>2, Induction
<1>4. CASE Height[b] <= h
    BY <1>4, TreeTypes DEF AncestorAt
<1>5. CASE ~(Height[b] <= h)
    <2>1. Height[b] - h \in Nat /\ Height[b] - h <= Height[b] /\ Height[b] \in Nat
        BY <1>5, TreeTypes
    <2>2. Height[b] - h \in P
        BY <1>3, <2>1
    <2>3. AncestorAt(b, h) = Back[Height[b] - h][b]
        BY <1>5 DEF AncestorAt
    <2>4. QED
        BY <2>1, <2>2, <2>3
<1>6. QED
    BY <1>4, <1>5
-----------------------------------------------------------------------------
(* The inductive invariant.                                                  *)

\* The stored blocks of a file.
DataOf(idx, f) == {b \in Blocks : idx[b].st = "data" /\ idx[b].file = f}

\* Only stored blocks have a place; a valid block has undo data, Genesis none.
Shape(idx) ==
    \A b \in Blocks :
        /\ idx[b].st # "data" => /\ idx[b].file = 0 /\ idx[b].pos = 0 /\ idx[b].upos = 0
                                 /\ ~idx[b].valid /\ ~idx[b].pruned
        /\ idx[b].valid => idx[b].upos # 0
        /\ b = Genesis => idx[b].upos = 0

\* The counters of a file bound the places its blocks have: no two have the same,
\* and each undo record belongs to one of them.
PlacedIn(idx, f, i) ==
    /\ \A b \in DataOf(idx, f) : idx[b].pos \in 1..i.n /\ idx[b].upos \in 0..i.u
    /\ \A b, c \in DataOf(idx, f) : idx[b].pos = idx[c].pos => b = c
    /\ \A q \in 1..i.u : \E b \in DataOf(idx, f) : idx[b].upos = q
    /\ i.n # 0 => DataOf(idx, f) # {}
Placed(idx, inf) == \A f \in Files : PlacedIn(idx, f, inf[f])

\* Above the append file there is no gap.
Gapless(inf, lst) ==
    \A f, g \in Files : lst < f /\ f < g /\ inf[g].n # 0 => inf[f].n # 0

\* The database lags behind: what it says is stored is stored, in the same place
\* but for the blocks of a file that a pass has retired since.  If no write fails,
\* that is the file of the pass that has yet to flush.
Retired(f) ==
    /\ f < last /\ info[f] = NoInfo
    /\ setting.fail \/ (pass.pc = "flush" /\ flushing # "pass" /\ f = pass.src)
Lags ==
    \A b \in Blocks : disk.index[b].st = "data" =>
        /\ index[b].st = "data" /\ disk.index[b].pos = index[b].pos
        /\ disk.index[b].upos \in {0, index[b].upos}
        /\ disk.index[b].file = index[b].file \/ Retired(disk.index[b].file)
Behind == disk.last <= last /\ Lags

\* A second name of an undo file is below the append file, its blocks are
\* stripped, and where it has blocks the first name has none.
Linked(g) == rev[g] \notin {None, g}
LinkSafe(g) ==
    /\ g < disk.last /\ rev[g] < disk.last
    /\ \A b \in DataOf(index, g) : index[b].pruned
    /\ \A b \in DataOf(disk.index, g) : disk.index[b].pruned
    /\ DataOf(index, g) # {} => DataOf(index, rev[g]) = {}
    /\ DataOf(disk.index, g) # {} => DataOf(index, rev[g]) = {} /\ DataOf(disk.index, rev[g]) = {}
Names == \A g \in Files : Linked(g) => LinkSafe(g)

\* What a pass will remove is not in use.
Sweeping ==
    \A f \in pass.orphans :
        /\ f < last /\ DataOf(index, f) = {}
        /\ setting.fail \/ DataOf(disk.index, f) = {}

\* Up to its commit a pass has the blocks of its source, stripped of nothing and
\* with their undo data, and a target that nobody uses.
Copying ==
    pass.pc \in {"rewrite", "link", "commit"} =>
        /\ pass.moving = DataOf(index, pass.src) /\ pass.moving # {}
        /\ \A b \in pass.moving : ~index[b].pruned /\ (b # Genesis => index[b].upos # 0)
        /\ DataOf(index, pass.target) = {} /\ DataOf(disk.index, pass.target) = {}
        /\ \A g \in Files : Linked(g) => rev[g] # pass.target
        /\ Linked(pass.target) => pass.pc = "commit" /\ rev[pass.target] = pass.src
        /\ pass.pc # "rewrite" =>
            \A b \in pass.moving : blk[pass.target][index[b].pos] = [block |-> b, stripped |-> TRUE]
        /\ pass.pc = "commit" /\ rev[pass.src] # None => rev[pass.target] = rev[pass.src]

Passing ==
    /\ pass.pc \notin {"idle", "sweep"} => pass.src < pass.target /\ pass.target < disk.last
    /\ pass.pc \in {"flush", "deleteBlk", "deleteRev"} => DataOf(index, pass.src) = {}
    /\ pass.pc # "sweep" => pass.orphans = {}
    /\ flushing = "pass" => pass.pc = "flush"

\* ActivateBestChainStep connects stored blocks.
Connecting ==
    most # None => \A h \in 0..Height[most] : index[AncestorAt(most, h)].st = "data"

Placing == /\ Shape(index) /\ Shape(disk.index)
           /\ Placed(index, info) /\ Placed(disk.index, disk.info)
           /\ Gapless(info, last) /\ Gapless(disk.info, disk.last)

IInv == /\ TypeOK /\ Placing /\ Behind /\ Names /\ Sweeping /\ Copying /\ Passing
        /\ Connecting /\ ReadsResolve
-----------------------------------------------------------------------------
(* Counting.                                                                 *)

LEMMA ConstantTypes ==
    /\ Capacity \in Nat /\ Capacity # 0 /\ MaxFile \in Nat /\ None \notin Blocks /\ None \notin Files
    /\ 0 \in Files /\ \A f \in Files : f \in Nat
BY CompactionConstants DEF Files

\* A stored block without undo data leaves room for one more undo record.
LEMMA UndoFits ==
    ASSUME NEW idx, NEW f, NEW i \in InfoType, PlacedIn(idx, f, i),
           NEW b \in DataOf(idx, f), idx[b].upos = 0
    PROVE  i.u + 1 \in 1..Capacity
<1>1. i.n \in 0..Capacity /\ i.u \in 0..Capacity /\ i.n \in Nat /\ i.u \in Nat /\ Capacity \in Nat
    BY ConstantTypes DEF InfoType
<1> DEFINE Owner(q) == IF q = 0 THEN b ELSE CHOOSE c \in DataOf(idx, f) : idx[c].upos = q
           place == [q \in 0..i.u |-> idx[Owner(q)].pos]
<1>2. ASSUME NEW q \in 0..i.u PROVE Owner(q) \in DataOf(idx, f) /\ idx[Owner(q)].upos = q
    <2>1. CASE q = 0
        BY <2>1
    <2>2. CASE q # 0
        <3>1. q \in 1..i.u
            BY <1>1, <2>2
        <3>2. \E c \in DataOf(idx, f) : idx[c].upos = q
            BY <3>1 DEF PlacedIn
        <3>3. QED
            BY <2>2, <3>2
    <2>3. QED
        BY <2>1, <2>2
<1> HIDE DEF Owner
<1>3. place \in Injection(0..i.u, 1..i.n)
    <2>1. place \in [0..i.u -> 1..i.n]
        BY <1>2 DEF PlacedIn
    <2>2. ASSUME NEW p \in 0..i.u, NEW q \in 0..i.u, place[p] = place[q] PROVE p = q
        <3>1. Owner(p) = Owner(q)
            BY <1>2, <2>2 DEF PlacedIn
        <3>2. QED
            BY <1>2, <3>1
    <2> HIDE DEF place
    <2>3. QED
        BY ONLY <2>1, <2>2, Fun_IsInj
<1>4. IsFiniteSet(0..i.u) /\ Cardinality(0..i.u) = i.u + 1
    <2>1. 0 \in Int /\ i.u \in Int /\ 0 <= i.u
        BY <1>1
    <2>2. IsFiniteSet(0..i.u) /\ Cardinality(0..i.u) = i.u - 0 + 1
        BY <2>1, FS_Interval
    <2>3. QED
        BY <1>1, <2>2
<1>5. IsFiniteSet(1..i.n) /\ Cardinality(1..i.n) = i.n
    <2>1. 1 \in Int /\ i.n \in Int
        BY <1>1
    <2>2. IsFiniteSet(1..i.n) /\ Cardinality(1..i.n) = IF 1 > i.n THEN 0 ELSE i.n - 1 + 1
        BY <2>1, FS_Interval
    <2>3. QED
        BY <1>1, <2>2
<1>6. Cardinality(0..i.u) <= Cardinality(1..i.n)
    <2> HIDE DEF place
    <2>1. \E g : g \in Injection(0..i.u, 1..i.n)
        BY <1>3
    <2>2. QED
        BY <1>4, <1>5, <2>1, FS_Injection
<1>7. QED
    BY <1>1, <1>4, <1>5, <1>6

\* HighestUsed is the greatest number in use.
LEMMA Highest ==
    ASSUME TypeOK
    PROVE  /\ HighestUsed \in Files /\ last <= HighestUsed
           /\ HighestUsed \in Referenced \cup {last} \cup {f \in Files : info[f] # NoInfo}
           /\ \A f \in Files : info[f] # NoInfo => f <= HighestUsed
           /\ \A b \in Blocks : index[b].st = "data" => index[b].file <= HighestUsed
<1> DEFINE used == Referenced \cup {last} \cup {f \in Files : info[f] # NoInfo}
<1>1. used \subseteq 0..MaxFile /\ last \in used
    <2>1. \A b \in Blocks : index[b] \in Entries
        BY DEF TypeOK
    <2>2. \A b \in Blocks : index[b].file \in Files
        BY <2>1 DEF Entries
    <2>3. last \in Files
        BY DEF TypeOK
    <2>4. QED
        BY <2>2, <2>3 DEF Referenced, Files
<1>2. HighestUsed = CHOOSE f \in used : \A g \in used : g <= f
    BY DEF HighestUsed
<1>3. \A b \in Blocks : index[b].st = "data" => index[b].file \in used
    BY DEF Referenced
<1>4. \A f \in Files : info[f] # NoInfo => f \in used
    OBVIOUS
<1> HIDE DEF used
<1>5. \E k \in used : \A l \in used : l <= k
    BY <1>1, ConstantTypes, GreatestNumber
<1>6. HighestUsed \in used /\ \A g \in used : g <= HighestUsed
    BY <1>2, <1>5
<1>7. QED
    BY <1>1, <1>3, <1>4, <1>6 DEF used, Files
-----------------------------------------------------------------------------
(* The start.                                                                *)

\* A file of a setting holds its blocks in its first places.
LEMMA StoredFits ==
    ASSUME NEW l \in Settings, NEW f \in Files
    PROVE  LET n == Cardinality(StoredAt(l, f))
           IN  /\ n \in 0..Capacity
               /\ n # 0 <=> StoredAt(l, f) # {}
               /\ \A b \in StoredAt(l, f) : l.pos[b] \in 1..n /\ l.pos[b] \in Slots
               /\ \A b, c \in StoredAt(l, f) : l.pos[b] = l.pos[c] => b = c
<1> DEFINE S == StoredAt(l, f)
           n == Cardinality(S)
           at == [b \in S |-> l.pos[b]]
<1>1. \A b \in S : l.pos[b] \in 1..Capacity
    BY CompactionConstants DEF StoredAt, Slots
<1>2. \A b, c \in S : l.pos[b] = l.pos[c] => b = c
    BY CompactionConstants DEF StoredAt
<1>3. at \in Injection(S, 1..Capacity)
    <2>1. at \in [S -> 1..Capacity] /\ \A b, c \in S : at[b] = at[c] => b = c
        BY <1>1, <1>2
    <2> HIDE DEF at, S
    <2>2. QED
        BY ONLY <2>1, Fun_IsInj
<1>4. IsFiniteSet(1..Capacity) /\ Cardinality(1..Capacity) = Capacity
    <2>1. 1 \in Int /\ Capacity \in Int /\ Capacity >= 1
        BY ConstantTypes
    <2>2. IsFiniteSet(1..Capacity) /\ Cardinality(1..Capacity) = IF 1 > Capacity THEN 0 ELSE Capacity - 1 + 1
        BY <2>1, FS_Interval
    <2>3. QED
        BY <2>1, <2>2
<1>5. IsFiniteSet(S) /\ n <= Capacity
    <2> HIDE DEF at, S
    <2>1. \E g : g \in Injection(S, 1..Capacity)
        BY <1>3
    <2>2. QED
        BY <1>4, <2>1, FS_Injection
<1>6. n \in Nat /\ (n = 0 <=> S = {})
    <2> HIDE DEF S
    <2> QED BY <1>5, FS_CardinalityType, FS_EmptySet
<1>7. \A p \in 1..n : \E b \in S : l.pos[b] = p
    BY CompactionConstants DEF StoredAt
<1> DEFINE T == {b \in S : l.pos[b] \in 1..n}
           on == [b \in T |-> l.pos[b]]
<1>8. on \in Surjection(T, 1..n)
    <2>1. on \in [T -> 1..n] /\ \A p \in 1..n : \E b \in T : on[b] = p
        BY <1>7
    <2> HIDE DEF on, T
    <2>2. QED
        BY ONLY <2>1, Fun_IsSurj
<1>9. T \subseteq S
    OBVIOUS
<1>10. IsFiniteSet(T) /\ Cardinality(T) <= n /\ (Cardinality(T) = n => S = T) /\ Cardinality(T) \in Nat
    <2> HIDE DEF T, S
    <2> QED BY <1>5, <1>9, FS_Subset, FS_CardinalityType
<1>11. Cardinality(1..n) <= Cardinality(T)
    <2> HIDE DEF T, on, n
    <2>1. \E g : g \in Surjection(T, 1..n)
        BY <1>8
    <2>2. QED
        BY <1>10, <2>1, FS_Surjection
<1>12. Cardinality(1..n) = n
    <2>1. 1 \in Int /\ n \in Int
        BY <1>6
    <2> HIDE DEF n
    <2>2. Cardinality(1..n) = IF 1 > n THEN 0 ELSE n - 1 + 1
        BY <2>1, FS_Interval
    <2>3. QED
        BY <1>6, <2>2
<1>13. S = T
    <2> HIDE DEF T, S
    <2> QED BY <1>6, <1>10, <1>11, <1>12
<1>14. \A b \in S : l.pos[b] \in 1..n
    BY <1>13
<1>15. n \in 0..Capacity
    <2> HIDE DEF n
    <2> QED BY <1>5, <1>6, ConstantTypes
<1>16. QED
    BY <1>1, <1>2, <1>6, <1>14, <1>15 DEF Slots

LEMMA InitInv ==
    ASSUME \A l \in Settings : NoGap(l), Init
    PROVE  IInv
<1>1. PICK l \in Settings :
        /\ setting = l
        /\ index = [b \in Blocks |->
            IF b \in l.stored
            THEN [NewEntry EXCEPT !.st = "data", !.file = l.file[b], !.pos = l.pos[b]]
            ELSE [NewEntry EXCEPT !.st = IF b \in l.known THEN "header" ELSE "none"]]
        /\ info = [f \in Files |-> [n |-> Cardinality(StoredAt(l, f)), u |-> 0]]
        /\ last = l.last
        /\ disk = [index |-> index, info |-> info, last |-> last]
        /\ tip = Genesis /\ diskTip = Genesis /\ ibd = TRUE
        /\ bestHeader \in {b \in l.known : \A c \in l.known : Height[c] <= Height[b]}
        /\ blk = [f \in Files |-> [p \in Slots |->
            IF \E b \in StoredAt(l, f) : l.pos[b] = p
            THEN [block |-> CHOOSE b \in StoredAt(l, f) : l.pos[b] = p, stripped |-> FALSE]
            ELSE None]]
        /\ rev = [f \in Files |-> None]
        /\ undo = [f \in Files |-> [p \in Slots |-> None]]
        /\ most = None /\ oldTip = Genesis /\ flushing = "no"
        /\ pass = NoPass
        /\ crashes = 0 /\ lostBlock = FALSE /\ deepReorg = FALSE
    BY Zenon DEF Init
<1>2. /\ l.known \subseteq Blocks /\ l.stored \subseteq Blocks
      /\ l.file \in [Blocks -> Files] /\ l.last \in Files /\ NoGap(l)
    BY CompactionConstants DEF SettingType
<1> DEFINE n(f) == Cardinality(StoredAt(l, f))
<1>3. ASSUME NEW f \in Files
      PROVE  /\ n(f) \in 0..Capacity
             /\ n(f) # 0 <=> StoredAt(l, f) # {}
             /\ \A b \in StoredAt(l, f) : l.pos[b] \in 1..n(f) /\ l.pos[b] \in Slots
             /\ \A b, c \in StoredAt(l, f) : l.pos[b] = l.pos[c] => b = c
    BY StoredFits
<1>4. ASSUME NEW b \in Blocks
      PROVE  /\ index[b].upos = 0 /\ index[b].pruned = FALSE /\ index[b].valid = FALSE
             /\ index[b].failed = FALSE
             /\ b \in l.stored => index[b].st = "data" /\ index[b].file = l.file[b] /\ index[b].pos = l.pos[b]
             /\ b \notin l.stored => /\ index[b].st \in {"header", "none"}
                                     /\ index[b].file = 0 /\ index[b].pos = 0
    BY <1>1 DEF NewEntry
<1>5. ASSUME NEW f \in Files PROVE DataOf(index, f) = StoredAt(l, f)
    BY <1>2, <1>4 DEF DataOf, StoredAt
<1>6. ASSUME NEW f \in Files PROVE info[f] = [n |-> n(f), u |-> 0] /\ info[f].n = n(f) /\ info[f].u = 0
    BY <1>1
<1>7. \A b \in l.stored : l.pos[b] \in 1..n(l.file[b]) /\ l.pos[b] \in 1..Capacity
    BY <1>2, <1>3 DEF StoredAt, Slots
<1> HIDE DEF n
<1>8. index \in [Blocks -> Entries]
    <2>1. \A b \in Blocks : index[b] \in Entries
        <3> SUFFICES ASSUME NEW b \in Blocks PROVE index[b] \in Entries
            OBVIOUS
        <3>1. CASE b \in l.stored
            <4>1. index[b] = [st |-> "data", file |-> l.file[b], pos |-> l.pos[b], upos |-> 0,
                              pruned |-> FALSE, valid |-> FALSE, failed |-> FALSE]
                BY <1>1, <3>1 DEF NewEntry
            <4>2. l.file[b] \in Files /\ l.pos[b] \in 0..Capacity /\ 0 \in 0..Capacity
                BY <1>2, <1>7, <3>1, ConstantTypes
            <4>3. QED
                BY <4>1, <4>2 DEF Entries
        <3>2. CASE b \notin l.stored
            <4>1. \E s \in {"header", "none"} :
                    index[b] = [st |-> s, file |-> 0, pos |-> 0, upos |-> 0,
                                pruned |-> FALSE, valid |-> FALSE, failed |-> FALSE]
                BY <1>1, <3>2 DEF NewEntry
            <4>2. 0 \in Files /\ 0 \in 0..Capacity
                BY ConstantTypes
            <4>3. QED
                BY <4>1, <4>2 DEF Entries
        <3>3. QED
            BY <3>1, <3>2
    <2>2. index = [b \in Blocks |-> index[b]]
        BY <1>1
    <2>3. QED
        BY <2>1, <2>2
<1>9. info \in [Files -> InfoType]
    <2>1. ASSUME NEW f \in Files PROVE info[f] \in InfoType
        <3>1. info[f] = [n |-> n(f), u |-> 0] /\ n(f) \in 0..Capacity /\ 0 \in 0..Capacity
            BY <1>3, <1>6, ConstantTypes DEF n
        <3>2. QED
            BY <3>1 DEF InfoType
    <2>2. info = [f \in Files |-> info[f]]
        BY <1>1
    <2>3. QED
        BY <2>1, <2>2
<1>10. ASSUME NEW f \in Files, NEW b \in StoredAt(l, f)
       PROVE  blk[f][l.pos[b]] = [block |-> b, stripped |-> FALSE]
    <2>1. l.pos[b] \in Slots
        BY <1>3, <1>10
    <2>2. b = CHOOSE c \in StoredAt(l, f) : l.pos[c] = l.pos[b]
        BY <1>3, <1>10
    <2>3. QED
        BY <1>1, <2>1, <2>2
<1>11. blk \in [Files -> [Slots -> Content]]
    <2>1. ASSUME NEW f \in Files, NEW p \in Slots PROVE blk[f][p] \in Content
        <3>1. CASE \E b \in StoredAt(l, f) : l.pos[b] = p
            <4>1. PICK b \in StoredAt(l, f) : l.pos[b] = p
                BY <3>1
            <4>2. b \in Blocks
                BY <1>2 DEF StoredAt
            <4>3. blk[f][p] = [block |-> b, stripped |-> FALSE]
                BY <1>10, <4>1
            <4>4. QED
                BY <4>2, <4>3 DEF Content
        <3>2. CASE ~ \E b \in StoredAt(l, f) : l.pos[b] = p
            <4>1. blk[f][p] = None
                BY <1>1, <3>2
            <4>2. QED
                BY <4>1 DEF Content
        <3>3. QED
            BY <3>1, <3>2
    <2>2. blk = [f \in Files |-> [p \in Slots |-> blk[f][p]]]
        BY <1>1
    <2>3. QED
        BY <2>1, <2>2
<1>12. /\ disk.index = index /\ disk.info = info /\ disk.last = last
       /\ disk \in [index : [Blocks -> Entries], info : [Files -> InfoType], last : Files]
    BY <1>1, <1>2, <1>8, <1>9
<1>13. /\ pass.pc = "idle" /\ pass.orphans = {}
       /\ pass \in PassType
    BY <1>1, ConstantTypes DEF NoPass, PassType
<1>14. TypeOK
    <2>1. rev \in [Files -> Files \cup {None}] /\ undo \in [Files -> [Slots -> Blocks \cup {None}]]
        BY <1>1
    <2>2. tip \in Blocks /\ diskTip \in Blocks /\ oldTip \in Blocks /\ bestHeader \in Blocks
        BY <1>1, <1>2, TreeTypes
    <2>3. QED
        BY <1>1, <1>2, <1>8, <1>9, <1>11, <1>12, <1>13, <2>1, <2>2 DEF TypeOK
<1>15. Shape(index)
    BY <1>4 DEF Shape
<1>16. Placed(index, info)
    <2> SUFFICES ASSUME NEW f \in Files PROVE PlacedIn(index, f, info[f])
        BY DEF Placed
    <2>1. ASSUME NEW b \in StoredAt(l, f)
          PROVE  b \in Blocks /\ b \in l.stored /\ index[b].pos = l.pos[b] /\ index[b].upos = 0
        BY <1>2, <1>4 DEF StoredAt
    <2>2. /\ \A b \in StoredAt(l, f) : index[b].pos \in 1..info[f].n /\ index[b].upos \in 0..info[f].u
          /\ \A b, c \in StoredAt(l, f) : index[b].pos = index[c].pos => b = c
          /\ info[f].n # 0 => StoredAt(l, f) # {}
        <3>1. info[f].n = n(f) /\ info[f].u = 0
            BY <1>6 DEF n
        <3>2. /\ n(f) # 0 => StoredAt(l, f) # {}
              /\ \A b \in StoredAt(l, f) : l.pos[b] \in 1..n(f)
              /\ \A b, c \in StoredAt(l, f) : l.pos[b] = l.pos[c] => b = c
            BY <1>3 DEF n
        <3>3. QED
            BY <2>1, <3>1, <3>2
    <2>3. \A q \in 1..info[f].u : FALSE
        <3>1. info[f].u = 0
            BY <1>6
        <3>2. QED
            BY ONLY <3>1
    <2>4. QED
        BY <1>5, <2>2, <2>3 DEF PlacedIn
<1>17. Gapless(info, last)
    BY <1>1, <1>2, <1>3, <1>6 DEF Gapless, NoGap, n
<1>18. Placing
    BY <1>12, <1>15, <1>16, <1>17 DEF Placing
<1>19. Behind
    <2>1. last \in Nat
        BY <1>1, <1>2, ConstantTypes
    <2>2. \A b \in Blocks : index[b].upos = 0
        BY <1>4
    <2>3. QED
        BY ONLY <1>12, <2>1, <2>2 DEF Behind, Lags
<1>20. Names /\ Sweeping /\ Copying /\ Passing /\ Connecting
    BY <1>1, <1>13 DEF Names, Linked, Sweeping, Copying, Passing, Connecting
<1>21. Resolves(index)
    <2> SUFFICES ASSUME NEW b \in Blocks, index[b].st = "data"
                 PROVE  blk[index[b].file][index[b].pos] = [block |-> b, stripped |-> index[b].pruned]
        BY <1>4 DEF Resolves
    <2>1. b \in l.stored /\ index[b].file = l.file[b] /\ index[b].pos = l.pos[b] /\ index[b].pruned = FALSE
        BY <1>4
    <2>2. b \in StoredAt(l, l.file[b]) /\ l.file[b] \in Files
        BY <1>2, <2>1 DEF StoredAt
    <2>3. QED
        BY <1>10, <2>1, <2>2
<1>22. QED
    BY <1>12, <1>14, <1>18, <1>19, <1>20, <1>21 DEF IInv, ReadsResolve
-----------------------------------------------------------------------------
(* What a step does not touch.                                               *)

LEMMA Types ==
    ASSUME TypeOK
    PROVE  /\ \A b \in Blocks :
                /\ index[b] \in Entries /\ index[b].file \in Files
                /\ index[b].pos \in 0..Capacity /\ index[b].upos \in 0..Capacity
                /\ disk.index[b] \in Entries /\ disk.index[b].file \in Files
                /\ disk.index[b].pos \in 0..Capacity /\ disk.index[b].upos \in 0..Capacity
           /\ \A f \in Files :
                /\ f \in Nat
                /\ info[f] \in InfoType /\ info[f].n \in 0..Capacity /\ info[f].u \in 0..Capacity
                /\ disk.info[f] \in InfoType
                /\ blk[f] \in [Slots -> Content] /\ rev[f] \in Files \cup {None}
                /\ undo[f] \in [Slots -> Blocks \cup {None}]
           /\ index \in [Blocks -> Entries] /\ disk.index \in [Blocks -> Entries]
           /\ info \in [Files -> InfoType] /\ disk.info \in [Files -> InfoType]
           /\ last \in Files /\ last \in Nat /\ disk.last \in Files /\ disk.last \in Nat
           /\ tip \in Blocks /\ most \in Blocks \cup {None}
           /\ pass.src \in Files /\ pass.target \in Files /\ pass.moving \subseteq Blocks
           /\ pass.orphans \subseteq Files /\ pass.eligible \subseteq Files
           /\ Capacity \in Nat
<1>1. /\ index \in [Blocks -> Entries] /\ info \in [Files -> InfoType] /\ last \in Files
      /\ disk.index \in [Blocks -> Entries] /\ disk.info \in [Files -> InfoType] /\ disk.last \in Files
      /\ blk \in [Files -> [Slots -> Content]] /\ rev \in [Files -> Files \cup {None}]
      /\ undo \in [Files -> [Slots -> Blocks \cup {None}]]
      /\ tip \in Blocks /\ most \in Blocks \cup {None}
    BY DEF TypeOK
<1>2. /\ pass.src \in Files /\ pass.target \in Files /\ pass.moving \subseteq Blocks
      /\ pass.orphans \subseteq Files /\ pass.eligible \subseteq Files
    BY DEF TypeOK, PassType
<1>3. \A e \in Entries : e.file \in Files /\ e.pos \in 0..Capacity /\ e.upos \in 0..Capacity
    BY DEF Entries
<1>4. \A i \in InfoType : i.n \in 0..Capacity /\ i.u \in 0..Capacity
    BY DEF InfoType
<1>5. \A b \in Blocks : index[b] \in Entries /\ disk.index[b] \in Entries
    BY <1>1
<1>6. \A f \in Files : info[f] \in InfoType /\ disk.info[f] \in InfoType
    BY <1>1
<1>7. QED
    BY <1>1, <1>2, <1>3, <1>4, <1>5, <1>6, ConstantTypes

LEMMA FramePlacing ==
    ASSUME Placing, UNCHANGED <<index, info, last, disk>>
    PROVE  Placing'
BY DEF Placing, Shape, Placed, PlacedIn, DataOf, Gapless

LEMMA FrameNames ==
    ASSUME Names, UNCHANGED <<index, disk, rev>>
    PROVE  Names'
BY DEF Names, Linked, LinkSafe, DataOf

LEMMA FrameResolve ==
    ASSUME ReadsResolve, UNCHANGED <<setting, crashes, index, disk, blk, rev, undo>>
    PROVE  ReadsResolve'
BY DEF ReadsResolve, Resolves

LEMMA FrameBehind ==
    ASSUME Behind, UNCHANGED <<setting, index, info, last, disk>>,
           pass.pc = "flush" /\ flushing # "pass" =>
                pass'.pc = "flush" /\ pass'.src = pass.src /\ flushing' # "pass"
    PROVE  Behind'
BY DEF Behind, Lags, Retired

LEMMA FrameBehindSafe ==
    ASSUME Behind, UNCHANGED <<setting, index, info, last, disk>>, pass.pc # "flush"
    PROVE  Behind'
BY DEF Behind, Lags, Retired

LEMMA FramePass ==
    ASSUME Sweeping, Copying, Passing, UNCHANGED <<setting, index, last, disk, blk, rev, pass>>,
           flushing' = "pass" => flushing = "pass"
    PROVE  Sweeping' /\ Copying' /\ Passing'
BY DEF Sweeping, Copying, Passing, DataOf, Linked

LEMMA FrameConnecting ==
    ASSUME Connecting, UNCHANGED index, most' \in {most, None}
    PROVE  Connecting'
BY DEF Connecting

\* Steps of the node that leave index, database and files alone.
LEMMA QuietInv ==
    ASSUME IInv, LeaveInitialDownload \/ (\E b \in Blocks : BeginActivate(b)) \/ DisconnectTip \/ WriteCoins
    PROVE  IInv'
<1>1. /\ UNCHANGED <<setting, crashes, index, info, last, disk, blk, rev, undo, pass>>
      /\ flushing' = "pass" <=> flushing = "pass"
    BY DEF LeaveInitialDownload, BeginActivate, DisconnectTip, WriteCoins, memory, files, locks,
           history, Release
<1>2. TypeOK'
    <2>1. CASE LeaveInitialDownload
        BY <2>1 DEF IInv, LeaveInitialDownload, TypeOK, memory, files, locks, history
    <2>2. ASSUME NEW b \in Blocks, BeginActivate(b) PROVE TypeOK'
        BY <2>2 DEF IInv, BeginActivate, TypeOK, memory, files, locks, history
    <2>3. CASE DisconnectTip
        <3>1. tip' \in Blocks /\ most' \in Blocks \cup {None} /\ oldTip' \in Blocks /\ flushing' = flushing
            BY <2>3, TreeTypes DEF IInv, DisconnectTip, TypeOK, Release, locks
        <3>2. QED
            BY <2>3, <3>1 DEF IInv, DisconnectTip, TypeOK, memory, files
    <2>4. CASE WriteCoins
        BY <2>4 DEF IInv, WriteCoins, TypeOK, memory, files, history
    <2>5. QED
        BY <2>1, <2>2, <2>3, <2>4
<1>3. Placing' /\ Names' /\ ReadsResolve'
    BY <1>1, FramePlacing, FrameNames, FrameResolve DEF IInv
<1>4. Behind'
    BY <1>1, FrameBehind DEF IInv
<1>5. Sweeping' /\ Copying' /\ Passing'
    BY <1>1, FramePass DEF IInv
<1>6. Connecting'
    <2>1. ASSUME NEW b \in Blocks, BeginActivate(b) PROVE Connecting'
        BY <1>1, <2>1 DEF BeginActivate, Candidates, Complete, Connecting
    <2>2. CASE LeaveInitialDownload \/ DisconnectTip \/ WriteCoins
        <3>1. most' \in {most, None}
            BY <2>2 DEF LeaveInitialDownload, DisconnectTip, WriteCoins, locks, Release
        <3>2. QED
            BY <1>1, <3>1, FrameConnecting DEF IInv
    <2>3. QED
        BY <2>1, <2>2
<1>7. QED
    BY <1>2, <1>3, <1>4, <1>5, <1>6 DEF IInv

\* A step that changes neither which blocks are stored nor where.
SameData ==
    \A c \in Blocks :
        /\ index'[c].st = "data" <=> index[c].st = "data"
        /\ index'[c].file = index[c].file /\ index'[c].pos = index[c].pos
        /\ index'[c].upos = index[c].upos /\ index'[c].pruned = index[c].pruned
        /\ index'[c].valid = index[c].valid

LEMMA SameDataInv ==
    ASSUME IInv, SameData,
           UNCHANGED <<setting, crashes, info, last, disk, blk, rev, undo, pass, flushing>>
    PROVE  Placing' /\ Behind' /\ Names' /\ Sweeping' /\ Copying' /\ Passing' /\ ReadsResolve'
<1>1. \A f : DataOf(index', f) = DataOf(index, f)
    BY DEF SameData, DataOf
<1>2. Placing'
    <2>1. Shape(index') /\ Shape(disk.index)
        BY DEF IInv, Placing, Shape, SameData
    <2>2. Placed(index', info)
        <3> SUFFICES ASSUME NEW f \in Files PROVE PlacedIn(index', f, info[f])
            BY DEF Placed
        <3>1. PlacedIn(index, f, info[f])
            BY DEF IInv, Placing, Placed
        <3>2. \A c \in DataOf(index, f) : c \in Blocks
            BY DEF DataOf
        <3>3. QED
            BY <1>1, <3>1, <3>2 DEF PlacedIn, SameData
    <2>3. Placed(disk.index, disk.info) /\ Gapless(info, last) /\ Gapless(disk.info, disk.last)
        BY DEF IInv, Placing
    <2>4. QED
        BY <2>1, <2>2, <2>3 DEF Placing, Shape, Placed, PlacedIn, DataOf, Gapless
<1>3. Behind'
    BY DEF IInv, Behind, Lags, Retired, SameData
<1>4. Names'
    <2> SUFFICES ASSUME NEW g \in Files, Linked(g) PROVE LinkSafe(g)'
        BY DEF Names, Linked
    <2>1. LinkSafe(g)
        BY DEF IInv, Names
    <2>2. \A b \in DataOf(index, g) : b \in Blocks
        BY DEF DataOf
    <2>3. \A f : DataOf(disk'.index, f) = DataOf(disk.index, f)
        OBVIOUS
    <2>4. QED
        BY <1>1, <2>1, <2>2, <2>3 DEF LinkSafe, SameData
<1>5. Sweeping' /\ Passing'
    BY <1>1 DEF IInv, Sweeping, Passing, DataOf
<1>6. Copying'
    <2> SUFFICES ASSUME pass.pc \in {"rewrite", "link", "commit"} PROVE Copying'
        BY DEF Copying
    <2>1. \A b \in pass.moving : b \in Blocks
        BY DEF IInv, Copying, DataOf
    <2>2. \A b \in pass.moving : index'[b].pruned = index[b].pruned /\ index'[b].upos = index[b].upos
                                 /\ index'[b].pos = index[b].pos
        BY <2>1 DEF SameData
    <2>3. DataOf(index', pass.src) = DataOf(index, pass.src) /\ DataOf(index', pass.target) = DataOf(index, pass.target)
        BY <1>1
    <2>4. DataOf(disk.index, pass.target)' = DataOf(disk.index, pass.target)
        BY DEF DataOf
    <2>5. QED
        BY <2>2, <2>3, <2>4 DEF IInv, Copying, Linked
<1>7. ReadsResolve'
    BY ZenonT(60) DEF IInv, ReadsResolve, Resolves, SameData
<1>8. QED
    BY <1>2, <1>3, <1>4, <1>5, <1>6, <1>7

LEMMA AcceptBlockHeaderInv ==
    ASSUME IInv, NEW b \in Blocks, AcceptBlockHeader(b)
    PROVE  IInv'
<1>1. UNCHANGED <<setting, crashes, info, last, disk, tip, diskTip, ibd, blk, rev, undo, most, oldTip, flushing, pass>>
    BY DEF AcceptBlockHeader, files, locks, history
<1>2. index \in [Blocks -> Entries] /\ TypeOK
    BY DEF IInv, TypeOK
<1>3. index' = [index EXCEPT ![b].st = "header"] /\ index[b].st = "none" /\ most = None
    BY DEF AcceptBlockHeader, Unlocked
<1>4. \A c \in Blocks :
        /\ index'[c].st = IF c = b THEN "header" ELSE index[c].st
        /\ index'[c].file = index[c].file /\ index'[c].pos = index[c].pos
        /\ index'[c].upos = index[c].upos /\ index'[c].pruned = index[c].pruned
        /\ index'[c].valid = index[c].valid
    BY <1>2, <1>3 DEF Entries
<1>5. SameData
    BY <1>3, <1>4 DEF SameData
<1>6. TypeOK'
    <2>1. index' \in [Blocks -> Entries]
        BY <1>2, <1>3 DEF Entries
    <2>2. bestHeader' \in Blocks
        BY <1>2 DEF AcceptBlockHeader, TypeOK
    <2>3. QED
        BY <1>1, <1>2, <2>1, <2>2 DEF TypeOK
<1>7. Connecting'
    BY <1>1, <1>3 DEF Connecting
<1>8. QED
    BY <1>1, <1>5, <1>6, <1>7, SameDataInv DEF IInv
-----------------------------------------------------------------------------
(* Writes to the databases.                                                  *)

LEMMA SavedInv ==
    ASSUME IInv, disk' = Saved, flushing' = "pass" => pass.pc = "flush",
           UNCHANGED <<setting, crashes, index, info, last, blk, rev, undo, pass>>
    PROVE  Placing' /\ Behind' /\ Names' /\ Sweeping' /\ Copying' /\ Passing' /\ ReadsResolve'
<1>1. disk'.index = index /\ disk'.info = info /\ disk'.last = last
    BY DEF Saved
<1>2. disk.last <= last /\ last \in Nat /\ disk.last \in Nat
    BY Types DEF IInv, Behind
<1>3. Placing'
    BY <1>1 DEF IInv, Placing, Shape, Placed, PlacedIn, DataOf, Gapless
<1>4. Behind'
    BY <1>1, <1>2 DEF Behind, Lags
<1>5. Names'
    <2> SUFFICES ASSUME NEW g \in Files, Linked(g) PROVE LinkSafe(g)'
        BY DEF Names, Linked
    <2>1. LinkSafe(g)
        BY DEF IInv, Names
    <2>2. g \in Nat /\ rev[g] \in Nat
        BY Types DEF IInv, Linked
    <2>3. g < last /\ rev[g] < last
        BY <1>2, <2>1, <2>2 DEF LinkSafe
    <2>4. \A f : DataOf(disk'.index, f) = DataOf(index, f) /\ DataOf(index', f) = DataOf(index, f)
        BY <1>1 DEF DataOf
    <2>5. QED
        BY <1>1, <2>1, <2>3, <2>4 DEF LinkSafe
<1>6. Sweeping'
    BY <1>1 DEF IInv, Sweeping, DataOf
<1>7. Copying'
    BY <1>1 DEF IInv, Copying, DataOf, Linked
<1>8. Passing'
    <2>1. pass.target \in Nat
        BY Types DEF IInv
    <2>2. QED
        BY <1>1, <1>2, <2>1 DEF IInv, Passing, DataOf
<1>9. ReadsResolve'
    BY <1>1 DEF IInv, ReadsResolve, Resolves
<1>10. QED
    BY <1>3, <1>4, <1>5, <1>6, <1>7, <1>8, <1>9

LEMMA SavedType ==
    ASSUME TypeOK, disk' = Saved
    PROVE  disk' \in [index : [Blocks -> Entries], info : [Files -> InfoType], last : Files]
BY DEF TypeOK, Saved

LEMMA WriteIndexInv ==
    ASSUME IInv, NEW full \in BOOLEAN, WriteIndex(full)
    PROVE  IInv'
<1>1. /\ disk' = Saved /\ flushing' \in {"node", "no"}
      /\ UNCHANGED <<setting, crashes, index, info, last, blk, rev, undo, pass, most>>
    BY DEF WriteIndex, memory, files, history
<1>2. TypeOK'
    BY <1>1, SavedType DEF IInv, WriteIndex, TypeOK, memory, files, history
<1>3. Connecting'
    BY <1>1, FrameConnecting DEF IInv
<1>4. QED
    BY <1>1, <1>2, <1>3, SavedInv DEF IInv

LEMMA PassWritesIndexInv ==
    ASSUME IInv, PassWritesIndex
    PROVE  IInv'
<1>1. /\ UNCHANGED <<setting, crashes, index, info, last, blk, rev, undo, most, tip, diskTip, bestHeader, ibd, oldTip>>
      /\ pass.pc = "flush" /\ flushing = "no"
    BY DEF PassWritesIndex, memory, files, history, Unlocked
<1>2. CASE disk' = Saved /\ flushing' = "pass" /\ UNCHANGED pass
    <2>1. TypeOK'
        BY <1>1, <1>2, SavedType DEF IInv, TypeOK
    <2>2. Connecting'
        BY <1>1, FrameConnecting DEF IInv
    <2>3. QED
        BY <1>1, <1>2, <2>1, <2>2, SavedInv DEF IInv
<1>3. CASE setting.fail /\ pass' = [pass EXCEPT !.pc = "deleteBlk"] /\ UNCHANGED <<disk, flushing>>
    <2>1. /\ pass'.pc = "deleteBlk" /\ pass'.src = pass.src /\ pass'.target = pass.target
          /\ pass'.orphans = pass.orphans
          /\ pass' \in PassType
        BY <1>3 DEF IInv, TypeOK, PassType
    <2>2. TypeOK'
        BY <1>1, <1>3, <2>1 DEF IInv, TypeOK
    <2>3. Placing' /\ Names' /\ ReadsResolve' /\ Connecting'
        BY <1>1, <1>3, FramePlacing, FrameNames, FrameResolve, FrameConnecting DEF IInv
    <2>4. Behind'
        BY <1>1, <1>3 DEF IInv, Behind, Lags, Retired
    <2>5. Sweeping' /\ Copying' /\ Passing'
        BY <1>1, <1>3, <2>1 DEF IInv, Sweeping, Copying, Passing, DataOf
    <2>6. QED
        BY <2>2, <2>3, <2>4, <2>5 DEF IInv
<1>4. QED
    BY <1>2, <1>3 DEF PassWritesIndex

LEMMA PassWritesCoinsInv ==
    ASSUME IInv, PassWritesCoins
    PROVE  IInv'
<1>1. /\ UNCHANGED <<setting, crashes, index, info, last, disk, blk, rev, undo, most, tip, bestHeader, ibd, oldTip>>
      /\ flushing = "pass" /\ flushing' = "no" /\ diskTip' \in {tip, diskTip}
      /\ pass' = [pass EXCEPT !.pc = "deleteBlk"]
    BY DEF PassWritesCoins, memory, files, history
<1>2. pass.pc = "flush"
    BY <1>1 DEF IInv, Passing
<1>3. /\ pass'.pc = "deleteBlk" /\ pass'.src = pass.src /\ pass'.target = pass.target
      /\ pass'.orphans = pass.orphans
      /\ pass' \in PassType
    BY <1>1 DEF IInv, TypeOK, PassType
<1>4. TypeOK'
    BY <1>1, <1>3 DEF IInv, TypeOK
<1>5. Placing' /\ Names' /\ ReadsResolve' /\ Connecting'
    BY <1>1, FramePlacing, FrameNames, FrameResolve, FrameConnecting DEF IInv
<1>6. Behind'
    BY <1>1, FrameBehind DEF IInv
<1>7. Sweeping' /\ Copying' /\ Passing'
    BY <1>1, <1>2, <1>3 DEF IInv, Sweeping, Copying, Passing, DataOf
<1>8. QED
    BY <1>4, <1>5, <1>6, <1>7 DEF IInv
-----------------------------------------------------------------------------
(* The pass, up to and after its commit.                                     *)

\* A file has blocks, or its counters are null.
LEMMA EmptyInfo ==
    ASSUME NEW idx, NEW f, NEW i \in InfoType, PlacedIn(idx, f, i)
    PROVE  (i.n = 0 <=> i = NoInfo) /\ (i.n = 0 <=> DataOf(idx, f) = {})
<1>1. i = [n |-> i.n, u |-> i.u] /\ i.n \in Nat /\ i.u \in Nat
    BY ConstantTypes DEF InfoType
<1>2. i.n = 0 <=> DataOf(idx, f) = {}
    BY <1>1 DEF PlacedIn
<1>3. ASSUME i.n = 0 PROVE i.u = 0
    <2>1. ASSUME i.u # 0 PROVE FALSE
        <3>1. 1 \in 1..i.u
            BY <1>1, <2>1
        <3>2. QED
            BY <1>2, <1>3, <3>1 DEF PlacedIn
    <2>2. QED
        BY <2>1
<1>4. QED
    BY <1>1, <1>2, <1>3 DEF NoInfo

LEMMA EmptyFile ==
    ASSUME IInv, NEW f \in Files
    PROVE  /\ info[f].n = 0 <=> info[f] = NoInfo
           /\ info[f].n = 0 <=> DataOf(index, f) = {}
           /\ disk.info[f].n = 0 <=> DataOf(disk.index, f) = {}
<1>1. PlacedIn(index, f, info[f]) /\ PlacedIn(disk.index, f, disk.info[f])
    BY DEF IInv, Placing, Placed
<1>2. info[f] \in InfoType /\ disk.info[f] \in InfoType
    BY Types DEF IInv
<1>3. QED
    BY <1>1, <1>2, EmptyInfo

LEMMA OrphanUnused ==
    ASSUME IInv, pass.pc = "idle", NEW f \in Orphans
    PROVE  f < last /\ DataOf(index, f) = {} /\ (setting.fail \/ DataOf(disk.index, f) = {})
<1>1. /\ f \in 0..HighestUsed /\ f \notin Referenced /\ f # last /\ info[f].n = 0
      /\ HighestUsed \in Files /\ last \in Files /\ f \in Files
    <2>1. HighestUsed \in Files /\ last \in Files
        BY Highest, Types DEF IInv
    <2>2. f \in 0..HighestUsed /\ f \notin Referenced /\ f # last /\ info[f].n = 0
        BY DEF Orphans
    <2>3. HighestUsed \in 0..MaxFile /\ MaxFile \in Nat
        BY <2>1, ConstantTypes DEF Files
    <2>4. f \in 0..MaxFile
        BY ONLY <2>2, <2>3
    <2>5. QED
        BY <2>1, <2>2, <2>4 DEF Files
<1>2. f \in Nat /\ last \in Nat /\ HighestUsed \in Nat /\ f <= HighestUsed
    BY <1>1, ConstantTypes
<1>3. DataOf(index, f) = {}
    BY <1>1 DEF Referenced, DataOf
<1>4. setting.fail \/ DataOf(disk.index, f) = {}
    BY <1>3 DEF IInv, Behind, Lags, Retired, DataOf
<1>5. f < last
    <2> SUFFICES ASSUME last < f PROVE FALSE
        BY <1>1, <1>2
    <2>1. last < HighestUsed
        BY <1>2
    <2>2. info[HighestUsed].n # 0
        <3>1. CASE HighestUsed \in Referenced
            <4>1. DataOf(index, HighestUsed) # {}
                BY <3>1 DEF Referenced, DataOf
            <4>2. QED
                BY <1>1, <4>1, EmptyFile
        <3>2. CASE info[HighestUsed] # NoInfo
            BY <1>1, <3>2, EmptyFile
        <3>3. QED
            BY <1>2, <2>1, <3>1, <3>2, Highest DEF IInv
    <2>3. f < HighestUsed
        BY <1>1, <1>2, <2>2
    <2>4. Gapless(info, last)
        BY DEF IInv, Placing
    <2>5. QED
        BY <1>1, <2>2, <2>3, <2>4 DEF Gapless
<1>6. QED
    BY <1>3, <1>4, <1>5

LEMMA BeginPassInv ==
    ASSUME IInv, BeginPass
    PROVE  IInv'
<1>1. /\ UNCHANGED <<setting, crashes, index, info, last, disk, blk, rev, undo, most, tip, diskTip,
                     bestHeader, ibd, oldTip, flushing>>
      /\ pass.pc = "idle"
      /\ pass' = [NoPass EXCEPT !.pc = "sweep", !.orphans = Orphans,
                                !.eligible = {f \in Files : Eligible(f)}]
    BY DEF BeginPass, memory, files, history, locks
<1>2. Orphans \subseteq Files
    <2>1. HighestUsed \in 0..MaxFile /\ MaxFile \in Nat
        BY Highest, ConstantTypes DEF IInv, Files
    <2>2. 0..HighestUsed \subseteq 0..MaxFile
        BY ONLY <2>1
    <2>3. QED
        BY <2>2 DEF Orphans, Files
<1>3. /\ pass'.pc = "sweep" /\ pass'.orphans = Orphans
      /\ pass' \in PassType
    BY <1>1, <1>2, ConstantTypes DEF NoPass, PassType
<1>4. TypeOK'
    BY <1>1, <1>3 DEF IInv, TypeOK
<1>5. Placing' /\ Names' /\ ReadsResolve' /\ Connecting' /\ Behind'
    BY <1>1, FramePlacing, FrameNames, FrameResolve, FrameConnecting, FrameBehindSafe DEF IInv
<1>6. Sweeping'
    BY <1>1, <1>3, OrphanUnused DEF Sweeping, DataOf
<1>7. Copying' /\ Passing'
    BY <1>1, <1>3 DEF IInv, Copying, Passing
<1>8. QED
    BY <1>4, <1>5, <1>6, <1>7 DEF IInv

LEMMA EndPassInv ==
    ASSUME IInv, EndPass
    PROVE  IInv'
<1>1. /\ UNCHANGED <<setting, crashes, index, info, last, disk, blk, rev, undo, most, tip, diskTip,
                     bestHeader, ibd, oldTip, flushing>>
      /\ pass.pc = "sweep" /\ pass' = NoPass
    BY DEF EndPass, memory, files, history, locks
<1>2. pass'.pc = "idle" /\ pass'.orphans = {} /\ pass' \in PassType
    BY <1>1, ConstantTypes DEF NoPass, PassType
<1>3. TypeOK'
    BY <1>1, <1>2 DEF IInv, TypeOK
<1>4. Placing' /\ Names' /\ ReadsResolve' /\ Connecting' /\ Behind'
    BY <1>1, FramePlacing, FrameNames, FrameResolve, FrameConnecting, FrameBehindSafe DEF IInv
<1>5. Sweeping' /\ Copying' /\ Passing'
    BY <1>1, <1>2 DEF IInv, Sweeping, Copying, Passing
<1>6. QED
    BY <1>3, <1>4, <1>5 DEF IInv

\* What happens to a file that no entry uses harms no entry.
LEMMA UnusedResolve ==
    ASSUME IInv, NEW f \in Files, DataOf(index, f) = {},
           setting.fail \/ DataOf(disk.index, f) = {},
           UNCHANGED <<setting, crashes, index, disk, undo>>,
           \A g \in Files : g # f => blk'[g] = blk[g] /\ rev'[g] = rev[g]
    PROVE  ReadsResolve'
<1>1. ASSUME Resolves(index) PROVE Resolves(index)'
    BY <1>1, Types DEF IInv, Resolves, DataOf
<1>2. ASSUME Resolves(disk.index), ~setting.fail PROVE Resolves(disk.index)'
    BY <1>2, Types DEF IInv, Resolves, DataOf
<1>3. QED
    BY <1>1, <1>2 DEF IInv, ReadsResolve

LEMMA RemovedInv ==
    ASSUME IInv, NEW f \in Files, DataOf(index, f) = {},
           setting.fail \/ DataOf(disk.index, f) = {},
           UNCHANGED <<setting, crashes, index, info, last, disk, undo>>,
           \A g \in Files : g # f => blk'[g] = blk[g] /\ rev'[g] = rev[g],
           rev'[f] \in {rev[f], None}
    PROVE  Names' /\ ReadsResolve'
<1>1. Names'
    <2> SUFFICES ASSUME NEW g \in Files, Linked(g)' PROVE LinkSafe(g)'
        BY DEF Names
    <2>1. rev'[g] = rev[g] /\ Linked(g)
        BY DEF Linked
    <2>2. LinkSafe(g)
        BY <2>1 DEF IInv, Names
    <2>3. QED
        BY <2>1, <2>2 DEF LinkSafe, DataOf
<1>2. QED
    BY <1>1, UnusedResolve

LEMMA SweepInv ==
    ASSUME IInv, NEW f \in Files, Sweep(f)
    PROVE  IInv'
<1>1. /\ UNCHANGED <<setting, crashes, index, info, last, disk, undo, most, tip, diskTip,
                     bestHeader, ibd, oldTip, flushing>>
      /\ pass.pc = "sweep" /\ f \in pass.orphans
      /\ pass' = [pass EXCEPT !.orphans = @ \ {f}]
      /\ blk' = [blk EXCEPT ![f] = [p \in Slots |-> None]] /\ rev' = [rev EXCEPT ![f] = None]
    BY DEF Sweep, memory, files, history, locks, NoBlk, NoRev
<1>2. /\ pass'.pc = "sweep" /\ pass'.orphans = pass.orphans \ {f} /\ pass' \in PassType
    BY <1>1 DEF IInv, TypeOK, PassType
<1>3. /\ blk' \in [Files -> [Slots -> Content]] /\ rev' \in [Files -> Files \cup {None}]
      /\ \A g \in Files : g # f => blk'[g] = blk[g] /\ rev'[g] = rev[g]
      /\ rev'[f] = None
    BY <1>1 DEF IInv, TypeOK, Content
<1>4. TypeOK'
    BY <1>1, <1>2, <1>3 DEF IInv, TypeOK
<1>5. DataOf(index, f) = {} /\ (setting.fail \/ DataOf(disk.index, f) = {})
    BY <1>1 DEF IInv, Sweeping
<1>6. Names' /\ ReadsResolve'
    BY <1>1, <1>3, <1>5, RemovedInv
<1>7. Placing' /\ Connecting' /\ Behind'
    BY <1>1, FramePlacing, FrameConnecting, FrameBehindSafe DEF IInv
<1>8. Sweeping' /\ Copying' /\ Passing'
    BY <1>1, <1>2 DEF IInv, Sweeping, Copying, Passing, DataOf
<1>9. QED
    BY <1>4, <1>6, <1>7, <1>8 DEF IInv

\* After the commit and its flush nothing points into the source.
LEMMA SourceUnused ==
    ASSUME IInv, pass.pc \in {"deleteBlk", "deleteRev"}
    PROVE  /\ DataOf(index, pass.src) = {} /\ pass.src \in Files
           /\ setting.fail \/ DataOf(disk.index, pass.src) = {}
<1>1. DataOf(index, pass.src) = {} /\ pass.src \in Files
    BY Types DEF IInv, Passing
<1>2. setting.fail \/ DataOf(disk.index, pass.src) = {}
    BY <1>1 DEF IInv, Behind, Lags, Retired, DataOf
<1>3. QED
    BY <1>1, <1>2

LEMMA DeleteBlkInv ==
    ASSUME IInv, DeleteBlk
    PROVE  IInv'
<1>1. /\ UNCHANGED <<setting, crashes, index, info, last, disk, rev, undo, most, tip, diskTip,
                     bestHeader, ibd, oldTip, flushing>>
      /\ pass.pc = "deleteBlk" /\ pass' = [pass EXCEPT !.pc = "deleteRev"]
      /\ blk' = [blk EXCEPT ![pass.src] = [p \in Slots |-> None]]
    BY DEF DeleteBlk, memory, files, history, locks, NoBlk
<1>2. /\ pass'.pc = "deleteRev" /\ pass'.orphans = pass.orphans /\ pass' \in PassType
      /\ pass'.src = pass.src /\ pass'.target = pass.target
    BY <1>1 DEF IInv, TypeOK, PassType
<1>3. /\ blk' \in [Files -> [Slots -> Content]]
      /\ \A g \in Files : g # pass.src => blk'[g] = blk[g] /\ rev'[g] = rev[g]
    BY <1>1 DEF IInv, TypeOK, Content
<1>4. TypeOK'
    BY <1>1, <1>2, <1>3 DEF IInv, TypeOK
<1>5. Names' /\ ReadsResolve'
    BY <1>1, <1>3, SourceUnused, RemovedInv
<1>6. Placing' /\ Connecting' /\ Behind'
    BY <1>1, FramePlacing, FrameConnecting, FrameBehindSafe DEF IInv
<1>7. Sweeping' /\ Copying' /\ Passing'
    BY <1>1, <1>2 DEF IInv, Sweeping, Copying, Passing, DataOf
<1>8. QED
    BY <1>4, <1>5, <1>6, <1>7 DEF IInv

LEMMA DeleteRevInv ==
    ASSUME IInv, DeleteRev
    PROVE  IInv'
<1>1. /\ UNCHANGED <<setting, crashes, index, info, last, disk, blk, undo, most, tip, diskTip,
                     bestHeader, ibd, oldTip, flushing>>
      /\ pass.pc = "deleteRev" /\ pass' = [NoPass EXCEPT !.pc = "sweep", !.eligible = pass.eligible]
      /\ rev' = [rev EXCEPT ![pass.src] = None]
    BY DEF DeleteRev, memory, files, history, locks, NoRev
<1>2. pass'.pc = "sweep" /\ pass'.orphans = {} /\ pass' \in PassType
    BY <1>1, ConstantTypes DEF IInv, TypeOK, PassType, NoPass
<1>3. /\ rev' \in [Files -> Files \cup {None}] /\ rev'[pass.src] \in {rev[pass.src], None}
      /\ \A g \in Files : g # pass.src => blk'[g] = blk[g] /\ rev'[g] = rev[g]
    BY <1>1, SourceUnused DEF IInv, TypeOK
<1>4. TypeOK'
    BY <1>1, <1>2, <1>3 DEF IInv, TypeOK
<1>5. Names' /\ ReadsResolve'
    BY <1>1, <1>3, SourceUnused, RemovedInv
<1>6. Placing' /\ Connecting' /\ Behind'
    BY <1>1, FramePlacing, FrameConnecting, FrameBehindSafe DEF IInv
<1>7. Sweeping' /\ Copying' /\ Passing'
    BY <1>1, <1>2 DEF IInv, Sweeping, Copying, Passing, DataOf
<1>8. QED
    BY <1>4, <1>5, <1>6, <1>7 DEF IInv

\* The places of the blocks of a file.
LEMMA PlaceInSlots ==
    ASSUME IInv, NEW b \in Blocks, index[b].st = "data"
    PROVE  /\ index[b].file \in Files /\ b \in DataOf(index, index[b].file)
           /\ index[b].pos \in 1..info[index[b].file].n /\ index[b].pos \in Slots
           /\ index[b].upos \in 0..info[index[b].file].u
<1>1. index[b].file \in Files /\ b \in DataOf(index, index[b].file)
    BY Types DEF IInv, DataOf
<1>2. index[b].pos \in 1..info[index[b].file].n /\ index[b].upos \in 0..info[index[b].file].u
    BY <1>1 DEF IInv, Placing, Placed, PlacedIn
<1>3. info[index[b].file].n \in 0..Capacity
    BY <1>1, Types DEF IInv
<1>4. QED
    BY <1>1, <1>2, <1>3, ConstantTypes DEF Slots

LEMMA RewriteInv ==
    ASSUME IInv, Rewrite
    PROVE  IInv'
<1>1. /\ UNCHANGED <<setting, crashes, index, info, last, disk, rev, undo, most, tip, diskTip,
                     bestHeader, ibd, oldTip, flushing>>
      /\ pass.pc = "rewrite"
    BY DEF Rewrite, memory, files, history, locks
<1>2. PICK n \in 0..Capacity :
        /\ \A b \in Copied(n) : Readable(b)
        /\ blk' = [blk EXCEPT ![pass.target] = StrippedTo(n)]
        /\ \/ Copied(n) = pass.moving /\ pass' = [pass EXCEPT !.pc = "link"]
           \/ setting.fail /\ pass' = NoPass
    BY DEF Rewrite
<1>3. /\ pass.src \in Files /\ pass.target \in Files /\ pass.moving = DataOf(index, pass.src)
      /\ DataOf(index, pass.target) = {} /\ DataOf(disk.index, pass.target) = {}
      /\ pass.orphans = {}
    BY <1>1, Types DEF IInv, Copying, Passing
<1>4. \A b \in pass.moving : b \in Blocks /\ index[b].pos \in Slots
    BY <1>3, PlaceInSlots DEF DataOf
<1>5. ASSUME NEW b \in Copied(n) PROVE StrippedTo(n)[index[b].pos] = [block |-> b, stripped |-> TRUE]
    <2>1. b \in pass.moving /\ index[b].pos \in Slots
        BY <1>4 DEF Copied
    <2>2. blk[pass.src][index[b].pos] \in [block : {b}, stripped : BOOLEAN]
        BY <1>2 DEF Readable
    <2>3. blk[pass.src][index[b].pos].block = b
        BY <2>2
    <2>4. QED
        BY <2>1, <2>3 DEF StrippedTo
<1>6. StrippedTo(n) \in [Slots -> Content]
    <2>1. ASSUME NEW p \in Slots PROVE StrippedTo(n)[p] \in Content
        <3>1. CASE \E b \in Copied(n) : index[b].pos = p
            <4>1. PICK b \in Copied(n) : index[b].pos = p
                BY <3>1
            <4>2. StrippedTo(n)[p] = [block |-> b, stripped |-> TRUE] /\ b \in Blocks
                BY <1>4, <1>5, <4>1 DEF Copied
            <4>3. QED
                BY <4>2 DEF Content
        <3>2. CASE ~ \E b \in Copied(n) : index[b].pos = p
            BY <3>2 DEF StrippedTo, Content
        <3>3. QED
            BY <3>1, <3>2
    <2>2. StrippedTo(n) = [p \in Slots |-> StrippedTo(n)[p]]
        BY DEF StrippedTo
    <2>3. QED
        BY <2>1, <2>2
<1>7. /\ blk' \in [Files -> [Slots -> Content]] /\ blk'[pass.target] = StrippedTo(n)
      /\ \A g \in Files : g # pass.target => blk'[g] = blk[g] /\ rev'[g] = rev[g]
    BY <1>1, <1>2, <1>3, <1>6 DEF IInv, TypeOK
<1>8. ReadsResolve'
    BY <1>1, <1>3, <1>7, UnusedResolve
<1>9. Placing' /\ Connecting' /\ Behind' /\ Names'
    BY <1>1, FramePlacing, FrameConnecting, FrameBehindSafe, FrameNames DEF IInv
<1>10. CASE Copied(n) = pass.moving /\ pass' = [pass EXCEPT !.pc = "link"]
    <2>1. /\ pass'.pc = "link" /\ pass'.orphans = pass.orphans /\ pass' \in PassType
          /\ pass'.src = pass.src /\ pass'.target = pass.target /\ pass'.moving = pass.moving
        BY <1>10 DEF IInv, TypeOK, PassType
    <2>2. TypeOK'
        BY <1>1, <1>7, <2>1 DEF IInv, TypeOK
    <2>3. Sweeping' /\ Passing'
        BY <1>1, <1>3, <2>1 DEF IInv, Sweeping, Passing
    <2>4. \A b \in pass.moving : blk'[pass.target][index[b].pos] = [block |-> b, stripped |-> TRUE]
        BY <1>5, <1>7, <1>10
    <2>5. Copying'
        BY <1>1, <1>3, <2>1, <2>4 DEF IInv, Copying, DataOf, Linked
    <2>6. QED
        BY <1>8, <1>9, <2>2, <2>3, <2>5 DEF IInv
<1>11. CASE pass' = NoPass
    <2>1. pass'.pc = "idle" /\ pass'.orphans = {} /\ pass' \in PassType
        BY <1>11, ConstantTypes DEF NoPass, PassType
    <2>2. TypeOK'
        BY <1>1, <1>7, <2>1 DEF IInv, TypeOK
    <2>3. Sweeping' /\ Passing' /\ Copying'
        BY <1>1, <2>1 DEF IInv, Sweeping, Passing, Copying
    <2>4. QED
        BY <1>8, <1>9, <2>2, <2>3 DEF IInv
<1>12. QED
    BY <1>2, <1>10, <1>11

\* The undo file of a source has one name until LinkUndo.
LEMMA SourceNotLinked ==
    ASSUME IInv, pass.pc \in {"rewrite", "link", "commit"}
    PROVE  rev[pass.src] \in {None, pass.src}
<1>1. PICK b \in pass.moving : b \in DataOf(index, pass.src) /\ ~index[b].pruned
    BY DEF IInv, Copying
<1>2. pass.src \in Files
    BY Types DEF IInv
<1>3. QED
    BY <1>1, <1>2 DEF IInv, Names, LinkSafe, Linked

LEMMA LinkUndoInv ==
    ASSUME IInv, LinkUndo
    PROVE  IInv'
<1>1. /\ UNCHANGED <<setting, crashes, index, info, last, disk, blk, undo, most, tip, diskTip,
                     bestHeader, ibd, oldTip, flushing>>
      /\ pass.pc = "link"
    BY DEF LinkUndo, memory, files, history, locks
<1>2. /\ pass.src \in Files /\ pass.target \in Files /\ pass.moving = DataOf(index, pass.src)
      /\ DataOf(index, pass.target) = {} /\ DataOf(disk.index, pass.target) = {}
      /\ pass.orphans = {} /\ pass.src < pass.target /\ pass.target < disk.last
      /\ pass.src \in Nat /\ pass.target \in Nat /\ disk.last \in Nat
    BY <1>1, Types DEF IInv, Copying, Passing
<1>3. Placing' /\ Connecting' /\ Behind'
    BY <1>1, FramePlacing, FrameConnecting, FrameBehindSafe DEF IInv
<1>4. CASE /\ rev' = [rev EXCEPT ![pass.target] = IF rev[pass.src] = None THEN @ ELSE rev[pass.src]]
           /\ pass' = [pass EXCEPT !.pc = "commit"]
    <2>1. /\ pass'.pc = "commit" /\ pass'.orphans = pass.orphans /\ pass' \in PassType
          /\ pass'.src = pass.src /\ pass'.target = pass.target /\ pass'.moving = pass.moving
        BY <1>4 DEF IInv, TypeOK, PassType
    <2>2. /\ rev' \in [Files -> Files \cup {None}]
          /\ rev'[pass.target] = IF rev[pass.src] = None THEN rev[pass.target] ELSE rev[pass.src]
          /\ \A g \in Files : g # pass.target => blk'[g] = blk[g] /\ rev'[g] = rev[g]
        BY <1>1, <1>2, <1>4 DEF IInv, TypeOK
    <2>3. TypeOK'
        BY <1>1, <2>1, <2>2 DEF IInv, TypeOK
    <2>4. ReadsResolve'
        BY <1>1, <1>2, <2>2, UnusedResolve
    <2>5. rev[pass.src] \in {None, pass.src} /\ pass.src # pass.target /\ rev'[pass.src] = rev[pass.src]
        BY <1>1, <1>2, <2>2, SourceNotLinked
    <2>6. ~Linked(pass.target)
        BY <1>1 DEF IInv, Copying
    <2>7. Linked(pass.target)' => rev'[pass.target] = pass.src
        BY <2>1, <2>2, <2>5, <2>6 DEF Linked
    <2>8. ASSUME NEW g \in Files, g # pass.target PROVE Linked(g)' <=> Linked(g)
        BY <2>2, <2>8 DEF Linked
    <2>9. Names'
        <3> SUFFICES ASSUME NEW g \in Files, Linked(g)' PROVE LinkSafe(g)'
            BY DEF Names
        <3>1. CASE g = pass.target
            <4>1. rev'[g] = pass.src /\ pass.src < disk.last
                BY <1>2, <2>1, <2>7, <3>1
            <4>2. DataOf(index', g) = {} /\ DataOf(disk'.index, g) = {}
                BY <1>1, <1>2, <3>1 DEF DataOf
            <4>3. QED
                BY <1>1, <1>2, <3>1, <4>1, <4>2 DEF LinkSafe
        <3>2. CASE g # pass.target
            <4>1. LinkSafe(g) /\ rev'[g] = rev[g]
                BY <2>2, <2>8, <3>2 DEF IInv, Names
            <4>2. QED
                BY <1>1, <4>1 DEF LinkSafe, DataOf
        <3>3. QED
            BY <3>1, <3>2
    <2>10. Sweeping' /\ Passing'
        BY <1>1, <1>2, <2>1 DEF IInv, Sweeping, Passing
    <2>11. Copying'
        <3>1. \A g \in Files : Linked(g)' => rev'[g] # pass.target
            BY <1>1, <2>1, <2>2, <2>5, <2>7, <2>8 DEF IInv, Copying
        <3>2. rev'[pass.src] # None => rev'[pass.target] = rev'[pass.src]
            BY <2>2, <2>5
        <3>3. QED
            BY <1>1, <1>2, <2>1, <2>7, <3>1, <3>2 DEF IInv, Copying, DataOf
    <2>12. QED
        BY <1>3, <2>3, <2>4, <2>9, <2>10, <2>11 DEF IInv
<1>5. CASE pass' = NoPass /\ UNCHANGED rev
    <2>1. pass'.pc = "idle" /\ pass'.orphans = {} /\ pass' \in PassType
        BY <1>5, ConstantTypes DEF NoPass, PassType
    <2>2. TypeOK'
        BY <1>1, <1>5, <2>1 DEF IInv, TypeOK
    <2>3. Sweeping' /\ Passing' /\ Copying'
        BY <1>1, <2>1 DEF IInv, Sweeping, Passing, Copying
    <2>4. Names' /\ ReadsResolve'
        BY <1>1, <1>5, FrameNames, FrameResolve DEF IInv
    <2>5. QED
        BY <1>3, <2>2, <2>3, <2>4 DEF IInv
<1>6. QED
    BY <1>4, <1>5 DEF LinkUndo

\* Blocks that keep their places are placed under any number.
LEMMA PlacedSame ==
    ASSUME NEW idx, NEW jdx, NEW f, NEW g, NEW i, PlacedIn(idx, f, i),
           DataOf(jdx, g) = DataOf(idx, f),
           \A b \in DataOf(idx, f) : jdx[b].pos = idx[b].pos /\ jdx[b].upos = idx[b].upos
    PROVE  PlacedIn(jdx, g, i)
BY DEF PlacedIn

\* Placing, of the index in memory and of the one in the database.
PlacedAll(idx, inf, lst) == Shape(idx) /\ Placed(idx, inf) /\ Gapless(inf, lst)

LEMMA PlacingParts ==
    /\ Placing <=> PlacedAll(index, info, last) /\ PlacedAll(disk.index, disk.info, disk.last)
    /\ Placing' <=> PlacedAll(index', info', last') /\ PlacedAll(disk'.index, disk'.info, disk'.last)
BY DEF Placing, PlacedAll

LEMMA CommitInv ==
    ASSUME IInv, Commit
    PROVE  IInv'
<1>0. PICK s, t, M : s = pass.src /\ t = pass.target /\ M = pass.moving
    OBVIOUS
<1>1. /\ UNCHANGED <<setting, crashes, last, disk, blk, rev, undo, most, tip, diskTip,
                     bestHeader, ibd, oldTip, flushing>>
      /\ pass.pc = "commit" /\ most = None /\ flushing = "no"
      /\ info' = [info EXCEPT ![t] = info[s], ![s] = NoInfo]
      /\ index' = [b \in Blocks |-> IF b \in M THEN [index[b] EXCEPT !.file = t, !.pruned = TRUE]
                                    ELSE index[b]]
      /\ pass' = [pass EXCEPT !.pc = "flush"]
    BY <1>0 DEF Commit, memory, files, history, locks, Unlocked
<1>2. /\ s \in Files /\ t \in Files /\ M = DataOf(index, s) /\ M # {} /\ M \subseteq Blocks
      /\ DataOf(index, t) = {} /\ DataOf(disk.index, t) = {}
      /\ pass.orphans = {} /\ s < t /\ t < disk.last /\ disk.last <= last
      /\ s \in Nat /\ t \in Nat /\ disk.last \in Nat /\ last \in Nat
    BY <1>0, <1>1, Types DEF IInv, Copying, Passing, Behind, DataOf
<1>3. /\ pass'.pc = "flush" /\ pass'.orphans = {} /\ pass' \in PassType
      /\ pass'.src = s /\ pass'.target = t
    BY <1>0, <1>1, <1>2 DEF IInv, TypeOK, PassType
<1>4. s # t /\ s < last /\ t < last
    BY <1>2
<1>5. \A b \in Blocks :
        /\ index'[b].st = index[b].st /\ index'[b].pos = index[b].pos /\ index'[b].upos = index[b].upos
        /\ index'[b].valid = index[b].valid
        /\ index'[b].file = IF b \in M THEN t ELSE index[b].file
        /\ index'[b].pruned = IF b \in M THEN TRUE ELSE index[b].pruned
    BY <1>1, ZenonT(60) DEF IInv, TypeOK, Entries
<1>6. info'[t] = info[s] /\ info'[s] = NoInfo /\ \A f \in Files : f # s /\ f # t => info'[f] = info[f]
    BY <1>1, <1>2, <1>4 DEF IInv, TypeOK
<1>7. /\ DataOf(index', t) = M /\ DataOf(index', s) = {}
      /\ \A f \in Files : f # s /\ f # t => DataOf(index', f) = DataOf(index, f)
    <2>1. \A b \in Blocks : b \in M <=> index[b].st = "data" /\ index[b].file = s
        BY <1>2 DEF DataOf
    <2>2. \A b \in Blocks : ~(index[b].st = "data" /\ index[b].file = t)
        BY <1>2 DEF DataOf
    <2>3. \A b \in Blocks : index'[b].st = "data" /\ index'[b].file = t <=> b \in M
        BY <1>5, <2>1, <2>2
    <2>4. \A b \in Blocks : ~(index'[b].st = "data" /\ index'[b].file = s)
        BY <1>4, <1>5, <2>1
    <2>5. ASSUME NEW f \in Files, f # s, f # t, NEW b \in Blocks
          PROVE  index'[b].st = "data" /\ index'[b].file = f <=> index[b].st = "data" /\ index[b].file = f
        BY <1>5, <2>1, <2>5
    <2>6. DataOf(index', t) = M /\ DataOf(index', s) = {}
        BY <1>2, <2>3, <2>4 DEF DataOf
    <2>7. ASSUME NEW f \in Files, f # s, f # t PROVE DataOf(index', f) = DataOf(index, f)
        BY <2>5, <2>7 DEF DataOf
    <2>8. QED
        BY <2>6, <2>7
<1>8. TypeOK'
    <2>1. index' \in [Blocks -> Entries]
        <3>1. \A e \in Entries : [e EXCEPT !.file = t, !.pruned = TRUE] \in Entries
            BY <1>2 DEF Entries
        <3>2. \A b \in Blocks : index[b] \in Entries
            BY Types DEF IInv
        <3>3. QED
            BY <1>1, <3>1, <3>2
    <2>2. info' \in [Files -> InfoType]
        <3>1. NoInfo \in InfoType /\ info[s] \in InfoType
            BY <1>2, Types, ConstantTypes DEF IInv, InfoType, NoInfo
        <3>2. QED
            BY <1>1, <3>1 DEF IInv, TypeOK
    <2>3. QED
        BY <1>1, <1>3, <2>1, <2>2 DEF IInv, TypeOK
<1>9. Placing'
    <2>1. Shape(index')
        BY <1>2, <1>5, ZenonT(60) DEF IInv, Placing, Shape, DataOf
    <2>2. Placed(index', info')
        <3> SUFFICES ASSUME NEW f \in Files PROVE PlacedIn(index', f, info'[f])
            BY DEF Placed
        <3>1. CASE f = t
            <4>1. PlacedIn(index, s, info[s])
                BY <1>2 DEF IInv, Placing, Placed
            <4>2. QED
                <5>1. \A b \in DataOf(index, s) : index'[b].pos = index[b].pos /\ index'[b].upos = index[b].upos
                    BY <1>2, <1>5
                <5>2. PlacedIn(index', t, info[s])
                    BY <1>2, <1>7, <4>1, <5>1, PlacedSame
                <5>3. QED
                    BY <1>6, <3>1, <5>2
        <3>2. CASE f = s
            <4>1. NoInfo.n = 0 /\ NoInfo.u = 0
                BY DEF NoInfo
            <4>2. \A q \in 1..0 : FALSE
                OBVIOUS
            <4>3. QED
                BY <1>6, <1>7, <3>2, <4>1, <4>2 DEF PlacedIn
        <3>3. CASE f # s /\ f # t
            <4>1. PlacedIn(index, f, info[f])
                BY DEF IInv, Placing, Placed
            <4>2. \A b \in DataOf(index, f) : b \in Blocks
                BY DEF DataOf
            <4>3. \A b \in DataOf(index, f) : index'[b].pos = index[b].pos /\ index'[b].upos = index[b].upos
                BY <1>5, <4>2
            <4>4. PlacedIn(index', f, info[f])
                BY <1>7, <3>3, <4>1, <4>3, PlacedSame
            <4>5. QED
                BY <1>6, <3>3, <4>4
        <3>4. QED
            BY <3>1, <3>2, <3>3
    <2>3. Gapless(info', last)
        <3> SUFFICES ASSUME NEW f \in Files, NEW g \in Files, last < f, f < g, info'[g].n # 0
                     PROVE  info'[f].n # 0
            BY DEF Gapless
        <3>1. f # s /\ f # t /\ g # s /\ g # t
            <4>1. f \in Nat /\ g \in Nat
                BY ConstantTypes
            <4>2. QED
                BY <1>2, <4>1
        <3>2. QED
            BY <1>6, <3>1 DEF IInv, Placing, Gapless
    <2>4. Shape(disk.index) /\ Placed(disk.index, disk.info) /\ Gapless(disk.info, disk.last)
        BY DEF IInv, Placing
    <2>5. QED
        BY <1>1, <2>1, <2>2, <2>3, <2>4, PlacingParts DEF PlacedAll
<1>10. Behind'
    <2> SUFFICES ASSUME NEW b \in Blocks, disk.index[b].st = "data"
                 PROVE  /\ index'[b].st = "data" /\ disk.index[b].pos = index'[b].pos
                        /\ disk.index[b].upos \in {0, index'[b].upos}
                        /\ disk.index[b].file = index'[b].file \/ Retired(disk.index[b].file)'
        BY <1>1, <1>2 DEF Behind, Lags
    <2>1. /\ index[b].st = "data" /\ disk.index[b].pos = index[b].pos
          /\ disk.index[b].upos \in {0, index[b].upos}
          /\ disk.index[b].file = index[b].file \/ Retired(disk.index[b].file)
        BY DEF IInv, Behind, Lags
    <2>2. disk.index[b].file # t /\ disk.index[b].file \in Files
        BY <1>2, Types DEF IInv, DataOf
    <2>3. CASE disk.index[b].file = index[b].file /\ b \in M
        <3>1. disk.index[b].file = s
            BY <1>2, <2>3 DEF DataOf
        <3>2. Retired(s)'
            BY <1>1, <1>3, <1>4, <1>6 DEF Retired
        <3>3. QED
            BY <1>1, <1>5, <2>1, <3>1, <3>2 DEF Retired
    <2>4. CASE disk.index[b].file = index[b].file /\ b \notin M
        BY <1>5, <2>1, <2>4
    <2>5. CASE Retired(disk.index[b].file)
        <3>1. setting.fail /\ disk.index[b].file < last /\ info[disk.index[b].file] = NoInfo
            BY <1>1, <2>5 DEF Retired
        <3>2. info'[disk.index[b].file] = NoInfo
            BY <1>6, <2>2, <3>1
        <3>3. QED
            BY <1>1, <1>5, <2>1, <3>1, <3>2 DEF Retired
    <2>6. QED
        BY <2>1, <2>3, <2>4, <2>5
<1>11. Names'
    <2> SUFFICES ASSUME NEW g \in Files, Linked(g) PROVE LinkSafe(g)'
        BY <1>1 DEF Names, Linked
    <2>1. LinkSafe(g) /\ rev[g] # t /\ g # s /\ rev[g] \in Files
        BY <1>0, <1>1, SourceNotLinked, Types DEF IInv, Names, Copying, Linked
    <2>2. DataOf(disk'.index, g) = DataOf(disk.index, g) /\ DataOf(disk'.index, rev[g]) = DataOf(disk.index, rev[g])
        BY <1>1
    <2>3. DataOf(index, rev[g]) = {} => DataOf(index', rev[g]) = {}
        BY <1>7, <2>1
    <2>4. CASE g = t
        <3>1. rev[g] = s
            BY <1>0, <1>1, <2>4 DEF IInv, Copying
        <3>2. \A b \in DataOf(index', g) : index'[b].pruned
            BY <1>2, <1>5, <1>7, <2>4
        <3>3. QED
            BY <1>1, <1>2, <1>7, <2>1, <2>2, <2>4, <3>1, <3>2 DEF LinkSafe
    <2>5. CASE g # t
        <3>1. DataOf(index', g) = DataOf(index, g)
            BY <1>7, <2>1, <2>5
        <3>2. \A b \in DataOf(index, g) : b \in Blocks
            BY DEF DataOf
        <3>3. \A b \in DataOf(index', g) : index'[b].pruned
            BY <1>5, <2>1, <3>1, <3>2 DEF LinkSafe
        <3>4. QED
            BY <1>1, <2>1, <2>2, <2>3, <3>1, <3>3 DEF LinkSafe
    <2>6. QED
        BY <2>4, <2>5
<1>12. Sweeping' /\ Copying' /\ Passing' /\ Connecting'
    BY <1>1, <1>2, <1>3, <1>7 DEF IInv, Sweeping, Copying, Passing, Connecting
<1>13. ASSUME Resolves(index) PROVE Resolves(index')
    <2> SUFFICES ASSUME NEW b \in Blocks, index'[b].st = "data"
                 PROVE  /\ blk[index'[b].file][index'[b].pos] = [block |-> b, stripped |-> index'[b].pruned]
                        /\ index'[b].upos # 0 => /\ rev[index'[b].file] # None
                                                 /\ undo[rev[index'[b].file]][index'[b].upos] = b
        BY DEF Resolves
    <2>1. /\ index[b].st = "data"
          /\ blk[index[b].file][index[b].pos] = [block |-> b, stripped |-> index[b].pruned]
          /\ index[b].upos # 0 => rev[index[b].file] # None /\ undo[rev[index[b].file]][index[b].upos] = b
        BY <1>5, <1>13 DEF Resolves
    <2>2. CASE b \notin M
        BY <1>5, <2>1, <2>2
    <2>3. CASE b \in M
        <3>1. blk[t][index[b].pos] = [block |-> b, stripped |-> TRUE]
            BY <1>0, <1>1, <2>3 DEF IInv, Copying
        <3>2. index[b].file = s
            BY <1>2, <2>3 DEF DataOf
        <3>3. rev[s] # None => rev[t] = rev[s]
            BY <1>0, <1>1 DEF IInv, Copying
        <3>4. QED
            BY <1>5, <2>1, <2>3, <3>1, <3>2, <3>3
    <2>4. QED
        BY <2>2, <2>3
<1>14. ReadsResolve'
    BY <1>1, <1>13 DEF IInv, ReadsResolve, Resolves
<1>15. QED
    BY <1>8, <1>9, <1>10, <1>11, <1>12, <1>14 DEF IInv
-----------------------------------------------------------------------------
(* Leaving the append file: its tails go.                                    *)

\* A place that an entry can hold: from the append file on, one that counts.
Held(g, q, r) ==
    /\ g \in Files /\ q \in Slots /\ r \in 0..Capacity
    /\ last <= g => q <= info[g].n /\ r <= info[g].u

LEMMA EntriesHeld ==
    ASSUME IInv, NEW b \in Blocks
    PROVE  /\ index[b].st = "data" => Held(index[b].file, index[b].pos, index[b].upos)
           /\ disk.index[b].st = "data" => Held(disk.index[b].file, disk.index[b].pos, disk.index[b].upos)
<1>1. ASSUME index[b].st = "data" PROVE Held(index[b].file, index[b].pos, index[b].upos)
    <2>1. /\ index[b].file \in Files /\ index[b].pos \in Slots /\ index[b].upos \in 0..Capacity
          /\ index[b].pos \in 1..info[index[b].file].n /\ index[b].upos \in 0..info[index[b].file].u
        BY <1>1, PlaceInSlots, Types DEF IInv
    <2>2. QED
        BY <2>1 DEF Held
<1>2. ASSUME disk.index[b].st = "data"
      PROVE  Held(disk.index[b].file, disk.index[b].pos, disk.index[b].upos)
    <2>1. /\ index[b].st = "data" /\ disk.index[b].pos = index[b].pos
          /\ disk.index[b].upos \in {0, index[b].upos}
          /\ disk.index[b].file = index[b].file \/ Retired(disk.index[b].file)
        BY <1>2 DEF IInv, Behind, Lags
    <2>2. Held(index[b].file, index[b].pos, index[b].upos)
        BY <1>1, <2>1
    <2>3. disk.index[b].file \in Files /\ disk.index[b].file \in Nat /\ last \in Nat /\ Capacity \in Nat
          /\ disk.index[b].upos \in 0..Capacity /\ \A g \in Files : info[g].u \in 0..Capacity
        BY Types DEF IInv
    <2>4. CASE disk.index[b].file = index[b].file
        BY <2>1, <2>2, <2>3, <2>4 DEF Held
    <2>5. CASE Retired(disk.index[b].file)
        <3>1. ~(last <= disk.index[b].file)
            BY <2>3, <2>5 DEF Retired
        <3>2. QED
            BY <2>1, <2>2, <2>3, <3>1 DEF Held
    <2>6. QED
        BY <2>1, <2>4, <2>5
<1>3. QED
    BY <1>1, <1>2

\* What is held stays where it is.
KeepsHeld ==
    \A g, q, r : Held(g, q, r) =>
        /\ blk'[g][q] = blk[g][q]
        /\ r # 0 /\ rev[g] # None => rev'[g] = rev[g] /\ undo'[rev[g]][r] = undo[rev[g]][r]

LEMMA KeptResolves ==
    ASSUME IInv, KeepsHeld, UNCHANGED <<setting, crashes>>,
           \A b \in Blocks : disk'.index[b] = disk.index[b],
           \A b \in Blocks : index'[b].st = "data" =>
                \/ index'[b] = index[b]
                \/ /\ blk'[index'[b].file][index'[b].pos] = [block |-> b, stripped |-> index'[b].pruned]
                   /\ index'[b].upos = 0
    PROVE  ReadsResolve'
<1>1. ASSUME Resolves(index) PROVE Resolves(index)'
    <2> SUFFICES ASSUME NEW b \in Blocks, index'[b].st = "data"
                 PROVE  /\ blk'[index'[b].file][index'[b].pos] = [block |-> b, stripped |-> index'[b].pruned]
                        /\ index'[b].upos # 0 => /\ rev'[index'[b].file] # None
                                                 /\ undo'[rev'[index'[b].file]][index'[b].upos] = b
        BY DEF Resolves
    <2>1. CASE index'[b] = index[b]
        <3>1. Held(index[b].file, index[b].pos, index[b].upos)
            BY <2>1, EntriesHeld
        <3>2. /\ blk[index[b].file][index[b].pos] = [block |-> b, stripped |-> index[b].pruned]
              /\ index[b].upos # 0 => rev[index[b].file] # None /\ undo[rev[index[b].file]][index[b].upos] = b
            BY <1>1, <2>1 DEF Resolves
        <3>3. QED
            BY <2>1, <3>1, <3>2 DEF KeepsHeld
    <2>2. QED
        BY <2>1
<1>2. ASSUME Resolves(disk.index) PROVE Resolves(disk.index)'
    <2> SUFFICES ASSUME NEW b \in Blocks, disk'.index[b].st = "data"
                 PROVE  /\ blk'[disk'.index[b].file][disk'.index[b].pos] = [block |-> b, stripped |-> disk'.index[b].pruned]
                        /\ disk'.index[b].upos # 0 => /\ rev'[disk'.index[b].file] # None
                                                      /\ undo'[rev'[disk'.index[b].file]][disk'.index[b].upos] = b
        BY DEF Resolves
    <2>1. Held(disk.index[b].file, disk.index[b].pos, disk.index[b].upos)
        BY EntriesHeld
    <2>2. /\ blk[disk.index[b].file][disk.index[b].pos] = [block |-> b, stripped |-> disk.index[b].pruned]
          /\ disk.index[b].upos # 0 => /\ rev[disk.index[b].file] # None
                                       /\ undo[rev[disk.index[b].file]][disk.index[b].upos] = b
        BY <1>2 DEF Resolves
    <2>3. QED
        BY <2>1, <2>2 DEF KeepsHeld
<1>3. QED
    BY <1>1, <1>2 DEF IInv, ReadsResolve, Resolves

\* The append file has its undo data to itself.
LEMMA AppendOwnsUndo ==
    ASSUME IInv
    PROVE  rev[last] \in {None, last} /\ \A g \in Files : rev[g] = last => g = last
<1>1. last \in Files /\ last \in Nat /\ disk.last \in Nat /\ disk.last <= last
    BY Types DEF IInv, Behind
<1>2. ASSUME NEW g \in Files, Linked(g) PROVE g < last /\ rev[g] < last
    <2>1. g \in Nat /\ rev[g] \in Nat
        BY <1>2, Types DEF IInv, Linked
    <2>2. QED
        BY <1>1, <1>2, <2>1 DEF IInv, Names, LinkSafe
<1>3. last # None /\ ~(last < last)
    BY <1>1, ConstantTypes
<1>4. QED
    BY <1>1, <1>2, <1>3 DEF Linked

\* Nothing is stored above HighestUsed, neither by memory nor by the database.
LEMMA AboveHighest ==
    ASSUME IInv, NEW f \in Files, f > HighestUsed
    PROVE  /\ DataOf(index, f) = {} /\ DataOf(disk.index, f) = {}
           /\ info[f] = NoInfo /\ info[f].n = 0 /\ disk.info[f] = NoInfo /\ disk.info[f].n = 0
<1>1. /\ HighestUsed \in Nat /\ f \in Nat /\ last \in Nat /\ last <= HighestUsed
      /\ \A b \in Blocks : index[b].file \in Nat /\ disk.index[b].file \in Nat
    BY Highest, Types DEF IInv
<1>2. ASSUME NEW b \in Blocks, index[b].st = "data" PROVE index[b].file # f
    BY <1>1, <1>2, Highest DEF IInv
<1>3. ASSUME NEW b \in Blocks, disk.index[b].st = "data" PROVE disk.index[b].file # f
    <2>1. index[b].st = "data" /\ (disk.index[b].file = index[b].file \/ Retired(disk.index[b].file))
        BY <1>3 DEF IInv, Behind, Lags
    <2>2. QED
        BY <1>1, <1>2, <2>1 DEF Retired
<1>4. DataOf(index, f) = {} /\ DataOf(disk.index, f) = {}
    BY <1>2, <1>3 DEF DataOf
<1>5. disk.info[f] \in InfoType /\ PlacedIn(disk.index, f, disk.info[f])
    BY Types DEF IInv, Placing, Placed
<1>6. QED
    BY <1>4, <1>5, EmptyFile, EmptyInfo

LEMMA ReserveInv ==
    ASSUME IInv, NEW f \in Files, Reserve(f)
    PROVE  IInv'
<1>1. /\ UNCHANGED <<setting, crashes, index, rev, most, tip, diskTip, bestHeader, ibd, oldTip, flushing>>
      /\ pass.pc = "sweep" /\ pass.orphans = {} /\ most = None /\ flushing = "no"
    BY DEF Reserve, memory, files, history, locks, Unlocked
<1>2. PICK h : h = HighestUsed
    OBVIOUS
<1>3. /\ h + 1 \in Files /\ h + 2 \in Files /\ h \in Nat /\ last \in Nat /\ last <= h /\ last \in Files
      /\ disk.last \in Nat /\ disk.last <= last /\ h + 1 > HighestUsed /\ h + 2 > HighestUsed
    <2>1. HighestUsed + 2 <= MaxFile
        BY DEF Reserve
    <2>2. h \in Nat /\ last <= h /\ last \in Nat /\ disk.last \in Nat /\ disk.last <= last /\ last \in Files
        BY <1>2, Highest, Types DEF IInv, Behind
    <2>3. QED
        BY <1>2, <2>1, <2>2, ConstantTypes DEF Files
<1>4. CASE ~Eligible(f)
    <2>1. UNCHANGED <<disk, info, last, blk, undo>> /\ pass' = [pass EXCEPT !.eligible = @ \ {f}]
        BY <1>4 DEF Reserve
    <2>2. pass'.pc = "sweep" /\ pass'.orphans = {} /\ pass' \in PassType
        BY <1>1, <2>1 DEF IInv, TypeOK, PassType
    <2>3. TypeOK'
        BY <1>1, <2>1, <2>2 DEF IInv, TypeOK
    <2>4. Placing' /\ Names' /\ ReadsResolve' /\ Connecting' /\ Behind'
        BY <1>1, <2>1, FramePlacing, FrameNames, FrameResolve, FrameConnecting, FrameBehindSafe DEF IInv
    <2>5. Sweeping' /\ Copying' /\ Passing'
        BY <1>1, <2>1, <2>2 DEF IInv, Sweeping, Copying, Passing
    <2>6. QED
        BY <2>3, <2>4, <2>5 DEF IInv
<1>5. CASE Eligible(f)
    <2>1. /\ ReserveDurably(f)
          /\ info' = [info EXCEPT ![h + 1] = NoInfo] /\ last' = h + 2
          /\ blk' = [blk EXCEPT ![last] = Truncated(@, info[last].n)]
          /\ undo' = [i \in Files |-> IF i = rev[last] THEN Truncated(undo[i], info[last].u) ELSE undo[i]]
        BY <1>2, <1>5 DEF Reserve
    <2>2. \A g \in Files : g > HighestUsed =>
            /\ DataOf(index, g) = {} /\ DataOf(disk.index, g) = {}
            /\ info[g] = NoInfo /\ info[g].n = 0 /\ disk.info[g] = NoInfo /\ disk.info[g].n = 0
        BY AboveHighest
    <2>3. info' = info
        BY <1>3, <2>1, <2>2 DEF IInv, TypeOK
    <2>4. \/ /\ pass' = Rewriting(f)
             /\ disk' = [disk EXCEPT !.info[h + 1] = NoInfo, !.info[h + 2] = info[h + 2], !.last = h + 2]
          \/ setting.fail /\ pass' = NoPass /\ UNCHANGED disk
        <3>1. (h + 1) + 1 = h + 2
            BY <1>3
        <3>2. QED
            BY <1>2, <2>1, <3>1 DEF ReserveDurably
    <2>5. /\ disk'.index = disk.index /\ disk'.info = disk.info /\ disk'.last \in {disk.last, h + 2}
          /\ disk' \in [index : [Blocks -> Entries], info : [Files -> InfoType], last : Files]
        <3>1. CASE UNCHANGED disk
            BY <3>1 DEF IInv, TypeOK
        <3>2. CASE disk' = [disk EXCEPT !.info[h + 1] = NoInfo, !.info[h + 2] = info[h + 2], !.last = h + 2]
            <4>1. /\ disk = [index |-> disk.index, info |-> disk.info, last |-> disk.last]
                  /\ disk.info \in [Files -> InfoType]
                BY DEF IInv, TypeOK
            <4>2. /\ disk'.index = disk.index /\ disk'.last = h + 2
                  /\ disk'.info = [disk.info EXCEPT ![h + 1] = NoInfo, ![h + 2] = info[h + 2]]
                  /\ disk' = [index |-> disk'.index, info |-> disk'.info, last |-> disk'.last]
                BY <3>2, <4>1
            <4>3. info[h + 2] = NoInfo /\ disk.info[h + 1] = NoInfo /\ disk.info[h + 2] = NoInfo
                BY <1>3, <2>2
            <4>4. disk'.info = disk.info
                BY <4>1, <4>2, <4>3
            <4>5. QED
                BY <1>3, <4>2, <4>4 DEF IInv, TypeOK
        <3>3. QED
            BY <2>4, <3>1, <3>2
    <2>6. /\ f <= h /\ f \in Nat /\ InFile(f) = DataOf(index, f) /\ InFile(f) # {} /\ InFile(f) \subseteq Blocks
          /\ \A b \in InFile(f) : ~index[b].pruned /\ (b # Genesis => index[b].upos # 0)
        <3>1. f <= h /\ f \in Nat
            <4>1. info[f].n # 0
                BY <1>5 DEF Eligible
            <4>2. info[f] # NoInfo
                BY <4>1, EmptyFile
            <4>3. QED
                BY <1>2, <4>2, Highest, ConstantTypes DEF IInv
        <3>2. \A b \in InFile(f) : index[b].st = "data" /\ ~index[b].pruned /\ (b # Genesis => index[b].valid)
            BY <1>5 DEF Eligible
        <3>3. InFile(f) = DataOf(index, f)
            BY <3>2 DEF InFile, DataOf
        <3>4. InFile(f) # {}
            BY <1>5, <3>3, EmptyFile DEF Eligible
        <3>5. QED
            BY <3>1, <3>2, <3>3, <3>4 DEF IInv, Placing, Shape, InFile
    <2>7. \/ /\ pass'.pc = "rewrite" /\ pass'.orphans = {} /\ pass'.src = f /\ pass'.target = h + 1
             /\ pass'.moving = InFile(f) /\ pass' \in PassType /\ disk'.last = h + 2
          \/ setting.fail /\ pass'.pc = "idle" /\ pass'.orphans = {} /\ pass' \in PassType
        <3>1. CASE /\ pass' = Rewriting(f)
                   /\ disk' = [disk EXCEPT !.info[h + 1] = NoInfo, !.info[h + 2] = info[h + 2], !.last = h + 2]
            <4>1. disk'.last = h + 2
                BY <3>1 DEF IInv, TypeOK
            <4>2. QED
                BY <1>1, <1>2, <1>3, <2>6, <3>1, <4>1 DEF IInv, TypeOK, PassType, Rewriting
        <3>2. CASE setting.fail /\ pass' = NoPass
            BY <3>2, ConstantTypes DEF NoPass, PassType
        <3>3. QED
            BY <2>4, <3>1, <3>2
    <2>8. TypeOK'
        <3>1. blk' \in [Files -> [Slots -> Content]]
            <4>1. \A c \in [Slots -> Content], n \in Nat : Truncated(c, n) \in [Slots -> Content]
                BY DEF Truncated, Content
            <4>2. blk \in [Files -> [Slots -> Content]] /\ info[last].n \in Nat
                BY <1>3, Types DEF IInv, TypeOK
            <4>3. QED
                BY <1>3, <2>1, <4>1, <4>2
        <3>2. undo' \in [Files -> [Slots -> Blocks \cup {None}]]
            <4>1. \A c \in [Slots -> Blocks \cup {None}], n \in Nat : Truncated(c, n) \in [Slots -> Blocks \cup {None}]
                BY DEF Truncated
            <4>2. undo \in [Files -> [Slots -> Blocks \cup {None}]] /\ info[last].u \in Nat
                BY <1>3, Types DEF IInv, TypeOK
            <4>3. QED
                BY <2>1, <4>1, <4>2
        <3>3. QED
            BY <1>1, <1>3, <2>1, <2>3, <2>5, <2>7, <3>1, <3>2 DEF IInv, TypeOK
    <2>9. disk.last <= disk'.last /\ disk'.last <= last' /\ disk'.last \in Nat
        BY <1>3, <2>1, <2>5
    <2>10. Placing'
        <3>1. Gapless(info, h + 2) /\ Gapless(disk.info, h + 2)
            <4> SUFFICES ASSUME NEW a \in Files, NEW g \in Files, h + 2 < a, a < g
                         PROVE  info[g].n = 0 /\ disk.info[g].n = 0
                BY DEF Gapless
            <4>1. g > HighestUsed
                BY <1>2, <1>3, ConstantTypes
            <4>2. QED
                BY <2>2, <4>1
        <3>2. /\ Shape(index) /\ Placed(index, info)
              /\ Shape(disk.index) /\ Placed(disk.index, disk.info) /\ Gapless(disk.info, disk.last)
            BY DEF IInv, Placing
        <3>3. Gapless(disk.info, disk'.last)
            BY <2>5, <3>1, <3>2
        <3>4. QED
            BY <1>1, <2>1, <2>3, <2>5, <3>1, <3>2, <3>3, PlacingParts DEF PlacedAll
    <2>11. Behind'
        <3> SUFFICES ASSUME NEW b \in Blocks, disk'.index[b].st = "data"
                     PROVE  /\ index'[b].st = "data" /\ disk'.index[b].pos = index'[b].pos
                            /\ disk'.index[b].upos \in {0, index'[b].upos}
                            /\ disk'.index[b].file = index'[b].file \/ Retired(disk.index[b].file)'
            BY <2>9 DEF Behind, Lags
        <3>1. /\ index[b].st = "data" /\ disk.index[b].pos = index[b].pos
              /\ disk.index[b].upos \in {0, index[b].upos}
              /\ disk.index[b].file = index[b].file \/ Retired(disk.index[b].file)
            BY <2>5 DEF IInv, Behind, Lags
        <3>2. ASSUME Retired(disk.index[b].file) PROVE Retired(disk.index[b].file)'
            <4>1. setting.fail /\ disk.index[b].file < last /\ info[disk.index[b].file] = NoInfo
                BY <1>1, <3>2 DEF Retired
            <4>2. disk.index[b].file < last'
                <5>1. disk.index[b].file \in Nat
                    BY Types, ConstantTypes DEF IInv
                <5>2. QED
                    BY <1>3, <2>1, <4>1, <5>1
            <4>3. QED
                BY <1>1, <2>3, <2>5, <4>1, <4>2 DEF Retired
        <3>3. QED
            BY <1>1, <2>5, <3>1, <3>2
    <2>12. Names'
        <3> SUFFICES ASSUME NEW g \in Files, Linked(g) PROVE LinkSafe(g)'
            BY <1>1 DEF Names, Linked
        <3>1. LinkSafe(g) /\ g \in Nat /\ rev[g] \in Nat
            BY Types DEF IInv, Names, Linked
        <3>2. g < disk'.last /\ rev[g] < disk'.last
            BY <1>3, <2>9, <3>1 DEF LinkSafe
        <3>3. QED
            BY <1>1, <2>5, <3>1, <3>2 DEF LinkSafe, DataOf
    <2>13. Sweeping' /\ Passing' /\ Connecting'
        <3>1. Sweeping' /\ Connecting'
            BY <1>1, <2>7 DEF Sweeping, Connecting
        <3>2. Passing'
            BY <1>1, <1>3, <2>6, <2>7 DEF Passing
        <3>3. QED
            BY <3>1, <3>2
    <2>14. Copying'
        <3> SUFFICES ASSUME pass'.pc = "rewrite" PROVE Copying'
            BY <2>7 DEF Copying
        <3>1. /\ pass'.src = f /\ pass'.target = h + 1 /\ pass'.moving = InFile(f)
            BY <2>7
        <3>2. DataOf(index, h + 1) = {} /\ DataOf(disk.index, h + 1) = {}
            BY <1>3, <2>2
        <3>3. ASSUME NEW g \in Files, Linked(g) PROVE rev[g] # h + 1 /\ g # h + 1
            <4>1. g < disk.last /\ rev[g] < disk.last /\ g \in Nat /\ rev[g] \in Nat
                BY <3>3, Types DEF IInv, Names, LinkSafe, Linked
            <4>2. QED
                BY <1>3, <4>1
        <3>4. \A g \in Files : Linked(g)' <=> Linked(g)
            BY <1>1 DEF Linked
        <3>5. DataOf(index, f)' = DataOf(index, f) /\ DataOf(index', h + 1) = {} /\ DataOf(disk'.index, h + 1) = {}
            BY <1>1, <2>5, <3>2 DEF DataOf
        <3>6. ~Linked(h + 1)'
            BY <1>3, <3>3, <3>4
        <3>7. QED
            BY <1>1, <1>3, <2>6, <3>1, <3>3, <3>4, <3>5, <3>6 DEF Copying, Linked
    <2>15. KeepsHeld
        <3> SUFFICES ASSUME NEW g, NEW q, NEW r, Held(g, q, r)
                     PROVE  /\ blk'[g][q] = blk[g][q]
                            /\ r # 0 /\ rev[g] # None => rev'[g] = rev[g] /\ undo'[rev[g]][r] = undo[rev[g]][r]
            BY DEF KeepsHeld
        <3>1. g \in Files /\ q \in Slots /\ r \in 0..Capacity /\ (g = last => q <= info[g].n /\ r <= info[g].u)
            BY <1>3 DEF Held
        <3>2. blk'[g][q] = blk[g][q]
            BY <2>1, <3>1 DEF IInv, TypeOK, Truncated
        <3>3. ASSUME r # 0, rev[g] # None PROVE undo'[rev[g]][r] = undo[rev[g]][r]
            <4>1. rev[g] \in Files /\ r \in Slots
                BY <3>1, <3>3, Types, ConstantTypes DEF IInv, Slots
            <4>2. CASE rev[g] = rev[last]
                <5>1. g = last
                    BY <3>1, <3>3, <4>2, AppendOwnsUndo
                <5>2. QED
                    BY <2>1, <3>1, <4>1, <5>1 DEF Truncated
            <4>3. CASE rev[g] # rev[last]
                BY <2>1, <4>1, <4>3
            <4>4. QED
                BY <4>2, <4>3
        <3>4. QED
            BY <1>1, <3>2, <3>3
    <2>16. ReadsResolve'
        BY <1>1, <2>5, <2>15, KeptResolves
    <2>17. QED
        BY <2>8, <2>10, <2>11, <2>12, <2>13, <2>14, <2>16 DEF IInv
<1>6. QED
    BY <1>4, <1>5

\* A block is appended, perhaps to a further file.
LEMMA AcceptBlockInv ==
    ASSUME IInv, NEW b \in Blocks, NEW f \in Files, AcceptBlock(b, f)
    PROVE  IInv'
<1>0. PICK p : p = info[f].n + 1
    OBVIOUS
<1>1. /\ UNCHANGED <<setting, crashes, disk, tip, diskTip, bestHeader, ibd, most, oldTip, flushing, pass>>
      /\ most = None /\ flushing = "no" /\ index[b].st = "header"
      /\ f >= last /\ info[f].n < Capacity /\ last' = f
      /\ index' = [index EXCEPT ![b].st = "data", ![b].file = f, ![b].pos = p]
      /\ info' = [info EXCEPT ![f].n = p]
      /\ rev' = IF StrayRemoved(f) THEN [rev EXCEPT ![f] = None] ELSE rev
      /\ undo' = [i \in Files |-> IF f # last /\ i = rev[last]
                                  THEN Truncated(undo[i], info[last].u) ELSE undo[i]]
    BY <1>0 DEF AcceptBlock, AppendFile, Unlocked, locks, history
<1>2. PICK old :
        /\ old = IF StrayRemoved(f) THEN [q \in Slots |-> None] ELSE blk[f]
        /\ blk' = [g \in Files |->
                IF g = f THEN [old EXCEPT ![p] = [block |-> b, stripped |-> FALSE]]
                ELSE IF g = last THEN Truncated(blk[g], info[g].n) ELSE blk[g]]
    BY <1>0 DEF AcceptBlock
<1>3. /\ f \in Nat /\ last \in Nat /\ last \in Files /\ last <= f /\ disk.last \in Nat /\ disk.last <= f
      /\ info[f].n \in Nat /\ p \in Nat /\ p \in Slots /\ p \in 0..Capacity /\ p > info[f].n
      /\ info[f].u \in Nat /\ info[last].n \in Nat /\ info[last].u \in Nat
    <2>1. /\ f \in Nat /\ last \in Nat /\ last \in Files /\ disk.last \in Nat /\ disk.last <= last /\ Capacity \in Nat
          /\ info[f].n \in 0..Capacity /\ info[f].u \in 0..Capacity
          /\ info[last].n \in 0..Capacity /\ info[last].u \in 0..Capacity
        BY Types DEF IInv, Behind
    <2>2. QED
        BY <1>0, <1>1, <2>1 DEF Slots
<1>4. /\ index'[b].st = "data" /\ index'[b].file = f /\ index'[b].pos = p
      /\ index'[b].upos = 0 /\ ~index'[b].valid /\ index'[b].pruned = FALSE
      /\ index' \in [Blocks -> Entries]
      /\ \A c \in Blocks : c # b => index'[c] = index[c]
    <2>1. index \in [Blocks -> Entries] /\ index[b].upos = 0 /\ ~index[b].valid /\ ~index[b].pruned
        BY <1>1 DEF IInv, TypeOK, Placing, Shape
    <2>2. index[b] \in Entries
        BY <2>1
    <2>3. index'[b] = [index[b] EXCEPT !.st = "data", !.file = f, !.pos = p]
        BY <1>1, <2>1
    <2>4. /\ index'[b].st = "data" /\ index'[b].file = f /\ index'[b].pos = p
          /\ index'[b].upos = 0 /\ ~index'[b].valid /\ index'[b].pruned = FALSE
          /\ index'[b] \in Entries
        BY <1>3, <2>1, <2>2, <2>3 DEF Entries
    <2>5. \A c \in Blocks : c # b => index'[c] = index[c]
        BY <1>1, <2>1
    <2>6. \A c \in Blocks : index'[c] \in Entries
        BY <2>1, <2>4, <2>5
    <2>7. index' = [c \in Blocks |-> index'[c]]
        BY <1>1, <2>1
    <2>8. QED
        BY <2>4, <2>5, <2>6, <2>7
<1>5. /\ info'[f].n = p /\ info'[f].u = info[f].u /\ info' \in [Files -> InfoType]
      /\ \A g \in Files : g # f => info'[g] = info[g]
    <2>1. info \in [Files -> InfoType] /\ info[f] \in InfoType
        BY DEF IInv, TypeOK
    <2>2. [info[f] EXCEPT !.n = p] \in InfoType /\ [info[f] EXCEPT !.n = p].n = p
          /\ [info[f] EXCEPT !.n = p].u = info[f].u
        BY <1>3, <2>1 DEF InfoType
    <2>3. QED
        BY <1>1, <2>1, <2>2
<1>6. /\ DataOf(index', f) = DataOf(index, f) \cup {b}
      /\ \A g \in Files : g # f => DataOf(index', g) = DataOf(index, g)
      /\ \A g \in Files : b \notin DataOf(index, g)
    BY <1>1, <1>4 DEF DataOf
<1>7. ASSUME NEW g \in Files, g < f \/ g < last PROVE g # f /\ rev'[g] = rev[g]
    <2>1. g \in Nat
        BY ConstantTypes
    <2>2. g # f
        BY <1>3, <1>7, <2>1
    <2>3. rev'[g] = rev[g]
        BY <1>1, <2>2 DEF IInv, TypeOK
    <2>4. QED
        BY <2>2, <2>3
<1>8. TypeOK'
    <2>1. \A c \in [Slots -> Content], n \in Nat : Truncated(c, n) \in [Slots -> Content]
        BY DEF Truncated, Content
    <2>2. \A c \in [Slots -> Blocks \cup {None}], n \in Nat : Truncated(c, n) \in [Slots -> Blocks \cup {None}]
        BY DEF Truncated
    <2>3. blk' \in [Files -> [Slots -> Content]]
        <3>1. blk \in [Files -> [Slots -> Content]]
            BY DEF IInv, TypeOK
        <3>2. old \in [Slots -> Content]
            <4>1. CASE StrayRemoved(f)
                BY <1>2, <4>1 DEF Content
            <4>2. CASE ~StrayRemoved(f)
                BY <1>2, <3>1, <4>2
            <4>3. QED
                BY <4>1, <4>2
        <3>3. [block |-> b, stripped |-> FALSE] \in Content
            BY DEF Content
        <3>4. [old EXCEPT ![p] = [block |-> b, stripped |-> FALSE]] \in [Slots -> Content]
            BY <1>3, <3>2, <3>3
        <3>5. Truncated(blk[last], info[last].n) \in [Slots -> Content]
            BY <1>3, <2>1, <3>1
        <3>6. QED
            BY <1>2, <3>1, <3>4, <3>5
    <2>4. rev' \in [Files -> Files \cup {None}]
        BY <1>1 DEF IInv, TypeOK
    <2>5. undo' \in [Files -> [Slots -> Blocks \cup {None}]]
        BY <1>1, <1>3, <2>2 DEF IInv, TypeOK
    <2>6. QED
        BY <1>1, <1>3, <1>4, <1>5, <2>3, <2>4, <2>5 DEF IInv, TypeOK
<1>9. Placing'
    <2>1. Shape(index')
        BY <1>4 DEF IInv, Placing, Shape
    <2>2. Placed(index', info')
        <3> SUFFICES ASSUME NEW g \in Files PROVE PlacedIn(index', g, info'[g])
            BY DEF Placed
        <3>1. PlacedIn(index, g, info[g]) /\ \A c \in DataOf(index, g) : c \in Blocks /\ c # b
            BY <1>6 DEF IInv, Placing, Placed, DataOf
        <3>2. \A c \in DataOf(index, g) : index'[c] = index[c]
            BY <1>4, <3>1
        <3>3. CASE g # f
            <4>1. PlacedIn(index', g, info[g])
                BY <1>6, <3>1, <3>2, <3>3, PlacedSame
            <4>2. QED
                BY <1>5, <3>3, <4>1
        <3>4. CASE g = f
            <4>1. \A c \in DataOf(index, f) : index[c].pos \in 1..info[f].n /\ index[c].upos \in 0..info[f].u
                BY <3>1, <3>4 DEF PlacedIn
            <4>2. \A c \in DataOf(index', f) : index'[c].pos \in 1..info'[f].n /\ index'[c].upos \in 0..info'[f].u
                <5>1. index'[b].pos \in 1..p /\ index'[b].upos \in 0..info[f].u
                    BY <1>3, <1>4, <1>0
                <5>2. \A c \in DataOf(index, f) : index'[c].pos \in 1..p /\ index'[c].upos \in 0..info[f].u
                    BY <1>3, <1>0, <3>2, <3>4, <4>1
                <5>3. QED
                    BY <1>5, <1>6, <5>1, <5>2
            <4>3. \A c \in DataOf(index, f) : index'[c].pos # index'[b].pos
                BY <1>3, <1>4, <3>2, <3>4, <4>1
            <4>4. \A c, d \in DataOf(index', f) : index'[c].pos = index'[d].pos => c = d
                BY <1>6, <3>1, <3>2, <3>4, <4>3 DEF PlacedIn
            <4>5. \A q \in 1..info'[f].u : \E c \in DataOf(index', f) : index'[c].upos = q
                BY <1>5, <1>6, <3>1, <3>2, <3>4 DEF PlacedIn
            <4>6. DataOf(index', f) # {}
                BY <1>6
            <4>7. QED
                BY <3>4, <4>2, <4>4, <4>5, <4>6 DEF PlacedIn
        <3>5. QED
            BY <3>3, <3>4
    <2>3. Gapless(info', f)
        <3> SUFFICES ASSUME NEW a \in Files, NEW g \in Files, f < a, a < g, info'[g].n # 0
                     PROVE  info'[a].n # 0
            BY DEF Gapless
        <3>1. a \in Nat /\ g \in Nat
            BY ConstantTypes
        <3>2. a # f /\ g # f /\ last < a
            BY <1>3, <3>1
        <3>3. QED
            BY <1>5, <3>2 DEF IInv, Placing, Gapless
    <2>4. QED
        BY <1>1, <2>1, <2>2, <2>3, PlacingParts DEF PlacedAll, IInv
<1>10. Behind'
    <2> SUFFICES ASSUME NEW c \in Blocks, disk.index[c].st = "data"
                 PROVE  /\ index'[c].st = "data" /\ disk.index[c].pos = index'[c].pos
                        /\ disk.index[c].upos \in {0, index'[c].upos}
                        /\ disk.index[c].file = index'[c].file \/ Retired(disk.index[c].file)'
        BY <1>1, <1>3 DEF Behind, Lags
    <2>1. /\ index[c].st = "data" /\ disk.index[c].pos = index[c].pos
          /\ disk.index[c].upos \in {0, index[c].upos}
          /\ disk.index[c].file = index[c].file \/ Retired(disk.index[c].file)
        BY DEF IInv, Behind, Lags
    <2>2. index'[c] = index[c]
        BY <1>1, <1>4, <2>1
    <2>3. ASSUME Retired(disk.index[c].file) PROVE Retired(disk.index[c].file)'
        <3>1. disk.index[c].file \in Files /\ disk.index[c].file \in Nat
            BY Types, ConstantTypes DEF IInv
        <3>2. disk.index[c].file < last /\ info[disk.index[c].file] = NoInfo
            BY <2>3 DEF Retired
        <3>3. disk.index[c].file < f
            BY <1>3, <3>1, <3>2
        <3>4. info'[disk.index[c].file] = NoInfo
            BY <1>5, <1>7, <3>1, <3>2
        <3>5. QED
            BY <1>1, <2>3, <3>3, <3>4 DEF Retired
    <2>4. QED
        BY <2>1, <2>2, <2>3
<1>11. ASSUME NEW g \in Files, Linked(g)'
       PROVE  Linked(g) /\ rev'[g] = rev[g] /\ rev[g] \in Files /\ g # f /\ rev[g] # f
    <2>1. rev'[g] # None /\ rev'[g] # g
        BY <1>11 DEF Linked
    <2>2. rev'[g] = rev[g]
        BY <1>1, <2>1 DEF IInv, TypeOK
    <2>3. Linked(g) /\ rev[g] \in Files
        BY <2>1, <2>2, Types DEF Linked, IInv
    <2>4. g < disk.last /\ rev[g] < disk.last /\ g \in Nat /\ rev[g] \in Nat
        BY <2>3, ConstantTypes DEF IInv, Names, LinkSafe
    <2>5. QED
        BY <1>3, <2>2, <2>3, <2>4
<1>12. Names'
    <2> SUFFICES ASSUME NEW g \in Files, Linked(g)' PROVE LinkSafe(g)'
        BY DEF Names
    <2>1. Linked(g) /\ rev'[g] = rev[g] /\ rev[g] \in Files /\ g # f /\ rev[g] # f
        BY <1>11
    <2>2. LinkSafe(g) /\ \A c \in DataOf(index, g) : c \in Blocks /\ c # b
        BY <1>6, <2>1 DEF IInv, Names, DataOf
    <2>3. DataOf(index', g) = DataOf(index, g) /\ DataOf(index', rev[g]) = DataOf(index, rev[g])
        BY <1>6, <2>1
    <2>4. QED
        BY <1>1, <1>4, <2>1, <2>2, <2>3 DEF LinkSafe
<1>13. Sweeping' /\ Passing' /\ Connecting'
    <2>1. ASSUME NEW o \in pass.orphans
          PROVE  o < f /\ DataOf(index', o) = {} /\ (setting.fail \/ DataOf(disk.index, o) = {})
        <3>1. o \in Files /\ o \in Nat /\ o < last
            BY <2>1, Types DEF IInv, Sweeping
        <3>2. QED
            BY <1>3, <1>6, <1>7, <2>1, <3>1 DEF IInv, Sweeping
    <2>2. ASSUME pass.pc \in {"flush", "deleteBlk", "deleteRev"} PROVE DataOf(index', pass.src) = {}
        <3>1. pass.src \in Files /\ pass.src \in Nat /\ pass.target \in Nat
            BY Types DEF IInv
        <3>2. pass.src < f /\ DataOf(index, pass.src) = {}
            BY <1>3, <2>2, <3>1 DEF IInv, Passing
        <3>3. QED
            BY <1>6, <1>7, <3>1, <3>2
    <2>3. QED
        BY <1>1, <2>1, <2>2 DEF IInv, Sweeping, Passing, Connecting
<1>14. Copying'
    <2> SUFFICES ASSUME pass.pc \in {"rewrite", "link", "commit"} PROVE Copying'
        BY <1>1 DEF Copying
    <2>1. pass.src \in Files /\ pass.src \in Nat /\ pass.target \in Nat /\ pass.target \in Files
        BY Types DEF IInv
    <2>2. pass.src < last /\ pass.target < last /\ pass.target # last
        BY <1>3, <2>1 DEF IInv, Passing, Behind
    <2>3. /\ pass.src # f /\ pass.target # f
          /\ rev'[pass.src] = rev[pass.src] /\ rev'[pass.target] = rev[pass.target]
        BY <1>7, <2>1, <2>2
    <2>4. blk'[pass.target] = blk[pass.target]
        BY <1>2, <2>1, <2>2, <2>3
    <2>5. DataOf(index', pass.src) = DataOf(index, pass.src) /\ DataOf(index', pass.target) = DataOf(index, pass.target)
        BY <1>6, <2>1, <2>3
    <2>6. \A c \in pass.moving : index'[c] = index[c]
        BY <1>4, <1>6, <2>1 DEF IInv, Copying, DataOf
    <2>7. \A g \in Files : Linked(g)' => rev'[g] # pass.target
        BY <1>11 DEF IInv, Copying
    <2>8. Linked(pass.target)' => Linked(pass.target)
        BY <1>1, <2>3 DEF Linked
    <2>9. /\ pass.moving = DataOf(index', pass.src) /\ pass.moving # {}
          /\ \A c \in pass.moving : ~index'[c].pruned /\ (c # Genesis => index'[c].upos # 0)
          /\ DataOf(index', pass.target) = {} /\ DataOf(disk.index, pass.target) = {}
          /\ Linked(pass.target)' => pass.pc = "commit" /\ rev'[pass.target] = pass.src
          /\ pass.pc # "rewrite" =>
             \A c \in pass.moving : blk'[pass.target][index'[c].pos] = [block |-> c, stripped |-> TRUE]
          /\ pass.pc = "commit" /\ rev'[pass.src] # None => rev'[pass.target] = rev'[pass.src]
        BY <2>3, <2>4, <2>5, <2>6, <2>8 DEF IInv, Copying
    <2>10. QED
        BY <1>1, <2>7, <2>9 DEF Copying
<1>15. KeepsHeld
    <2> SUFFICES ASSUME NEW g, NEW q, NEW r, Held(g, q, r)
                 PROVE  /\ blk'[g][q] = blk[g][q]
                        /\ r # 0 /\ rev[g] # None => rev'[g] = rev[g] /\ undo'[rev[g]][r] = undo[rev[g]][r]
        BY DEF KeepsHeld
    <2>1. /\ g \in Files /\ q \in Slots /\ r \in 0..Capacity /\ q \in Nat /\ q # 0 /\ r \in Nat
          /\ g \in {f, last} => q <= info[g].n /\ r <= info[g].u
        BY <1>3, ConstantTypes DEF Held, Slots
    <2>2. g = f => ~StrayRemoved(f)
        <3>1. NoInfo.n = 0
            BY DEF NoInfo
        <3>2. QED
            BY <2>1, <3>1 DEF StrayRemoved
    <2>3. blk'[g][q] = blk[g][q]
        <3>1. CASE g = f
            <4>1. old = blk[f] /\ q # p /\ blk[f] \in [Slots -> Content]
                BY <1>2, <1>3, <2>1, <2>2, <3>1, Types DEF IInv
            <4>2. QED
                BY <1>2, <2>1, <3>1, <4>1
        <3>2. CASE g # f /\ g = last
            BY <1>2, <2>1, <3>2 DEF Truncated
        <3>3. CASE g # f /\ g # last
            BY <1>2, <2>1, <3>3
        <3>4. QED
            BY <3>1, <3>2, <3>3
    <2>4. rev'[g] = rev[g]
        BY <1>1, <2>1, <2>2 DEF IInv, TypeOK
    <2>5. ASSUME r # 0, rev[g] # None PROVE undo'[rev[g]][r] = undo[rev[g]][r]
        <3>1. rev[g] \in Files /\ r \in Slots
            BY <2>1, <2>5, Types, ConstantTypes DEF IInv, Slots
        <3>2. CASE rev[g] = rev[last]
            <4>1. g = last
                BY <2>1, <2>5, <3>2, AppendOwnsUndo
            <4>2. undo'[rev[g]] \in {undo[rev[g]], Truncated(undo[rev[g]], info[last].u)}
                BY <1>1, <3>1
            <4>3. Truncated(undo[rev[g]], info[last].u)[r] = undo[rev[g]][r]
                BY <2>1, <3>1, <4>1 DEF Truncated
            <4>4. QED
                BY <4>2, <4>3
        <3>3. CASE rev[g] # rev[last]
            BY <1>1, <3>1, <3>3
        <3>4. QED
            BY <3>2, <3>3
    <2>6. QED
        BY <2>3, <2>4, <2>5
<1>16. ReadsResolve'
    <2>1. blk'[f][p] = [block |-> b, stripped |-> FALSE]
        <3>1. old \in [Slots -> Content]
            <4>1. CASE StrayRemoved(f)
                BY <1>2, <4>1 DEF Content
            <4>2. CASE ~StrayRemoved(f)
                BY <1>2, <4>2, Types DEF IInv
            <4>3. QED
                BY <4>1, <4>2
        <3>2. QED
            BY <1>2, <1>3, <3>1
    <2>2. \A c \in Blocks : index'[c].st = "data" =>
                \/ index'[c] = index[c]
                \/ /\ blk'[index'[c].file][index'[c].pos] = [block |-> c, stripped |-> index'[c].pruned]
                   /\ index'[c].upos = 0
        BY <1>4, <2>1
    <2>3. QED
        BY <1>1, <1>15, <2>2, KeptResolves
<1>17. QED
    BY <1>8, <1>9, <1>10, <1>12, <1>13, <1>14, <1>16 DEF IInv
-----------------------------------------------------------------------------
(* Undo data is appended.                                                    *)

\* The next block on the way to the block ActivateBestChainStep is heading for.
LEMMA NextBlock ==
    ASSUME IInv, ConnectTip
    PROVE  /\ AncestorAt(most, Height[tip] + 1) \in Blocks \ {Genesis}
           /\ index[AncestorAt(most, Height[tip] + 1)].st = "data"
<1>1. most \in Blocks /\ tip \in Blocks /\ IsAncestor(tip, most) /\ tip # most /\ most # None
    <2>1. IsAncestor(tip, most) /\ tip # most /\ most # None
        BY Zenon DEF ConnectTip
    <2>2. QED
        BY <2>1, Types DEF IInv
<1>2. Height[most] \in Nat /\ Height[tip] \in Nat
    BY <1>1, TreeTypes
<1>3. Height[tip] <= Height[most] /\ AncestorAt(most, Height[tip]) = tip
    BY <1>1 DEF IsAncestor
<1>4. Height[tip] + 1 <= Height[most]
    <2>1. Height[tip] # Height[most]
        BY <1>1, <1>2, <1>3 DEF AncestorAt
    <2>2. QED
        BY <1>2, <1>3, <2>1
<1>5. PICK h : h = Height[tip] + 1
    OBVIOUS
<1>6. h \in Nat /\ h \in 0..Height[most] /\ h <= Height[most] /\ h # 0
    BY <1>2, <1>4, <1>5
<1>7. AncestorAt(most, h) \in Blocks /\ Height[AncestorAt(most, h)] = h
    BY <1>1, <1>6, AncestorHeight
<1>8. AncestorAt(most, h) # Genesis
    BY <1>6, <1>7, CompactionConstants
<1>9. index[AncestorAt(most, h)].st = "data"
    BY <1>1, <1>6 DEF IInv, Connecting
<1>10. QED
    BY <1>5, <1>7, <1>8, <1>9

LEMMA LocksHeld ==
    ASSUME TypeOK, Release \/ UNCHANGED locks
    PROVE  most' \in {most, None} /\ oldTip' \in Blocks /\ flushing' = flushing
BY TreeTypes DEF TypeOK, Release, locks

\* A block without witnesses is marked.
LEMMA ConnectFailedInv ==
    ASSUME IInv, NEW b \in Blocks, index' = [index EXCEPT ![b].failed = TRUE], Release,
           UNCHANGED <<setting, crashes, info, last, disk, tip, diskTip, bestHeader, ibd, blk, rev, undo, pass>>
    PROVE  IInv'
<1>1. index \in [Blocks -> Entries] /\ TypeOK /\ Connecting
    BY DEF IInv, TypeOK
<1>2. most' = None /\ oldTip' \in Blocks /\ flushing' = flushing
    BY TreeTypes DEF Release
<1>3. \A c \in Blocks :
        /\ index'[c].st = index[c].st
        /\ index'[c].file = index[c].file /\ index'[c].pos = index[c].pos
        /\ index'[c].upos = index[c].upos /\ index'[c].pruned = index[c].pruned
        /\ index'[c].valid = index[c].valid
    BY <1>1 DEF Entries
<1>4. SameData
    BY <1>3 DEF SameData
<1>5. index' \in [Blocks -> Entries]
    BY <1>1 DEF Entries
<1>6. TypeOK' /\ Connecting'
    BY <1>1, <1>2, <1>5 DEF TypeOK, Connecting
<1>7. QED
    BY <1>2, <1>4, <1>6, SameDataInv DEF IInv

\* A block is connected again: its undo data is there.
LEMMA ReconnectInv ==
    ASSUME IInv, NEW b \in Blocks, tip' = b, Release \/ UNCHANGED locks,
           UNCHANGED <<setting, crashes, index, info, last, disk, diskTip, bestHeader, ibd, blk, rev, undo, pass>>
    PROVE  IInv'
<1>1. most' \in {most, None} /\ oldTip' \in Blocks /\ flushing' = flushing
    BY LocksHeld DEF IInv
<1>2. TypeOK'
    BY <1>1 DEF IInv, TypeOK
<1>3. Placing' /\ Names' /\ ReadsResolve' /\ Connecting' /\ Behind' /\ Sweeping' /\ Copying' /\ Passing'
    BY <1>1, FramePlacing, FrameNames, FrameResolve, FrameConnecting, FrameBehind, FramePass DEF IInv
<1>4. QED
    BY <1>2, <1>3 DEF IInv

\* Nobody else's undo data is where a block that still has its witnesses gets its own.
LEMMA UndoPlaceFree ==
    ASSUME IInv, Resolves(index),
           NEW b \in Blocks, index[b].st = "data",
           blk[index[b].file][index[b].pos] = [block |-> b, stripped |-> FALSE],
           NEW idx \in {index, disk.index},
           NEW c \in Blocks, idx[c].st = "data", rev[idx[c].file] # None,
           rev[idx[c].file] = rev[index[b].file] \/ rev[idx[c].file] = index[b].file
    PROVE  /\ rev[index[b].file] \in {None, index[b].file}
           /\ idx[c].file = index[b].file
           /\ idx[c].upos <= info[index[b].file].u
<1>0. PICK f, g : f = index[b].file /\ g = idx[c].file
    OBVIOUS
<1>1. f \in Files /\ b \in DataOf(index, f) /\ g \in Files /\ c \in DataOf(idx, g)
    BY <1>0, Types DEF IInv, DataOf
<1>2. ~Linked(f)
    <2>1. SUFFICES ASSUME index[b].pruned PROVE FALSE
        BY <1>1 DEF IInv, Names, LinkSafe
    <2>2. blk[index[b].file][index[b].pos] = [block |-> b, stripped |-> index[b].pruned]
        BY DEF Resolves
    <2>3. [block |-> b, stripped |-> FALSE].stripped = FALSE
          /\ [block |-> b, stripped |-> index[b].pruned].stripped = index[b].pruned
        OBVIOUS
    <2>4. QED
        BY <2>1, <2>2, <2>3
<1>3. rev[f] \in {None, f}
    BY <1>2 DEF Linked
<1>4. rev[g] = f /\ rev[g] # None
    BY <1>0, <1>3
<1>5. g = f
    <2>1. SUFFICES ASSUME g # f PROVE FALSE
        OBVIOUS
    <2>2. Linked(g)
        BY <1>4, <2>1 DEF Linked
    <2>3. LinkSafe(g)
        BY <1>1, <2>2 DEF IInv, Names
    <2>4. DataOf(index, f) = {}
        BY <1>1, <1>4, <2>3 DEF LinkSafe
    <2>5. QED
        BY <1>1, <2>4
<1>6. idx[c].upos <= info[f].u
    <2>0. info[f].u \in Nat
        BY <1>1, Types DEF IInv
    <2>1. \A d \in DataOf(index, f) : index[d].upos \in 0..info[f].u
        BY <1>1 DEF IInv, Placing, Placed, PlacedIn
    <2>2. CASE idx = index
        BY <1>1, <1>5, <2>0, <2>1, <2>2
    <2>3. CASE idx = disk.index
        <3>1. /\ index[c].st = "data" /\ idx[c].upos \in {0, index[c].upos}
              /\ g = index[c].file \/ Retired(g)
            BY <1>0, <2>3 DEF IInv, Behind, Lags
        <3>2. ~Retired(f)
            BY <1>1, EmptyFile DEF Retired
        <3>3. c \in DataOf(index, f)
            BY <1>5, <3>1, <3>2 DEF DataOf
        <3>4. index[c].upos \in 0..info[f].u
            BY <2>1, <3>3
        <3>5. QED
            BY <2>0, <3>1, <3>4
    <2>4. QED
        BY <2>2, <2>3
<1>7. QED
    BY <1>0, <1>3, <1>5, <1>6

\* A block is connected for the first time.
Undoes(b, f, p, inode) ==
    /\ info' = [info EXCEPT ![f].u = p]
    /\ index' = [index EXCEPT ![b].upos = p, ![b].valid = TRUE]
    /\ rev' = [rev EXCEPT ![f] = inode]
    /\ undo' = [undo EXCEPT ![inode][p] = b]

LEMMA ConnectNewInv ==
    ASSUME IInv, NEW b \in Blocks, b # Genesis, index[b].st = "data", index[b].upos = 0,
           NEW f, NEW p, NEW inode, f = index[b].file, p = info[f].u + 1,
           inode = (IF rev[f] = None THEN f ELSE rev[f]),
           blk[f][index[b].pos] = [block |-> b, stripped |-> FALSE],
           Undoes(b, f, p, inode), tip' = b, Release \/ UNCHANGED locks,
           UNCHANGED <<setting, crashes, last, disk, diskTip, bestHeader, ibd, blk, pass>>
    PROVE  IInv'
<1>1. most' \in {most, None} /\ oldTip' \in Blocks /\ flushing' = flushing
    BY LocksHeld DEF IInv
<1>2. f \in Files /\ b \in DataOf(index, f) /\ info[f] # NoInfo /\ info[f].n # 0
    <2>1. f \in Files /\ b \in DataOf(index, f)
        BY Types DEF IInv, DataOf
    <2>2. QED
        BY <2>1, EmptyFile
<1>3. p \in 1..Capacity /\ p \in Slots /\ p \in Nat /\ p # 0 /\ p \in 0..Capacity /\ info[f].u \in Nat /\ info[f].u < p
    <2>1. info[f] \in InfoType /\ PlacedIn(index, f, info[f]) /\ info[f].u \in Nat
        BY <1>2, Types DEF IInv, Placing, Placed
    <2>2. p \in 1..Capacity
        BY <1>2, <2>1, UndoFits
    <2>3. QED
        BY <2>1, <2>2, ConstantTypes DEF Slots
<1>4. inode \in Files
    BY <1>2, Types DEF IInv
<1>5. /\ index'[b].upos = p /\ index'[b].valid = TRUE
      /\ index'[b].st = "data" /\ index'[b].file = f /\ index'[b].pos = index[b].pos
      /\ index'[b].pruned = index[b].pruned
      /\ index' \in [Blocks -> Entries]
      /\ \A c \in Blocks : c # b => index'[c] = index[c]
    <2>1. index \in [Blocks -> Entries] /\ index[b] \in Entries
        BY DEF IInv, TypeOK
    <2>2. index'[b] = [index[b] EXCEPT !.upos = p, !.valid = TRUE]
        BY <2>1 DEF Undoes
    <2>3. /\ index'[b].upos = p /\ index'[b].valid = TRUE
          /\ index'[b].st = index[b].st /\ index'[b].file = index[b].file /\ index'[b].pos = index[b].pos
          /\ index'[b].pruned = index[b].pruned /\ index'[b] \in Entries
        BY <1>3, <2>1, <2>2 DEF Entries
    <2>4. \A c \in Blocks : c # b => index'[c] = index[c]
        BY <2>1 DEF Undoes
    <2>5. \A c \in Blocks : index'[c] \in Entries
        BY <2>1, <2>3, <2>4
    <2>6. index' = [c \in Blocks |-> index'[c]]
        BY <2>1 DEF Undoes
    <2>7. QED
        BY <2>3, <2>4, <2>5, <2>6
<1>6. \A c \in Blocks :
        /\ index'[c].st = index[c].st /\ index'[c].file = index[c].file /\ index'[c].pos = index[c].pos
        /\ index'[c].pruned = index[c].pruned
    BY <1>5
<1>7. \A g : DataOf(index', g) = DataOf(index, g)
    BY <1>6 DEF DataOf
<1>8. /\ info'[f].u = p /\ info'[f].n = info[f].n /\ info' \in [Files -> InfoType]
      /\ \A g \in Files : g # f => info'[g] = info[g]
    <2>1. info \in [Files -> InfoType] /\ info[f] \in InfoType
        BY <1>2 DEF IInv, TypeOK
    <2>2. [info[f] EXCEPT !.u = p] \in InfoType /\ [info[f] EXCEPT !.u = p].u = p
          /\ [info[f] EXCEPT !.u = p].n = info[f].n
        BY <1>3, <2>1 DEF InfoType
    <2>3. QED
        BY <1>2, <2>1, <2>2 DEF Undoes
<1>9. /\ rev' \in [Files -> Files \cup {None}] /\ rev'[f] = inode
      /\ \A g \in Files : rev[g] # None \/ g # f => rev'[g] = rev[g]
    BY <1>2, <1>4 DEF IInv, TypeOK, Undoes
<1>10. /\ undo' \in [Files -> [Slots -> Blocks \cup {None}]]
       /\ undo'[inode][p] = b
       /\ \A i \in Files, q \in Slots : i # inode \/ q # p => undo'[i][q] = undo[i][q]
    BY <1>3, <1>4 DEF IInv, TypeOK, Undoes
<1>11. TypeOK'
    BY <1>1, <1>5, <1>8, <1>9, <1>10 DEF IInv, TypeOK
<1>12. Placing'
    <2>1. Shape(index')
        BY <1>3, <1>5 DEF IInv, Placing, Shape
    <2>2. Placed(index', info')
        <3> SUFFICES ASSUME NEW g \in Files PROVE PlacedIn(index', g, info'[g])
            BY DEF Placed
        <3>1. PlacedIn(index, g, info[g]) /\ \A c \in DataOf(index, g) : c \in Blocks /\ index[c].file = g
            BY DEF IInv, Placing, Placed, DataOf
        <3>2. CASE g # f
            <4>1. \A c \in DataOf(index, g) : index'[c] = index[c]
                BY <1>5, <3>1, <3>2
            <4>2. PlacedIn(index', g, info[g])
                BY <1>7, <3>1, <4>1, PlacedSame
            <4>3. QED
                BY <1>8, <3>2, <4>2
        <3>3. CASE g = f
            <4>1. \A c \in DataOf(index, f) : index'[c].pos \in 1..info'[f].n /\ index'[c].upos \in 0..p
                <5>1. \A c \in DataOf(index, f) : index[c].pos \in 1..info[f].n /\ index[c].upos \in 0..info[f].u
                    BY <3>1, <3>3 DEF PlacedIn
                <5>2. 0..info[f].u \subseteq 0..p /\ p \in 0..p
                    BY ONLY <1>3
                <5>3. QED
                    BY <1>5, <1>6, <1>8, <3>1, <3>3, <5>1, <5>2
            <4>2. \A c, d \in DataOf(index, f) : index'[c].pos = index'[d].pos => c = d
                BY <1>6, <3>1, <3>3 DEF PlacedIn
            <4>3. ASSUME NEW q \in 1..p PROVE \E c \in DataOf(index, f) : index'[c].upos = q
                <5>1. CASE q = p
                    BY <1>2, <1>5, <5>1
                <5>2. CASE q # p
                    <6>1. q \in 1..info[f].u /\ q # 0
                        BY ONLY <1>3, <4>3, <5>2, p = info[f].u + 1
                    <6>2. PICK c \in DataOf(index, f) : index[c].upos = q
                        BY <3>1, <3>3, <6>1 DEF PlacedIn
                    <6>3. c # b /\ c \in Blocks
                        BY <3>1, <3>3, <6>1, <6>2
                    <6>4. QED
                        BY <1>5, <6>2, <6>3
                <5>3. QED
                    BY <5>1, <5>2
            <4>4. QED
                BY <1>2, <1>7, <1>8, <3>3, <4>1, <4>2, <4>3 DEF PlacedIn
        <3>4. QED
            BY <3>2, <3>3
    <2>3. Gapless(info', last)
        <3>1. \A g \in Files : info'[g].n = info[g].n
            BY <1>8
        <3>2. QED
            BY <3>1 DEF IInv, Placing, Gapless
    <2>4. QED
        BY <2>1, <2>2, <2>3, PlacingParts DEF PlacedAll, IInv
<1>13. Behind'
    <2> SUFFICES ASSUME NEW c \in Blocks, disk.index[c].st = "data"
                 PROVE  /\ index'[c].st = "data" /\ disk.index[c].pos = index'[c].pos
                        /\ disk.index[c].upos \in {0, index'[c].upos}
                        /\ disk.index[c].file = index'[c].file \/ Retired(disk.index[c].file)'
        BY DEF Behind, Lags, IInv
    <2>1. /\ index[c].st = "data" /\ disk.index[c].pos = index[c].pos
          /\ disk.index[c].upos \in {0, index[c].upos}
          /\ disk.index[c].file = index[c].file \/ Retired(disk.index[c].file)
        BY DEF IInv, Behind, Lags
    <2>2. disk.index[c].upos \in {0, index'[c].upos}
        BY <1>5, <2>1
    <2>3. ASSUME Retired(disk.index[c].file) PROVE Retired(disk.index[c].file)'
        <3>1. disk.index[c].file \in Files /\ disk.index[c].file # f
            BY <1>2, <2>3, Types DEF IInv, Retired
        <3>2. info'[disk.index[c].file] = info[disk.index[c].file]
            BY <1>8, <3>1
        <3>3. QED
            BY <1>1, <2>3, <3>2 DEF Retired
    <2>4. QED
        BY <1>6, <2>1, <2>2, <2>3
<1>14. ASSUME NEW g \in Files PROVE Linked(g)' <=> Linked(g) /\ rev'[g] = rev[g]
    <2>1. CASE rev[g] # None \/ g # f
        BY <1>9, <2>1 DEF Linked
    <2>2. CASE rev[g] = None /\ g = f
        BY <1>9, <2>2 DEF Linked
    <2>3. QED
        BY <2>1, <2>2
<1>15. Names'
    <2> SUFFICES ASSUME NEW g \in Files, Linked(g)' PROVE LinkSafe(g)'
        BY DEF Names
    <2>1. LinkSafe(g) /\ rev'[g] = rev[g] /\ \A c \in DataOf(index, g) : c \in Blocks
        BY <1>14 DEF IInv, Names, DataOf
    <2>2. QED
        BY <1>6, <1>7, <2>1 DEF LinkSafe
<1>16. Sweeping' /\ Passing' /\ Connecting'
    <2>1. Sweeping' /\ Passing'
        BY <1>1, <1>7 DEF IInv, Sweeping, Passing
    <2>2. Connecting'
        <3> SUFFICES ASSUME most # None, most' = most, NEW h \in 0..Height[most]
                     PROVE  index'[AncestorAt(most, h)].st = "data"
            BY <1>1 DEF Connecting
        <3>1. h \in Nat /\ most \in Blocks
            BY Types, TreeTypes DEF IInv
        <3>2. AncestorAt(most, h) \in Blocks /\ index[AncestorAt(most, h)].st = "data"
            BY <3>1, AncestorHeight DEF IInv, Connecting
        <3>3. QED
            BY <1>6, <3>2
    <2>3. QED
        BY <2>1, <2>2
<1>17. Copying'
    <2> SUFFICES ASSUME pass.pc \in {"rewrite", "link", "commit"} PROVE Copying'
        BY DEF Copying
    <2>1. PICK s, t, M : s = pass.src /\ t = pass.target /\ M = pass.moving
        OBVIOUS
    <2>2. s \in Files /\ t \in Files /\ M \subseteq Blocks
        BY <2>1, Types DEF IInv
    <2>3. /\ M = DataOf(index, s) /\ M # {}
          /\ \A c \in M : ~index[c].pruned /\ (c # Genesis => index[c].upos # 0)
          /\ DataOf(index, t) = {} /\ DataOf(disk.index, t) = {}
          /\ \A g \in Files : Linked(g) => rev[g] # t
          /\ Linked(t) => pass.pc = "commit" /\ rev[t] = s
          /\ pass.pc # "rewrite" =>
             \A c \in M : blk[t][index[c].pos] = [block |-> c, stripped |-> TRUE]
          /\ pass.pc = "commit" /\ rev[s] # None => rev[t] = rev[s]
        BY <2>1 DEF IInv, Copying
    <2>4. f # s /\ f # t
        BY <1>2, <2>3
    <2>5. rev'[s] = rev[s] /\ rev'[t] = rev[t]
        BY <1>9, <2>2, <2>4
    <2>6. \A c \in M : index'[c] = index[c]
        BY <1>2, <1>5, <2>2, <2>3
    <2>7. /\ \A g \in Files : Linked(g)' => rev'[g] # t
          /\ Linked(t)' => pass.pc = "commit" /\ rev'[t] = s
        BY <1>14, <2>2, <2>3
    <2>8. (Linked(pass.target)' => Linked(t)') /\ s = pass'.src /\ t = pass'.target /\ M = pass'.moving
        BY <2>1 DEF Linked
    <2>9. /\ M = DataOf(index', s) /\ M # {}
          /\ \A c \in M : ~index'[c].pruned /\ (c # Genesis => index'[c].upos # 0)
          /\ DataOf(index', t) = {} /\ DataOf(disk'.index, t) = {}
          /\ pass.pc # "rewrite" =>
             \A c \in M : blk'[t][index'[c].pos] = [block |-> c, stripped |-> TRUE]
          /\ pass.pc = "commit" /\ rev'[s] # None => rev'[t] = rev'[s]
        BY <1>7, <2>3, <2>5, <2>6
    <2>10. QED
        BY <2>7, <2>8, <2>9 DEF Copying
<1>18. ASSUME Resolves(index), NEW idx \in {index, disk.index}, NEW c \in Blocks, idx[c].st = "data",
              idx[c].upos # 0, rev[idx[c].file] # None
       PROVE  /\ rev'[idx[c].file] = rev[idx[c].file]
              /\ undo'[rev[idx[c].file]][idx[c].upos] = undo[rev[idx[c].file]][idx[c].upos]
    <2>0. PICK g, q : g = idx[c].file /\ q = idx[c].upos
        OBVIOUS
    <2>1. g \in Files /\ q \in 0..Capacity /\ rev[g] \in Files /\ q # 0 /\ rev[g] # None
        BY <1>18, <2>0, Types DEF IInv
    <2>2. q \in Slots /\ q \in Nat
        BY <2>1, ConstantTypes DEF Slots
    <2>3. rev'[g] = rev[g]
        BY <1>9, <2>1
    <2>4. CASE rev[g] = inode
        <3>1. rev[g] = rev[f] \/ rev[g] = f
            BY <2>4
        <3>2. q <= info[f].u
            BY <1>18, <2>0, <2>1, <3>1, UndoPlaceFree
        <3>3. q # p
            BY <1>3, <2>2, <3>2
        <3>4. QED
            BY <1>10, <2>0, <2>1, <2>2, <2>3, <3>3
    <2>5. CASE rev[g] # inode
        BY <1>10, <2>0, <2>1, <2>2, <2>3, <2>5
    <2>6. QED
        BY <2>4, <2>5
<1>19. ASSUME Resolves(index) PROVE Resolves(index)'
    <2> SUFFICES ASSUME NEW c \in Blocks, index'[c].st = "data"
                 PROVE  /\ blk'[index'[c].file][index'[c].pos] = [block |-> c, stripped |-> index'[c].pruned]
                        /\ index'[c].upos # 0 => /\ rev'[index'[c].file] # None
                                                 /\ undo'[rev'[index'[c].file]][index'[c].upos] = c
        BY Zenon DEF Resolves
    <2>1. /\ index[c].st = "data"
          /\ blk[index[c].file][index[c].pos] = [block |-> c, stripped |-> index[c].pruned]
          /\ index[c].upos # 0 => rev[index[c].file] # None /\ undo[rev[index[c].file]][index[c].upos] = c
        BY <1>6, <1>19 DEF Resolves
    <2>2. blk'[index'[c].file][index'[c].pos] = [block |-> c, stripped |-> index'[c].pruned]
        BY <1>6, <2>1
    <2>3. CASE c = b
        <3>1. rev'[f] # None
            BY <1>4, <1>9, ConstantTypes
        <3>2. QED
            BY <1>5, <1>9, <1>10, <2>2, <2>3, <3>1
    <2>4. CASE c # b
        <3>1. index'[c] = index[c]
            BY <1>5, <2>4
        <3>2. QED
            BY <1>18, <1>19, <2>1, <2>2, <3>1
    <2>5. QED
        BY <2>3, <2>4
<1>20. ASSUME Resolves(index), Resolves(disk.index) PROVE Resolves(disk.index)'
    <2> SUFFICES ASSUME NEW c \in Blocks, disk.index[c].st = "data"
                 PROVE  /\ blk[disk.index[c].file][disk.index[c].pos] = [block |-> c, stripped |-> disk.index[c].pruned]
                        /\ disk.index[c].upos # 0 => /\ rev'[disk.index[c].file] # None
                                                     /\ undo'[rev'[disk.index[c].file]][disk.index[c].upos] = c
        BY DEF Resolves
    <2>1. /\ blk[disk.index[c].file][disk.index[c].pos] = [block |-> c, stripped |-> disk.index[c].pruned]
          /\ disk.index[c].upos # 0 => /\ rev[disk.index[c].file] # None
                                       /\ undo[rev[disk.index[c].file]][disk.index[c].upos] = c
        BY <1>20 DEF Resolves
    <2>2. QED
        BY <1>18, <1>20, <2>1
<1>21. ReadsResolve'
    <2>1. (setting'.fail <=> setting.fail) /\ crashes' = crashes
        OBVIOUS
    <2>2. QED
        BY <1>19, <1>20, <2>1 DEF IInv, ReadsResolve
<1>22. QED
    BY <1>11, <1>12, <1>13, <1>15, <1>16, <1>17, <1>21 DEF IInv

LEMMA ConnectTipInv ==
    ASSUME IInv, ConnectTip
    PROVE  IInv'
<1>1. PICK b : b = AncestorAt(most, Height[tip] + 1)
    OBVIOUS
<1>2. b \in Blocks /\ b # Genesis /\ index[b].st = "data"
    BY <1>1, NextBlock
<1>3. PICK f, p, inode :
        /\ f = index[b].file /\ p = info[f].u + 1
        /\ inode = (IF rev[f] = None THEN f ELSE rev[f])
    OBVIOUS
<1>4. UNCHANGED <<disk, diskTip, bestHeader, ibd, pass, setting, crashes>>
    BY Zenon DEF ConnectTip
<1>5. \/ /\ index' = [index EXCEPT ![b].failed = TRUE] /\ Release
         /\ UNCHANGED <<tip, info, last, files>>
      \/ /\ blk[f][index[b].pos] = [block |-> b, stripped |-> FALSE]
         /\ tip' = b /\ (Release \/ UNCHANGED locks)
         /\ UNCHANGED <<last, blk>>
         /\ \/ index[b].upos = 0 /\ Undoes(b, f, p, inode)
            \/ UNCHANGED <<index, info, rev, undo>>
    BY <1>1, <1>3, Zenon DEF ConnectTip, Undoes
<1>6. CASE /\ index' = [index EXCEPT ![b].failed = TRUE] /\ Release
           /\ UNCHANGED <<tip, info, last, files>>
    BY <1>2, <1>4, <1>6, ConnectFailedInv DEF files
<1>7. CASE /\ blk[f][index[b].pos] = [block |-> b, stripped |-> FALSE]
           /\ tip' = b /\ (Release \/ UNCHANGED locks)
           /\ UNCHANGED <<last, blk>>
           /\ index[b].upos = 0 /\ Undoes(b, f, p, inode)
    BY <1>2, <1>3, <1>4, <1>7, ConnectNewInv
<1>8. CASE /\ tip' = b /\ (Release \/ UNCHANGED locks)
           /\ UNCHANGED <<last, blk, index, info, rev, undo>>
    BY <1>2, <1>4, <1>8, ReconnectInv
<1>9. QED
    BY <1>5, <1>6, <1>7, <1>8
-----------------------------------------------------------------------------
(* The process dies, and the specification as a whole.                       *)

LEMMA CrashRestartInv ==
    ASSUME IInv, crashes \in Nat, NEW best \in Blocks, CrashRestart(best)
    PROVE  IInv' /\ crashes' \in Nat
<1>1. /\ crashes' = crashes + 1 /\ UNCHANGED <<setting, disk, diskTip, blk, rev, undo>>
      /\ index' = disk.index /\ info' = disk.info /\ last' = disk.last
      /\ tip' = diskTip /\ bestHeader' = best /\ ibd' = TRUE
      /\ most' = None /\ oldTip' = Genesis /\ flushing' = "no" /\ pass' = NoPass
    BY DEF CrashRestart, files
<1>2. pass'.pc = "idle" /\ pass'.orphans = {} /\ pass' \in PassType
    BY <1>1, ConstantTypes DEF NoPass, PassType
<1>3. TypeOK'
    BY <1>1, <1>2, Types, TreeTypes DEF IInv, TypeOK
<1>4. Placing'
    BY <1>1, PlacingParts DEF IInv
<1>5. Behind'
    <2>1. disk.last \in Nat
        BY Types DEF IInv
    <2>2. QED
        BY <1>1, <2>1 DEF Behind, Lags
<1>6. Names'
    <2> SUFFICES ASSUME NEW g \in Files, Linked(g) PROVE LinkSafe(g)'
        BY <1>1 DEF Names, Linked
    <2>1. LinkSafe(g)
        BY DEF IInv, Names
    <2>2. QED
        BY <1>1, <2>1 DEF LinkSafe
<1>7. Sweeping' /\ Copying' /\ Passing' /\ Connecting'
    BY <1>1, <1>2 DEF Sweeping, Copying, Passing, Connecting
<1>8. ReadsResolve' /\ crashes' \in Nat
    <2>1. crashes' > 0 /\ crashes' \in Nat
        BY <1>1
    <2>2. Resolves(disk.index)' <=> Resolves(disk.index)
        BY <1>1 DEF Resolves
    <2>3. Resolves(index)' <=> Resolves(disk.index)
        BY <1>1 DEF Resolves
    <2>4. QED
        BY <1>1, <2>1, <2>2, <2>3 DEF IInv, ReadsResolve
<1>9. QED
    BY <1>3, <1>4, <1>5, <1>6, <1>7, <1>8 DEF IInv

\* Steps but a death do not count as one.
LEMMA CrashesCounted ==
    ASSUME Node \/ Pass
    PROVE  crashes' = crashes
<1>1. ASSUME NEW b \in Blocks, AcceptBlockHeader(b) \/ BeginActivate(b) PROVE crashes' = crashes
    BY <1>1, Zenon DEF AcceptBlockHeader, BeginActivate, history
<1>2. ASSUME NEW b \in Blocks, NEW f \in Files, AcceptBlock(b, f) PROVE crashes' = crashes
    BY <1>2, Zenon DEF AcceptBlock, history
<1>3. ASSUME NEW full \in BOOLEAN, WriteIndex(full) PROVE crashes' = crashes
    BY <1>3, Zenon DEF WriteIndex, history
<1>4. CASE LeaveInitialDownload \/ DisconnectTip \/ ConnectTip \/ WriteCoins
    BY <1>4, Zenon DEF LeaveInitialDownload, DisconnectTip, ConnectTip, WriteCoins, history
<1>5. ASSUME NEW f \in Files, Sweep(f) \/ Reserve(f) PROVE crashes' = crashes
    BY <1>5, Zenon DEF Sweep, Reserve, history
<1>6. CASE BeginPass \/ EndPass \/ Rewrite \/ LinkUndo \/ Commit
    BY <1>6, Zenon DEF BeginPass, EndPass, Rewrite, LinkUndo, Commit, history
<1>7. CASE PassWritesIndex \/ PassWritesCoins \/ DeleteBlk \/ DeleteRev
    BY <1>7, Zenon DEF PassWritesIndex, PassWritesCoins, DeleteBlk, DeleteRev, history
<1>8. QED
    BY <1>1, <1>2, <1>3, <1>4, <1>5, <1>6, <1>7, Zenon DEF Node, Pass

LEMMA NodeInv ==
    ASSUME IInv, Node
    PROVE  IInv'
<1>1. ASSUME NEW b \in Blocks, AcceptBlockHeader(b) PROVE IInv'
    BY <1>1, AcceptBlockHeaderInv
<1>2. ASSUME NEW b \in Blocks, BeginActivate(b) PROVE IInv'
    BY <1>2, QuietInv
<1>3. ASSUME NEW b \in Blocks, NEW f \in Files, AcceptBlock(b, f) PROVE IInv'
    BY <1>3, AcceptBlockInv
<1>4. CASE LeaveInitialDownload \/ DisconnectTip \/ WriteCoins
    BY <1>4, QuietInv
<1>5. CASE ConnectTip
    BY <1>5, ConnectTipInv
<1>6. ASSUME NEW full \in BOOLEAN, WriteIndex(full) PROVE IInv'
    BY <1>6, WriteIndexInv
<1>7. QED
    BY <1>1, <1>2, <1>3, <1>4, <1>5, <1>6, Zenon DEF Node

LEMMA PassInv ==
    ASSUME IInv, Pass
    PROVE  IInv'
<1>1. CASE BeginPass
    BY <1>1, BeginPassInv
<1>2. CASE EndPass
    BY <1>2, EndPassInv
<1>3. ASSUME NEW f \in Files, Sweep(f) PROVE IInv'
    BY <1>3, SweepInv
<1>4. ASSUME NEW f \in Files, Reserve(f) PROVE IInv'
    BY <1>4, ReserveInv
<1>5. CASE Rewrite
    BY <1>5, RewriteInv
<1>6. CASE LinkUndo
    BY <1>6, LinkUndoInv
<1>7. CASE Commit
    BY <1>7, CommitInv
<1>8. CASE PassWritesIndex
    BY <1>8, PassWritesIndexInv
<1>9. CASE PassWritesCoins
    BY <1>9, PassWritesCoinsInv
<1>10. CASE DeleteBlk
    BY <1>10, DeleteBlkInv
<1>11. CASE DeleteRev
    BY <1>11, DeleteRevInv
<1>12. QED
    BY <1>1, <1>2, <1>3, <1>4, <1>5, <1>6, <1>7, <1>8, <1>9, <1>10, <1>11, Zenon DEF Pass

LEMMA StutterInv ==
    ASSUME IInv, UNCHANGED vars
    PROVE  IInv'
<1>1. /\ UNCHANGED <<setting, crashes, index, info, last, disk, tip, diskTip, bestHeader, ibd>>
      /\ UNCHANGED <<blk, rev, undo, most, oldTip, flushing, pass>>
    BY DEF vars, memory, files, locks, history
<1>2. TypeOK'
    BY <1>1 DEF IInv, TypeOK
<1>3. Placing' /\ Names' /\ ReadsResolve' /\ Connecting' /\ Behind' /\ Sweeping' /\ Copying' /\ Passing'
    BY <1>1, FramePlacing, FrameNames, FrameResolve, FrameConnecting, FrameBehind, FramePass DEF IInv
<1>4. QED
    BY <1>2, <1>3 DEF IInv

\* CompactWitnessFiles and the appends, flushes and reorganisations beside it
\* keep index, database and files together: whatever the interleaving, and
\* wherever the process dies or (of the index in memory, until it dies) a write
\* fails, the entries point at their blocks, in the form they say, and at their
\* undo data.  The files a node starts from lie without a gap above the append
\* file.
THEOREM CompactionSound ==
    ASSUME \A l \in Settings : NoGap(l)
    PROVE  Safety => []FilesSound
<1>1. Init => IInv /\ crashes \in Nat
    <2>1. Init => crashes = 0
        BY Zenon DEF Init
    <2>2. QED
        BY <2>1, InitInv
<1>2. IInv /\ crashes \in Nat /\ [Next]_vars => (IInv /\ crashes \in Nat)'
    <2> SUFFICES ASSUME IInv, crashes \in Nat, [Next]_vars PROVE IInv' /\ crashes' \in Nat
        OBVIOUS
    <2>1. CASE Node
        BY <2>1, NodeInv, CrashesCounted
    <2>2. CASE Pass
        BY <2>2, PassInv, CrashesCounted
    <2>3. ASSUME NEW b \in Blocks, CrashRestart(b) PROVE IInv' /\ crashes' \in Nat
        BY <2>3, CrashRestartInv
    <2>4. CASE UNCHANGED vars
        <3>1. crashes' = crashes
            BY <2>4 DEF vars, history
        <3>2. QED
            BY <2>4, <3>1, StutterInv
    <2>5. QED
        BY <2>1, <2>2, <2>3, <2>4, Zenon DEF Next
<1>3. IInv => FilesSound
    BY DEF IInv, FilesSound
<1>4. QED
    BY <1>1, <1>2, <1>3, PTL DEF Safety

\* So do they with the fairness of the scheduler and of the thread that activates.
COROLLARY CompactionSoundFair ==
    ASSUME \A l \in Settings : NoGap(l)
    PROVE  Spec => []FilesSound
BY CompactionSound DEF Spec
=============================================================================
