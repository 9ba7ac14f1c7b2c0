------------------------- MODULE LevelSchedule_proofs -------------------------
(***************************************************************************)
(* What RowLevels computes, for every size and every dependency relation   *)
(* that leads from a row to earlier rows: a level above those of all rows  *)
(* it depends on.  The recursive function is shown to exist by extending a *)
(* partial one row by row; the least row at which that fails is a          *)
(* contradiction.                                                          *)
(*                                                                         *)
(* And what the counting sort does with any levels: the place of a row is  *)
(* its rank by level, then by index, so that rows have different places,   *)
(* each place has a row, and a level is the slice between two offsets.     *)
(* The sort is stated for any set of cells with a row and a column, for    *)
(* the entries of a matrix and the slots of a factor are sorted by it too. *)
(*                                                                         *)
(* The last part is about folds over finite sets, whose order the library  *)
(* leaves open: when the order of two steps does not matter, the fold of a *)
(* set is that of the set without one element, and then that element.      *)
(***************************************************************************)
EXTENDS LevelSchedule, FiniteSetTheorems, WellFoundedInduction, TLAPS

\* A set of naturals that is not empty has a least element.
LEMMA LeastNatural ==
    ASSUME NEW T \in SUBSET Nat, T # {}
    PROVE  \E least \in T : \A x \in T : least <= x
<1>1. PICK least \in T : \A x \in T : ~(<<x, least>> \in OpToRel(<, Nat))
    BY NatLessThanWellFounded, WFMin
<1>2. \A x \in T : ~(x < least)
    BY <1>1 DEF OpToRel
<1> QED
    BY <1>2

\* Min of a set of naturals.
LEMMA MinOfNaturals ==
    ASSUME NEW T \in SUBSET Nat, T # {}
    PROVE  Min(T) \in T /\ \A x \in T : Min(T) <= x
    BY LeastNatural DEF Min

\* Max of a bounded set of naturals: the least of its upper bounds.
LEMMA MaxOfNaturals ==
    ASSUME NEW n \in Nat, NEW T \in SUBSET (0 .. n), T # {}
    PROVE  Max(T) \in T /\ \A x \in T : x <= Max(T)
<1> DEFINE Above == {b \in Nat : \A x \in T : x <= b}
<1>1. n \in Above
    OBVIOUS
<1>2. PICK b \in Above : \A c \in Above : b <= c
    BY <1>1, LeastNatural
<1>3. b \in T
    <2> SUFFICES ASSUME b \notin T PROVE FALSE
        OBVIOUS
    <2>1. PICK x \in T : TRUE
        OBVIOUS
    <2>2. x \in Nat /\ x <= b /\ x # b
        OBVIOUS
    <2>3. b - 1 \in Nat
        BY <2>2
    <2>4. \A y \in T : y <= b - 1
        OBVIOUS
    <2> QED
        BY <1>2, <2>3, <2>4
<1> QED
    BY <1>3 DEF Max

-----------------------------------------------------------------------------
\* Things with a row and a column, sorted by row and then by column: where a row starts,
\* and the place of a thing.
Sortable(S, row, col, n) ==
    /\ IsFiniteSet(S) /\ n \in Nat
    /\ \A e \in S : row[e] \in 0 .. n - 1 /\ col[e] \in Nat
    /\ \A e, f \in S : row[e] = row[f] /\ col[e] = col[f] => e = f

EarlierRows(S, row, r)    == {e \in S : row[e] < r}
LeftInRow(S, row, col, e) == {f \in S : row[f] = row[e] /\ col[f] < col[e]}
RowStart(S, row, r)       == Cardinality(EarlierRows(S, row, r))
SortedPlace(S, row, col, e) ==
    RowStart(S, row, row[e]) + Cardinality(LeftInRow(S, row, col, e))

\* Cardinality of parts of a finite set.
LEMMA PartOfFinite ==
    ASSUME NEW S, IsFiniteSet(S), NEW T \in SUBSET S
    PROVE  /\ IsFiniteSet(T) /\ Cardinality(T) \in Nat /\ Cardinality(S) \in Nat
           /\ Cardinality(T) <= Cardinality(S)
           /\ T # S => Cardinality(T) < Cardinality(S)
    BY FS_Subset, FS_CardinalityType

LEMMA DisjointParts ==
    ASSUME NEW S, NEW T, IsFiniteSet(S), IsFiniteSet(T), S \cap T = {}
    PROVE  /\ IsFiniteSet(S \cup T) /\ Cardinality(S) \in Nat /\ Cardinality(T) \in Nat
           /\ Cardinality(S \cup T) = Cardinality(S) + Cardinality(T)
<1>1. Cardinality(S \cap T) = 0
    BY FS_EmptySet
<1>2. Cardinality(S) \in Nat /\ Cardinality(T) \in Nat
    BY FS_CardinalityType
<1>3. /\ IsFiniteSet(S \cup T)
      /\ Cardinality(S \cup T) = Cardinality(S) + Cardinality(T) - Cardinality(S \cap T)
    BY FS_Union
<1> QED
    BY <1>1, <1>2, <1>3

\* Rows start one after another.
LEMMA RowStarts ==
    ASSUME NEW S, NEW row, NEW col, NEW n, Sortable(S, row, col, n)
    PROVE  /\ \A r : RowStart(S, row, r) \in 0 .. Cardinality(S)
           /\ RowStart(S, row, 0) = 0 /\ RowStart(S, row, n) = Cardinality(S)
           /\ Cardinality(S) \in Nat
           /\ \A r, s \in Int : r <= s => RowStart(S, row, r) <= RowStart(S, row, s)
<1>1. \A r : /\ EarlierRows(S, row, r) \in SUBSET S
             /\ IsFiniteSet(EarlierRows(S, row, r))
             /\ RowStart(S, row, r) \in 0 .. Cardinality(S)
    <2> SUFFICES ASSUME NEW r
                 PROVE  /\ EarlierRows(S, row, r) \in SUBSET S
                        /\ IsFiniteSet(EarlierRows(S, row, r))
                        /\ RowStart(S, row, r) \in 0 .. Cardinality(S)
        OBVIOUS
    <2>1. EarlierRows(S, row, r) \in SUBSET S
        BY DEF EarlierRows
    <2> QED
        BY <2>1, PartOfFinite DEF Sortable, RowStart
<1>2. RowStart(S, row, 0) = 0
    <2>1. EarlierRows(S, row, 0) = {}
        BY DEF EarlierRows, Sortable
    <2> QED
        BY <2>1, FS_EmptySet DEF RowStart
<1>3. RowStart(S, row, n) = Cardinality(S)
    <2>1. EarlierRows(S, row, n) = S
        BY DEF EarlierRows, Sortable
    <2> QED
        BY <2>1 DEF RowStart
<1>4. ASSUME NEW r \in Int, NEW s \in Int, r <= s
      PROVE  RowStart(S, row, r) <= RowStart(S, row, s)
    <2>1. EarlierRows(S, row, r) \in SUBSET EarlierRows(S, row, s)
        BY <1>4 DEF EarlierRows, Sortable
    <2> QED
        BY <1>1, <2>1, PartOfFinite DEF RowStart
<1>5. Cardinality(S) \in Nat
    BY FS_CardinalityType DEF Sortable
<1> QED
    BY <1>1, <1>2, <1>3, <1>4, <1>5

\* The place of a thing is the number of those before it.
LEMMA SortedPlaceCounts ==
    ASSUME NEW S, NEW row, NEW col, NEW n, Sortable(S, row, col, n), NEW e \in S
    PROVE  LET before == EarlierRows(S, row, row[e]) \cup LeftInRow(S, row, col, e)
           IN  /\ IsFiniteSet(before) /\ before \in SUBSET S
               /\ SortedPlace(S, row, col, e) = Cardinality(before)
               /\ SortedPlace(S, row, col, e) \in Nat
               /\ RowStart(S, row, row[e]) <= SortedPlace(S, row, col, e)
               /\ SortedPlace(S, row, col, e) < RowStart(S, row, row[e] + 1)
<1> DEFINE A == EarlierRows(S, row, row[e])
           B == LeftInRow(S, row, col, e)
           C == EarlierRows(S, row, row[e] + 1)
<1>1. A \in SUBSET S /\ B \in SUBSET S /\ C \in SUBSET S
    BY DEF EarlierRows, LeftInRow
<1>2. A \cap B = {} /\ A \cup B \in SUBSET C /\ e \in C /\ e \notin A \cup B
    BY DEF EarlierRows, LeftInRow, Sortable
<1>3. SortedPlace(S, row, col, e) = Cardinality(A) + Cardinality(B)
    BY DEF SortedPlace, RowStart
<1>4. RowStart(S, row, row[e]) = Cardinality(A) /\ RowStart(S, row, row[e] + 1) = Cardinality(C)
    BY DEF RowStart
<1>5. IsFiniteSet(S)
    BY DEF Sortable
<1> HIDE DEF A, B, C
<1>6. IsFiniteSet(A) /\ IsFiniteSet(B) /\ IsFiniteSet(C)
    BY <1>1, <1>5, PartOfFinite
<1>7. /\ IsFiniteSet(A \cup B) /\ Cardinality(A) \in Nat /\ Cardinality(B) \in Nat
      /\ Cardinality(A \cup B) = Cardinality(A) + Cardinality(B)
    BY <1>2, <1>6, DisjointParts
<1>8. Cardinality(A \cup B) < Cardinality(C)
    BY <1>2, <1>6, PartOfFinite
<1> QED
    BY <1>1, <1>3, <1>4, <1>7, <1>8 DEF A, B

\* Of two things the earlier one has the lower place.
LEMMA SortedPlacesAscend ==
    ASSUME NEW S, NEW row, NEW col, NEW n, Sortable(S, row, col, n), NEW e \in S, NEW f \in S,
           row[e] < row[f] \/ (row[e] = row[f] /\ col[e] < col[f])
    PROVE  SortedPlace(S, row, col, e) < SortedPlace(S, row, col, f)
<1> DEFINE Before(x) == EarlierRows(S, row, row[x]) \cup LeftInRow(S, row, col, x)
<1>1. Before(e) \in SUBSET Before(f) /\ e \in Before(f) /\ e \notin Before(e)
    BY DEF EarlierRows, LeftInRow, Sortable
<1>2. /\ IsFiniteSet(Before(f)) /\ SortedPlace(S, row, col, e) = Cardinality(Before(e))
      /\ SortedPlace(S, row, col, f) = Cardinality(Before(f))
    BY SortedPlaceCounts
<1> HIDE DEF Before
<1> QED
    BY <1>1, <1>2, PartOfFinite

\* What a counting sort makes of the things: each has a place of its own, each place a
\* thing, a row is the slice between two starts, and inside it columns ascend.
Sorts(S, row, col, n) ==
    LET place(e) == SortedPlace(S, row, col, e)
    IN  /\ \A e \in S : /\ place(e) \in 0 .. Cardinality(S) - 1
                        /\ RowStart(S, row, row[e]) <= place(e)
                        /\ place(e) < RowStart(S, row, row[e] + 1)
        /\ \A e, f \in S : place(e) = place(f) => e = f
        /\ \A e, f \in S : row[e] = row[f] => (place(e) < place(f) <=> col[e] < col[f])
        /\ \A k \in 0 .. Cardinality(S) - 1 : \E e \in S : place(e) = k
        /\ \A e \in S : \A r \in 0 .. n - 1 :
               RowStart(S, row, r) <= place(e) /\ place(e) < RowStart(S, row, r + 1) => row[e] = r

LEMMA CountingSorts ==
    ASSUME NEW S, NEW row, NEW col, NEW n, Sortable(S, row, col, n)
    PROVE  Sorts(S, row, col, n)
<1> DEFINE place(e) == SortedPlace(S, row, col, e)
           All == 0 .. Cardinality(S) - 1
           sort == [e \in S |-> place(e)]
<1>1. \A e \in S : /\ row[e] \in 0 .. n - 1 /\ row[e] \in Int /\ row[e] + 1 \in Int
                   /\ col[e] \in Nat /\ n \in Nat
    BY DEF Sortable
<1>2. ASSUME NEW e \in S
      PROVE  /\ place(e) \in All
             /\ RowStart(S, row, row[e]) <= place(e)
             /\ place(e) < RowStart(S, row, row[e] + 1)
    <2>1. /\ place(e) \in Nat /\ RowStart(S, row, row[e]) <= place(e)
          /\ place(e) < RowStart(S, row, row[e] + 1)
        BY SortedPlaceCounts
    <2>2. RowStart(S, row, row[e] + 1) \in 0 .. Cardinality(S) /\ Cardinality(S) \in Nat
        BY RowStarts
    <2> QED
        BY <2>1, <2>2
<1>3. ASSUME NEW e \in S, NEW f \in S, row[e] < row[f] \/ (row[e] = row[f] /\ col[e] < col[f])
      PROVE  place(e) < place(f)
    BY <1>3, SortedPlacesAscend
<1>4. \A e \in S : place(e) \in Int
    BY <1>2
<1> HIDE DEF place
<1>5. ASSUME NEW e \in S, NEW f \in S, place(e) = place(f)
      PROVE  e = f
    <2>1. ~(row[e] < row[f]) /\ ~(row[f] < row[e])
        BY <1>3, <1>4, <1>5
    <2>2. row[e] = row[f]
        BY <1>1, <2>1
    <2>3. ~(col[e] < col[f]) /\ ~(col[f] < col[e])
        BY <1>3, <1>4, <1>5, <2>2
    <2>4. col[e] = col[f]
        BY <1>1, <2>3
    <2> QED
        BY <2>2, <2>4 DEF Sortable
<1>6. ASSUME NEW e \in S, NEW f \in S, row[e] = row[f]
      PROVE  place(e) < place(f) <=> col[e] < col[f]
    <2>1. CASE col[e] < col[f]
        BY <1>3, <1>6, <2>1
    <2>2. CASE col[f] < col[e]
        <3>1. place(f) < place(e)
            BY <1>3, <1>6, <2>2
        <3> QED
            BY <1>1, <1>4, <2>2, <3>1
    <2>3. CASE col[e] = col[f]
        <3>1. e = f
            BY <1>6, <2>3 DEF Sortable
        <3> QED
            BY <1>1, <1>4, <3>1
    <2> QED
        BY <1>1, <2>1, <2>2, <2>3
<1>7. ASSUME NEW k \in All
      PROVE  \E e \in S : place(e) = k
    <2>1. IsFiniteSet(S) /\ IsFiniteSet(All) /\ Cardinality(S) \in Nat
          /\ Cardinality(All) = Cardinality(S)
        BY FS_Interval, FS_CardinalityType DEF Sortable
    <2>2. sort \in Injection(S, All)
        BY <1>2, <1>5 DEF Injection, IsInjective
    <2>3. sort \in Surjection(S, All)
        BY <2>1, <2>2, FS_Injection
    <2> QED
        BY <2>3 DEF Surjection
<1>8. ASSUME NEW e \in S, NEW r \in 0 .. n - 1,
             RowStart(S, row, r) <= place(e), place(e) < RowStart(S, row, r + 1)
      PROVE  row[e] = r
    <2>1. \A s \in Int : RowStart(S, row, s) \in Int
        BY RowStarts
    <2>2. \A s, t \in Int : s <= t => RowStart(S, row, s) <= RowStart(S, row, t)
        BY RowStarts
    <2>3. row[e] \in Int /\ row[e] + 1 \in Int /\ r \in Int /\ r + 1 \in Int
        BY <1>1
    <2>4. ~(row[e] + 1 <= r)
        BY <1>2, <1>4, <1>8, <2>1, <2>2, <2>3
    <2>5. ~(r + 1 <= row[e])
        BY <1>2, <1>4, <1>8, <2>1, <2>2, <2>3
    <2> QED
        BY <2>3, <2>4, <2>5
<1> QED
    BY <1>2, <1>5, <1>6, <1>7, <1>8 DEF Sorts, place

-----------------------------------------------------------------------------
\* The equation of RowLevels at row r, with the levels `level` of other rows.
LevelFrom(level, deps, r) == Max({0} \cup {level[d] + 1 : d \in deps[r]})

\* A row that depends on rows of levels below m has at most level m.
LEMMA LevelIsBounded ==
    ASSUME NEW m \in Nat, NEW deps, NEW level, NEW r,
           \A d \in deps[r] : level[d] \in 0 .. m - 1
    PROVE  /\ LevelFrom(level, deps, r) \in 0 .. m
           /\ \A d \in deps[r] : level[d] < LevelFrom(level, deps, r)
<1> DEFINE T == {0} \cup {level[d] + 1 : d \in deps[r]}
<1>1. T \in SUBSET (0 .. m) /\ T # {}
    OBVIOUS
<1>2. \A d \in deps[r] : level[d] \in Nat /\ level[d] + 1 \in T
    OBVIOUS
<1> HIDE DEF T
<1>3. Max(T) \in T /\ \A x \in T : x <= Max(T)
    BY <1>1, MaxOfNaturals
<1>4. Max(T) \in 0 .. m
    BY <1>1, <1>3
<1>5. ASSUME NEW d \in deps[r] PROVE level[d] < Max(T)
    <2>1. level[d] \in Nat /\ level[d] + 1 \in T /\ level[d] + 1 <= Max(T)
        BY <1>2, <1>3
    <2> QED
        BY <1>4, <2>1
<1> QED
    BY <1>4, <1>5 DEF LevelFrom, T

\* Functions that satisfy the equations of the rows below n.
LevelsBelow(n, deps) ==
    {f \in [0 .. n - 1 -> Nat] :
        \A r \in 0 .. n - 1 : f[r] \in 0 .. r /\ f[r] = LevelFrom(f, deps, r)}

LEMMA LevelsExtend ==
    ASSUME NEW n \in Nat, NEW deps,
           \A r \in 0 .. n : deps[r] \subseteq 0 .. r - 1,
           NEW f \in LevelsBelow(n, deps)
    PROVE  LevelsBelow(n + 1, deps) # {}
<1> DEFINE g == [r \in 0 .. n |-> IF r < n THEN f[r] ELSE LevelFrom(f, deps, n)]
<1>1. \A r \in 0 .. n : \A d \in deps[r] : d \in 0 .. n - 1 /\ g[d] = f[d]
    OBVIOUS
<1>2. \A r \in 0 .. n : LevelFrom(g, deps, r) = LevelFrom(f, deps, r)
    <2> SUFFICES ASSUME NEW r \in 0 .. n
                 PROVE  {g[d] + 1 : d \in deps[r]} = {f[d] + 1 : d \in deps[r]}
        BY DEF LevelFrom
    <2> QED
        BY <1>1
<1>3. LevelFrom(f, deps, n) \in 0 .. n
    <2>1. \A d \in deps[n] : f[d] \in 0 .. n - 1
        BY DEF LevelsBelow
    <2> QED
        BY <2>1, LevelIsBounded
<1>4. \A r \in 0 .. n : g[r] \in 0 .. r /\ g[r] = LevelFrom(f, deps, r)
    BY <1>3 DEF LevelsBelow
<1>5. g \in [0 .. n -> Nat]
    BY <1>4
<1> HIDE DEF g
<1>6. g \in LevelsBelow(n + 1, deps)
    <2>1. \A r \in 0 .. n : g[r] \in 0 .. r /\ g[r] = LevelFrom(g, deps, r)
        BY <1>2, <1>4
    <2>2. n + 1 - 1 = n
        OBVIOUS
    <2> QED
        BY <1>5, <2>1, <2>2 DEF LevelsBelow
<1> QED
    BY <1>6

\* The recursion reaches every row: a least row it does not reach has one before it.
LEMMA LevelsExist ==
    ASSUME NEW n \in Nat, NEW deps,
           \A r \in 0 .. n - 1 : deps[r] \subseteq 0 .. r - 1
    PROVE  LevelsBelow(n, deps) # {}
<1> DEFINE Failing == {m \in 0 .. n : LevelsBelow(m, deps) = {}}
<1> SUFFICES ASSUME Failing # {} PROVE FALSE
    OBVIOUS
<1>1. PICK m \in Failing : \A x \in Failing : m <= x
    <2>1. Failing \in SUBSET Nat
        OBVIOUS
    <2> QED
        BY <2>1, LeastNatural
<1>2. m # 0
    <2>1. [r \in 0 .. 0 - 1 |-> 0] \in LevelsBelow(0, deps)
        BY DEF LevelsBelow
    <2> QED
        BY <2>1
<1>3. m - 1 \in 0 .. n /\ m - 1 \in Nat /\ m - 1 \notin Failing
    BY <1>1, <1>2
<1>4. PICK f \in LevelsBelow(m - 1, deps) : TRUE
    BY <1>3
<1>5. \A r \in 0 .. m - 1 : deps[r] \subseteq 0 .. r - 1
    BY <1>1
<1>6. LevelsBelow(m - 1 + 1, deps) # {}
    BY <1>3, <1>4, <1>5, LevelsExtend
<1> QED
    BY <1>1, <1>6

\* The equation of RowLevels has a solution.
Solvable(n, deps) ==
    \E f : f = [r \in 0 .. n - 1 |-> Max({0} \cup {f[d] + 1 : d \in deps[r]})]

\* Each row depends on rows the code has computed before: m is the order it takes.
Ordered(n, deps, m) ==
    \A r \in 0 .. n - 1 :
        /\ m[r] \in 0 .. n - 1
        /\ \A d \in deps[r] : d \in 0 .. n - 1 /\ m[d] < m[r]

\* Levels of n rows: no more of them than rows.
Levelled(level, n) ==
    /\ level \in [0 .. n - 1 -> Nat]
    /\ \A r \in 0 .. n - 1 : level[r] <= n - 1

\* A solution is above the rows it depends on, and no level higher than its row is late.
LEMMA LevelsAreOrdered ==
    ASSUME NEW n \in Nat, NEW deps, Solvable(n, deps), NEW m, Ordered(n, deps, m)
    PROVE  LET level == RowLevels(0 .. n - 1, deps)
           IN  /\ Levelled(level, n)
               /\ \A r \in 0 .. n - 1 : level[r] <= m[r]
               /\ \A r \in 0 .. n - 1 : \A d \in deps[r] : level[d] < level[r]
<1> DEFINE level == RowLevels(0 .. n - 1, deps)
<1>2. level = [r \in 0 .. n - 1 |-> Max({0} \cup {level[d] + 1 : d \in deps[r]})]
    BY DEF RowLevels, Solvable
<1> HIDE DEF level
<1>3. \A r \in 0 .. n - 1 : level[r] = LevelFrom(level, deps, r)
    BY <1>2 DEF LevelFrom
<1> DEFINE Failing == {r \in 0 .. n - 1 : level[r] \notin 0 .. m[r]}
<1>4. Failing = {}
    <2> SUFFICES ASSUME Failing # {} PROVE FALSE
        OBVIOUS
    <2> DEFINE Late == {m[r] : r \in Failing}
    <2>1. PICK k \in Late : \A x \in Late : k <= x
        <3>1. Late \in SUBSET Nat /\ Late # {}
            BY DEF Ordered
        <3> QED
            BY <3>1, LeastNatural
    <2>2. PICK r \in Failing : m[r] = k
        BY <2>1
    <2>3. \A x \in Failing : m[r] <= m[x]
        BY <2>1, <2>2
    <2>4. m[r] \in Nat /\ \A d \in deps[r] : level[d] \in 0 .. m[r] - 1
        <3>1. r \in 0 .. n - 1 /\ m[r] \in Nat
            BY DEF Ordered
        <3>2. ASSUME NEW d \in deps[r] PROVE level[d] \in 0 .. m[r] - 1
            <4>1. d \in 0 .. n - 1 /\ m[d] \in Nat /\ m[d] < m[r]
                BY <3>1 DEF Ordered
            <4>2. level[d] \in 0 .. m[d]
                BY <2>3, <3>1, <4>1
            <4> QED
                BY <3>1, <4>1, <4>2
        <3> QED
            BY <3>1, <3>2
    <2>5. LevelFrom(level, deps, r) \in 0 .. m[r]
        BY <2>4, LevelIsBounded
    <2> QED
        BY <1>3, <2>5
<1>5. ASSUME NEW r \in 0 .. n - 1
      PROVE  /\ level[r] \in 0 .. n - 1 /\ level[r] <= m[r]
             /\ \A d \in deps[r] : level[d] < level[r]
    <2>1. m[r] \in 0 .. n - 1 /\ level[r] \in 0 .. m[r]
        BY <1>4 DEF Ordered
    <2>2. ASSUME NEW d \in deps[r] PROVE level[d] \in 0 .. m[r] - 1
        <3>1. d \in 0 .. n - 1 /\ m[d] \in Nat /\ m[d] < m[r]
            BY DEF Ordered
        <3>2. level[d] \in 0 .. m[d]
            BY <1>4, <3>1
        <3> QED
            BY <2>1, <3>1, <3>2
    <2>3. \A d \in deps[r] : level[d] < LevelFrom(level, deps, r)
        BY <2>1, <2>2, LevelIsBounded
    <2> QED
        BY <1>3, <2>1, <2>3
<1>6. Levelled(level, n)
    BY <1>2, <1>5 DEF Levelled
<1> QED
    BY <1>5, <1>6 DEF level

LEMMA ForwardIsSolvable ==
    ASSUME NEW n \in Nat, NEW deps,
           \A r \in 0 .. n - 1 : deps[r] \subseteq 0 .. r - 1
    PROVE  Solvable(n, deps)
<1>1. PICK f \in LevelsBelow(n, deps) : TRUE
    BY LevelsExist
<1>2. f = [r \in 0 .. n - 1 |-> Max({0} \cup {f[d] + 1 : d \in deps[r]})]
    BY DEF LevelsBelow, LevelFrom
<1> QED
    BY <1>2 DEF Solvable

\* What make_schedule's levels are, whatever the dependencies: each row is above the
\* rows it depends on, and no level is higher than its row.
THEOREM RowLevelsRespectDependencies ==
    ASSUME NEW n \in Nat, NEW deps,
           \A r \in 0 .. n - 1 : deps[r] \subseteq 0 .. r - 1
    PROVE  LET level == RowLevels(0 .. n - 1, deps)
           IN  /\ Levelled(level, n)
               /\ \A r \in 0 .. n - 1 : level[r] <= r
               /\ \A r \in 0 .. n - 1 : \A d \in deps[r] : level[d] < level[r]
<1> DEFINE m == [r \in 0 .. n - 1 |-> r]
<1>1. Solvable(n, deps)
    BY ForwardIsSolvable
<1>2. Ordered(n, deps, m)
    BY DEF Ordered
<1>3. \A r \in 0 .. n - 1 : m[r] = r
    OBVIOUS
<1> HIDE DEF m
<1> QED
    BY <1>1, <1>2, <1>3, LevelsAreOrdered

\* The same for the backward schedule, whose rows depend on later ones and are taken in
\* descending order: it is the forward schedule of the rows counted from the end.
THEOREM BackwardLevelsRespectDependencies ==
    ASSUME NEW n \in Nat, NEW deps,
           \A r \in 0 .. n - 1 : deps[r] \subseteq r + 1 .. n - 1
    PROVE  LET level == RowLevels(0 .. n - 1, deps)
           IN  /\ Levelled(level, n)
               /\ \A r \in 0 .. n - 1 : \A d \in deps[r] : level[d] < level[r]
<1> DEFINE m == [r \in 0 .. n - 1 |-> n - 1 - r]
           mirrored == [r \in 0 .. n - 1 |-> {n - 1 - d : d \in deps[n - 1 - r]}]
<1>1. Solvable(n, deps)
    <2>1. \A r \in 0 .. n - 1 : mirrored[r] \subseteq 0 .. r - 1
        OBVIOUS
    <2>2. PICK f \in LevelsBelow(n, mirrored) : TRUE
        BY <2>1, LevelsExist
    <2> DEFINE g == [r \in 0 .. n - 1 |-> f[n - 1 - r]]
    <2>3. \A r \in 0 .. n - 1 : g[r] = LevelFrom(g, deps, r)
        <3> SUFFICES ASSUME NEW r \in 0 .. n - 1 PROVE g[r] = LevelFrom(g, deps, r)
            OBVIOUS
        <3>1. n - 1 - r \in 0 .. n - 1 /\ n - 1 - (n - 1 - r) = r
            OBVIOUS
        <3>2. g[r] = Max({0} \cup {f[d] + 1 : d \in mirrored[n - 1 - r]})
            BY <2>2, <3>1 DEF LevelsBelow, LevelFrom
        <3>3. mirrored[n - 1 - r] = {n - 1 - d : d \in deps[r]}
            BY <3>1
        <3>4. \A d \in deps[r] : d \in 0 .. n - 1 /\ g[d] = f[n - 1 - d]
            OBVIOUS
        <3>5. {f[d] + 1 : d \in mirrored[n - 1 - r]} = {g[d] + 1 : d \in deps[r]}
            BY <3>3, <3>4
        <3> QED
            BY <3>2, <3>5 DEF LevelFrom
    <2>4. g = [r \in 0 .. n - 1 |-> Max({0} \cup {g[d] + 1 : d \in deps[r]})]
        BY <2>3 DEF LevelFrom
    <2> QED
        BY <2>4 DEF Solvable
<1>2. Ordered(n, deps, m)
    BY DEF Ordered
<1> HIDE DEF m, mirrored
<1> QED
    BY <1>1, <1>2, LevelsAreOrdered

\* The number of levels is above every level, so the loop over levels reaches each row.
THEOREM LevelsAreCounted ==
    ASSUME NEW n \in Nat \ {0}, NEW level, Levelled(level, n)
    PROVE  /\ Levels(level) \in 1 .. n
           /\ \A r \in 0 .. n - 1 : level[r] \in 0 .. Levels(level) - 1
<1> DEFINE T == {level[r] : r \in DOMAIN level}
<1>1. n - 1 \in Nat /\ T \in SUBSET (0 .. n - 1) /\ T # {}
    BY DEF Levelled
<1>2. \A r \in 0 .. n - 1 : level[r] \in T
    BY DEF Levelled
<1>3. Levels(level) = 1 + Max(T)
    BY DEF Levels
<1> HIDE DEF T
<1>4. Max(T) \in T /\ \A x \in T : x <= Max(T)
    BY <1>1, MaxOfNaturals
<1>5. Max(T) \in 0 .. n - 1
    BY <1>1, <1>4
<1>6. ASSUME NEW r \in 0 .. n - 1 PROVE level[r] \in 0 .. Levels(level) - 1
    <2>1. level[r] \in Nat /\ level[r] <= Max(T)
        BY <1>2, <1>4 DEF Levelled
    <2> QED
        BY <1>3, <1>5, <2>1
<1> QED
    BY <1>3, <1>5, <1>6

-----------------------------------------------------------------------------
Itself(n) == [r \in 0 .. n - 1 |-> r]

\* make_schedule sorts rows by level, and inside a level by row.
LEMMA LevelsAreSorted ==
    ASSUME NEW n \in Nat \ {0}, NEW level, Levelled(level, n)
    PROVE  /\ Sortable(0 .. n - 1, level, Itself(n), Levels(level))
           /\ LevelOffsets(level) =
                  [l \in 0 .. Levels(level) |-> RowStart(0 .. n - 1, level, l)]
           /\ \A r \in 0 .. n - 1 :
                  Place(level, r) = SortedPlace(0 .. n - 1, level, Itself(n), r)
<1>1. /\ Levels(level) \in 1 .. n
      /\ \A r \in 0 .. n - 1 : level[r] \in 0 .. Levels(level) - 1
    BY LevelsAreCounted
<1>2. DOMAIN level = 0 .. n - 1 /\ IsFiniteSet(0 .. n - 1)
    BY FS_Interval DEF Levelled
<1>3. \A r \in 0 .. n - 1 : Itself(n)[r] = r
    BY DEF Itself
<1>4. Sortable(0 .. n - 1, level, Itself(n), Levels(level))
    BY <1>1, <1>2, <1>3 DEF Sortable
<1>5. LevelOffsets(level) =
          [l \in 0 .. Levels(level) |-> RowStart(0 .. n - 1, level, l)]
    BY <1>2 DEF LevelOffsets, RowStart, EarlierRows
<1>6. ASSUME NEW r \in 0 .. n - 1
      PROVE  Place(level, r) = SortedPlace(0 .. n - 1, level, Itself(n), r)
    <2>1. level[r] \in 0 .. Levels(level)
        BY <1>1
    <2>2. LevelOffsets(level)[level[r]] = RowStart(0 .. n - 1, level, level[r])
        BY <1>5, <2>1
    <2>3. {s \in DOMAIN level : level[s] = level[r] /\ s < r}
              = LeftInRow(0 .. n - 1, level, Itself(n), r)
        BY <1>2, <1>3 DEF LeftInRow
    <2> QED
        BY <2>2, <2>3 DEF Place, SortedPlace
<1> QED
    BY <1>4, <1>5, <1>6

\* Where a level starts, and that a later level starts no earlier.
LEMMA OffsetsAscend ==
    ASSUME NEW n \in Nat \ {0}, NEW level, Levelled(level, n)
    PROVE  LET offsets == LevelOffsets(level)
           IN  /\ offsets \in [0 .. Levels(level) -> 0 .. n]
               /\ offsets[0] = 0
               /\ offsets[Levels(level)] = n
               /\ \A a, b \in 0 .. Levels(level) : a <= b => offsets[a] <= offsets[b]
<1> DEFINE start(l) == RowStart(0 .. n - 1, level, l)
<1>1. Levels(level) \in 1 .. n
    BY LevelsAreCounted
<1>2. Sortable(0 .. n - 1, level, Itself(n), Levels(level))
    BY LevelsAreSorted
<1>3. Cardinality(0 .. n - 1) = n
    BY FS_Interval
<1>4. /\ \A l : start(l) \in 0 .. n
      /\ start(0) = 0 /\ start(Levels(level)) = n
      /\ \A a, b \in Int : a <= b => start(a) <= start(b)
    BY <1>2, <1>3, RowStarts
<1>5. LevelOffsets(level) = [l \in 0 .. Levels(level) |-> start(l)]
    BY LevelsAreSorted
<1> HIDE DEF start
<1> QED
    BY <1>1, <1>4, <1>5

\* The counting sort writes every position of the schedule once: rows[Place(r)] is r, and
\* the rows between two offsets are those of the level.
THEOREM ScheduleIsAPermutation ==
    ASSUME NEW n \in Nat \ {0}, NEW level, Levelled(level, n)
    PROVE  LET rows == ScheduledRows(level)
               offsets == LevelOffsets(level)
           IN  /\ rows \in [0 .. n - 1 -> 0 .. n - 1]
               /\ \A i \in 0 .. n - 1 : Place(level, rows[i]) = i
               /\ \A r \in 0 .. n - 1 :
                      /\ Place(level, r) \in 0 .. n - 1 /\ rows[Place(level, r)] = r
                      /\ offsets[level[r]] <= Place(level, r)
                      /\ Place(level, r) < offsets[level[r] + 1]
               /\ \A r \in 0 .. n - 1 : \A l \in 0 .. Levels(level) - 1 :
                      offsets[l] <= Place(level, r) /\ Place(level, r) < offsets[l + 1]
                          => level[r] = l
<1> DEFINE All == 0 .. n - 1
           rows == ScheduledRows(level)
           offsets == LevelOffsets(level)
<1>1. Sorts(All, level, Itself(n), Levels(level))
    BY LevelsAreSorted, CountingSorts
<1>2. Cardinality(All) = n
    BY FS_Interval
<1>3. \A r \in All : Place(level, r) = SortedPlace(All, level, Itself(n), r)
    BY LevelsAreSorted
<1>4. offsets = [l \in 0 .. Levels(level) |-> RowStart(All, level, l)]
    BY LevelsAreSorted
<1>5. /\ Levels(level) \in 1 .. n
      /\ \A r \in All : level[r] \in 0 .. Levels(level) - 1
    BY LevelsAreCounted
<1>6. /\ \A l \in 0 .. Levels(level) - 1 : /\ offsets[l] = RowStart(All, level, l)
                                           /\ offsets[l + 1] = RowStart(All, level, l + 1)
    BY <1>4, <1>5
<1>7. rows = [i \in All |-> CHOOSE r \in All : Place(level, r) = i]
    BY DEF ScheduledRows, Levelled
<1> HIDE DEF rows, All, offsets
<1>8. \A r \in All : /\ Place(level, r) \in 0 .. n - 1
                     /\ offsets[level[r]] <= Place(level, r)
                     /\ Place(level, r) < offsets[level[r] + 1]
    BY <1>1, <1>2, <1>3, <1>5, <1>6 DEF Sorts
<1>9. \A r, s \in All : Place(level, r) = Place(level, s) => r = s
    BY <1>1, <1>3 DEF Sorts
<1>10. \A i \in 0 .. n - 1 : \E r \in All : Place(level, r) = i
    BY <1>1, <1>2, <1>3 DEF Sorts
<1>11. \A r \in All : \A l \in 0 .. Levels(level) - 1 :
           offsets[l] <= Place(level, r) /\ Place(level, r) < offsets[l + 1] => level[r] = l
    BY <1>1, <1>3, <1>6 DEF Sorts
<1>12. \A i \in All : rows[i] \in All /\ Place(level, rows[i]) = i
    BY <1>7, <1>10 DEF All
<1>13. \A r \in All : rows[Place(level, r)] = r
    BY <1>8, <1>9, <1>12 DEF All
<1>14. rows \in [All -> All]
    BY <1>7, <1>12
<1> QED
    BY <1>8, <1>11, <1>12, <1>13, <1>14 DEF All, rows, offsets

-----------------------------------------------------------------------------
\* Induction on finite sets, over the set of those it has reached.
LEMMA SubsetsAreReached ==
    ASSUME NEW U, IsFiniteSet(U), NEW Reached, {} \in Reached,
           \A s \in SUBSET U : s # {} /\ (\A x \in s : s \ {x} \in Reached) => s \in Reached
    PROVE  \A s \in SUBSET U : s \in Reached
<1> DEFINE Missed == {n \in Nat : \E s \in SUBSET U : s \notin Reached /\ Cardinality(s) = n}
<1> SUFFICES ASSUME NEW s0 \in SUBSET U, s0 \notin Reached PROVE FALSE
    OBVIOUS
<1>1. \A s \in SUBSET U : IsFiniteSet(s) /\ Cardinality(s) \in Nat
    BY FS_Subset, FS_CardinalityType
<1>2. Missed # {} /\ Missed \in SUBSET Nat
    BY <1>1
<1> HIDE DEF Missed
<1>3. PICK n \in Missed : \A m \in Missed : n <= m
    BY <1>2, LeastNatural
<1>4. PICK s \in SUBSET U : s \notin Reached /\ Cardinality(s) = n
    BY <1>3 DEF Missed
<1>5. ASSUME NEW x \in s PROVE s \ {x} \in Reached
    <2>1. Cardinality(s \ {x}) = Cardinality(s) - 1
        BY <1>1, FS_RemoveElement
    <2>2. Cardinality(s \ {x}) \in Nat /\ s \ {x} \in SUBSET U /\ n \in Nat
        BY <1>1, <1>2
    <2>3. s \ {x} \notin Reached => Cardinality(s \ {x}) \in Missed
        BY <2>2 DEF Missed
    <2> QED
        BY <1>3, <1>4, <2>1, <2>2, <2>3
<1> QED
    BY <1>4, <1>5

-----------------------------------------------------------------------------
\* What MapThenFoldSet takes from a set, and what it leaves.
First(s) == CHOOSE x \in s : TRUE
Rest(s)  == s \ {First(s)}

\* h folds the subsets of U as MapThenFoldSet does, adding x to a value v in V by F[<<x, v>>].
FoldsOver(h, U, F, base, V) ==
    /\ DOMAIN h = SUBSET U
    /\ h[{}] = base
    /\ \A s \in SUBSET U : s # {} /\ h[Rest(s)] \in V => h[s] = F[<<First(s), h[Rest(s)]>>]

\* Two folds agree on a set and its subsets.
Agree(g, h, T, V) == \A s \in SUBSET T : h[s] \in V /\ g[s] = h[s]

\* Adding an element of U to a value in V gives one in V.
Adds(F, U, base, V) == base \in V /\ \A x \in U : \A v \in V : F[<<x, v>>] \in V

\* The order of two additions does not matter.
Commutes(F, U, V) ==
    \A x, y \in U : \A v \in V : F[<<x, F[<<y, v>>]>>] = F[<<y, F[<<x, v>>]>>]

LEMMA FirstAndRest ==
    ASSUME NEW s, s # {}
    PROVE  First(s) \in s /\ Rest(s) = s \ {First(s)} /\ Rest(s) \subseteq s /\ Rest(s) # s
    BY DEF First, Rest

\* Two folds agree on the sets both are about.
LEMMA FoldIsUnique ==
    ASSUME NEW W, NEW U \in SUBSET W, NEW T \in SUBSET U, IsFiniteSet(T),
           NEW V, NEW base, NEW F, NEW h, NEW g, Adds(F, W, base, V),
           FoldsOver(h, U, F, base, V), FoldsOver(g, T, F, base, V)
    PROVE  Agree(g, h, T, V)
<1> DEFINE Reached == {s \in SUBSET T : h[s] \in V /\ g[s] = h[s]}
<1>1. {} \in Reached
    BY DEF FoldsOver, Adds
<1>2. ASSUME NEW s \in SUBSET T, s # {}, \A x \in s : s \ {x} \in Reached
      PROVE  s \in Reached
    <2>1. First(s) \in W /\ h[Rest(s)] \in V /\ g[Rest(s)] = h[Rest(s)] /\ s \in SUBSET U
        <3>1. s \in SUBSET U /\ First(s) \in s /\ Rest(s) \in Reached
            BY <1>2, FirstAndRest
        <3> QED
            BY <3>1
    <2>2. h[s] = F[<<First(s), h[Rest(s)]>>] /\ g[s] = F[<<First(s), h[Rest(s)]>>]
        BY <1>2, <2>1 DEF FoldsOver
    <2> QED
        BY <2>1, <2>2 DEF Adds
<1> HIDE DEF Reached
<1>3. \A s \in SUBSET T : s \in Reached
    BY <1>1, <1>2, SubsetsAreReached
<1> QED
    BY <1>3 DEF Reached, Agree

\* A fold decides those over subsets.
LEMMA FoldIsRestricted ==
    ASSUME NEW W, NEW U \in SUBSET W, NEW T \in SUBSET U, IsFiniteSet(T),
           NEW V, NEW base, NEW F, NEW h, Adds(F, W, base, V), FoldsOver(h, U, F, base, V)
    PROVE  h[T] \in V /\ (CHOOSE k : FoldsOver(k, T, F, base, V))[T] = h[T]
<1>1. FoldsOver([u \in SUBSET T |-> h[u]], T, F, base, V)
    <2>1. \A u \in SUBSET T : u # {} => Rest(u) \in SUBSET T
        BY FirstAndRest
    <2> QED
        BY <2>1 DEF FoldsOver
<1>2. PICK g : FoldsOver(g, T, F, base, V) /\ g = CHOOSE k : FoldsOver(k, T, F, base, V)
    BY <1>1
<1>3. h[T] \in V /\ g[T] = h[T]
    <2>1. FoldsOver(g, T, F, base, V)
        BY <1>2
    <2>2. Agree(g, h, T, V)
        BY <2>1, FoldIsUnique
    <2> QED
        BY <2>2 DEF Agree
<1> QED
    BY <1>2, <1>3

\* The recursion of a fold has a solution: one over a set is put together from those over
\* its subsets.
LEMMA FoldExists ==
    ASSUME NEW U, IsFiniteSet(U), NEW V, NEW base, NEW F, Adds(F, U, base, V)
    PROVE  \E h : FoldsOver(h, U, F, base, V)
<1> DEFINE Reached == {s \in SUBSET U : \E h : FoldsOver(h, s, F, base, V)}
           Whole(t) == (CHOOSE h : FoldsOver(h, t, F, base, V))[t]
<1>1. {} \in Reached
    <2>1. FoldsOver([t \in SUBSET {} |-> base], {}, F, base, V)
        BY DEF FoldsOver
    <2> QED
        BY <2>1
<1>2. ASSUME NEW s \in SUBSET U, s # {}, \A x \in s : s \ {x} \in Reached
      PROVE  s \in Reached
    <2> DEFINE f == [t \in SUBSET s |->
                        IF t = s THEN F[<<First(s), Whole(Rest(s))>>] ELSE Whole(t)]
    <2>1. ASSUME NEW S \in SUBSET s, NEW t \in SUBSET S, NEW h, FoldsOver(h, S, F, base, V)
          PROVE  h[t] \in V /\ Whole(t) = h[t]
        <3>1. IsFiniteSet(t) /\ S \in SUBSET U
            BY FS_Subset
        <3> QED
            BY <2>1, <3>1, FoldIsRestricted
    <2>2. ASSUME NEW t \in SUBSET s, t # s
          PROVE  /\ Whole(t) \in V
                 /\ t = {} => Whole(t) = base
                 /\ t # {} => Whole(t) = F[<<First(t), Whole(Rest(t))>>]
        <3>1. PICK x \in s : x \notin t
            BY <2>2
        <3>2. PICK h : FoldsOver(h, s \ {x}, F, base, V)
            BY <1>2
        <3>3. h[t] \in V /\ Whole(t) = h[t] /\ t \in SUBSET (s \ {x})
            BY <2>1, <3>1, <3>2
        <3>4. CASE t = {}
            BY <3>2, <3>3, <3>4 DEF FoldsOver
        <3>5. CASE t # {}
            <4>1. Rest(t) \in SUBSET s /\ x \notin Rest(t)
                BY <3>1, <3>5, FirstAndRest
            <4>2. h[Rest(t)] \in V /\ Whole(Rest(t)) = h[Rest(t)]
                BY <2>1, <3>2, <4>1
            <4>3. h[t] = F[<<First(t), h[Rest(t)]>>]
                BY <3>2, <3>3, <3>5, <4>2 DEF FoldsOver
            <4> QED
                BY <3>3, <3>5, <4>2, <4>3
        <3> QED
            BY <3>4, <3>5
    <2> HIDE DEF Whole
    <2>3. f[{}] = base
        BY <1>2, <2>2
    <2>4. ASSUME NEW t \in SUBSET s, t # {}
          PROVE  f[t] = F[<<First(t), f[Rest(t)]>>]
        <3>1. Rest(t) \in SUBSET s /\ Rest(t) # s
            BY <2>4, FirstAndRest
        <3>2. f[Rest(t)] = Whole(Rest(t))
            BY <3>1
        <3>3. CASE t = s
            BY <3>2, <3>3
        <3>4. CASE t # s
            BY <2>2, <2>4, <3>2, <3>4
        <3> QED
            BY <3>3, <3>4
    <2>5. DOMAIN f = SUBSET s
        OBVIOUS
    <2> HIDE DEF f
    <2>6. FoldsOver(f, s, F, base, V)
        BY <2>3, <2>4, <2>5 DEF FoldsOver
    <2> QED
        BY <2>6
<1> HIDE DEF Reached
<1>3. \A s \in SUBSET U : s \in Reached
    BY <1>1, <1>2, SubsetsAreReached
<1> QED
    BY <1>3 DEF Reached

\* Where the order of additions does not matter, any element may be taken last.
LEMMA FoldExchanges ==
    ASSUME NEW U, IsFiniteSet(U), NEW V, NEW base, NEW F, Adds(F, U, base, V),
           Commutes(F, U, V), NEW h, FoldsOver(h, U, F, base, V)
    PROVE  \A s \in SUBSET U : h[s] \in V /\ \A x \in s : h[s] = F[<<x, h[s \ {x}]>>]
<1> DEFINE Reached == {s \in SUBSET U : \A x \in s : h[s] = F[<<x, h[s \ {x}]>>]}
<1>1. \A s \in SUBSET U : h[s] \in V
    <2>1. Agree(h, h, U, V)
        BY FoldIsUnique
    <2> QED
        BY <2>1 DEF Agree
<1>2. {} \in Reached
    OBVIOUS
<1>3. ASSUME NEW s \in SUBSET U, s # {}, \A x \in s : s \ {x} \in Reached
      PROVE  s \in Reached
    <2> DEFINE c == First(s)
    <2>1. c \in s /\ h[s] = F[<<c, h[s \ {c}]>>]
        BY <1>1, <1>3, FirstAndRest DEF FoldsOver
    <2> HIDE DEF c
    <2>2. ASSUME NEW x \in s, x # c
          PROVE  h[s] = F[<<x, h[s \ {x}]>>]
        <3> DEFINE both == (s \ {c}) \ {x}
        <3>1. both = (s \ {x}) \ {c} /\ c \in s \ {x}
            BY <2>1, <2>2
        <3>2. h[s \ {c}] = F[<<x, h[both]>>]
            BY <1>3, <2>1, <2>2
        <3>3. h[s \ {x}] = F[<<c, h[both]>>]
            <4>1. h[s \ {x}] = F[<<c, h[(s \ {x}) \ {c}]>>]
                BY <1>3, <3>1
            <4> QED
                BY <3>1, <4>1
        <3>4. h[both] \in V /\ c \in U /\ x \in U
            BY <1>1, <2>1
        <3> HIDE DEF both
        <3> QED
            BY <2>1, <3>2, <3>3, <3>4 DEF Commutes
    <2> QED
        BY <2>1, <2>2
<1> HIDE DEF Reached
<1>4. \A s \in SUBSET U : s \in Reached
    BY <1>2, <1>3, SubsetsAreReached
<1> QED
    BY <1>1, <1>4 DEF Reached

\* Element x of U and the others; a fold of U that takes x last, after the others.
Apart(x, T, U) == x \in U /\ T = U \ {x}
LastStep(h, U, x, g, T, F, V) == h[U] \in V /\ g[T] \in V /\ h[U] = F[<<x, g[T]>>]

\* The fold of a set from that of the set without one of its elements.
LEMMA FoldWithout ==
    ASSUME NEW W, NEW U \in SUBSET W, IsFiniteSet(U), NEW x, NEW T, Apart(x, T, U),
           NEW V, NEW base, NEW F, Adds(F, W, base, V), Commutes(F, W, V),
           NEW h, FoldsOver(h, U, F, base, V), NEW g, FoldsOver(g, T, F, base, V)
    PROVE  LastStep(h, U, x, g, T, F, V)
<1>1. Adds(F, U, base, V) /\ Commutes(F, U, V)
    BY DEF Adds, Commutes
<1>2. \A s \in SUBSET U : h[s] \in V /\ \A y \in s : h[s] = F[<<y, h[s \ {y}]>>]
    BY <1>1, FoldExchanges
<1>3. T \in SUBSET U /\ T = U \ {x} /\ x \in U
    BY DEF Apart
<1>4. IsFiniteSet(T)
    BY <1>3, FS_Subset
<1>5. Agree(g, h, T, V)
    BY <1>3, <1>4, FoldIsUnique
<1> QED
    BY <1>2, <1>3, <1>5 DEF Agree, LastStep
=============================================================================
