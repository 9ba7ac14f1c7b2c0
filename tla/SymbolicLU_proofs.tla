-------------------------- MODULE SymbolicLU_proofs --------------------------
(***************************************************************************)
(* Proofs about SymbolicLU, for matrices of every size and pattern: both   *)
(* fill algorithms deliver a closed pattern, which is the fill of the      *)
(* input and nothing more; symmetric blocks stay symmetric; and the tree   *)
(* built with compressed paths is the elimination tree.                    *)
(*                                                                         *)
(* The arguments.  A merged row is closed when no pivot is left to merge.  *)
(* A climb along the shortcuts ends at a root, which becomes a child of    *)
(* the row, so every entry of a row reaches the row in the tree; the rows  *)
(* that a column reaches are on one path, which makes the lower parts      *)
(* closed.  That nothing is added is shown against every pattern that      *)
(* holds the input, is closed, and mirrors the symmetric blocks: the fill  *)
(* of the fill path theorem is one of them.                                *)
(***************************************************************************)
EXTENDS SymbolicLU, LevelSchedule_proofs

SymmetricStages == {"tree", "climb", "reach", "follow", "propagate", "assemble"}

\* Rows before this one have been appended.
Frontier == IF stage \in {"generic", "merge"} THEN row ELSE begin

\* Where the analysis is, and what that says of the blocks and the factor.
Layout ==
    /\ BlockUpper(pattern, boundaries)
    /\ stage = "done" => begin = Dimension
    /\ stage # "done" => begin < Dimension /\ row \in BlockRows(begin)
    /\ stage = "classify" => row = begin
    /\ stage \notin {"climb", "follow"} => node = NoRow
    /\ \A r \in Rows : Appended(r) <=> r < Frontier
    /\ \A b \in symmetric : b < begin \/ (b = begin /\ stage \in SymmetricStages)
    /\ stage \in SymmetricStages =>
           begin \in symmetric /\ (begin \in enveloped \/ IsSymmetric(begin))

\* A row of a generic block: every pivot found is merged or still to be.
MergedRow ==
    stage = "merge" =>
        /\ pattern[row] \cup {row} \subseteq reached
        /\ \A c \in reached : \A b \in boundaries : b <= row => b <= c
        /\ todo \subseteq {c \in reached : c < row}
        /\ \A k \in reached : k < row => k \in todo \/ UpperPart(k) \subseteq reached

-----------------------------------------------------------------------------
\* The highest row the tree can have reached.
TreeTop ==
    IF stage \in {"tree", "climb"} THEN row
    ELSE IF stage \in SymmetricStages THEN BlockEnd(begin) - 1 ELSE begin - 1

\* Parents and shortcuts lead upwards, and parents stay in the block.
Forest ==
    \A n \in Rows :
        /\ ancestor[n] = NoRow <=> parent[n] = NoRow
        /\ parent[n] # NoRow =>
               /\ n < parent[n] /\ parent[n] <= TreeTop
               /\ n < ancestor[n] /\ ancestor[n] <= TreeTop
               /\ \A b \in boundaries : b <= parent[n] => b <= n

Climbing == stage = "climb" /\ node # NoRow

\* A shortcut is a tree path, except those the current climb has moved to the row:
\* these lead to the node it has reached.
Shortcuts ==
    \A n \in Rows : ancestor[n] # NoRow =>
        \/ ancestor[n] \in TreePath(n)
        \/ Climbing /\ ancestor[n] = row /\ n < node /\ node \in TreePath(n)

\* Rows of the block before this one are in the tree.
Climbed == IF stage \in {"tree", "climb"} THEN row ELSE BlockEnd(begin)

\* The entries of a row reach it in the tree, and each edge is on such a path.
EntriesClimb ==
    stage \in SymmetricStages =>
        /\ \A r \in begin .. Climbed - 1 : \A c \in TreeEntries(r) : r \in TreePath(c)
        /\ \A n \in Rows : begin <= n /\ parent[n] # NoRow =>
               \E c \in TreeEntries(parent[n]) : n \in TreePath(c)

\* The row whose entries are climbing.
ClimbedRow ==
    stage = "climb" =>
        /\ todo \subseteq TreeEntries(row)
        /\ \A c \in TreeEntries(row) \ todo :
               row \in TreePath(c) \/ (node # NoRow /\ node \in TreePath(c))
        /\ node # NoRow =>
               /\ begin <= node /\ node <= row
               /\ \E c \in TreeEntries(row) : node \in TreePath(c)

-----------------------------------------------------------------------------
\* The lower part of a row holds the tree paths of its entries, up to the row.
ReachIsDone(r) ==
    /\ lower[r] \subseteq begin .. r - 1
    /\ TreeEntries(r) \subseteq lower[r]
    /\ \A n \in lower[r] : parent[n] = r \/ parent[n] \in lower[r]

\* Rows of the block before this one have their lower part.
Reached ==
    IF stage \in {"reach", "follow"} THEN row
    ELSE IF stage \in {"propagate", "assemble"} THEN BlockEnd(begin) ELSE begin

LowerRows == \A r \in begin .. Reached - 1 : ReachIsDone(r)

\* The row whose entries are followed.
FollowedRow ==
    stage = "follow" =>
        /\ todo \subseteq TreeEntries(row)
        /\ reached \subseteq begin .. row - 1
        /\ \A n \in reached :
               /\ parent[n] # NoRow
               /\ parent[n] = row \/ parent[n] \in reached \/ parent[n] = node
        /\ \A c \in TreeEntries(row) \ todo : c \in reached \/ c = node
        /\ node # NoRow => begin <= node /\ node <= row /\ row \in TreePath(node)

\* Rows of the block before this one have their columns right of the block.
Propagated ==
    IF stage = "propagate" THEN row
    ELSE IF stage = "assemble" THEN BlockEnd(begin) ELSE begin

\* These columns are the row's own and those of its pivots.
OffDiagonalRows ==
    \A r \in begin .. Propagated - 1 :
        /\ \A c \in offDiagonal[r] : c >= BlockEnd(begin)
        /\ \A c \in pattern[r] : c >= BlockEnd(begin) => c \in offDiagonal[r]
        /\ \A p \in lower[r] : offDiagonal[p] \subseteq offDiagonal[r]

-----------------------------------------------------------------------------
Mirrors(b) == \A r, c \in BlockRows(b) : c \in factor[r] <=> r \in factor[c]

ParentIsFirst(b) ==
    \A k \in BlockRows(b) :
        /\ \A i \in BlockRows(b) :
               i > k /\ k \in factor[i] => parent[k] # NoRow /\ parent[k] <= i
        /\ parent[k] # NoRow => parent[k] \in BlockRows(b) /\ k \in factor[parent[k]]

BlocksAreDone == \A b \in symmetric : b < begin => Mirrors(b) /\ ParentIsFirst(b)

\* A pattern that holds the input and its fill.
Filled(f) ==
    /\ \A r \in Rows : pattern[r] \cup {r} \subseteq f[r]
    /\ \A r \in Rows : \A k \in f[r] : k < r => {c \in f[k] : c > k} \subseteq f[r]
    /\ \A b \in Starts : IsSymmetric(b) =>
           \A r, c \in BlockRows(b) : c \in f[r] <=> r \in f[c]

\* All that has been computed is in f.
Within(f) ==
    /\ \A r \in Rows : factor[r] \subseteq f[r]
    /\ stage = "merge" => reached \subseteq f[row]
    /\ stage \in SymmetricStages =>
           /\ \A n \in BlockRows(begin) : parent[n] # NoRow =>
                  parent[n] \in f[n] /\ ancestor[n] \in f[n]
           /\ \A r \in begin .. Reached - 1 : lower[r] \subseteq f[r]
           /\ \A r \in begin .. Propagated - 1 : offDiagonal[r] \subseteq f[r]
    /\ stage = "follow" => reached \subseteq f[row]
    /\ node # NoRow => node \in f[row]

\* Unless a block was symmetrized, nothing is added that is not fill.
NothingExtra ==
    enveloped = {} => \A f \in [Rows -> SUBSET Rows] : Filled(f) => Within(f)

IInv ==
    /\ TypeOK
    /\ Layout
    /\ FactorClosed
    /\ BlockUpper(factor, boundaries)
    /\ MergedRow
    /\ Forest
    /\ Shortcuts
    /\ EntriesClimb
    /\ ClimbedRow
    /\ LowerRows
    /\ FollowedRow
    /\ OffDiagonalRows
    /\ BlocksAreDone
    /\ NothingExtra

-----------------------------------------------------------------------------
\* A set of rows that is not empty has a least element and a greatest one.
LEMMA SetMinOfRows ==
    ASSUME NEW T \in SUBSET Nat, T # {}
    PROVE  SetMin(T) \in T /\ \A x \in T : SetMin(T) <= x
    BY LeastNatural DEF SetMin

LEMMA GreatestRow ==
    ASSUME NEW T \in SUBSET Rows, T # {}
    PROVE  \E greatest \in T : \A x \in T : x <= greatest
<1>1. T \in SUBSET (0 .. Dimension)
    BY DimensionAssumption DEF Rows
<1>2. Max(T) \in T /\ \A x \in T : x <= Max(T)
    BY <1>1, DimensionAssumption, MaxOfNaturals
<1> QED
    BY <1>2

LEMMA RowsAreNatural ==
    /\ Rows \subseteq Nat /\ Dimension \in Nat \ {0} /\ NoRow \notin Rows
    /\ \A r : r \in Rows <=> r \in Nat /\ r < Dimension
    BY DimensionAssumption DEF Rows, NoRow

\* Arithmetic that the provers apply better as facts than they find it.
LEMMA EmptyRange == \A b \in Nat : b .. b - 1 = {}
    OBVIOUS

LEMMA BelowInTurn ==
    /\ \A a, b, c \in Int : a <= b /\ b <= c => a <= c
    /\ \A a, b, c \in Int : a < b /\ b <= c => a < c
    /\ \A a, b \in Int : a < b => a + 1 <= b /\ a < b + 1 /\ a <= b - 1
    /\ \A a, b \in Int : a <= b => a - 1 <= b - 1
    /\ \A a \in Nat : a \in Int /\ a - 1 \in Int /\ a + 1 \in Nat /\ a <= a /\ ~(a < a)
    OBVIOUS

\* The blocks follow each other.
LEMMA BlockIsAnInterval ==
    ASSUME TypeOK, NEW b \in boundaries, b < Dimension
    PROVE  /\ BlockEnd(b) \in boundaries /\ BlockEnd(b) \in Nat
           /\ b \in Nat /\ b < BlockEnd(b) /\ BlockEnd(b) <= Dimension
           /\ \A c \in boundaries : c <= b \/ BlockEnd(b) <= c
           /\ BlockRows(b) = b .. BlockEnd(b) - 1
           /\ BlockRows(b) \subseteq Rows
<1> DEFINE Later == {c \in boundaries : c > b}
<1>1. boundaries \subseteq 0 .. Dimension /\ Dimension \in boundaries /\ Dimension \in Nat
    BY DimensionAssumption DEF TypeOK
<1>2. Later \in SUBSET Nat /\ Dimension \in Later
    <2>1. \A c \in boundaries : c \in Nat
        BY <1>1
    <2>2. Dimension > b
        BY <1>1, <2>1
    <2> QED
        BY <1>1, <2>1, <2>2
<1>3. SetMin(Later) \in Later /\ \A x \in Later : SetMin(Later) <= x
    BY <1>2, SetMinOfRows
<1>4. BlockEnd(b) \in Later /\ \A x \in Later : BlockEnd(b) <= x
    BY <1>3 DEF BlockEnd
<1>5. /\ BlockEnd(b) \in boundaries /\ BlockEnd(b) \in Nat
      /\ b \in Nat /\ b < BlockEnd(b) /\ BlockEnd(b) <= Dimension
    BY <1>1, <1>2, <1>4
<1>6. \A c \in boundaries : c <= b \/ BlockEnd(b) <= c
    BY <1>1, <1>4
<1>7. BlockRows(b) = b .. BlockEnd(b) - 1
    BY DEF BlockRows
<1> QED
    BY <1>1, <1>5, <1>6, <1>7 DEF Rows

\* Every row is in a block.
LEMMA RowHasABlock ==
    ASSUME TypeOK, NEW r \in Rows
    PROVE  \E b \in Starts : b <= r /\ r < BlockEnd(b) /\ r \in BlockRows(b)
<1> DEFINE Before == {c \in boundaries : c <= r}
<1>1. boundaries \subseteq 0 .. Dimension /\ 0 \in boundaries /\ Dimension \in Nat
      /\ r \in Nat /\ r < Dimension
    BY RowsAreNatural DEF TypeOK
<1>2. Before \in SUBSET Rows /\ 0 \in Before
    <2>1. \A c \in Before : c \in Nat /\ c < Dimension
        BY <1>1
    <2>2. Before \subseteq Rows
        BY <2>1, RowsAreNatural
    <2>3. 0 <= r
        BY <1>1
    <2> QED
        BY <1>1, <2>2, <2>3
<1>3. PICK b \in Before : \A x \in Before : x <= b
    BY <1>2, GreatestRow
<1>4. b < Dimension /\ b \in Starts /\ b \in boundaries
    BY <1>1, <1>3 DEF Starts
<1>5. BlockEnd(b) \in boundaries /\ BlockEnd(b) \in Nat /\ b < BlockEnd(b)
      /\ BlockRows(b) = b .. BlockEnd(b) - 1
    BY <1>4, BlockIsAnInterval
<1>6. r < BlockEnd(b)
    BY <1>1, <1>3, <1>5
<1> QED
    BY <1>1, <1>3, <1>4, <1>5, <1>6

\* What depends on the input alone does not change.
LEMMA InputStays ==
    ASSUME UNCHANGED input
    PROVE  /\ Starts' = Starts
           /\ \A b : BlockEnd(b)' = BlockEnd(b)
           /\ \A b : BlockRows(b)' = BlockRows(b)
           /\ \A b : IsSymmetric(b)' <=> IsSymmetric(b)
           /\ \A f : Filled(f)' <=> Filled(f)
<1>1. boundaries' = boundaries /\ pattern' = pattern
    BY DEF input
<1>2. Starts' = Starts
    BY <1>1 DEF Starts
<1>3. \A b : BlockEnd(b)' = BlockEnd(b)
    BY <1>1 DEF BlockEnd, SetMin
<1>4. \A b : BlockRows(b)' = BlockRows(b)
    BY <1>3 DEF BlockRows
<1>5. \A b : IsSymmetric(b)' <=> IsSymmetric(b)
    BY <1>1, <1>4 DEF IsSymmetric
<1>6. \A f : Filled(f)' <=> Filled(f)
    BY <1>1, <1>2, <1>4, <1>5 DEF Filled
<1> QED
    BY <1>2, <1>3, <1>4, <1>5, <1>6

-----------------------------------------------------------------------------
\* Parents are rows above, or there is none.
Rising ==
    \A n \in Rows : parent[n] = NoRow \/ (parent[n] \in Rows /\ n < parent[n])

LEMMA ForestRises ==
    ASSUME TypeOK, Forest
    PROVE  Rising
    BY DEF TypeOK, Forest, Rising

\* A set that a path stays in, from n to m.
PathIn(s, n, m) ==
    /\ s \subseteq Rows
    /\ n \in s /\ m \in s
    /\ \A x \in s \ {m} : parent[x] \in s

LEMMA PathIsASet ==
    ASSUME NEW n
    PROVE  \A m : m \in TreePath(n) <=> m \in Rows /\ \E s : PathIn(s, n, m)
    BY DEF TreePath, PathIn

LEMMA PathStarts ==
    ASSUME NEW n \in Rows
    PROVE  n \in TreePath(n)
<1>1. PathIn({n}, n, n)
    BY DEF PathIn
<1> QED
    BY <1>1, PathIsASet

LEMMA PathsJoin ==
    ASSUME NEW n, NEW m, NEW p, m \in TreePath(n), p \in TreePath(m)
    PROVE  p \in TreePath(n)
<1>1. PICK s : PathIn(s, n, m)
    BY PathIsASet
<1>2. PICK t : PathIn(t, m, p)
    BY PathIsASet
<1>3. PathIn(s \cup t, n, p)
    BY <1>1, <1>2 DEF PathIn
<1>4. p \in Rows
    BY PathIsASet
<1> QED
    BY <1>3, <1>4, PathIsASet

LEMMA PathByParent ==
    ASSUME NEW n \in Rows, parent[n] \in Rows
    PROVE  parent[n] \in TreePath(n)
<1>1. PathIn({n, parent[n]}, n, parent[n])
    BY DEF PathIn
<1> QED
    BY <1>1, PathIsASet

\* All of a path is below its end.
LEMMA PathIsBelowItsEnd ==
    ASSUME Rising, NEW s, NEW n, NEW m, PathIn(s, n, m), NEW x \in s
    PROVE  x <= m
<1>1. s \in SUBSET Rows /\ s # {} /\ m \in Rows
    BY DEF PathIn
<1>2. PICK top \in s : \A y \in s : y <= top
    BY <1>1, GreatestRow
<1>3. top = m
    <2> SUFFICES ASSUME top # m PROVE FALSE
        OBVIOUS
    <2>1. parent[top] \in s /\ top \in Rows
        BY <1>1 DEF PathIn
    <2>2. top < parent[top] /\ parent[top] \in Rows
        BY <1>1, <2>1, RowsAreNatural DEF Rising
    <2> QED
        BY <1>2, <2>1, <2>2, RowsAreNatural
<1> QED
    BY <1>2, <1>3

\* A path leads upwards, and goes on from the parent.
LEMMA PathRises ==
    ASSUME Rising, NEW n, NEW m, m \in TreePath(n)
    PROVE  /\ n \in Rows /\ m \in Rows /\ n <= m
           /\ n # m => parent[n] \in Rows /\ parent[n] <= m /\ m \in TreePath(parent[n])
<1>1. PICK s : PathIn(s, n, m)
    BY PathIsASet
<1>2. n \in Rows /\ m \in Rows /\ n <= m
    BY <1>1, PathIsBelowItsEnd DEF PathIn
<1>3. ASSUME n # m
      PROVE  parent[n] \in Rows /\ parent[n] <= m /\ m \in TreePath(parent[n])
    <2>1. parent[n] \in s /\ parent[n] \in Rows
        BY <1>1, <1>3 DEF PathIn
    <2>2. parent[n] <= m
        BY <1>1, <2>1, PathIsBelowItsEnd
    <2>3. PathIn(s, parent[n], m)
        BY <1>1, <2>1 DEF PathIn
    <2> QED
        BY <1>2, <2>1, <2>2, <2>3, PathIsASet
<1> QED
    BY <1>2, <1>3

LEMMA PathsStay ==
    ASSUME parent' = parent
    PROVE  \A n, m : m \in TreePath(n)' <=> m \in TreePath(n)
    BY DEF TreePath

\* An edge from a root keeps the paths there are.
LEMMA PathsGrow ==
    ASSUME NEW x \in Rows, parent[x] = NoRow, \A y \in Rows : y # x => parent'[y] = parent[y]
    PROVE  \A n, m : m \in TreePath(n) => m \in TreePath(n)'
<1> SUFFICES ASSUME NEW n, NEW m, m \in TreePath(n) PROVE m \in TreePath(n)'
    OBVIOUS
<1>1. PICK s : PathIn(s, n, m)
    BY PathIsASet
<1>2. \A y \in s \ {m} : parent'[y] \in s
    BY <1>1, RowsAreNatural DEF PathIn
<1>3. s \in SUBSET Rows /\ n \in s /\ m \in s /\ m \in Rows
    BY <1>1 DEF PathIn
<1> QED
    BY <1>2, <1>3 DEF TreePath

-----------------------------------------------------------------------------
\* Where the analysis is, in numbers.
LEMMA Here ==
    ASSUME TypeOK, Layout, stage # "done"
    PROVE  /\ begin \in boundaries /\ begin \in Starts /\ begin \in Nat /\ begin < Dimension
           /\ row \in Rows /\ row \in Nat /\ begin <= row /\ row < BlockEnd(begin)
           /\ BlockEnd(begin) \in boundaries /\ BlockEnd(begin) \in Nat
           /\ begin < BlockEnd(begin) /\ BlockEnd(begin) <= Dimension
           /\ BlockRows(begin) = begin .. BlockEnd(begin) - 1
           /\ BlockRows(begin) \subseteq Rows
           /\ \A c \in boundaries : c \in Nat /\ (c <= begin \/ BlockEnd(begin) <= c)
<1>1. begin \in boundaries /\ begin < Dimension /\ row \in BlockRows(begin)
      /\ boundaries \subseteq 0 .. Dimension
    BY DEF TypeOK, Layout
<1>2. begin \in Starts
    BY <1>1, RowsAreNatural DEF Starts
<1>3. /\ BlockEnd(begin) \in boundaries /\ BlockEnd(begin) \in Nat
      /\ begin \in Nat /\ begin < BlockEnd(begin) /\ BlockEnd(begin) <= Dimension
      /\ \A c \in boundaries : c <= begin \/ BlockEnd(begin) <= c
      /\ BlockRows(begin) = begin .. BlockEnd(begin) - 1
      /\ BlockRows(begin) \subseteq Rows
    BY <1>1, BlockIsAnInterval
<1>4. row \in Rows /\ row \in Nat /\ begin <= row /\ row < BlockEnd(begin)
    BY <1>1, <1>3
<1>5. \A c \in boundaries : c \in Nat
    BY <1>1, RowsAreNatural
<1> QED
    BY <1>1, <1>2, <1>3, <1>4, <1>5

\* The entries a tree is built from are in the block, left of the diagonal.
LEMMA EntriesAreInTheBlock ==
    ASSUME TypeOK, Layout, stage # "done", NEW r \in BlockRows(begin)
    PROVE  TreeEntries(r) \subseteq begin .. r - 1 /\ TreeEntries(r) \subseteq Rows
<1>1. /\ begin \in boundaries /\ begin \in Nat /\ r \in Rows /\ r \in Nat /\ begin <= r
      /\ BlockRows(begin) = begin .. BlockEnd(begin) - 1
    BY Here, RowsAreNatural
<1>2. \A c \in pattern[r] : c \in Nat /\ begin <= c
    BY <1>1, RowsAreNatural DEF Layout, BlockUpper, TypeOK
<1>3. \A c \in TreeEntries(r) : c \in Nat /\ begin <= c /\ c < r
    BY <1>1, <1>2 DEF TreeEntries
<1>4. \A c \in TreeEntries(r) : c \in begin .. r - 1 /\ c \in Rows
    BY <1>1, <1>3, RowsAreNatural
<1> QED
    BY <1>4

LEMMA EntriesStay ==
    ASSUME UNCHANGED <<input, begin, enveloped>>
    PROVE  \A r : TreeEntries(r)' = TreeEntries(r)
<1>1. BlockRows(begin)' = BlockRows(begin)
    BY InputStays DEF BlockRows, BlockEnd, SetMin, input
<1> QED
    BY <1>1 DEF TreeEntries, input

\* What is known of the factor and of the blocks that are done.
LEMMA FactorStays ==
    ASSUME IInv, UNCHANGED <<input, factor>>
    PROVE  /\ FactorClosed' /\ BlockUpper(factor, boundaries)'
           /\ \A r : Appended(r)' <=> Appended(r)
           /\ \A r : UpperPart(r)' = UpperPart(r)
           /\ \A r : LowerPart(r)' = LowerPart(r)
<1>1. boundaries' = boundaries /\ pattern' = pattern /\ factor' = factor
    BY DEF input
<1>2. /\ \A r : Appended(r)' <=> Appended(r)
      /\ \A r : UpperPart(r)' = UpperPart(r)
      /\ \A r : LowerPart(r)' = LowerPart(r)
    BY <1>1 DEF Appended, UpperPart, LowerPart
<1>3. FactorClosed'
    BY <1>1, <1>2 DEF IInv, FactorClosed
<1>4. BlockUpper(factor, boundaries)'
    BY <1>1 DEF IInv, BlockUpper
<1> QED
    BY <1>2, <1>3, <1>4

LEMMA DoneBlocksStay ==
    ASSUME IInv, UNCHANGED input, stage # "done",
           \A n \in Rows : n < begin => parent'[n] = parent[n] /\ factor'[n] = factor[n]
    PROVE  \A b \in symmetric : b < begin => Mirrors(b)' /\ ParentIsFirst(b)'
<1> SUFFICES ASSUME NEW b \in symmetric, b < begin
             PROVE  Mirrors(b)' /\ ParentIsFirst(b)'
    OBVIOUS
<1>1. BlockRows(b)' = BlockRows(b)
    BY InputStays
<1>2. /\ begin \in boundaries /\ begin \in Nat /\ begin < Dimension
      /\ \A c \in boundaries : c \in Nat
    BY Here DEF IInv
<1>3. b \in boundaries /\ b < Dimension /\ b \in Nat
    <2>1. b \in boundaries /\ b \in Nat
        BY <1>2 DEF IInv, TypeOK
    <2> QED
        BY <1>2, <2>1, RowsAreNatural
<1>4. BlockEnd(b) \in Nat /\ BlockEnd(b) <= begin /\ BlockRows(b) = b .. BlockEnd(b) - 1
      /\ BlockRows(b) \subseteq Rows
    BY <1>2, <1>3, BlockIsAnInterval DEF IInv
<1>5. \A n \in BlockRows(b) : parent'[n] = parent[n] /\ factor'[n] = factor[n]
    BY <1>2, <1>3, <1>4
<1>6. Mirrors(b) /\ ParentIsFirst(b)
    BY <1>3 DEF IInv, BlocksAreDone
<1>7. Mirrors(b)'
    BY <1>1, <1>5, <1>6 DEF Mirrors
<1>8. ParentIsFirst(b)'
    BY <1>1, <1>5, <1>6 DEF ParentIsFirst
<1> QED
    BY <1>7, <1>8

\* In a block whose classification has not begun there are no tree edges yet.
LEMMA NoEdgesYet ==
    ASSUME IInv, stage \in {"classify", "generic", "merge"}, NEW n \in Rows, begin <= n
    PROVE  parent[n] = NoRow /\ ancestor[n] = NoRow
<1>1. begin \in Nat /\ TreeTop = begin - 1 /\ n \in Nat
    BY Here, RowsAreNatural DEF IInv, TreeTop, SymmetricStages
<1>2. parent[n] = NoRow \/ parent[n] \in Rows
    BY DEF IInv, TypeOK
<1> QED
    BY <1>1, <1>2, RowsAreNatural DEF IInv, Forest

-----------------------------------------------------------------------------
LEMMA InitIsFine == Init => IInv
<1> SUFFICES ASSUME Init PROVE IInv
    OBVIOUS
<1>1. PICK cuts \in SUBSET (1 .. Dimension - 1) : boundaries = cuts \cup {0, Dimension}
    BY DEF Init
<1>2. Dimension \in Nat \ {0} /\ boundaries \subseteq 0 .. Dimension
      /\ 0 \in boundaries /\ Dimension \in boundaries
    BY <1>1, DimensionAssumption
<1>3. pattern \in [Rows -> SUBSET Rows]
    <2>1. PICK off \in [Rows -> SUBSET Rows], gaps \in Missing :
              pattern = [r \in Rows |-> IF r \in gaps THEN off[r] ELSE off[r] \cup {r}]
        BY DEF Init
    <2> QED
        BY <2>1
<1>4. TypeOK
    BY <1>2, <1>3, RowsAreNatural DEF Init, TypeOK
<1>5. 0 < BlockEnd(0) /\ BlockRows(0) = 0 .. BlockEnd(0) - 1 /\ BlockEnd(0) \in Nat
    BY <1>2, <1>4, BlockIsAnInterval
<1>6. \A r \in Rows : ~Appended(r) /\ ~(r < 0)
    BY RowsAreNatural DEF Init, Appended
<1>7. Layout
    BY <1>2, <1>5, <1>6 DEF Init, Layout, Frontier, SymmetricStages
<1>8. FactorClosed /\ BlockUpper(factor, boundaries)
    BY <1>6 DEF Init, FactorClosed, BlockUpper
<1>9. MergedRow /\ EntriesClimb /\ ClimbedRow /\ FollowedRow
    BY DEF Init, MergedRow, EntriesClimb, ClimbedRow, FollowedRow, SymmetricStages
<1>10. Forest /\ Shortcuts
    BY DEF Init, Forest, Shortcuts
<1>11. LowerRows /\ OffDiagonalRows
    BY DEF Init, LowerRows, Reached, OffDiagonalRows, Propagated
<1>12. BlocksAreDone
    BY DEF Init, BlocksAreDone
<1>13. NothingExtra
    BY DEF Init, NothingExtra, Within, SymmetricStages
<1> QED
    BY <1>4, <1>7, <1>8, <1>9, <1>10, <1>11, <1>12, <1>13 DEF IInv

LEMMA ClassifyBlockIsFine == IInv /\ ClassifyBlock => IInv'
<1> SUFFICES ASSUME IInv, ClassifyBlock PROVE IInv'
    OBVIOUS
<1> USE DEF SymmetricStages
<1>1. /\ stage = "classify" /\ row = begin /\ node = NoRow
      /\ UNCHANGED <<input, factor, begin, row, todo, node, reached, tree, block>>
    BY DEF IInv, Layout, ClassifyBlock
<1>2. /\ boundaries' = boundaries /\ pattern' = pattern
      /\ parent' = parent /\ ancestor' = ancestor
      /\ lower' = lower /\ offDiagonal' = offDiagonal
    BY <1>1 DEF input, tree, block
<1>3. /\ begin \in boundaries /\ begin \in Nat /\ begin < Dimension
      /\ BlockRows(begin) = begin .. BlockEnd(begin) - 1
      /\ BlockRows(begin) \subseteq Rows
    BY <1>1, Here DEF IInv
<1>4. \/ /\ stage' = "tree" /\ symmetric' = symmetric \cup {begin}
         /\ enveloped' \in {enveloped, enveloped \cup {begin}}
         /\ begin \in enveloped' \/ IsSymmetric(begin)
      \/ stage' = "generic" /\ symmetric' = symmetric /\ enveloped' = enveloped
    BY DEF ClassifyBlock
<1>5. \A b : (IsSymmetric(b)' <=> IsSymmetric(b)) /\ BlockRows(b)' = BlockRows(b)
    BY <1>1, InputStays
<1>6. \A n \in Rows : begin <= n => parent[n] = NoRow /\ ancestor[n] = NoRow
    BY <1>1, NoEdgesYet
<1>7. TypeOK'
    <2>1. symmetric' \subseteq boundaries /\ enveloped' \subseteq symmetric'
        BY <1>3, <1>4 DEF IInv, TypeOK
    <2> QED
        BY <1>1, <1>2, <1>4, <2>1 DEF IInv, TypeOK
<1>8. FactorClosed' /\ BlockUpper(factor, boundaries)' /\ \A r : Appended(r)' <=> Appended(r)
    BY <1>1, FactorStays
<1>9. Layout'
    <2>1. BlockUpper(pattern, boundaries)'
        BY <1>2 DEF IInv, Layout, BlockUpper
    <2>2. \A r \in Rows : Appended(r)' <=> r < Frontier'
        BY <1>1, <1>4, <1>8 DEF IInv, Layout, Frontier
    <2>3. stage' \in SymmetricStages =>
              begin' \in symmetric' /\ (begin' \in enveloped' \/ IsSymmetric(begin)')
        BY <1>1, <1>4, <1>5
    <2>4. begin' < Dimension /\ row' \in BlockRows(begin)'
        BY <1>1, <1>3, <1>5 DEF IInv, Layout, BlockRows
    <2> QED
        BY <1>1, <1>4, <2>1, <2>2, <2>3, <2>4 DEF IInv, Layout
<1>10. MergedRow' /\ ClimbedRow' /\ FollowedRow'
    BY <1>4 DEF MergedRow, ClimbedRow, FollowedRow
<1>11. Forest'
    <2>1. TreeTop' \in Int /\ TreeTop <= TreeTop' /\ TreeTop \in Int
        BY <1>1, <1>3, <1>4 DEF TreeTop
    <2>2. \A n \in Rows : /\ parent[n] # NoRow => parent[n] \in Int
                          /\ ancestor[n] # NoRow => ancestor[n] \in Int
        BY RowsAreNatural DEF IInv, TypeOK
    <2> QED
        BY <1>2, <2>1, <2>2 DEF IInv, Forest
<1>12. Shortcuts'
    <2>1. \A n, m : m \in TreePath(n)' <=> m \in TreePath(n)
        BY <1>2, PathsStay
    <2> QED
        BY <1>1, <1>2, <2>1 DEF IInv, Shortcuts, Climbing
<1>13. EntriesClimb'
    <2>1. stage' \in SymmetricStages => Climbed' = begin
        BY <1>1, <1>4 DEF Climbed
    <2>2. begin .. begin - 1 = {}
        BY <1>3
    <2> QED
        BY <1>1, <1>2, <1>6, <2>1, <2>2 DEF EntriesClimb
<1>14. LowerRows' /\ OffDiagonalRows'
    <2>1. Reached' = begin /\ Propagated' = begin
        BY <1>1, <1>4 DEF Reached, Propagated
    <2>2. begin .. begin - 1 = {}
        BY <1>3
    <2> QED
        BY <1>1, <2>1, <2>2 DEF LowerRows, OffDiagonalRows
<1>15. BlocksAreDone'
    <2>1. \A b \in symmetric : b < begin => Mirrors(b)' /\ ParentIsFirst(b)'
        BY <1>1, <1>2, DoneBlocksStay
    <2>2. ~(begin < begin)
        BY <1>3
    <2> QED
        BY <1>1, <1>4, <2>1, <2>2 DEF BlocksAreDone
<1>16. NothingExtra'
    <2> SUFFICES ASSUME enveloped' = {}, NEW f \in [Rows -> SUBSET Rows], Filled(f)'
                 PROVE  Within(f)'
        BY DEF NothingExtra
    <2>1. enveloped = {} /\ Filled(f)
        BY <1>1, <1>4, InputStays
    <2>2. Within(f)
        BY <2>1 DEF IInv, NothingExtra
    <2>3. Reached' = begin /\ Propagated' = begin /\ begin .. begin - 1 = {}
        BY <1>1, <1>3, <1>4 DEF Reached, Propagated
    <2>4. BlockRows(begin)' = BlockRows(begin) /\ begin' = begin
        BY <1>1, <1>5 DEF BlockRows
    <2> QED
        BY <1>1, <1>2, <1>3, <1>4, <1>6, <2>2, <2>3, <2>4 DEF Within
<1> QED
    BY <1>7, <1>8, <1>9, <1>10, <1>11, <1>12, <1>13, <1>14, <1>15, <1>16 DEF IInv

-----------------------------------------------------------------------------
\* What an action leaves alone when it works on a row of a generic block.
LEMMA GenericKeepsTheRest ==
    ASSUME IInv, stage \in {"generic", "merge"}, stage' \in {"generic", "merge"},
           UNCHANGED <<input, factor, kinds, begin, row, node, tree, block>>
    PROVE  /\ FactorClosed' /\ BlockUpper(factor, boundaries)'
           /\ Layout' /\ Forest' /\ Shortcuts' /\ EntriesClimb' /\ LowerRows'
           /\ OffDiagonalRows' /\ ClimbedRow' /\ FollowedRow' /\ BlocksAreDone'
<1> USE DEF SymmetricStages
<1>1. /\ boundaries' = boundaries /\ pattern' = pattern /\ factor' = factor
      /\ symmetric' = symmetric /\ enveloped' = enveloped
      /\ begin' = begin /\ row' = row /\ node' = node
      /\ parent' = parent /\ ancestor' = ancestor
      /\ lower' = lower /\ offDiagonal' = offDiagonal
    BY DEF input, kinds, tree, block
<1>2. \A b : (IsSymmetric(b)' <=> IsSymmetric(b)) /\ BlockRows(b)' = BlockRows(b)
    BY InputStays
<1>3. FactorClosed' /\ BlockUpper(factor, boundaries)' /\ \A r : Appended(r)' <=> Appended(r)
    BY FactorStays
<1>4. Layout'
    <2>1. BlockUpper(pattern, boundaries)'
        BY <1>1 DEF IInv, Layout, BlockUpper
    <2>2. \A r \in Rows : Appended(r)' <=> r < Frontier'
        BY <1>1, <1>3 DEF IInv, Layout, Frontier
    <2>3. begin' < Dimension /\ row' \in BlockRows(begin)'
        BY <1>1, <1>2 DEF IInv, Layout
    <2> QED
        BY <1>1, <2>1, <2>2, <2>3 DEF IInv, Layout
<1>5. Forest'
    BY <1>1 DEF IInv, Forest, TreeTop
<1>6. Shortcuts'
    <2>1. \A n, m : m \in TreePath(n)' <=> m \in TreePath(n)
        BY <1>1, PathsStay
    <2> QED
        BY <1>1, <2>1 DEF IInv, Shortcuts, Climbing
<1>7. EntriesClimb' /\ ClimbedRow' /\ FollowedRow'
    BY DEF EntriesClimb, ClimbedRow, FollowedRow
<1>8. LowerRows' /\ OffDiagonalRows'
    <2>1. Reached' = begin /\ Propagated' = begin /\ begin .. begin - 1 = {}
        BY <1>1, Here DEF IInv, Reached, Propagated
    <2> QED
        BY <1>1, <2>1 DEF LowerRows, OffDiagonalRows
<1>9. BlocksAreDone'
    BY <1>1, DoneBlocksStay DEF BlocksAreDone
<1> QED
    BY <1>3, <1>4, <1>5, <1>6, <1>7, <1>8, <1>9

LEMMA GenericRowIsFine == IInv /\ GenericRow => IInv'
<1> SUFFICES ASSUME IInv, GenericRow PROVE IInv'
    OBVIOUS
<1>1. /\ stage = "generic" /\ stage' = "merge"
      /\ reached' = pattern[row] \cup {row} /\ todo' = {c \in pattern[row] : c < row}
      /\ UNCHANGED <<input, factor, kinds, begin, row, node, tree, block>>
    BY DEF GenericRow
<1>2. /\ boundaries' = boundaries /\ pattern' = pattern /\ factor' = factor
      /\ symmetric' = symmetric /\ enveloped' = enveloped
      /\ begin' = begin /\ row' = row /\ node' = node
      /\ parent' = parent /\ ancestor' = ancestor
      /\ lower' = lower /\ offDiagonal' = offDiagonal
    BY <1>1 DEF input, kinds, tree, block
<1>3. row \in Rows /\ pattern[row] \subseteq Rows /\ \A c \in boundaries : c \in Nat
    BY <1>1, Here DEF IInv, TypeOK
<1>4. TypeOK'
    BY <1>1, <1>2, <1>3 DEF IInv, TypeOK
<1>5. MergedRow'
    <2>1. \A c \in reached' : \A b \in boundaries : b <= row => b <= c
        BY <1>1, <1>3 DEF IInv, Layout, BlockUpper
    <2>2. \A k \in reached' : k < row => k \in todo'
        BY <1>1, <1>3, RowsAreNatural
    <2>3. todo' \subseteq {c \in reached' : c < row}
        BY <1>1
    <2> QED
        BY <1>1, <1>2, <2>1, <2>2, <2>3 DEF MergedRow
<1>6. NothingExtra'
    <2> SUFFICES ASSUME enveloped' = {}, NEW f \in [Rows -> SUBSET Rows], Filled(f)'
                 PROVE  Within(f)'
        BY DEF NothingExtra
    <2>1. Filled(f) /\ Within(f)
        BY <1>1, <1>2, InputStays DEF IInv, NothingExtra
    <2>2. reached' \subseteq f[row]
        BY <1>1, <1>3, <2>1 DEF Filled
    <2> QED
        BY <1>1, <1>2, <2>1, <2>2 DEF Within, SymmetricStages
<1> QED
    BY <1>1, <1>4, <1>5, <1>6, GenericKeepsTheRest DEF IInv

LEMMA MergePivotIsFine == IInv /\ MergePivot => IInv'
<1> SUFFICES ASSUME IInv, MergePivot PROVE IInv'
    OBVIOUS
<1> DEFINE pivot == SetMin(todo)
           fill  == UpperPart(pivot) \ reached
<1>1. /\ stage = "merge" /\ stage' = "merge" /\ todo # {}
      /\ reached' = reached \cup fill
      /\ todo' = (todo \ {pivot}) \cup {c \in fill : c < row}
      /\ UNCHANGED <<input, factor, kinds, stage, begin, row, node, tree, block>>
    BY DEF MergePivot
<1>2. /\ boundaries' = boundaries /\ pattern' = pattern /\ factor' = factor
      /\ symmetric' = symmetric /\ enveloped' = enveloped
      /\ begin' = begin /\ row' = row /\ node' = node
      /\ parent' = parent /\ ancestor' = ancestor
      /\ lower' = lower /\ offDiagonal' = offDiagonal
    BY <1>1 DEF input, kinds, tree, block
<1>3. row \in Rows /\ row \in Nat /\ \A c \in boundaries : c \in Nat
    BY <1>1, Here DEF IInv
<1>4. pivot \in todo /\ pivot \in reached /\ pivot < row /\ pivot \in Rows
    <2>1. todo \subseteq Rows /\ todo \in SUBSET Nat
        BY RowsAreNatural DEF IInv, TypeOK
    <2>2. pivot \in todo
        BY <1>1, <2>1, SetMinOfRows
    <2> QED
        BY <1>1, <2>1, <2>2 DEF IInv, MergedRow
<1>5. fill \subseteq Rows /\ UpperPart(pivot) \subseteq Rows
      /\ \A c \in fill : c > pivot /\ c \in factor[pivot]
    BY <1>4 DEF IInv, TypeOK, UpperPart
<1>6. \A r : UpperPart(r)' = UpperPart(r)
    BY <1>1, FactorStays
<1>7. \A c \in fill : \A b \in boundaries : b <= row => b <= c
    <2>1. ASSUME NEW c \in fill, NEW b \in boundaries, b <= row PROVE b <= c
        <3>1. b <= pivot
            BY <1>1, <1>4, <2>1 DEF IInv, MergedRow
        <3>2. c \in Nat /\ b \in Nat /\ pivot \in Nat
            BY <1>3, <1>4, <1>5, RowsAreNatural
        <3> QED
            BY <1>5, <3>1, <3>2
    <2> QED
        BY <2>1
<1>8. \A k \in reached' : k < row => k \in todo' \/ UpperPart(k) \subseteq reached'
    <2> SUFFICES ASSUME NEW k \in reached', k < row, k \notin todo'
                 PROVE  UpperPart(k) \subseteq reached'
        OBVIOUS
    <2>1. CASE k = pivot
        BY <1>1, <2>1
    <2>2. CASE k # pivot
        BY <1>1, <2>2 DEF IInv, MergedRow
    <2> QED
        BY <2>1, <2>2
<1> HIDE DEF pivot, fill
<1>9. TypeOK'
    BY <1>1, <1>2, <1>5 DEF IInv, TypeOK
<1>10. MergedRow'
    <2>1. pattern[row] \cup {row} \subseteq reached'
        BY <1>1 DEF IInv, MergedRow
    <2>2. \A c \in reached' : \A b \in boundaries : b <= row => b <= c
        BY <1>1, <1>7 DEF IInv, MergedRow
    <2>3. todo' \subseteq {c \in reached' : c < row}
        BY <1>1 DEF IInv, MergedRow
    <2> QED
        BY <1>2, <1>6, <1>8, <2>1, <2>2, <2>3 DEF MergedRow
<1>11. NothingExtra'
    <2> SUFFICES ASSUME enveloped' = {}, NEW f \in [Rows -> SUBSET Rows], Filled(f)'
                 PROVE  Within(f)'
        BY DEF NothingExtra
    <2>1. Filled(f) /\ Within(f)
        BY <1>1, <1>2, InputStays DEF IInv, NothingExtra
    <2>2. reached \subseteq f[row] /\ factor[pivot] \subseteq f[pivot]
        BY <1>1, <1>4, <2>1 DEF Within
    <2>3. {c \in f[pivot] : c > pivot} \subseteq f[row]
        BY <1>3, <1>4, <2>1, <2>2 DEF Filled
    <2>4. reached' \subseteq f[row]
        BY <1>1, <1>5, <2>2, <2>3
    <2> QED
        BY <1>1, <1>2, <2>1, <2>4 DEF Within, SymmetricStages
<1> QED
    BY <1>1, <1>9, <1>10, <1>11, GenericKeepsTheRest DEF IInv

\* The analysis leaves a block for the next one.
LEMMA LeavesBlock ==
    ASSUME IInv, stage # "done", LeaveBlock, UNCHANGED <<input, kinds>>,
           \A r \in Rows : factor'[r] # {} <=> r < BlockEnd(begin)
    PROVE  /\ begin' \in boundaries /\ begin' = BlockEnd(begin) /\ row' = begin'
           /\ row' \in 0 .. Dimension
           /\ stage' \in {"classify", "done"}
           /\ node = NoRow /\ node' = NoRow => Layout'
<1> USE DEF SymmetricStages
<1>1. /\ begin' = BlockEnd(begin) /\ row' = BlockEnd(begin)
      /\ stage' = IF BlockEnd(begin) = Dimension THEN "done" ELSE "classify"
    BY DEF LeaveBlock
<1>2. /\ BlockEnd(begin) \in boundaries /\ BlockEnd(begin) \in Nat
      /\ begin \in Nat /\ begin < BlockEnd(begin) /\ BlockEnd(begin) <= Dimension
    BY Here DEF IInv
<1>3. boundaries' = boundaries /\ pattern' = pattern
      /\ symmetric' = symmetric /\ enveloped' = enveloped
    BY DEF input, kinds
<1>4. ASSUME stage' = "classify"
      PROVE  begin' < Dimension /\ row' \in BlockRows(begin)'
    <2>1. begin' \in boundaries /\ begin' < Dimension
        BY <1>1, <1>2, <1>4, RowsAreNatural
    <2>2. begin' \in BlockRows(begin')
        BY <2>1, BlockIsAnInterval DEF IInv
    <2>3. BlockRows(begin)' = BlockRows(begin')
        BY InputStays, <1>3 DEF BlockRows, BlockEnd
    <2> QED
        BY <1>1, <2>1, <2>2, <2>3
<1>5. ASSUME node = NoRow, node' = NoRow PROVE Layout'
    <2>1. BlockUpper(pattern, boundaries)'
        BY <1>3 DEF IInv, Layout, BlockUpper
    <2>2. \A r \in Rows : Appended(r)' <=> r < Frontier'
        BY <1>1 DEF Appended, Frontier
    <2>3. \A b \in symmetric' : b < begin'
        <3>1. \A b \in symmetric : b <= begin /\ b \in Nat
            <4>1. \A b \in symmetric : b \in Nat
                BY Here DEF IInv, TypeOK
            <4> QED
                BY <1>2, <4>1 DEF IInv, Layout
        <3> QED
            BY <1>1, <1>2, <1>3, <3>1
    <2> QED
        BY <1>1, <1>4, <1>5, <2>1, <2>2, <2>3 DEF Layout
<1> QED
    BY <1>1, <1>2, <1>5

\* Between two blocks, and in a generic one, nothing is said of a tree being built.
LEMMA NoTreeIsBuilt ==
    ASSUME IInv, stage' \in {"classify", "done", "generic"},
           UNCHANGED <<input, tree>>, node = NoRow, node' = NoRow,
           begin' \in Nat, TreeTop \in Int, TreeTop <= begin' - 1
    PROVE  /\ MergedRow' /\ Forest' /\ Shortcuts' /\ EntriesClimb' /\ ClimbedRow'
           /\ LowerRows' /\ FollowedRow' /\ OffDiagonalRows'
<1> USE DEF SymmetricStages
<1>1. boundaries' = boundaries /\ parent' = parent /\ ancestor' = ancestor
    BY DEF input, tree
<1>2. MergedRow' /\ EntriesClimb' /\ ClimbedRow' /\ FollowedRow'
    BY DEF MergedRow, EntriesClimb, ClimbedRow, FollowedRow
<1>3. Forest'
    <2>1. TreeTop' = begin' - 1
        BY DEF TreeTop
    <2>2. ASSUME NEW n \in Rows, parent[n] # NoRow
          PROVE  parent[n] <= TreeTop' /\ ancestor[n] <= TreeTop'
        <3>1. parent[n] \in Int /\ ancestor[n] \in Int
            BY <2>2, RowsAreNatural DEF IInv, TypeOK, Forest
        <3>2. parent[n] <= TreeTop /\ ancestor[n] <= TreeTop
            BY <2>2 DEF IInv, Forest
        <3>3. begin' - 1 \in Int
            BY BelowInTurn
        <3>4. \A x \in Int : x <= TreeTop => x <= begin' - 1
            BY <3>3, BelowInTurn
        <3>5. parent[n] <= begin' - 1 /\ ancestor[n] <= begin' - 1
            BY <3>1, <3>2, <3>4
        <3> QED
            BY <2>1, <3>5
    <2> QED
        BY <1>1, <2>2 DEF IInv, Forest
<1>4. Shortcuts'
    <2>1. \A n, m : m \in TreePath(n)' <=> m \in TreePath(n)
        BY <1>1, PathsStay
    <2> QED
        BY <1>1, <2>1 DEF IInv, Shortcuts, Climbing
<1>5. LowerRows' /\ OffDiagonalRows'
    <2>1. Reached' = begin' /\ Propagated' = begin'
        BY DEF Reached, Propagated
    <2>2. begin' .. begin' - 1 = {}
        BY EmptyRange
    <2> QED
        BY <2>1, <2>2 DEF LowerRows, OffDiagonalRows
<1> QED
    BY <1>2, <1>3, <1>4, <1>5

LEMMA AppendGenericRowIsFine == IInv /\ AppendGenericRow => IInv'
<1> SUFFICES ASSUME IInv, AppendGenericRow PROVE IInv'
    OBVIOUS
<1>1. /\ stage = "merge" /\ todo = {} /\ node = NoRow
      /\ factor' = [factor EXCEPT ![row] = reached]
      /\ UNCHANGED <<input, kinds, todo, node, reached, tree, block>>
    BY DEF IInv, Layout, AppendGenericRow
<1>2. /\ boundaries' = boundaries /\ pattern' = pattern
      /\ symmetric' = symmetric /\ enveloped' = enveloped
      /\ parent' = parent /\ ancestor' = ancestor
      /\ lower' = lower /\ offDiagonal' = offDiagonal
    BY <1>1 DEF input, kinds, tree, block
<1>3. /\ begin \in boundaries /\ begin \in Nat /\ row \in Rows /\ row \in Nat /\ begin <= row
      /\ row < BlockEnd(begin) /\ BlockEnd(begin) \in Nat /\ BlockEnd(begin) <= Dimension
      /\ BlockRows(begin) = begin .. BlockEnd(begin) - 1
      /\ \A c \in boundaries : c \in Nat
    BY <1>1, Here DEF IInv
<1>4. \A r \in Rows : Appended(r) <=> r < row
    BY <1>1 DEF IInv, Layout, Frontier
<1>5. /\ factor' \in [Rows -> SUBSET Rows] /\ factor'[row] = reached /\ row \in reached
      /\ \A r \in Rows : r # row => factor'[r] = factor[r]
    BY <1>1, <1>3 DEF IInv, TypeOK, MergedRow
<1>6. \A r \in Rows : Appended(r)' <=> r < row + 1
    BY <1>3, <1>4, <1>5, RowsAreNatural DEF Appended
<1>7. \A k \in Rows : k < row => UpperPart(k)' = UpperPart(k)
    BY <1>3, <1>5, RowsAreNatural DEF UpperPart
<1>8. FactorClosed'
    <2> SUFFICES ASSUME NEW r \in Rows, Appended(r)'
                 PROVE  /\ pattern[r] \cup {r} \subseteq factor'[r]
                        /\ \A k \in LowerPart(r)' :
                               Appended(k)' /\ UpperPart(k)' \subseteq factor'[r]
        BY <1>2 DEF FactorClosed
    <2>1. CASE r # row
        <3>1. r < row /\ Appended(r) /\ factor'[r] = factor[r]
            BY <1>3, <1>4, <1>5, <1>6, <2>1, RowsAreNatural
        <3>2. LowerPart(r)' = LowerPart(r)
            BY <3>1 DEF LowerPart
        <3>3. \A k \in LowerPart(r) : k \in Rows
            BY DEF LowerPart, IInv, TypeOK
        <3>4. \A k \in LowerPart(r) : Appended(k) /\ k < row /\ k < row + 1
            BY <1>3, <1>4, <3>1, <3>3, RowsAreNatural DEF IInv, FactorClosed
        <3> QED
            BY <1>6, <1>7, <3>1, <3>2, <3>3, <3>4 DEF IInv, FactorClosed
    <2>2. CASE r = row
        <3>1. \A k \in LowerPart(r)' : k \in reached /\ k < row /\ k \in Rows /\ k < row + 1
            <4>1. LowerPart(r)' = {c \in reached : c < row}
                BY <1>5, <2>2 DEF LowerPart
            <4>2. reached \subseteq Rows
                BY DEF IInv, TypeOK
            <4>3. \A k \in reached : k < row => k \in Rows /\ k < row + 1
                BY <1>3, <4>2, RowsAreNatural
            <4> QED
                BY <4>1, <4>2, <4>3
        <3>2. \A k \in LowerPart(r)' : UpperPart(k) \subseteq reached
            BY <1>1, <3>1 DEF IInv, MergedRow
        <3>3. pattern[row] \cup {row} \subseteq reached
            BY <1>1 DEF IInv, MergedRow
        <3> QED
            BY <1>5, <1>6, <1>7, <2>2, <3>1, <3>2, <3>3
    <2> QED
        BY <2>1, <2>2
<1>9. BlockUpper(factor, boundaries)'
    BY <1>1, <1>2, <1>5 DEF IInv, BlockUpper, MergedRow
<1>10. /\ begin' \in boundaries /\ begin' \in Nat /\ begin <= begin' /\ row' \in 0 .. Dimension
       /\ stage' \in {"classify", "done", "generic"}
       /\ Layout'
    <2>1. CASE EndOfRow
        <3>1. BlockEnd(begin) = row + 1 /\ LeaveBlock
            BY <2>1 DEF EndOfRow, AppendGenericRow
        <3>2. \A r \in Rows : factor'[r] # {} <=> r < BlockEnd(begin)
            BY <1>6, <3>1 DEF Appended
        <3>3. begin' = BlockEnd(begin) /\ begin' \in boundaries /\ row' \in 0 .. Dimension
              /\ stage' \in {"classify", "done"} /\ Layout'
            BY <1>1, <3>1, <3>2, LeavesBlock
        <3> QED
            BY <1>3, <3>1, <3>3
    <2>2. CASE ~EndOfRow
        <3>1. row' = row + 1 /\ stage' = "generic" /\ begin' = begin
            BY <2>2 DEF AppendGenericRow
        <3>2. row + 1 < BlockEnd(begin) /\ row + 1 \in BlockRows(begin)
            BY <1>3, <2>2 DEF EndOfRow
        <3>3. BlockRows(begin)' = BlockRows(begin)
            BY <1>1, <3>1, InputStays DEF BlockRows
        <3>4. BlockUpper(pattern, boundaries)'
            BY <1>2 DEF IInv, Layout, BlockUpper
        <3>5. begin < Dimension
            BY <1>1, Here DEF IInv
        <3>6. Layout'
            BY <1>1, <1>2, <1>6, <3>1, <3>2, <3>3, <3>4, <3>5
            DEF IInv, Layout, Frontier, SymmetricStages
        <3>7. row + 1 \in 0 .. Dimension
            BY <1>3, RowsAreNatural
        <3> QED
            BY <1>3, <3>1, <3>6, <3>7, BelowInTurn
    <2> QED
        BY <2>1, <2>2
<1>11. TypeOK'
    BY <1>1, <1>2, <1>5, <1>10 DEF IInv, TypeOK
<1>12. /\ MergedRow' /\ Forest' /\ Shortcuts' /\ EntriesClimb' /\ ClimbedRow'
       /\ LowerRows' /\ FollowedRow' /\ OffDiagonalRows'
    <2>1. TreeTop = begin - 1
        BY <1>1 DEF TreeTop, SymmetricStages
    <2>2. TreeTop \in Int /\ TreeTop <= begin' - 1
        <3>1. begin \in Nat /\ begin' \in Nat /\ begin <= begin'
            BY <1>3, <1>10
        <3> QED
            BY <2>1, <3>1, BelowInTurn
    <2> QED
        BY <1>1, <1>10, <2>2, NoTreeIsBuilt
<1>13. BlocksAreDone'
    <2>1. \A n \in Rows : n < begin => parent'[n] = parent[n] /\ factor'[n] = factor[n]
        BY <1>2, <1>3, <1>5, RowsAreNatural
    <2>2. \A b \in symmetric : b < begin
        BY <1>1 DEF IInv, Layout, SymmetricStages
    <2> QED
        BY <1>1, <1>2, <2>1, <2>2, DoneBlocksStay DEF BlocksAreDone
<1>14. NothingExtra'
    <2> SUFFICES ASSUME enveloped' = {}, NEW f \in [Rows -> SUBSET Rows], Filled(f)'
                 PROVE  Within(f)'
        BY DEF NothingExtra
    <2>1. Filled(f) /\ Within(f)
        BY <1>1, <1>2, InputStays DEF IInv, NothingExtra
    <2> QED
        BY <1>1, <1>5, <1>10, <2>1 DEF Within, SymmetricStages
<1> QED
    BY <1>8, <1>9, <1>10, <1>11, <1>12, <1>13, <1>14 DEF IInv

-----------------------------------------------------------------------------
\* What the phases of a symmetric block leave alone.
LEMMA SymmetricKeepsTheRest ==
    ASSUME IInv, stage \in SymmetricStages, stage' \in SymmetricStages,
           UNCHANGED <<input, factor, kinds, begin>>,
           row' \in BlockRows(begin), stage' \notin {"climb", "follow"} => node' = NoRow,
           \A n \in Rows : n < begin => parent'[n] = parent[n]
    PROVE  /\ FactorClosed' /\ BlockUpper(factor, boundaries)'
           /\ Layout' /\ MergedRow' /\ BlocksAreDone'
           /\ BlockEnd(begin)' = BlockEnd(begin) /\ BlockRows(begin)' = BlockRows(begin)
           /\ \A r : TreeEntries(r)' = TreeEntries(r)
<1>1. /\ boundaries' = boundaries /\ pattern' = pattern /\ factor' = factor
      /\ symmetric' = symmetric /\ enveloped' = enveloped /\ begin' = begin
    BY DEF input, kinds
<1>2. \A b : /\ IsSymmetric(b)' <=> IsSymmetric(b)
             /\ BlockRows(b)' = BlockRows(b) /\ BlockEnd(b)' = BlockEnd(b)
    BY InputStays
<1>3. BlockRows(begin)' = BlockRows(begin) /\ BlockEnd(begin)' = BlockEnd(begin)
    BY <1>1, <1>2 DEF BlockRows, BlockEnd
<1>4. FactorClosed' /\ BlockUpper(factor, boundaries)' /\ \A r : Appended(r)' <=> Appended(r)
    BY FactorStays
<1>5. stage \notin {"done", "generic", "merge", "classify"}
      /\ stage' \notin {"done", "generic", "merge", "classify"}
    BY DEF SymmetricStages
<1>6. Layout'
    <2>1. BlockUpper(pattern, boundaries)'
        BY <1>1 DEF IInv, Layout, BlockUpper
    <2>2. \A r \in Rows : Appended(r)' <=> r < Frontier'
        BY <1>1, <1>4, <1>5 DEF IInv, Layout, Frontier
    <2>3. begin' < Dimension
        BY <1>1, <1>5 DEF IInv, Layout
    <2>4. begin' \in symmetric' /\ (begin' \in enveloped' \/ IsSymmetric(begin)')
        BY <1>1, <1>2 DEF IInv, Layout, IsSymmetric
    <2>5. \A b \in symmetric' : b < begin' \/ (b = begin' /\ stage' \in SymmetricStages)
        BY <1>1 DEF IInv, Layout
    <2> QED
        BY <1>3, <1>5, <2>1, <2>2, <2>3, <2>4, <2>5 DEF Layout
<1>7. MergedRow'
    BY <1>5 DEF MergedRow
<1>8. BlocksAreDone'
    <2>1. \A b \in symmetric : b < begin => Mirrors(b)' /\ ParentIsFirst(b)'
        BY <1>1, <1>5, DoneBlocksStay
    <2> QED
        BY <1>1, <2>1 DEF BlocksAreDone
<1> QED
    BY <1>1, <1>3, <1>4, <1>6, <1>7, <1>8, EntriesStay

\* The tree is left alone between two climbs.
LEMMA TreeStays ==
    ASSUME IInv, UNCHANGED <<input, tree>>, ~Climbing,
           TreeTop \in Int, TreeTop' \in Int, TreeTop <= TreeTop'
    PROVE  /\ Forest' /\ Shortcuts'
           /\ \A n, m : m \in TreePath(n)' <=> m \in TreePath(n)
<1>1. boundaries' = boundaries /\ parent' = parent /\ ancestor' = ancestor
    BY DEF input, tree
<1>2. \A n, m : m \in TreePath(n)' <=> m \in TreePath(n)
    BY <1>1, PathsStay
<1>3. Forest'
    <2>1. ASSUME NEW n \in Rows, parent[n] # NoRow
          PROVE  parent[n] <= TreeTop' /\ ancestor[n] <= TreeTop'
        <3>1. parent[n] \in Int /\ ancestor[n] \in Int
            BY <2>1, RowsAreNatural DEF IInv, TypeOK, Forest
        <3>2. parent[n] <= TreeTop /\ ancestor[n] <= TreeTop
            BY <2>1 DEF IInv, Forest
        <3>3. \A x \in Int : x <= TreeTop => x <= TreeTop'
            BY BelowInTurn
        <3> QED
            BY <3>1, <3>2, <3>3
    <2> QED
        BY <1>1, <2>1 DEF IInv, Forest
<1>4. Shortcuts'
    BY <1>1, <1>2 DEF IInv, Shortcuts
<1> QED
    BY <1>2, <1>3, <1>4

\* No row of the block has its lower part or its right columns yet.
LEMMA NothingReached ==
    ASSUME begin \in Nat, begin' = begin, Reached' = begin, Propagated' = begin
    PROVE  LowerRows' /\ OffDiagonalRows'
<1>1. begin .. begin - 1 = {}
    BY EmptyRange
<1> QED
    BY <1>1 DEF LowerRows, OffDiagonalRows

\* Entries of a row of a block that was not enveloped are entries of the input.
LEMMA EntriesAreWithin ==
    ASSUME TypeOK, enveloped = {}, NEW f \in [Rows -> SUBSET Rows], Filled(f),
           NEW r \in Rows
    PROVE  TreeEntries(r) \subseteq f[r]
    BY DEF TreeEntries, Filled

LEMMA TreeRowIsFine == IInv /\ TreeRow => IInv'
<1> SUFFICES ASSUME IInv, TreeRow PROVE IInv'
    OBVIOUS
<1> USE DEF SymmetricStages
<1>1. /\ stage = "tree" /\ stage' = "climb" /\ todo' = TreeEntries(row) /\ node = NoRow
      /\ UNCHANGED <<input, factor, kinds, begin, row, node, reached, tree, block>>
    BY DEF TreeRow, IInv, Layout
<1>2. /\ boundaries' = boundaries /\ pattern' = pattern
      /\ symmetric' = symmetric /\ enveloped' = enveloped
      /\ parent' = parent /\ ancestor' = ancestor
      /\ lower' = lower /\ offDiagonal' = offDiagonal
    BY <1>1 DEF input, kinds, tree, block
<1>3. begin \in Nat /\ row \in Rows /\ row \in Nat /\ row \in BlockRows(begin)
      /\ TreeEntries(row) \subseteq Rows
    BY <1>1, Here, EntriesAreInTheBlock DEF IInv, Layout
<1>4. /\ FactorClosed' /\ BlockUpper(factor, boundaries)' /\ Layout' /\ MergedRow'
      /\ BlocksAreDone' /\ BlockRows(begin)' = BlockRows(begin)
      /\ \A r : TreeEntries(r)' = TreeEntries(r)
    BY <1>1, <1>2, <1>3, SymmetricKeepsTheRest
<1>5. TypeOK'
    BY <1>1, <1>2, <1>3 DEF IInv, TypeOK
<1>6. Forest' /\ Shortcuts' /\ \A n, m : m \in TreePath(n)' <=> m \in TreePath(n)
    <2>1. TreeTop = row /\ TreeTop' = row /\ ~Climbing
        BY <1>1 DEF TreeTop, Climbing
    <2>2. row <= row /\ row \in Int
        BY <1>3
    <2> QED
        BY <1>1, <2>1, <2>2, TreeStays
<1>7. EntriesClimb'
    <2>1. Climbed' = row /\ Climbed = row
        BY <1>1 DEF Climbed
    <2> QED
        BY <1>1, <1>2, <1>4, <1>6, <2>1 DEF IInv, EntriesClimb
<1>8. ClimbedRow'
    BY <1>1, <1>4 DEF ClimbedRow
<1>9. Reached' = begin /\ Propagated' = begin
    BY <1>1 DEF Reached, Propagated
<1>10. LowerRows' /\ OffDiagonalRows' /\ FollowedRow'
    BY <1>1, <1>3, <1>9, NothingReached DEF FollowedRow
<1>11. NothingExtra'
    <2> SUFFICES ASSUME enveloped' = {}, NEW f \in [Rows -> SUBSET Rows], Filled(f)'
                 PROVE  Within(f)'
        BY DEF NothingExtra
    <2>1. Filled(f) /\ Within(f)
        BY <1>1, <1>2, InputStays DEF IInv, NothingExtra
    <2>2. begin .. begin - 1 = {}
        BY <1>3, EmptyRange
    <2> QED
        BY <1>1, <1>2, <1>4, <1>9, <2>1, <2>2 DEF Within
<1> QED
    BY <1>4, <1>5, <1>6, <1>7, <1>8, <1>10, <1>11 DEF IInv

LEMMA TreeEntryIsFine == IInv /\ TreeEntry => IInv'
<1> SUFFICES ASSUME IInv, TreeEntry PROVE IInv'
    OBVIOUS
<1> USE DEF SymmetricStages
<1> DEFINE c == SetMin(todo)
<1>1. /\ stage = "climb" /\ stage' = "climb" /\ node = NoRow
      /\ todo # {} /\ todo' = todo \ {c} /\ node' = c
      /\ UNCHANGED <<input, factor, kinds, stage, begin, row, reached, tree, block>>
    BY DEF TreeEntry
<1>2. /\ boundaries' = boundaries /\ pattern' = pattern
      /\ symmetric' = symmetric /\ enveloped' = enveloped
      /\ parent' = parent /\ ancestor' = ancestor
      /\ lower' = lower /\ offDiagonal' = offDiagonal
    BY <1>1 DEF input, kinds, tree, block
<1>3. begin \in Nat /\ row \in Rows /\ row \in Nat /\ row \in BlockRows(begin)
      /\ TreeEntries(row) \subseteq begin .. row - 1
    BY <1>1, Here, EntriesAreInTheBlock DEF IInv, Layout
<1>4. /\ FactorClosed' /\ BlockUpper(factor, boundaries)' /\ Layout' /\ MergedRow'
      /\ BlocksAreDone' /\ BlockRows(begin)' = BlockRows(begin)
      /\ \A r : TreeEntries(r)' = TreeEntries(r)
    BY <1>1, <1>2, <1>3, SymmetricKeepsTheRest
<1>5. c \in todo /\ c \in Rows /\ c \in TreeEntries(row)
    <2>1. todo \in SUBSET Nat /\ todo \subseteq Rows
        BY RowsAreNatural DEF IInv, TypeOK
    <2> QED
        BY <1>1, <2>1, SetMinOfRows DEF IInv, ClimbedRow
<1> HIDE DEF c
<1>6. TypeOK'
    BY <1>1, <1>2, <1>5 DEF IInv, TypeOK
<1>7. Forest' /\ Shortcuts' /\ \A n, m : m \in TreePath(n)' <=> m \in TreePath(n)
    <2>1. TreeTop = row /\ TreeTop' = row /\ ~Climbing
        BY <1>1 DEF TreeTop, Climbing
    <2>2. row <= row /\ row \in Int
        BY <1>3
    <2> QED
        BY <1>1, <2>1, <2>2, TreeStays
<1>8. EntriesClimb'
    <2>1. Climbed' = row /\ Climbed = row
        BY <1>1 DEF Climbed
    <2> QED
        BY <1>1, <1>2, <1>4, <1>7, <2>1 DEF IInv, EntriesClimb
<1>9. ClimbedRow'
    <2>1. todo' \subseteq TreeEntries(row)
        BY <1>1 DEF IInv, ClimbedRow
    <2>2. c \in TreePath(c)
        BY <1>5, PathStarts
    <2>3. \A x \in TreeEntries(row) \ todo' : row \in TreePath(x) \/ c \in TreePath(x)
        BY <1>1, <2>2 DEF IInv, ClimbedRow
    <2>4. begin <= c /\ c <= row /\ c # NoRow
        BY <1>3, <1>5, RowsAreNatural
    <2> QED
        BY <1>1, <1>4, <1>5, <1>7, <2>1, <2>2, <2>3, <2>4 DEF ClimbedRow
<1>10. Reached' = begin /\ Propagated' = begin
    BY <1>1 DEF Reached, Propagated
<1>11. LowerRows' /\ OffDiagonalRows' /\ FollowedRow'
    BY <1>1, <1>3, <1>10, NothingReached DEF FollowedRow
<1>12. NothingExtra'
    <2> SUFFICES ASSUME enveloped' = {}, NEW f \in [Rows -> SUBSET Rows], Filled(f)'
                 PROVE  Within(f)'
        BY DEF NothingExtra
    <2>1. Filled(f) /\ Within(f) /\ enveloped = {}
        BY <1>1, <1>2, InputStays DEF IInv, NothingExtra
    <2>2. begin .. begin - 1 = {}
        BY <1>3, EmptyRange
    <2>3. c \in f[row]
        BY <1>3, <1>5, <2>1, EntriesAreWithin DEF IInv
    <2> QED
        BY <1>1, <1>2, <1>4, <1>10, <2>1, <2>2, <2>3 DEF Within
<1> QED
    BY <1>4, <1>6, <1>7, <1>8, <1>9, <1>11, <1>12 DEF IInv

\* Two of the path lemmas, of the state after a step.
LEMMA LaterPaths ==
    /\ \A n, m, p : m \in TreePath(n)' /\ p \in TreePath(m)' => p \in TreePath(n)'
    /\ \A n \in Rows : parent'[n] \in Rows => parent'[n] \in TreePath(n)'
<1>1. ASSUME NEW n, NEW m, NEW p, m \in TreePath(n)', p \in TreePath(m)'
      PROVE  p \in TreePath(n)'
    <2>1. p \in Rows
        BY <1>1 DEF TreePath
    <2>2. PICK s \in SUBSET Rows : n \in s /\ m \in s /\ \A x \in s \ {m} : parent'[x] \in s
        BY <1>1 DEF TreePath
    <2>3. PICK t \in SUBSET Rows : m \in t /\ p \in t /\ \A x \in t \ {p} : parent'[x] \in t
        BY <1>1 DEF TreePath
    <2>4. s \cup t \in SUBSET Rows
        OBVIOUS
    <2>5. \A x \in (s \cup t) \ {p} : parent'[x] \in s \cup t
        BY <2>2, <2>3
    <2> QED
        BY <2>1, <2>2, <2>3, <2>4, <2>5 DEF TreePath
<1>2. ASSUME NEW n \in Rows, parent'[n] \in Rows PROVE parent'[n] \in TreePath(n)'
    <2>1. {n, parent'[n]} \in SUBSET Rows
        BY <1>2
    <2> QED
        BY <1>2, <2>1 DEF TreePath
<1> QED
    BY <1>1, <1>2

\* In a block that is symmetric and not enveloped, any filled pattern mirrors.
LEMMA FilledMirrors ==
    ASSUME IInv, stage \in SymmetricStages, enveloped = {},
           NEW f \in [Rows -> SUBSET Rows], Filled(f),
           NEW r \in BlockRows(begin), NEW c \in BlockRows(begin), c \in f[r]
    PROVE  r \in f[c]
<1>1. IsSymmetric(begin) /\ begin \in Starts
    BY Here DEF IInv, Layout, SymmetricStages
<1> QED
    BY <1>1 DEF Filled

\* A climb takes one step from a node that is below the row: the facts on both cases.
LEMMA ClimbingNode ==
    ASSUME IInv, stage = "climb", node # NoRow
    PROVE  /\ begin \in Nat /\ row \in Rows /\ row \in Nat /\ row \in BlockRows(begin)
           /\ node \in Rows /\ node \in Nat /\ begin <= node /\ node <= row
           /\ node \in BlockRows(begin)
           /\ \A b \in boundaries : b <= row => b <= node
           /\ \A n \in Rows : n < begin => n # node
           /\ \A c \in TreeEntries(row) \ todo : row \in TreePath(c) \/ node \in TreePath(c)
           /\ \E c \in TreeEntries(row) : node \in TreePath(c)
           /\ TreeTop = row
<1>1. /\ begin \in Nat /\ row \in Rows /\ row \in Nat /\ row \in BlockRows(begin)
      /\ row < BlockEnd(begin) /\ BlockEnd(begin) \in Nat
      /\ BlockRows(begin) = begin .. BlockEnd(begin) - 1
      /\ \A c \in boundaries : c \in Nat /\ (c <= begin \/ BlockEnd(begin) <= c)
    BY Here DEF IInv, Layout
<1>2. node \in Rows /\ node \in Nat /\ begin <= node /\ node <= row
    BY RowsAreNatural DEF IInv, TypeOK, ClimbedRow
<1>3. node \in BlockRows(begin)
    BY <1>1, <1>2
<1>4. \A b \in boundaries : b <= row => b <= node
    BY <1>1, <1>2
<1>5. \A n \in Rows : n < begin => n # node
    BY <1>1, <1>2
<1>6. /\ \A c \in TreeEntries(row) \ todo : row \in TreePath(c) \/ node \in TreePath(c)
      /\ \E c \in TreeEntries(row) : node \in TreePath(c)
    BY DEF IInv, ClimbedRow
<1> QED
    BY <1>1, <1>2, <1>3, <1>4, <1>5, <1>6 DEF TreeTop

\* What every step of a climb keeps.
LEMMA ClimbKeepsTheRest ==
    ASSUME IInv, stage = "climb", node # NoRow, ClimbAncestor,
           \A n \in Rows : n # node => parent'[n] = parent[n]
    PROVE  /\ UNCHANGED <<input, factor, kinds, begin, row, todo, reached, block>>
           /\ stage' = "climb" /\ begin' = begin /\ row' = row /\ todo' = todo
           /\ boundaries' = boundaries /\ pattern' = pattern /\ factor' = factor
           /\ symmetric' = symmetric /\ enveloped' = enveloped /\ reached' = reached
           /\ lower' = lower /\ offDiagonal' = offDiagonal
           /\ FactorClosed' /\ BlockUpper(factor, boundaries)' /\ Layout' /\ MergedRow'
           /\ BlocksAreDone' /\ BlockRows(begin)' = BlockRows(begin)
           /\ \A r : TreeEntries(r)' = TreeEntries(r)
           /\ LowerRows' /\ OffDiagonalRows' /\ FollowedRow'
           /\ TreeTop' = row /\ Climbed' = row /\ Climbed = row
           /\ Reached' = begin /\ Propagated' = begin /\ begin .. begin - 1 = {}
<1> USE DEF SymmetricStages
<1>1. /\ UNCHANGED <<input, factor, kinds, stage, begin, row, todo, reached, block>>
      /\ stage' = "climb" /\ begin' = begin /\ row' = row /\ todo' = todo
      /\ boundaries' = boundaries /\ pattern' = pattern /\ factor' = factor
      /\ symmetric' = symmetric /\ enveloped' = enveloped /\ reached' = reached
      /\ lower' = lower /\ offDiagonal' = offDiagonal
    BY DEF ClimbAncestor, input, kinds, block
<1>2. begin \in Nat /\ row \in BlockRows(begin)
      /\ \A n \in Rows : n < begin => parent'[n] = parent[n]
    BY ClimbingNode
<1>3. /\ FactorClosed' /\ BlockUpper(factor, boundaries)' /\ Layout' /\ MergedRow'
      /\ BlocksAreDone' /\ BlockRows(begin)' = BlockRows(begin)
      /\ \A r : TreeEntries(r)' = TreeEntries(r)
    BY <1>1, <1>2, SymmetricKeepsTheRest
<1>4. /\ TreeTop' = row /\ Climbed' = row /\ Climbed = row
      /\ Reached' = begin /\ Propagated' = begin
    BY <1>1 DEF TreeTop, Climbed, Reached, Propagated
<1>5. LowerRows' /\ OffDiagonalRows' /\ FollowedRow'
    BY <1>1, <1>2, <1>4, NothingReached DEF FollowedRow
<1> QED
    BY <1>1, <1>2, <1>3, <1>4, <1>5, EmptyRange

\* The node is the row itself: the climb has joined the row's own path.
LEMMA ClimbEnds ==
    ASSUME IInv, ClimbAncestor, stage = "climb", node # NoRow, ~(node < row)
    PROVE  IInv'
<1>1. node' = NoRow /\ parent' = parent /\ ancestor' = ancestor
    BY DEF ClimbAncestor, tree
<1>2. node = row /\ TreeTop = row
    BY ClimbingNode
<1>3. /\ UNCHANGED <<input, factor, kinds, begin, row, todo, reached, block>>
      /\ stage' = "climb" /\ begin' = begin /\ row' = row /\ todo' = todo
      /\ boundaries' = boundaries /\ pattern' = pattern /\ factor' = factor
      /\ symmetric' = symmetric /\ enveloped' = enveloped /\ reached' = reached
      /\ lower' = lower /\ offDiagonal' = offDiagonal
      /\ FactorClosed' /\ BlockUpper(factor, boundaries)' /\ Layout' /\ MergedRow'
      /\ BlocksAreDone' /\ BlockRows(begin)' = BlockRows(begin)
      /\ \A r : TreeEntries(r)' = TreeEntries(r)
      /\ LowerRows' /\ OffDiagonalRows' /\ FollowedRow'
      /\ TreeTop' = row /\ Climbed' = row /\ Climbed = row
      /\ Reached' = begin /\ Propagated' = begin /\ begin .. begin - 1 = {}
    BY <1>1, ClimbKeepsTheRest
<1>4. TypeOK'
    BY <1>1, <1>3 DEF IInv, TypeOK
<1>5. \A n, m : m \in TreePath(n)' <=> m \in TreePath(n)
    BY <1>1, PathsStay
<1>6. Forest'
    BY <1>1, <1>2, <1>3 DEF IInv, Forest
<1>7. Shortcuts'
    BY <1>1, <1>2, <1>5 DEF IInv, Shortcuts
<1>8. EntriesClimb'
    BY <1>1, <1>3, <1>5 DEF IInv, EntriesClimb, SymmetricStages
<1>9. ClimbedRow'
    BY <1>1, <1>2, <1>3, <1>5 DEF IInv, ClimbedRow
<1>10. NothingExtra'
    <2> SUFFICES ASSUME enveloped' = {}, NEW f \in [Rows -> SUBSET Rows], Filled(f)'
                 PROVE  Within(f)'
        BY DEF NothingExtra
    <2>1. Filled(f) /\ Within(f)
        BY <1>3, InputStays DEF IInv, NothingExtra
    <2> QED
        BY <1>1, <1>3, <2>1 DEF Within, SymmetricStages
<1> QED
    BY <1>3, <1>4, <1>6, <1>7, <1>8, <1>9, <1>10 DEF IInv

\* The node has a shortcut: it is moved to the row, and the climb goes on from where
\* it led.
LEMMA ClimbFollows ==
    ASSUME IInv, ClimbAncestor, stage = "climb", node # NoRow, node < row,
           ancestor[node] # NoRow
    PROVE  IInv'
<1> DEFINE a == ancestor[node]
<1>1. /\ node' = a /\ a # NoRow /\ parent' = parent
      /\ ancestor' = [ancestor EXCEPT ![node] = row]
    BY DEF ClimbAncestor
<1>2. /\ begin \in Nat /\ row \in Rows /\ row \in Nat /\ row \in BlockRows(begin)
      /\ node \in Rows /\ node \in Nat /\ begin <= node /\ node <= row
      /\ node \in BlockRows(begin)
      /\ \A c \in TreeEntries(row) \ todo : row \in TreePath(c) \/ node \in TreePath(c)
      /\ \E c \in TreeEntries(row) : node \in TreePath(c)
      /\ TreeTop = row
    BY ClimbingNode
<1>3. /\ UNCHANGED <<input, factor, kinds, begin, row, todo, reached, block>>
      /\ stage' = "climb" /\ begin' = begin /\ row' = row /\ todo' = todo
      /\ boundaries' = boundaries /\ pattern' = pattern /\ factor' = factor
      /\ symmetric' = symmetric /\ enveloped' = enveloped /\ reached' = reached
      /\ lower' = lower /\ offDiagonal' = offDiagonal
      /\ FactorClosed' /\ BlockUpper(factor, boundaries)' /\ Layout' /\ MergedRow'
      /\ BlocksAreDone' /\ BlockRows(begin)' = BlockRows(begin)
      /\ \A r : TreeEntries(r)' = TreeEntries(r)
      /\ LowerRows' /\ OffDiagonalRows' /\ FollowedRow'
      /\ TreeTop' = row /\ Climbed' = row /\ Climbed = row
      /\ Reached' = begin /\ Propagated' = begin /\ begin .. begin - 1 = {}
    BY <1>1, ClimbKeepsTheRest
<1>4. a \in Rows /\ a \in Nat /\ node < a /\ a <= row /\ parent[node] # NoRow
    <2>1. a \in Rows /\ a \in Nat
        BY <1>1, <1>2, RowsAreNatural DEF IInv, TypeOK
    <2>2. parent[node] # NoRow /\ node < a /\ a <= row
        BY <1>1, <1>2 DEF IInv, Forest
    <2> QED
        BY <2>1, <2>2
<1>5. a \in TreePath(node)
    <2>1. ~(node < node)
        BY <1>2
    <2> QED
        BY <1>1, <1>2, <2>1 DEF IInv, Shortcuts
<1>6. /\ ancestor' \in [Rows -> Rows \cup {NoRow}] /\ ancestor'[node] = row /\ row # NoRow
      /\ \A n \in Rows : n # node => ancestor'[n] = ancestor[n]
    BY <1>1, <1>2, RowsAreNatural DEF IInv, TypeOK
<1> HIDE DEF a
<1>7. \A n, m : m \in TreePath(n)' <=> m \in TreePath(n)
    BY <1>1, PathsStay
<1>8. \A c : node \in TreePath(c) => a \in TreePath(c)
    BY <1>5, PathsJoin
<1>9. TypeOK'
    BY <1>1, <1>3, <1>4, <1>6 DEF IInv, TypeOK
<1>10. Forest'
    <2>1. row <= row
        BY <1>2
    <2> QED
        BY <1>1, <1>2, <1>3, <1>4, <1>6, <2>1 DEF IInv, Forest
<1>11. Shortcuts'
    <2> SUFFICES ASSUME NEW n \in Rows, ancestor'[n] # NoRow
                 PROVE  ancestor'[n] \in TreePath(n) \/
                        (ancestor'[n] = row /\ n < a /\ a \in TreePath(n))
        BY <1>1, <1>3, <1>7 DEF Shortcuts, Climbing
    <2>1. CASE n = node
        BY <1>4, <1>5, <1>6, <2>1
    <2>2. CASE n # node
        <3>1. ancestor'[n] = ancestor[n]
            BY <1>6, <2>2
        <3>2. ancestor[n] \in TreePath(n) \/
              (ancestor[n] = row /\ n < node /\ node \in TreePath(n))
            BY <3>1 DEF IInv, Shortcuts
        <3>3. n < node => n < a
            BY <1>2, <1>4, RowsAreNatural
        <3> QED
            BY <1>8, <3>1, <3>2, <3>3
    <2> QED
        BY <2>1, <2>2
<1>12. EntriesClimb'
    BY <1>1, <1>3, <1>7 DEF IInv, EntriesClimb, SymmetricStages
<1>13. ClimbedRow'
    <2>1. begin <= a
        BY <1>2, <1>4
    <2> QED
        BY <1>1, <1>2, <1>3, <1>4, <1>7, <1>8, <2>1 DEF IInv, ClimbedRow
<1>14. NothingExtra'
    <2> SUFFICES ASSUME enveloped' = {}, NEW f \in [Rows -> SUBSET Rows], Filled(f)'
                 PROVE  Within(f)'
        BY DEF NothingExtra
    <2>1. Filled(f) /\ Within(f) /\ enveloped = {}
        BY <1>3, InputStays DEF IInv, NothingExtra
    <2>2. node \in f[row] /\ a \in f[node]
        BY <1>2, <1>4, <2>1 DEF Within, SymmetricStages, a
    <2>3. row \in f[node]
        BY <1>2, <2>1, <2>2, FilledMirrors DEF SymmetricStages
    <2>4. a \in f[row]
        BY <1>2, <1>4, <2>1, <2>2 DEF Filled
    <2>5. \A n \in BlockRows(begin) :
              parent[n] # NoRow => parent[n] \in f[n] /\ ancestor'[n] \in f[n]
        <3>1. \A n \in BlockRows(begin) :
              parent[n] # NoRow => parent[n] \in f[n] /\ ancestor[n] \in f[n]
            BY <2>1 DEF Within, SymmetricStages
        <3>2. BlockRows(begin) \subseteq Rows
            BY Here DEF IInv
        <3> QED
            BY <1>6, <2>3, <3>1, <3>2
    <2> QED
        BY <1>1, <1>3, <2>1, <2>4, <2>5 DEF Within, SymmetricStages
<1> QED
    BY <1>3, <1>9, <1>10, <1>11, <1>12, <1>13, <1>14 DEF IInv

\* The node is a root: it becomes a child of the row.
LEMMA ClimbHangs ==
    ASSUME IInv, ClimbAncestor, stage = "climb", node # NoRow, node < row,
           ancestor[node] = NoRow
    PROVE  IInv'
<1>1. /\ node' = NoRow /\ parent' = [parent EXCEPT ![node] = row]
      /\ ancestor' = [ancestor EXCEPT ![node] = row]
    BY DEF ClimbAncestor
<1>2. /\ begin \in Nat /\ row \in Rows /\ row \in Nat /\ row \in BlockRows(begin)
      /\ node \in Rows /\ node \in Nat /\ begin <= node /\ node <= row
      /\ node \in BlockRows(begin)
      /\ \A b \in boundaries : b <= row => b <= node
      /\ \A c \in TreeEntries(row) \ todo : row \in TreePath(c) \/ node \in TreePath(c)
      /\ \E c \in TreeEntries(row) : node \in TreePath(c)
      /\ TreeTop = row
    BY ClimbingNode
<1>3. /\ ancestor' \in [Rows -> Rows \cup {NoRow}] /\ ancestor'[node] = row /\ row # NoRow
      /\ parent' \in [Rows -> Rows \cup {NoRow}] /\ parent'[node] = row
      /\ \A n \in Rows : n # node => ancestor'[n] = ancestor[n] /\ parent'[n] = parent[n]
      /\ parent[node] = NoRow
    BY <1>1, <1>2, RowsAreNatural DEF IInv, TypeOK, Forest
<1>4. /\ UNCHANGED <<input, factor, kinds, begin, row, todo, reached, block>>
      /\ stage' = "climb" /\ begin' = begin /\ row' = row /\ todo' = todo
      /\ boundaries' = boundaries /\ pattern' = pattern /\ factor' = factor
      /\ symmetric' = symmetric /\ enveloped' = enveloped /\ reached' = reached
      /\ lower' = lower /\ offDiagonal' = offDiagonal
      /\ FactorClosed' /\ BlockUpper(factor, boundaries)' /\ Layout' /\ MergedRow'
      /\ BlocksAreDone' /\ BlockRows(begin)' = BlockRows(begin)
      /\ \A r : TreeEntries(r)' = TreeEntries(r)
      /\ LowerRows' /\ OffDiagonalRows' /\ FollowedRow'
      /\ TreeTop' = row /\ Climbed' = row /\ Climbed = row
      /\ Reached' = begin /\ Propagated' = begin /\ begin .. begin - 1 = {}
    BY <1>3, ClimbKeepsTheRest
<1>5. \A n, m : m \in TreePath(n) => m \in TreePath(n)'
    BY <1>2, <1>3, PathsGrow
<1> PICK v \in Rows : v = node
    BY <1>2
<1>6. row \in TreePath(v)'
    <2>1. parent'[v] = row /\ row \in Rows
        BY <1>2, <1>3
    <2> QED
        BY <2>1, LaterPaths
<1>7. \A c : node \in TreePath(c) => row \in TreePath(c)'
    <2>1. \A c : v \in TreePath(c) => v \in TreePath(c)'
        BY <1>5
    <2> QED
        BY <1>6, <2>1, LaterPaths
<1>8. TypeOK'
    BY <1>1, <1>3, <1>4 DEF IInv, TypeOK
<1>9. Forest'
    <2>1. row <= row
        BY <1>2
    <2>2. ASSUME NEW n \in Rows
          PROVE  /\ ancestor'[n] = NoRow <=> parent'[n] = NoRow
                 /\ parent'[n] # NoRow =>
                        /\ n < parent'[n] /\ parent'[n] <= row
                        /\ n < ancestor'[n] /\ ancestor'[n] <= row
                        /\ \A b \in boundaries : b <= parent'[n] => b <= n
        <3>1. CASE n = node
            BY <1>2, <1>3, <2>1, <3>1
        <3>2. CASE n # node
            BY <1>2, <1>3, <3>2 DEF IInv, Forest
        <3> QED
            BY <3>1, <3>2
    <2> QED
        BY <1>4, <2>2 DEF Forest
<1>10. Shortcuts'
    <2> SUFFICES ASSUME NEW n \in Rows, ancestor'[n] # NoRow
                 PROVE  ancestor'[n] \in TreePath(n)'
        BY DEF Shortcuts
    <2>1. CASE n = v
        BY <1>3, <1>6, <2>1
    <2>2. CASE n # v
        <3>1. ancestor'[n] = ancestor[n]
            BY <1>3, <2>2
        <3>2. ancestor[n] \in TreePath(n) \/ (ancestor[n] = row /\ node \in TreePath(n))
            BY <3>1 DEF IInv, Shortcuts
        <3> QED
            BY <1>5, <1>7, <3>1, <3>2
    <2> QED
        BY <2>1, <2>2
<1>11. EntriesClimb'
    <2>1. \A r \in begin .. row - 1 : \A c \in TreeEntries(r) : r \in TreePath(c)'
        BY <1>4, <1>5 DEF IInv, EntriesClimb, SymmetricStages
    <2>2. ASSUME NEW n \in Rows, begin <= n, parent'[n] # NoRow
          PROVE  \E c \in TreeEntries(parent'[n]) : n \in TreePath(c)'
        <3>1. CASE n = node
            BY <1>2, <1>3, <1>5, <3>1
        <3>2. CASE n # node
            <4>1. parent'[n] = parent[n]
                BY <1>3, <3>2
            <4>2. \E c \in TreeEntries(parent[n]) : n \in TreePath(c)
                BY <2>2, <4>1 DEF IInv, EntriesClimb, SymmetricStages
            <4> QED
                BY <1>5, <4>1, <4>2
        <3> QED
            BY <3>1, <3>2
    <2> QED
        BY <1>4, <2>1, <2>2 DEF EntriesClimb
<1>12. ClimbedRow'
    <2>1. \A c \in TreeEntries(row) \ todo : row \in TreePath(c)'
        BY <1>2, <1>5, <1>7
    <2> QED
        BY <1>1, <1>4, <2>1 DEF IInv, ClimbedRow
<1>13. NothingExtra'
    <2> SUFFICES ASSUME enveloped' = {}, NEW f \in [Rows -> SUBSET Rows], Filled(f)'
                 PROVE  Within(f)'
        BY DEF NothingExtra
    <2>1. Filled(f) /\ Within(f) /\ enveloped = {}
        BY <1>4, InputStays DEF IInv, NothingExtra
    <2>2. node \in f[row]
        BY <2>1 DEF Within
    <2>3. row \in f[node]
        BY <1>2, <2>1, <2>2, FilledMirrors DEF SymmetricStages
    <2>4. \A n \in BlockRows(begin) :
              parent'[n] # NoRow => parent'[n] \in f[n] /\ ancestor'[n] \in f[n]
        <3>1. \A n \in BlockRows(begin) :
              parent[n] # NoRow => parent[n] \in f[n] /\ ancestor[n] \in f[n]
            BY <2>1 DEF Within, SymmetricStages
        <3>2. BlockRows(begin) \subseteq Rows
            BY Here DEF IInv
        <3> QED
            BY <1>3, <2>3, <3>1, <3>2
    <2> QED
        BY <1>1, <1>4, <2>1, <2>4 DEF Within, SymmetricStages
<1> QED
    BY <1>4, <1>8, <1>9, <1>10, <1>11, <1>12, <1>13 DEF IInv

LEMMA ClimbAncestorIsFine == IInv /\ ClimbAncestor => IInv'
<1> SUFFICES ASSUME IInv, ClimbAncestor PROVE IInv'
    OBVIOUS
<1>1. stage = "climb" /\ node # NoRow
    BY DEF ClimbAncestor
<1> QED
    BY <1>1, ClimbEnds, ClimbFollows, ClimbHangs

LEMMA NextTreeRowIsFine == IInv /\ NextTreeRow => IInv'
<1> SUFFICES ASSUME IInv, NextTreeRow PROVE IInv'
    OBVIOUS
<1> USE DEF SymmetricStages
<1>1. /\ stage = "climb" /\ node = NoRow /\ todo = {}
      /\ UNCHANGED <<input, factor, kinds, begin, todo, node, reached, tree, block>>
    BY DEF NextTreeRow
<1>2. /\ boundaries' = boundaries /\ pattern' = pattern
      /\ symmetric' = symmetric /\ enveloped' = enveloped
      /\ parent' = parent /\ ancestor' = ancestor
      /\ lower' = lower /\ offDiagonal' = offDiagonal
    BY <1>1 DEF input, kinds, tree, block
<1>3. /\ begin \in Nat /\ row \in Rows /\ row \in Nat /\ begin <= row
      /\ row < BlockEnd(begin) /\ BlockEnd(begin) \in Nat /\ BlockEnd(begin) <= Dimension
      /\ BlockRows(begin) = begin .. BlockEnd(begin) - 1
      /\ BlockRows(begin) \subseteq Rows
    BY <1>1, Here DEF IInv
<1>4. \/ row' = begin /\ stage' = "reach" /\ BlockEnd(begin) = row + 1
      \/ row' = row + 1 /\ stage' = "tree" /\ row + 1 < BlockEnd(begin)
    BY <1>3 DEF NextTreeRow, EndOfRow
<1>5. row' \in BlockRows(begin) /\ row' \in 0 .. Dimension
    <2>1. begin \in BlockRows(begin) /\ begin \in 0 .. Dimension
        BY <1>3, RowsAreNatural
    <2>2. row + 1 < BlockEnd(begin) => row + 1 \in BlockRows(begin) /\ row + 1 \in 0 .. Dimension
        BY <1>3, RowsAreNatural
    <2> QED
        BY <1>4, <2>1, <2>2
<1>6. /\ FactorClosed' /\ BlockUpper(factor, boundaries)' /\ Layout' /\ MergedRow'
      /\ BlocksAreDone' /\ BlockRows(begin)' = BlockRows(begin)
      /\ BlockEnd(begin)' = BlockEnd(begin)
      /\ \A r : TreeEntries(r)' = TreeEntries(r)
    BY <1>1, <1>2, <1>4, <1>5, SymmetricKeepsTheRest
<1>7. TypeOK'
    BY <1>1, <1>2, <1>4, <1>5 DEF IInv, TypeOK
<1>8. Forest' /\ Shortcuts' /\ \A n, m : m \in TreePath(n)' <=> m \in TreePath(n)
    <2>1. TreeTop = row /\ ~Climbing
        BY <1>1 DEF TreeTop, Climbing
    <2>2. TreeTop' = row \/ TreeTop' = row + 1
        <3>1. BlockEnd(begin) = row + 1 => BlockEnd(begin) - 1 = row
            BY <1>3
        <3> QED
            BY <1>4, <1>6, <3>1 DEF TreeTop
    <2>3. row \in Int /\ row + 1 \in Int /\ row <= row /\ row <= row + 1
        BY <1>3
    <2> QED
        BY <1>1, <2>1, <2>2, <2>3, TreeStays
<1>9. EntriesClimb'
    <2>1. Climbed' = row + 1 /\ Climbed = row
        BY <1>1, <1>4, <1>6 DEF Climbed
    <2>2. \A c \in TreeEntries(row) : row \in TreePath(c)
        BY <1>1 DEF IInv, ClimbedRow
    <2>3. \A r \in begin .. row - 1 : \A c \in TreeEntries(r) : r \in TreePath(c)
        BY <1>1, <2>1 DEF IInv, EntriesClimb
    <2>4. PICK next \in Nat : next = row + 1
        BY <1>3
    <2>5. \A r \in begin .. next - 1 : \A c \in TreeEntries(r) : r \in TreePath(c)
        <3>1. \A r \in begin .. next - 1 : r = row \/ r \in begin .. row - 1
            BY <1>3, <2>4
        <3> QED
            BY <2>2, <2>3, <3>1
    <2>6. \A n \in Rows : begin <= n /\ parent[n] # NoRow =>
              \E c \in TreeEntries(parent[n]) : n \in TreePath(c)
        BY <1>1 DEF IInv, EntriesClimb
    <2>7. Climbed' = next
        BY <2>1, <2>4
    <2> QED
        BY <1>1, <1>2, <1>6, <1>8, <2>5, <2>6, <2>7 DEF EntriesClimb
<1>10. Reached' = begin /\ Propagated' = begin
    BY <1>1, <1>4 DEF Reached, Propagated
<1>11. LowerRows' /\ OffDiagonalRows' /\ FollowedRow' /\ ClimbedRow'
    BY <1>1, <1>3, <1>4, <1>10, NothingReached DEF FollowedRow, ClimbedRow
<1>12. NothingExtra'
    <2> SUFFICES ASSUME enveloped' = {}, NEW f \in [Rows -> SUBSET Rows], Filled(f)'
                 PROVE  Within(f)'
        BY DEF NothingExtra
    <2>1. Filled(f) /\ Within(f)
        BY <1>1, <1>2, InputStays DEF IInv, NothingExtra
    <2>2. begin .. begin - 1 = {}
        BY <1>3, EmptyRange
    <2> QED
        BY <1>1, <1>2, <1>4, <1>6, <1>10, <2>1, <2>2 DEF Within
<1> QED
    BY <1>6, <1>7, <1>8, <1>9, <1>11, <1>12 DEF IInv

-----------------------------------------------------------------------------
\* Once the tree is built, the later phases of a block leave it alone.
LEMMA BuiltTreeStays ==
    ASSUME IInv, stage \in {"reach", "follow", "propagate", "assemble"},
           stage' \in {"reach", "follow", "propagate", "assemble"},
           UNCHANGED <<input, factor, kinds, begin, tree>>,
           row' \in BlockRows(begin), stage' # "follow" => node' = NoRow
    PROVE  /\ boundaries' = boundaries /\ pattern' = pattern /\ begin' = begin
           /\ symmetric' = symmetric /\ enveloped' = enveloped /\ factor' = factor
           /\ parent' = parent /\ ancestor' = ancestor
           /\ FactorClosed' /\ BlockUpper(factor, boundaries)' /\ Layout' /\ MergedRow'
           /\ Forest' /\ Shortcuts' /\ EntriesClimb' /\ ClimbedRow' /\ BlocksAreDone'
           /\ BlockEnd(begin)' = BlockEnd(begin) /\ BlockRows(begin)' = BlockRows(begin)
           /\ \A r : TreeEntries(r)' = TreeEntries(r)
           /\ \A n, m : m \in TreePath(n)' <=> m \in TreePath(n)
           /\ row' \in Rows
<1> USE DEF SymmetricStages
<1>1. /\ boundaries' = boundaries /\ pattern' = pattern /\ begin' = begin
      /\ symmetric' = symmetric /\ enveloped' = enveloped /\ factor' = factor
      /\ parent' = parent /\ ancestor' = ancestor
    BY DEF input, kinds, tree
<1>2. BlockEnd(begin) \in Nat /\ BlockRows(begin) \subseteq Rows
    BY Here DEF IInv
<1>3. /\ FactorClosed' /\ BlockUpper(factor, boundaries)' /\ Layout' /\ MergedRow'
      /\ BlocksAreDone'
      /\ BlockEnd(begin)' = BlockEnd(begin) /\ BlockRows(begin)' = BlockRows(begin)
      /\ \A r : TreeEntries(r)' = TreeEntries(r)
    BY <1>1, SymmetricKeepsTheRest
<1>4. Forest' /\ Shortcuts' /\ \A n, m : m \in TreePath(n)' <=> m \in TreePath(n)
    <2>1. /\ TreeTop = BlockEnd(begin) - 1 /\ TreeTop' = BlockEnd(begin) - 1
          /\ ~Climbing
        BY <1>3 DEF TreeTop, Climbing
    <2>2. BlockEnd(begin) - 1 \in Int /\ BlockEnd(begin) - 1 <= BlockEnd(begin) - 1
        BY <1>2
    <2> QED
        BY <2>1, <2>2, TreeStays
<1>5. EntriesClimb'
    <2>1. Climbed = BlockEnd(begin) /\ Climbed' = BlockEnd(begin)
        BY <1>3 DEF Climbed
    <2> QED
        BY <1>1, <1>3, <1>4, <2>1 DEF IInv, EntriesClimb
<1>6. ClimbedRow'
    BY DEF ClimbedRow
<1> QED
    BY <1>1, <1>2, <1>3, <1>4, <1>5, <1>6

\* While rows are being reached none has its columns right of the block yet.
LEMMA LowerRowsStay ==
    ASSUME IInv, stage \in {"reach", "follow"}, stage' \in {"reach", "follow"},
           UNCHANGED <<begin, parent, block, row>>,
           \A r : TreeEntries(r)' = TreeEntries(r)
    PROVE  /\ LowerRows' /\ OffDiagonalRows'
           /\ Reached = row /\ Reached' = row /\ Propagated = begin /\ Propagated' = begin
<1>1. Reached = row /\ Reached' = row /\ Propagated = begin /\ Propagated' = begin
    BY DEF Reached, Propagated
<1>2. begin .. begin - 1 = {}
    BY Here, EmptyRange DEF IInv
<1> QED
    BY <1>1, <1>2 DEF IInv, LowerRows, ReachIsDone, OffDiagonalRows, block

LEMMA ReachRowIsFine == IInv /\ ReachRow => IInv'
<1> SUFFICES ASSUME IInv, ReachRow PROVE IInv'
    OBVIOUS
<1>1. /\ stage = "reach" /\ stage' = "follow" /\ todo' = TreeEntries(row) /\ reached' = {}
      /\ node = NoRow
      /\ UNCHANGED <<input, factor, kinds, begin, row, node, tree, block>>
    BY DEF ReachRow, IInv, Layout
<1>2. lower' = lower /\ offDiagonal' = offDiagonal
    BY <1>1 DEF block
<1>3. begin \in Nat /\ row \in Rows /\ row \in Nat /\ row \in BlockRows(begin)
      /\ TreeEntries(row) \subseteq Rows
    BY <1>1, Here, EntriesAreInTheBlock DEF IInv, Layout
<1>4. /\ boundaries' = boundaries /\ pattern' = pattern /\ begin' = begin
      /\ symmetric' = symmetric /\ enveloped' = enveloped /\ factor' = factor
      /\ parent' = parent /\ ancestor' = ancestor
      /\ FactorClosed' /\ BlockUpper(factor, boundaries)' /\ Layout' /\ MergedRow'
      /\ Forest' /\ Shortcuts' /\ EntriesClimb' /\ ClimbedRow' /\ BlocksAreDone'
      /\ BlockEnd(begin)' = BlockEnd(begin) /\ BlockRows(begin)' = BlockRows(begin)
      /\ \A r : TreeEntries(r)' = TreeEntries(r)
    BY <1>1, <1>3, BuiltTreeStays
<1>5. TypeOK'
    BY <1>1, <1>2, <1>3, <1>4 DEF IInv, TypeOK
<1>6. /\ LowerRows' /\ OffDiagonalRows'
      /\ Reached = row /\ Reached' = row /\ Propagated = begin /\ Propagated' = begin
    BY <1>1, <1>4, LowerRowsStay
<1>7. FollowedRow'
    BY <1>1, <1>4 DEF FollowedRow
<1>8. NothingExtra'
    <2> SUFFICES ASSUME enveloped' = {}, NEW f \in [Rows -> SUBSET Rows], Filled(f)'
                 PROVE  Within(f)'
        BY DEF NothingExtra
    <2>1. Filled(f) /\ Within(f)
        BY <1>1, <1>4, InputStays DEF IInv, NothingExtra
    <2> QED
        BY <1>1, <1>2, <1>4, <1>6, <2>1 DEF Within, SymmetricStages
<1> QED
    BY <1>4, <1>5, <1>6, <1>7, <1>8 DEF IInv

LEMMA ReachEntryIsFine == IInv /\ ReachEntry => IInv'
<1> SUFFICES ASSUME IInv, ReachEntry PROVE IInv'
    OBVIOUS
<1> DEFINE c == SetMin(todo)
<1>1. /\ stage = "follow" /\ stage' = "follow" /\ node = NoRow
      /\ todo # {} /\ todo' = todo \ {c} /\ node' = c
      /\ row' = row /\ reached' = reached
      /\ UNCHANGED <<input, factor, kinds, stage, begin, row, reached, tree, block>>
    BY DEF ReachEntry
<1>2. lower' = lower /\ offDiagonal' = offDiagonal
    BY <1>1 DEF block
<1>3. begin \in Nat /\ row \in Rows /\ row \in Nat /\ row \in BlockRows(begin)
      /\ begin <= row /\ row < BlockEnd(begin) /\ BlockEnd(begin) \in Nat
      /\ TreeEntries(row) \subseteq begin .. row - 1 /\ TreeEntries(row) \subseteq Rows
    BY <1>1, Here, EntriesAreInTheBlock DEF IInv, Layout
<1>4. /\ boundaries' = boundaries /\ pattern' = pattern /\ begin' = begin
      /\ symmetric' = symmetric /\ enveloped' = enveloped /\ factor' = factor
      /\ parent' = parent /\ ancestor' = ancestor
      /\ FactorClosed' /\ BlockUpper(factor, boundaries)' /\ Layout' /\ MergedRow'
      /\ Forest' /\ Shortcuts' /\ EntriesClimb' /\ ClimbedRow' /\ BlocksAreDone'
      /\ BlockEnd(begin)' = BlockEnd(begin) /\ BlockRows(begin)' = BlockRows(begin)
      /\ \A r : TreeEntries(r)' = TreeEntries(r)
      /\ \A n, m : m \in TreePath(n)' <=> m \in TreePath(n)
    BY <1>1, <1>3, BuiltTreeStays
<1>5. c \in todo /\ c \in Rows /\ c \in TreeEntries(row)
    <2>1. todo \in SUBSET Nat /\ todo \subseteq Rows
        BY RowsAreNatural DEF IInv, TypeOK
    <2> QED
        BY <1>1, <2>1, SetMinOfRows DEF IInv, FollowedRow
<1> HIDE DEF c
<1>6. TypeOK'
    BY <1>1, <1>2, <1>4, <1>5 DEF IInv, TypeOK
<1>7. /\ LowerRows' /\ OffDiagonalRows'
      /\ Reached = row /\ Reached' = row /\ Propagated = begin /\ Propagated' = begin
    BY <1>1, <1>4, LowerRowsStay
<1>8. row \in TreePath(c)
    <2>1. Climbed = BlockEnd(begin)
        BY <1>1 DEF Climbed
    <2>2. row \in begin .. BlockEnd(begin) - 1
        BY <1>3
    <2> QED
        BY <1>1, <1>5, <2>1, <2>2 DEF IInv, EntriesClimb, SymmetricStages
<1>9. FollowedRow'
    <2>1. begin <= c /\ c <= row
        BY <1>3, <1>5
    <2>2. \A x \in TreeEntries(row) \ todo' : x \in reached \/ x = c
        BY <1>1, <1>3, RowsAreNatural DEF IInv, FollowedRow
    <2>3. \A n \in reached : parent[n] # NoRow /\ (parent[n] = row \/ parent[n] \in reached)
        BY <1>1 DEF IInv, FollowedRow
    <2> QED
        BY <1>1, <1>4, <1>8, <2>1, <2>2, <2>3 DEF IInv, FollowedRow
<1>10. NothingExtra'
    <2> SUFFICES ASSUME enveloped' = {}, NEW f \in [Rows -> SUBSET Rows], Filled(f)'
                 PROVE  Within(f)'
        BY DEF NothingExtra
    <2>1. Filled(f) /\ Within(f) /\ enveloped = {}
        BY <1>1, <1>4, InputStays DEF IInv, NothingExtra
    <2>2. c \in f[row]
        BY <1>3, <1>5, <2>1, EntriesAreWithin DEF IInv
    <2> QED
        BY <1>1, <1>2, <1>4, <1>7, <2>1, <2>2 DEF Within, SymmetricStages
<1> QED
    BY <1>4, <1>6, <1>7, <1>9, <1>10 DEF IInv

LEMMA FollowParentIsFine == IInv /\ FollowParent => IInv'
<1> SUFFICES ASSUME IInv, FollowParent PROVE IInv'
    OBVIOUS
<1>1. /\ stage = "follow" /\ stage' = "follow" /\ node # NoRow
      /\ row' = row /\ todo' = todo
      /\ UNCHANGED <<input, factor, kinds, stage, begin, row, todo, tree, block>>
    BY DEF FollowParent
<1>2. lower' = lower /\ offDiagonal' = offDiagonal
    BY <1>1 DEF block
<1>3. begin \in Nat /\ row \in Rows /\ row \in Nat /\ row \in BlockRows(begin)
      /\ begin <= row /\ row < BlockEnd(begin) /\ BlockEnd(begin) \in Nat
      /\ BlockRows(begin) = begin .. BlockEnd(begin) - 1
      /\ TreeEntries(row) \subseteq begin .. row - 1 /\ TreeEntries(row) \subseteq Rows
    BY <1>1, Here, EntriesAreInTheBlock DEF IInv, Layout
<1>4. /\ boundaries' = boundaries /\ pattern' = pattern /\ begin' = begin
      /\ symmetric' = symmetric /\ enveloped' = enveloped /\ factor' = factor
      /\ parent' = parent /\ ancestor' = ancestor
      /\ FactorClosed' /\ BlockUpper(factor, boundaries)' /\ Layout' /\ MergedRow'
      /\ Forest' /\ Shortcuts' /\ EntriesClimb' /\ ClimbedRow' /\ BlocksAreDone'
      /\ BlockEnd(begin)' = BlockEnd(begin) /\ BlockRows(begin)' = BlockRows(begin)
      /\ \A r : TreeEntries(r)' = TreeEntries(r)
      /\ \A n, m : m \in TreePath(n)' <=> m \in TreePath(n)
    BY <1>1, <1>3, BuiltTreeStays
<1>5. /\ LowerRows' /\ OffDiagonalRows'
      /\ Reached = row /\ Reached' = row /\ Propagated = begin /\ Propagated' = begin
    BY <1>1, <1>4, LowerRowsStay
<1>6. node \in Rows /\ node \in Nat /\ begin <= node /\ node <= row /\ row \in TreePath(node)
    BY <1>1, RowsAreNatural DEF IInv, TypeOK, FollowedRow
<1>7. CASE node < row /\ node \notin reached
    <2>1. reached' = reached \cup {node} /\ node' = parent[node]
        BY <1>7 DEF FollowParent
    <2>2. parent[node] \in Rows /\ parent[node] <= row /\ row \in TreePath(parent[node])
          /\ node < parent[node] /\ parent[node] # NoRow /\ parent[node] \in Nat
        <3>1. Rising /\ node # row
            BY <1>3, <1>6, <1>7, ForestRises DEF IInv
        <3>2. parent[node] \in Rows /\ parent[node] <= row /\ row \in TreePath(parent[node])
            BY <1>6, <3>1, PathRises
        <3> QED
            BY <1>6, <3>1, <3>2, RowsAreNatural DEF Rising
    <2>3. TypeOK'
        BY <1>1, <1>2, <1>4, <1>6, <2>1, <2>2 DEF IInv, TypeOK
    <2>4. FollowedRow'
        <3>1. reached' \subseteq begin .. row - 1
            <4>1. node \in begin .. row - 1
                BY <1>3, <1>6, <1>7
            <4> QED
                BY <1>1, <2>1, <4>1 DEF IInv, FollowedRow
        <3>2. \A n \in reached' :
                  /\ parent[n] # NoRow
                  /\ parent[n] = row \/ parent[n] \in reached' \/ parent[n] = node'
            BY <1>1, <2>1, <2>2 DEF IInv, FollowedRow
        <3>3. \A c \in TreeEntries(row) \ todo : c \in reached'
            BY <1>1, <2>1 DEF IInv, FollowedRow
        <3>4. begin <= parent[node]
            BY <1>3, <1>6, <2>2
        <3> QED
            BY <1>1, <1>4, <2>1, <2>2, <3>1, <3>2, <3>3, <3>4 DEF IInv, FollowedRow
    <2>5. NothingExtra'
        <3> SUFFICES ASSUME enveloped' = {}, NEW f \in [Rows -> SUBSET Rows], Filled(f)'
                     PROVE  Within(f)'
            BY DEF NothingExtra
        <3>1. Filled(f) /\ Within(f) /\ enveloped = {}
            BY <1>1, <1>4, InputStays DEF IInv, NothingExtra
        <3>2. node \in f[row] /\ reached \subseteq f[row]
            BY <1>1, <3>1 DEF Within
        <3>3. node \in BlockRows(begin)
            BY <1>3, <1>6
        <3>4. parent[node] \in f[node]
            BY <1>1, <2>2, <3>1, <3>3 DEF Within, SymmetricStages
        <3>5. parent[node] \in f[row]
            BY <1>3, <1>6, <1>7, <2>2, <3>1, <3>2, <3>4 DEF Filled
        <3> QED
            BY <1>1, <1>2, <1>4, <1>5, <2>1, <3>1, <3>2, <3>5 DEF Within, SymmetricStages
    <2> QED
        BY <1>4, <1>5, <2>3, <2>4, <2>5 DEF IInv
<1>8. CASE ~(node < row /\ node \notin reached)
    <2>1. reached' = reached /\ node' = NoRow
        BY <1>8 DEF FollowParent
    <2>2. node = row \/ node \in reached
        BY <1>3, <1>6, <1>8
    <2>3. TypeOK'
        BY <1>1, <1>2, <1>4, <2>1 DEF IInv, TypeOK
    <2>4. FollowedRow'
        <3>1. \A n \in reached : parent[n] # NoRow /\ (parent[n] = row \/ parent[n] \in reached)
            BY <1>1, <2>2 DEF IInv, FollowedRow
        <3>2. \A c \in TreeEntries(row) \ todo : c \in reached
            <4>1. row \notin TreeEntries(row)
                BY <1>3 DEF TreeEntries
            <4> QED
                BY <1>1, <2>2, <4>1 DEF IInv, FollowedRow
        <3> QED
            BY <1>1, <1>4, <2>1, <3>1, <3>2 DEF IInv, FollowedRow
    <2>5. NothingExtra'
        <3> SUFFICES ASSUME enveloped' = {}, NEW f \in [Rows -> SUBSET Rows], Filled(f)'
                     PROVE  Within(f)'
            BY DEF NothingExtra
        <3>1. Filled(f) /\ Within(f)
            BY <1>1, <1>4, InputStays DEF IInv, NothingExtra
        <3> QED
            BY <1>1, <1>2, <1>4, <1>5, <2>1, <3>1 DEF Within, SymmetricStages
    <2> QED
        BY <1>4, <1>5, <2>3, <2>4, <2>5 DEF IInv
<1> QED
    BY <1>7, <1>8

LEMMA NextReachRowIsFine == IInv /\ NextReachRow => IInv'
<1> SUFFICES ASSUME IInv, NextReachRow PROVE IInv'
    OBVIOUS
<1>1. /\ stage = "follow" /\ node = NoRow /\ todo = {}
      /\ lower' = [lower EXCEPT ![row] = reached]
      /\ offDiagonal' = offDiagonal /\ node' = node /\ todo' = todo /\ reached' = reached
      /\ UNCHANGED <<input, factor, kinds, begin, todo, node, reached, tree, offDiagonal>>
    BY DEF NextReachRow
<1>2. /\ begin \in Nat /\ row \in Rows /\ row \in Nat /\ row \in BlockRows(begin)
      /\ begin <= row /\ row < BlockEnd(begin) /\ BlockEnd(begin) \in Nat
      /\ BlockRows(begin) = begin .. BlockEnd(begin) - 1 /\ BlockRows(begin) \subseteq Rows
      /\ TreeEntries(row) \subseteq Rows
    BY <1>1, Here, EntriesAreInTheBlock DEF IInv, Layout
<1>3. \/ row' = begin /\ stage' = "propagate" /\ BlockEnd(begin) = row + 1
      \/ row' = row + 1 /\ stage' = "reach" /\ row + 1 < BlockEnd(begin)
    BY <1>2 DEF NextReachRow, EndOfRow
<1>4. row' \in BlockRows(begin) /\ row' \in 0 .. Dimension
    <2>1. begin \in BlockRows(begin)
        BY <1>2
    <2>2. row + 1 < BlockEnd(begin) => row + 1 \in BlockRows(begin)
        BY <1>2
    <2>3. \A r \in BlockRows(begin) : r \in 0 .. Dimension
        BY <1>2, RowsAreNatural
    <2> QED
        BY <1>3, <2>1, <2>2, <2>3
<1>5. /\ boundaries' = boundaries /\ pattern' = pattern /\ begin' = begin
      /\ symmetric' = symmetric /\ enveloped' = enveloped /\ factor' = factor
      /\ parent' = parent /\ ancestor' = ancestor
      /\ FactorClosed' /\ BlockUpper(factor, boundaries)' /\ Layout' /\ MergedRow'
      /\ Forest' /\ Shortcuts' /\ EntriesClimb' /\ ClimbedRow' /\ BlocksAreDone'
      /\ BlockEnd(begin)' = BlockEnd(begin) /\ BlockRows(begin)' = BlockRows(begin)
      /\ \A r : TreeEntries(r)' = TreeEntries(r)
    BY <1>1, <1>3, <1>4, BuiltTreeStays
<1>6. /\ lower' \in [Rows -> SUBSET Rows] /\ lower'[row] = reached
      /\ \A r \in Rows : r # row => lower'[r] = lower[r]
    BY <1>1, <1>2 DEF IInv, TypeOK
<1>7. TypeOK'
    BY <1>1, <1>3, <1>4, <1>5, <1>6 DEF IInv, TypeOK
<1>8. PICK next \in Nat : next = row + 1
    BY <1>2
<1>9. Reached = row /\ Propagated' = begin /\ Reached' = next
    BY <1>1, <1>3, <1>5, <1>8 DEF Reached, Propagated
<1>10. \A r \in begin .. next - 1 : r = row \/ (r \in begin .. row - 1 /\ r # row /\ r \in Rows)
    BY <1>2, <1>8
<1>11. LowerRows'
    <2>1. reached \subseteq begin .. row - 1
        BY <1>1 DEF IInv, FollowedRow
    <2>2. TreeEntries(row) \subseteq reached
        BY <1>1, <1>2, RowsAreNatural DEF IInv, FollowedRow
    <2>3. \A n \in reached : parent[n] = row \/ parent[n] \in reached
        BY <1>1 DEF IInv, FollowedRow
    <2>4. ASSUME NEW r \in begin .. next - 1 PROVE ReachIsDone(r)'
        <3>1. CASE r = row
            BY <1>5, <1>6, <2>1, <2>2, <2>3, <3>1 DEF ReachIsDone
        <3>2. CASE r # row
            <4>1. ReachIsDone(r) /\ lower'[r] = lower[r]
                BY <1>6, <1>9, <1>10, <3>2 DEF IInv, LowerRows
            <4> QED
                BY <1>5, <4>1 DEF ReachIsDone
        <3> QED
            BY <3>1, <3>2
    <2> QED
        BY <1>5, <1>9, <2>4 DEF LowerRows
<1>12. OffDiagonalRows' /\ FollowedRow'
    <2>1. begin .. begin - 1 = {}
        BY <1>2, EmptyRange
    <2> QED
        BY <1>3, <1>5, <1>9, <2>1 DEF OffDiagonalRows, FollowedRow
<1>13. NothingExtra'
    <2> SUFFICES ASSUME enveloped' = {}, NEW f \in [Rows -> SUBSET Rows], Filled(f)'
                 PROVE  Within(f)'
        BY DEF NothingExtra
    <2>1. Filled(f) /\ Within(f)
        BY <1>1, <1>5, InputStays DEF IInv, NothingExtra
    <2>2. \A r \in begin .. next - 1 : lower'[r] \subseteq f[r]
        <3>1. reached \subseteq f[row] /\ \A r \in begin .. row - 1 : lower[r] \subseteq f[r]
            BY <1>1, <1>9, <2>1 DEF Within, SymmetricStages
        <3> QED
            BY <1>6, <1>10, <3>1
    <2>3. begin .. begin - 1 = {}
        BY <1>2, EmptyRange
    <2> QED
        BY <1>1, <1>3, <1>5, <1>9, <2>1, <2>2, <2>3 DEF Within, SymmetricStages
<1> QED
    BY <1>5, <1>7, <1>11, <1>12, <1>13 DEF IInv

LEMMA PropagateOffDiagonalIsFine == IInv /\ PropagateOffDiagonal => IInv'
<1> SUFFICES ASSUME IInv, PropagateOffDiagonal PROVE IInv'
    OBVIOUS
<1> DEFINE columns == {c \in pattern[row] : c >= BlockEnd(begin)}
                          \cup UNION {offDiagonal[p] : p \in lower[row]}
<1>1. /\ stage = "propagate" /\ node = NoRow
      /\ offDiagonal' = [offDiagonal EXCEPT ![row] = columns]
      /\ lower' = lower /\ node' = node /\ todo' = todo /\ reached' = reached
      /\ UNCHANGED <<input, factor, kinds, begin, todo, node, reached, tree, lower>>
    BY DEF PropagateOffDiagonal, IInv, Layout
<1>2. /\ begin \in Nat /\ row \in Rows /\ row \in Nat /\ row \in BlockRows(begin)
      /\ begin <= row /\ row < BlockEnd(begin) /\ BlockEnd(begin) \in Nat
      /\ BlockRows(begin) = begin .. BlockEnd(begin) - 1 /\ BlockRows(begin) \subseteq Rows
    BY <1>1, Here DEF IInv, Layout
<1>3. \/ row' = begin /\ stage' = "assemble" /\ BlockEnd(begin) = row + 1
      \/ row' = row + 1 /\ stage' = "propagate" /\ row + 1 < BlockEnd(begin)
    BY <1>1, <1>2 DEF PropagateOffDiagonal, EndOfRow
<1>4. row' \in BlockRows(begin) /\ row' \in 0 .. Dimension
    <2>1. begin \in BlockRows(begin)
        BY <1>2
    <2>2. row + 1 < BlockEnd(begin) => row + 1 \in BlockRows(begin)
        BY <1>2
    <2>3. \A r \in BlockRows(begin) : r \in 0 .. Dimension
        BY <1>2, RowsAreNatural
    <2> QED
        BY <1>3, <2>1, <2>2, <2>3
<1>5. /\ boundaries' = boundaries /\ pattern' = pattern /\ begin' = begin
      /\ symmetric' = symmetric /\ enveloped' = enveloped /\ factor' = factor
      /\ parent' = parent /\ ancestor' = ancestor
      /\ FactorClosed' /\ BlockUpper(factor, boundaries)' /\ Layout' /\ MergedRow'
      /\ Forest' /\ Shortcuts' /\ EntriesClimb' /\ ClimbedRow' /\ BlocksAreDone'
      /\ BlockEnd(begin)' = BlockEnd(begin) /\ BlockRows(begin)' = BlockRows(begin)
      /\ \A r : TreeEntries(r)' = TreeEntries(r)
    BY <1>1, <1>3, <1>4, BuiltTreeStays
<1>6. PICK next \in Nat : next = row + 1
    BY <1>2
<1>7. /\ Reached = BlockEnd(begin) /\ Reached' = BlockEnd(begin)
      /\ Propagated = row /\ Propagated' = next
    BY <1>1, <1>3, <1>5, <1>6 DEF Reached, Propagated
<1>8. \A r \in begin .. BlockEnd(begin) - 1 : ReachIsDone(r)
    BY <1>7 DEF IInv, LowerRows
<1>9. \A r \in begin .. row : lower[r] \subseteq begin .. r - 1
    <2>1. \A r \in begin .. row : r \in begin .. BlockEnd(begin) - 1
        BY <1>2
    <2> QED
        BY <1>8, <2>1 DEF ReachIsDone
<1>10. \A r \in begin .. next - 1 : r \in begin .. row /\ (r = row \/ r \in begin .. row - 1)
    BY <1>2, <1>6
<1>11. \A r \in begin .. row - 1 :
           /\ \A c \in offDiagonal[r] : c >= BlockEnd(begin)
           /\ \A c \in pattern[r] : c >= BlockEnd(begin) => c \in offDiagonal[r]
           /\ \A p \in lower[r] : offDiagonal[p] \subseteq offDiagonal[r]
    BY <1>7 DEF IInv, OffDiagonalRows
<1>12. lower[row] \subseteq begin .. row - 1
    BY <1>2, <1>9
<1>13. columns \subseteq Rows /\ \A c \in columns : c >= BlockEnd(begin)
    <2>1. \A p \in lower[row] : p \in Rows
        BY <1>2 DEF IInv, TypeOK
    <2>2. \A p \in lower[row] : offDiagonal[p] \subseteq Rows
                                /\ \A c \in offDiagonal[p] : c >= BlockEnd(begin)
        BY <1>11, <1>12, <2>1 DEF IInv, TypeOK
    <2>3. pattern[row] \subseteq Rows
        BY <1>2 DEF IInv, TypeOK
    <2> QED
        BY <2>2, <2>3
<1>14. /\ \A c \in pattern[row] : c >= BlockEnd(begin) => c \in columns
       /\ \A p \in lower[row] : offDiagonal[p] \subseteq columns
    OBVIOUS
<1> HIDE DEF columns
<1>15. /\ offDiagonal' \in [Rows -> SUBSET Rows] /\ offDiagonal'[row] = columns
       /\ \A r \in Rows : r # row => offDiagonal'[r] = offDiagonal[r]
    BY <1>1, <1>2, <1>13 DEF IInv, TypeOK
<1>16. TypeOK'
    BY <1>1, <1>3, <1>4, <1>5, <1>15 DEF IInv, TypeOK
<1>17. LowerRows' /\ FollowedRow'
    BY <1>1, <1>3, <1>5, <1>7 DEF IInv, LowerRows, ReachIsDone, FollowedRow
<1>18. \A r \in begin .. row - 1 : r \in Rows /\ r # row /\ offDiagonal'[r] = offDiagonal[r]
    <2>1. \A r \in begin .. row - 1 : r \in Rows /\ r # row
        BY <1>2
    <2> QED
        BY <1>15, <2>1
<1>19. OffDiagonalRows'
    <2>1. ASSUME NEW r \in begin .. next - 1
          PROVE  /\ \A c \in offDiagonal'[r] : c >= BlockEnd(begin)
                 /\ \A c \in pattern[r] : c >= BlockEnd(begin) => c \in offDiagonal'[r]
                 /\ \A p \in lower[r] : offDiagonal'[p] \subseteq offDiagonal'[r]
        <3>1. \A p \in lower[r] : p \in begin .. row - 1
            <4>1. r \in begin .. row /\ lower[r] \subseteq begin .. r - 1
                BY <1>9, <1>10
            <4>2. \A p \in begin .. r - 1 : p \in begin .. row - 1
                BY <1>2, <4>1
            <4> QED
                BY <4>1, <4>2
        <3>2. CASE r = row
            BY <1>13, <1>14, <1>15, <1>18, <3>1, <3>2
        <3>3. CASE r \in begin .. row - 1
            BY <1>11, <1>18, <3>1, <3>3
        <3> QED
            BY <1>10, <3>2, <3>3
    <2> QED
        BY <1>1, <1>5, <1>7, <2>1 DEF OffDiagonalRows
<1>20. NothingExtra'
    <2> SUFFICES ASSUME enveloped' = {}, NEW f \in [Rows -> SUBSET Rows], Filled(f)'
                 PROVE  Within(f)'
        BY DEF NothingExtra
    <2>1. Filled(f) /\ Within(f)
        BY <1>1, <1>5, InputStays DEF IInv, NothingExtra
    <2>2. /\ \A r \in begin .. BlockEnd(begin) - 1 : lower[r] \subseteq f[r]
          /\ \A r \in begin .. row - 1 : offDiagonal[r] \subseteq f[r]
        BY <1>1, <1>7, <2>1 DEF Within, SymmetricStages
    <2>3. columns \subseteq f[row]
        <3>1. ASSUME NEW p \in lower[row] PROVE offDiagonal[p] \subseteq f[row]
            <4>1. p \in begin .. row - 1 /\ p \in f[row] /\ p < row
                BY <1>2, <1>12, <2>2
            <4>2. offDiagonal[p] \subseteq f[p] /\ p \in Rows
                BY <1>18, <2>2, <4>1
            <4>3. \A c \in offDiagonal[p] : c > p
                <5>1. \A c \in offDiagonal[p] : c >= BlockEnd(begin) /\ c \in Rows /\ c \in Nat
                    BY <1>11, <4>1, <4>2, RowsAreNatural DEF IInv, TypeOK
                <5> QED
                    BY <1>2, <4>1, <5>1
            <4> QED
                BY <1>2, <2>1, <4>1, <4>2, <4>3 DEF Filled
        <3>2. pattern[row] \subseteq f[row]
            BY <1>2, <2>1 DEF Filled
        <3> QED
            BY <3>1, <3>2 DEF columns
    <2>4. \A r \in begin .. next - 1 : offDiagonal'[r] \subseteq f[r]
        BY <1>10, <1>15, <1>18, <2>2, <2>3
    <2> QED
        BY <1>1, <1>3, <1>5, <1>7, <2>1, <2>4 DEF Within, SymmetricStages
<1> QED
    BY <1>5, <1>16, <1>17, <1>19, <1>20 DEF IInv

-----------------------------------------------------------------------------
\* When a block is assembled, every row of it has its parts.
LEMMA Assembled ==
    ASSUME IInv, stage = "assemble"
    PROVE  /\ begin \in boundaries /\ begin \in Nat /\ BlockEnd(begin) \in Nat
           /\ begin < BlockEnd(begin) /\ BlockEnd(begin) <= Dimension
           /\ \A c \in boundaries : c \in Nat /\ (c <= begin \/ BlockEnd(begin) <= c)
           /\ BlockRows(begin) = begin .. BlockEnd(begin) - 1 /\ BlockRows(begin) \subseteq Rows
           /\ \A r : r \in BlockRows(begin) <=> r \in Rows /\ begin <= r /\ r < BlockEnd(begin)
           /\ \A r \in BlockRows(begin) :
                  /\ r \in Nat /\ ReachIsDone(r)
                  /\ \A c \in lower[r] : c \in BlockRows(begin) /\ c < r
                  /\ \A c \in offDiagonal[r] : c \in Rows /\ c >= BlockEnd(begin)
                  /\ \A c \in pattern[r] : c >= BlockEnd(begin) => c \in offDiagonal[r]
                  /\ \A p \in lower[r] : offDiagonal[p] \subseteq offDiagonal[r]
           /\ Rising /\ node = NoRow /\ TreeTop = BlockEnd(begin) - 1
<1>1. /\ begin \in boundaries /\ begin \in Nat /\ BlockEnd(begin) \in Nat
      /\ begin < BlockEnd(begin) /\ BlockEnd(begin) <= Dimension
      /\ \A c \in boundaries : c \in Nat /\ (c <= begin \/ BlockEnd(begin) <= c)
      /\ BlockRows(begin) = begin .. BlockEnd(begin) - 1 /\ BlockRows(begin) \subseteq Rows
    BY Here DEF IInv
<1>2. Reached = BlockEnd(begin) /\ Propagated = BlockEnd(begin) /\ node = NoRow
      /\ TreeTop = BlockEnd(begin) - 1
    BY DEF Reached, Propagated, TreeTop, SymmetricStages, IInv, Layout
<1>3. \A r : r \in BlockRows(begin) <=> r \in Rows /\ begin <= r /\ r < BlockEnd(begin)
    BY <1>1, RowsAreNatural
<1>4. ASSUME NEW r \in BlockRows(begin)
      PROVE  /\ r \in Nat /\ ReachIsDone(r)
             /\ \A c \in lower[r] : c \in BlockRows(begin) /\ c < r
             /\ \A c \in offDiagonal[r] : c \in Rows /\ c >= BlockEnd(begin)
             /\ \A c \in pattern[r] : c >= BlockEnd(begin) => c \in offDiagonal[r]
             /\ \A p \in lower[r] : offDiagonal[p] \subseteq offDiagonal[r]
    <2>1. r \in begin .. BlockEnd(begin) - 1 /\ r \in Nat /\ r \in Rows
        BY <1>1
    <2>2. ReachIsDone(r)
        BY <1>2, <2>1 DEF IInv, LowerRows
    <2>3. \A c \in begin .. r - 1 : c \in begin .. BlockEnd(begin) - 1 /\ c < r
        BY <1>1, <2>1
    <2>4. \A c \in lower[r] : c \in BlockRows(begin) /\ c < r
        BY <1>1, <2>2, <2>3 DEF ReachIsDone
    <2>5. /\ \A c \in offDiagonal[r] : c >= BlockEnd(begin)
          /\ \A c \in pattern[r] : c >= BlockEnd(begin) => c \in offDiagonal[r]
          /\ \A p \in lower[r] : offDiagonal[p] \subseteq offDiagonal[r]
        BY <1>2, <2>1 DEF IInv, OffDiagonalRows
    <2>6. offDiagonal[r] \subseteq Rows
        BY <2>1 DEF IInv, TypeOK
    <2> QED
        BY <2>1, <2>2, <2>4, <2>5, <2>6
<1>5. Rising
    BY ForestRises DEF IInv
<1> QED
    BY <1>1, <1>2, <1>3, <1>4, <1>5

\* Two rows that have a column in common below both: the lower of them is a column
\* of the other.
LEMMA LowerPartsChain ==
    ASSUME IInv, stage = "assemble",
           NEW c \in BlockRows(begin), NEW r \in BlockRows(begin), c < r,
           NEW k, k \in lower[c], k \in lower[r]
    PROVE  c \in lower[r]
<1> DEFINE Both == lower[c] \cap lower[r]
<1>1. /\ ReachIsDone(c) /\ ReachIsDone(r) /\ c \in Rows /\ r \in Rows /\ c \in Nat /\ r \in Nat
      /\ \A x \in lower[c] : x \in Rows /\ x < c
      /\ \A x \in lower[r] : x \in Rows /\ x < r
      /\ Rising
    BY Assembled
<1>2. Both \in SUBSET Rows /\ Both # {}
    BY <1>1
<1>3. PICK top \in Both : \A x \in Both : x <= top
    BY <1>2, GreatestRow
<1>4. /\ parent[top] = c \/ parent[top] \in lower[c]
      /\ parent[top] = r \/ parent[top] \in lower[r]
    BY <1>1, <1>3 DEF ReachIsDone
<1>5. top \in Rows /\ parent[top] \in Rows /\ parent[top] # NoRow
    BY <1>1, <1>3, <1>4, RowsAreNatural
<1>6. top < parent[top]
    BY <1>1, <1>5 DEF Rising
<1>7. parent[top] \notin Both
    BY <1>2, <1>3, <1>5, <1>6, RowsAreNatural
<1>8. c # r
    BY <1>1
<1>9. CASE parent[top] = c
    BY <1>4, <1>8, <1>9
<1>10. CASE parent[top] \in lower[c]
    <2>1. parent[top] < c
        BY <1>1, <1>10
    <2>2. parent[top] # r
        BY <1>1, <1>5, <2>1, RowsAreNatural
    <2> QED
        BY <1>4, <1>7, <1>10, <2>2
<1> QED
    BY <1>4, <1>9, <1>10

\* An edge of the tree is an entry of the lower part.
LEMMA EdgeIsInLowerPart ==
    ASSUME IInv, stage = "assemble", NEW k \in BlockRows(begin), parent[k] # NoRow
    PROVE  parent[k] \in BlockRows(begin) /\ k < parent[k] /\ k \in lower[parent[k]]
<1> DEFINE p == parent[k]
<1>1. /\ begin \in Nat /\ BlockEnd(begin) \in Nat /\ Rising /\ TreeTop = BlockEnd(begin) - 1
      /\ \A r : r \in BlockRows(begin) <=> r \in Rows /\ begin <= r /\ r < BlockEnd(begin)
    BY Assembled
<1>2. k \in Rows /\ k \in Nat /\ begin <= k /\ k < p /\ p \in Rows /\ p \in Nat
    BY <1>1, RowsAreNatural DEF Rising
<1>3. p <= BlockEnd(begin) - 1
    BY <1>1, <1>2 DEF IInv, Forest
<1>4. p \in BlockRows(begin)
    <2>1. begin <= p /\ p < BlockEnd(begin)
        BY <1>1, <1>2, <1>3
    <2> QED
        BY <1>1, <1>2, <2>1
<1>5. ReachIsDone(p) /\ \A c \in lower[p] : c \in Rows
    BY <1>1, <1>4, Assembled
<1>6. PICK c \in TreeEntries(p) : k \in TreePath(c)
    BY <1>2 DEF IInv, EntriesClimb, SymmetricStages
<1> HIDE DEF p
<1>7. PICK s : PathIn(s, c, k)
    BY <1>6, PathIsASet
<1> DEFINE Both == s \cap lower[p]
<1>8. Both \in SUBSET Rows /\ c \in Both
    BY <1>5, <1>6, <1>7 DEF PathIn, ReachIsDone
<1>9. PICK top \in Both : \A x \in Both : x <= top
    BY <1>8, GreatestRow
<1>10. top = k
    <2> SUFFICES ASSUME top # k PROVE FALSE
        OBVIOUS
    <2>1. parent[top] \in s /\ parent[top] \in Rows /\ top \in Rows
        BY <1>7, <1>8, <1>9 DEF PathIn
    <2>2. top < parent[top]
        BY <1>1, <2>1, RowsAreNatural DEF Rising
    <2>3. parent[top] = p \/ parent[top] \in lower[p]
        BY <1>5, <1>9 DEF ReachIsDone
    <2>4. parent[top] \notin lower[p]
        BY <1>9, <2>1, <2>2, RowsAreNatural
    <2>5. p \in s
        BY <2>1, <2>3, <2>4
    <2>6. p <= k
        BY <1>1, <1>7, <2>5, PathIsBelowItsEnd
    <2> QED
        BY <1>2, <2>6
<1> QED
    BY <1>2, <1>4, <1>9, <1>10 DEF p

\* A row of the assembled block, by parts.
LEMMA AssembledRows ==
    ASSUME IInv, AssembleBlock
    PROVE  /\ factor' \in [Rows -> SUBSET Rows]
           /\ \A r \in Rows : r \notin BlockRows(begin) => factor'[r] = factor[r]
           /\ \A r \in BlockRows(begin) : \A c :
                  c \in factor'[r] <=> \/ c \in lower[r] \/ c = r \/ c \in offDiagonal[r]
                                       \/ c \in BlockRows(begin) /\ r \in lower[c]
           /\ \A r, c \in BlockRows(begin) :
                  c \in factor'[r] <=> c \in lower[r] \/ c = r \/ r \in lower[c]
<1> DEFINE assembled(r) == lower[r] \cup {r} \cup {c \in BlockRows(begin) : r \in lower[c]}
                               \cup offDiagonal[r]
<1>1. stage = "assemble"
      /\ factor' = [r \in Rows |-> IF r \in BlockRows(begin) THEN assembled(r) ELSE factor[r]]
    BY DEF AssembleBlock
<1>2. BlockRows(begin) \subseteq Rows
    BY <1>1, Assembled
<1>3. \A r \in BlockRows(begin) : assembled(r) \subseteq Rows
    BY <1>1, <1>2 DEF IInv, TypeOK
<1>4. factor' \in [Rows -> SUBSET Rows]
    BY <1>1, <1>3 DEF IInv, TypeOK
<1>5. /\ \A r \in Rows : r \notin BlockRows(begin) => factor'[r] = factor[r]
      /\ \A r \in BlockRows(begin) : factor'[r] = assembled(r)
    BY <1>1, <1>2
<1>6. \A r \in BlockRows(begin) : \A c :
          c \in factor'[r] <=> \/ c \in lower[r] \/ c = r \/ c \in offDiagonal[r]
                               \/ c \in BlockRows(begin) /\ r \in lower[c]
    BY <1>5
<1>7. \A r, c \in BlockRows(begin) : c \notin offDiagonal[r]
    <2>1. /\ BlockEnd(begin) \in Nat
          /\ \A c \in BlockRows(begin) : c \in Nat /\ c < BlockEnd(begin)
          /\ \A r \in BlockRows(begin) : \A c \in offDiagonal[r] : c >= BlockEnd(begin)
        BY <1>1, Assembled
    <2>2. \A c \in BlockRows(begin) : ~(c >= BlockEnd(begin))
        BY <2>1
    <2> QED
        BY <2>1, <2>2
<1> QED
    BY <1>4, <1>5, <1>6, <1>7

\* The rows of the assembled block hold the input and are closed.
LEMMA AssembledRowsAreClosed ==
    ASSUME IInv, AssembleBlock, NEW r \in BlockRows(begin)
    PROVE  /\ pattern[r] \cup {r} \subseteq factor'[r]
           /\ \A k \in factor'[r] : k < r =>
                  /\ k \in BlockRows(begin) /\ k \in factor'[k]
                  /\ \A c \in factor'[k] : c > k => c \in factor'[r]
<1>1. stage = "assemble"
    BY DEF AssembleBlock
<1>2. /\ begin \in boundaries /\ begin \in Nat /\ BlockEnd(begin) \in Nat
      /\ BlockRows(begin) \subseteq Rows
      /\ \A x : x \in BlockRows(begin) <=> x \in Rows /\ begin <= x /\ x < BlockEnd(begin)
      /\ \A x \in BlockRows(begin) :
             /\ x \in Nat /\ ReachIsDone(x)
             /\ \A c \in lower[x] : c \in BlockRows(begin) /\ c < x
             /\ \A c \in offDiagonal[x] : c \in Rows /\ c >= BlockEnd(begin)
             /\ \A c \in pattern[x] : c >= BlockEnd(begin) => c \in offDiagonal[x]
             /\ \A p \in lower[x] : offDiagonal[p] \subseteq offDiagonal[x]
    BY <1>1, Assembled
<1>3. \A x \in BlockRows(begin) : \A c :
          c \in factor'[x] <=> \/ c \in lower[x] \/ c = x \/ c \in offDiagonal[x]
                               \/ c \in BlockRows(begin) /\ x \in lower[c]
    BY AssembledRows
<1>4. r \in Rows /\ r \in Nat /\ begin <= r /\ r < BlockEnd(begin)
    BY <1>2
<1>5. ASSUME NEW c \in pattern[r] PROVE c \in factor'[r]
    <2>1. c \in Rows /\ c \in Nat /\ begin <= c
        BY <1>2, <1>4, RowsAreNatural DEF IInv, TypeOK, Layout, BlockUpper
    <2>2. CASE c < r
        <3>1. c \in BlockRows(begin)
            BY <1>2, <1>4, <2>1, <2>2
        <3>2. c \in TreeEntries(r)
            BY <2>2, <3>1 DEF TreeEntries
        <3> QED
            BY <1>2, <1>3, <3>2 DEF ReachIsDone
    <2>3. CASE c = r
        BY <1>3, <2>3
    <2>4. CASE c > r /\ c < BlockEnd(begin)
        <3>1. c \in BlockRows(begin) /\ r < c
            BY <1>2, <1>4, <2>1, <2>4
        <3>2. r \in TreeEntries(c)
            <4>1. begin \in enveloped \/ IsSymmetric(begin)
                BY <1>1 DEF IInv, Layout, SymmetricStages
            <4>2. begin \notin enveloped => r \in pattern[c]
                BY <3>1, <4>1 DEF IsSymmetric
            <4> QED
                BY <3>1, <4>2 DEF TreeEntries
        <3>3. r \in lower[c]
            BY <1>2, <3>1, <3>2 DEF ReachIsDone
        <3> QED
            BY <1>3, <3>1, <3>3
    <2>5. CASE c >= BlockEnd(begin)
        BY <1>2, <1>3, <2>5
    <2> QED
        BY <1>2, <1>4, <2>1, <2>2, <2>3, <2>4, <2>5
<1>6. ASSUME NEW k \in factor'[r], k < r
      PROVE  k \in lower[r] /\ k \in BlockRows(begin) /\ k \in factor'[k]
    <2>1. k # r
        BY <1>4, <1>6
    <2>2. k \notin offDiagonal[r]
        <3>1. k \in offDiagonal[r] => k >= BlockEnd(begin) /\ k \in Nat
            BY <1>2, RowsAreNatural
        <3> QED
            BY <1>2, <1>4, <1>6, <3>1
    <2>3. ~(k \in BlockRows(begin) /\ r \in lower[k])
        <3>1. k \in BlockRows(begin) /\ r \in lower[k] => r < k /\ k \in Nat
            BY <1>2
        <3> QED
            BY <1>4, <1>6, <3>1
    <2>4. k \in lower[r]
        BY <1>3, <1>6, <2>1, <2>2, <2>3
    <2> QED
        BY <1>2, <1>3, <2>4
<1>7. ASSUME NEW k \in factor'[r], k < r, NEW c \in factor'[k], c > k
      PROVE  c \in factor'[r]
    <2>1. k \in lower[r] /\ k \in BlockRows(begin) /\ k \in Nat
        BY <1>2, <1>6, <1>7
    <2>2. c \notin lower[k] /\ c # k
        <3>1. c \in lower[k] => c < k /\ c \in Nat
            BY <1>2, <2>1
        <3> QED
            BY <1>7, <2>1, <3>1
    <2>3. CASE c \in offDiagonal[k]
        BY <1>2, <1>3, <2>1, <2>3
    <2>4. CASE c \in BlockRows(begin) /\ k \in lower[c]
        <3>1. c < r \/ c = r \/ r < c
            <4>1. c \in Nat
                BY <1>2, <2>4
            <4> QED
                BY <1>4, <4>1
        <3>2. CASE c < r
            <4>1. c \in lower[r]
                BY <1>1, <2>1, <2>4, <3>2, LowerPartsChain
            <4> QED
                BY <1>3, <4>1
        <3>3. CASE c = r
            BY <1>3, <3>3
        <3>4. CASE r < c
            <4>1. r \in lower[c]
                BY <1>1, <2>1, <2>4, <3>4, LowerPartsChain
            <4> QED
                BY <1>3, <2>4, <4>1
        <3> QED
            BY <3>1, <3>2, <3>3, <3>4
    <2> QED
        BY <1>3, <1>7, <2>1, <2>2, <2>3, <2>4
<1> QED
    BY <1>3, <1>5, <1>6, <1>7

\* In the assembled block the factor mirrors, and the parent is the first fill.
LEMMA AssembledBlockMirrors ==
    ASSUME IInv, AssembleBlock
    PROVE  /\ \A r, c \in BlockRows(begin) : c \in factor'[r] <=> r \in factor'[c]
           /\ \A k \in BlockRows(begin) :
                  /\ \A i \in BlockRows(begin) :
                         i > k /\ k \in factor'[i] => parent[k] # NoRow /\ parent[k] <= i
                  /\ parent[k] # NoRow =>
                         parent[k] \in BlockRows(begin) /\ k \in factor'[parent[k]]
<1>1. stage = "assemble"
    BY DEF AssembleBlock
<1>2. /\ BlockRows(begin) \subseteq Rows
      /\ \A x \in BlockRows(begin) :
             /\ x \in Nat /\ ReachIsDone(x)
             /\ \A c \in lower[x] : c \in BlockRows(begin) /\ c < x
    BY <1>1, Assembled
<1>3. \A r, c \in BlockRows(begin) :
          c \in factor'[r] <=> c \in lower[r] \/ c = r \/ r \in lower[c]
    BY AssembledRows
<1>4. \A r, c \in BlockRows(begin) : c \in factor'[r] <=> r \in factor'[c]
    BY <1>3
<1>5. ASSUME NEW k \in BlockRows(begin), NEW i \in BlockRows(begin), i > k, k \in factor'[i]
      PROVE  parent[k] # NoRow /\ parent[k] <= i
    <2>1. k \in Nat /\ i \in Nat
        BY <1>2
    <2>2. k # i
        BY <1>5, <2>1
    <2>3. i \notin lower[k]
        <3>1. i \in lower[k] => i < k
            BY <1>2
        <3> QED
            BY <1>5, <2>1, <3>1
    <2>4. k \in lower[i]
        BY <1>3, <1>5, <2>2, <2>3
    <2>5. parent[k] = i \/ (parent[k] \in lower[i] /\ parent[k] \in BlockRows(begin)
                            /\ parent[k] < i)
        BY <1>2, <2>4 DEF ReachIsDone
    <2>6. parent[k] \in Rows /\ parent[k] \in Nat /\ parent[k] # NoRow
        BY <1>2, <2>5, RowsAreNatural
    <2>7. parent[k] <= i
        BY <2>1, <2>5, <2>6
    <2> QED
        BY <2>6, <2>7
<1>6. ASSUME NEW k \in BlockRows(begin), parent[k] # NoRow
      PROVE  parent[k] \in BlockRows(begin) /\ k \in factor'[parent[k]]
    <2>1. parent[k] \in BlockRows(begin) /\ k \in lower[parent[k]]
        BY <1>1, <1>6, EdgeIsInLowerPart
    <2> QED
        BY <1>3, <2>1
<1> QED
    BY <1>4, <1>5, <1>6

LEMMA AssembleBlockIsFine == IInv /\ AssembleBlock => IInv'
<1> SUFFICES ASSUME IInv, AssembleBlock PROVE IInv'
    OBVIOUS
<1>1. /\ stage = "assemble" /\ LeaveBlock
      /\ todo' = todo /\ node' = node /\ reached' = reached
      /\ UNCHANGED <<input, kinds, todo, node, reached, tree, block>>
    BY DEF AssembleBlock
<1>2. /\ boundaries' = boundaries /\ pattern' = pattern
      /\ symmetric' = symmetric /\ enveloped' = enveloped
      /\ parent' = parent /\ ancestor' = ancestor
      /\ lower' = lower /\ offDiagonal' = offDiagonal
    BY <1>1 DEF input, kinds, tree, block
<1>3. /\ begin \in boundaries /\ begin \in Nat /\ BlockEnd(begin) \in Nat
      /\ begin < BlockEnd(begin) /\ BlockEnd(begin) <= Dimension
      /\ \A c \in boundaries : c \in Nat /\ (c <= begin \/ BlockEnd(begin) <= c)
      /\ BlockRows(begin) \subseteq Rows
      /\ \A r : r \in BlockRows(begin) <=> r \in Rows /\ begin <= r /\ r < BlockEnd(begin)
      /\ node = NoRow /\ TreeTop = BlockEnd(begin) - 1
    BY <1>1, Assembled
<1>4. /\ factor' \in [Rows -> SUBSET Rows]
      /\ \A r \in Rows : r \notin BlockRows(begin) => factor'[r] = factor[r]
      /\ \A r \in BlockRows(begin) : \A c :
             c \in factor'[r] <=> \/ c \in lower[r] \/ c = r \/ c \in offDiagonal[r]
                                  \/ c \in BlockRows(begin) /\ r \in lower[c]
    BY AssembledRows
<1>5. \A r \in Rows : factor[r] # {} <=> r < begin
    BY <1>1 DEF IInv, Layout, Frontier, Appended
<1>6. \A r \in Rows : r < begin => r \notin BlockRows(begin) /\ r < BlockEnd(begin)
    BY <1>3, RowsAreNatural
<1>7. \A r \in Rows : factor'[r] # {} <=> r < BlockEnd(begin)
    <2>1. \A r \in BlockRows(begin) : factor'[r] # {} /\ r < BlockEnd(begin)
        BY <1>3, <1>4
    <2>2. \A r \in Rows : r \notin BlockRows(begin) => (r < begin <=> r < BlockEnd(begin))
        BY <1>3, RowsAreNatural
    <2> QED
        BY <1>4, <1>5, <2>1, <2>2
<1>8. /\ begin' \in boundaries /\ begin' = BlockEnd(begin) /\ row' \in 0 .. Dimension
      /\ stage' \in {"classify", "done"} /\ Layout'
    BY <1>1, <1>3, <1>7, LeavesBlock
<1>9. TypeOK'
    BY <1>1, <1>2, <1>4, <1>8 DEF IInv, TypeOK
<1>10. FactorClosed'
    <2> SUFFICES ASSUME NEW r \in Rows, factor'[r] # {}
                 PROVE  /\ pattern[r] \cup {r} \subseteq factor'[r]
                        /\ \A k \in factor'[r] : k < r =>
                               /\ factor'[k] # {}
                               /\ \A c \in factor'[k] : c > k => c \in factor'[r]
        BY <1>2 DEF FactorClosed, Appended, LowerPart, UpperPart
    <2>1. CASE r \in BlockRows(begin)
        BY <2>1, AssembledRowsAreClosed
    <2>2. CASE r \notin BlockRows(begin)
        <3>1. factor'[r] = factor[r] /\ factor[r] # {} /\ r < begin
            BY <1>4, <1>5, <2>2
        <3>2. pattern[r] \cup {r} \subseteq factor[r]
            BY <3>1 DEF IInv, FactorClosed, Appended
        <3>3. ASSUME NEW k \in factor[r], k < r
              PROVE  factor'[k] # {} /\ \A c \in factor'[k] : c > k => c \in factor[r]
            <4>1. factor[k] # {} /\ {c \in factor[k] : c > k} \subseteq factor[r]
                BY <3>1, <3>3 DEF IInv, FactorClosed, Appended, LowerPart, UpperPart
            <4>2. k \in Rows
                BY DEF IInv, TypeOK
            <4>3. factor'[k] = factor[k]
                BY <1>4, <1>5, <1>6, <4>1, <4>2
            <4> QED
                BY <4>1, <4>3
        <3> QED
            BY <3>1, <3>2, <3>3
    <2> QED
        BY <2>1, <2>2
<1>11. BlockUpper(factor, boundaries)'
    <2> SUFFICES ASSUME NEW r \in Rows, NEW c \in factor'[r], NEW b \in boundaries, b <= r
                 PROVE  b <= c
        BY <1>2 DEF BlockUpper
    <2>1. CASE r \in BlockRows(begin)
        <3>1. b \in Nat /\ b <= begin
            <4>1. b \in Nat /\ (b <= begin \/ BlockEnd(begin) <= b)
                BY <1>3
            <4>2. r \in Nat /\ r < BlockEnd(begin)
                BY <1>3, <2>1, RowsAreNatural
            <4>3. ~(BlockEnd(begin) <= b)
                BY <1>3, <4>1, <4>2
            <4> QED
                BY <4>1, <4>3
        <3>2. c \in Rows /\ c \in Nat /\ begin <= c
            <4>1. c \in Rows /\ c \in Nat
                BY <1>4, RowsAreNatural
            <4>2. c \in BlockRows(begin) \/ c >= BlockEnd(begin)
                BY <1>1, <1>4, <2>1, Assembled
            <4>3. c \in BlockRows(begin) => begin <= c
                BY <1>3
            <4>4. c >= BlockEnd(begin) => begin <= c
                BY <1>3, <4>1
            <4> QED
                BY <4>1, <4>2, <4>3, <4>4
        <3> QED
            BY <1>3, <3>1, <3>2
    <2>2. CASE r \notin BlockRows(begin)
        BY <1>4, <2>2 DEF IInv, BlockUpper
    <2> QED
        BY <2>1, <2>2
<1>12. /\ MergedRow' /\ Forest' /\ Shortcuts' /\ EntriesClimb' /\ ClimbedRow'
       /\ LowerRows' /\ FollowedRow' /\ OffDiagonalRows'
    <2>1. TreeTop \in Int /\ BlockEnd(begin) - 1 <= BlockEnd(begin) - 1
        BY <1>3
    <2>2. TreeTop <= begin' - 1
        BY <1>3, <1>8, <2>1
    <2>3. begin' \in Nat /\ node' = NoRow
        BY <1>1, <1>3, <1>8
    <2> QED
        BY <1>1, <1>3, <1>8, <2>1, <2>2, <2>3, NoTreeIsBuilt
<1>13. BlocksAreDone'
    <2>1. BlockRows(begin') = BlockRows(begin') /\ \A b : BlockRows(b)' = BlockRows(b)
        BY <1>1, InputStays
    <2>2. \A n \in Rows : n < begin => parent'[n] = parent[n] /\ factor'[n] = factor[n]
        BY <1>2, <1>4, <1>6
    <2>3. \A b \in symmetric : b < begin => Mirrors(b)' /\ ParentIsFirst(b)'
        BY <1>1, <2>2, DoneBlocksStay
    <2>4. ASSUME NEW b \in symmetric, b = begin PROVE Mirrors(b)' /\ ParentIsFirst(b)'
        <3>1. BlockRows(b)' = BlockRows(begin)
            BY <2>1, <2>4
        <3> QED
            BY <1>2, <3>1, AssembledBlockMirrors DEF Mirrors, ParentIsFirst
    <2>5. \A b \in symmetric : b < begin \/ b = begin
        BY DEF IInv, Layout
    <2> QED
        BY <1>2, <2>3, <2>4, <2>5 DEF BlocksAreDone
<1>14. NothingExtra'
    <2> SUFFICES ASSUME enveloped' = {}, NEW f \in [Rows -> SUBSET Rows], Filled(f)'
                 PROVE  Within(f)'
        BY DEF NothingExtra
    <2>1. Filled(f) /\ Within(f) /\ enveloped = {}
        BY <1>1, <1>2, InputStays DEF IInv, NothingExtra
    <2>2. ASSUME NEW r \in BlockRows(begin) PROVE factor'[r] \subseteq f[r]
        <3>1. Reached = BlockEnd(begin) /\ Propagated = BlockEnd(begin)
            BY <1>1 DEF Reached, Propagated
        <3>2. \A x \in BlockRows(begin) : lower[x] \subseteq f[x] /\ offDiagonal[x] \subseteq f[x]
            BY <1>1, <2>1, <3>1 DEF Within, SymmetricStages, BlockRows
        <3>3. r \in f[r]
            BY <1>3, <2>1 DEF Filled
        <3>4. \A c \in BlockRows(begin) : r \in lower[c] => c \in f[r]
            BY <1>1, <2>1, <3>2, FilledMirrors DEF SymmetricStages
        <3> QED
            BY <1>4, <3>2, <3>3, <3>4
    <2>3. \A r \in Rows : factor'[r] \subseteq f[r]
        BY <1>4, <2>1, <2>2 DEF Within
    <2> QED
        BY <1>1, <1>3, <1>8, <2>3 DEF Within, SymmetricStages
<1> QED
    BY <1>8, <1>9, <1>10, <1>11, <1>12, <1>13, <1>14 DEF IInv

LEMMA StutterIsFine == IInv /\ UNCHANGED vars => IInv'
<1> SUFFICES ASSUME IInv, UNCHANGED vars PROVE IInv'
    OBVIOUS
<1>1. /\ boundaries' = boundaries /\ pattern' = pattern /\ factor' = factor
      /\ symmetric' = symmetric /\ enveloped' = enveloped /\ stage' = stage
      /\ begin' = begin /\ row' = row /\ todo' = todo /\ node' = node /\ reached' = reached
      /\ parent' = parent /\ ancestor' = ancestor
      /\ lower' = lower /\ offDiagonal' = offDiagonal
      /\ UNCHANGED <<input, factor, begin, enveloped>>
    BY DEF vars, input, kinds, tree, block
<1>2. /\ \A b : BlockEnd(b)' = BlockEnd(b) /\ BlockRows(b)' = BlockRows(b)
      /\ \A b : IsSymmetric(b)' <=> IsSymmetric(b)
      /\ \A f : Filled(f)' <=> Filled(f)
      /\ \A r : TreeEntries(r)' = TreeEntries(r)
      /\ \A n, m : m \in TreePath(n)' <=> m \in TreePath(n)
    BY <1>1, InputStays, EntriesStay, PathsStay
<1>3. BlockRows(begin)' = BlockRows(begin) /\ BlockEnd(begin)' = BlockEnd(begin)
      /\ TreeEntries(row)' = TreeEntries(row)
    BY <1>1, <1>2 DEF BlockRows, BlockEnd, TreeEntries
<1>4. /\ FactorClosed' /\ BlockUpper(factor, boundaries)'
      /\ \A r : Appended(r)' <=> Appended(r)
      /\ \A r : UpperPart(r)' = UpperPart(r)
    BY <1>1, FactorStays
<1>5. TypeOK'
    BY <1>1 DEF IInv, TypeOK
<1>6. Layout'
    <2>1. BlockUpper(pattern, boundaries)' /\ (IsSymmetric(begin)' <=> IsSymmetric(begin))
        BY <1>1 DEF IInv, Layout, BlockUpper, IsSymmetric, BlockRows, BlockEnd
    <2> QED
        BY <1>1, <1>3, <1>4, <2>1 DEF IInv, Layout, Frontier, SymmetricStages
<1>7. MergedRow'
    BY <1>1, <1>4 DEF IInv, MergedRow
<1>8. TreeTop' = TreeTop /\ Climbed' = Climbed /\ Reached' = Reached /\ Propagated' = Propagated
      /\ (Climbing' <=> Climbing)
    BY <1>1, <1>3 DEF TreeTop, Climbed, Reached, Propagated, Climbing, SymmetricStages
<1>9. Forest' /\ Shortcuts'
    BY <1>1, <1>2, <1>8 DEF IInv, Forest, Shortcuts
<1>10. EntriesClimb' /\ ClimbedRow'
    BY <1>1, <1>2, <1>3, <1>8 DEF IInv, EntriesClimb, ClimbedRow, SymmetricStages
<1>11. LowerRows' /\ FollowedRow' /\ OffDiagonalRows'
    BY <1>1, <1>2, <1>3, <1>8
    DEF IInv, LowerRows, ReachIsDone, FollowedRow, OffDiagonalRows
<1>12. BlocksAreDone'
    BY <1>1, <1>2 DEF IInv, BlocksAreDone, Mirrors, ParentIsFirst
<1>13. NothingExtra'
    BY <1>1, <1>2, <1>3, <1>8 DEF IInv, NothingExtra, Within, SymmetricStages
<1> QED
    BY <1>4, <1>5, <1>6, <1>7, <1>9, <1>10, <1>11, <1>12, <1>13 DEF IInv

LEMMA NextIsFine == IInv /\ [Next]_vars => IInv'
<1> SUFFICES ASSUME IInv, [Next]_vars PROVE IInv'
    OBVIOUS
<1>1. CASE ClassifyBlock
    BY <1>1, ClassifyBlockIsFine
<1>2. CASE GenericRow
    BY <1>2, GenericRowIsFine
<1>3. CASE MergePivot
    BY <1>3, MergePivotIsFine
<1>4. CASE AppendGenericRow
    BY <1>4, AppendGenericRowIsFine
<1>5. CASE TreeRow
    BY <1>5, TreeRowIsFine
<1>6. CASE TreeEntry
    BY <1>6, TreeEntryIsFine
<1>7. CASE ClimbAncestor
    BY <1>7, ClimbAncestorIsFine
<1>8. CASE NextTreeRow
    BY <1>8, NextTreeRowIsFine
<1>9. CASE ReachRow
    BY <1>9, ReachRowIsFine
<1>10. CASE ReachEntry
    BY <1>10, ReachEntryIsFine
<1>11. CASE FollowParent
    BY <1>11, FollowParentIsFine
<1>12. CASE NextReachRow
    BY <1>12, NextReachRowIsFine
<1>13. CASE PropagateOffDiagonal
    BY <1>13, PropagateOffDiagonalIsFine
<1>14. CASE AssembleBlock
    BY <1>14, AssembleBlockIsFine
<1>15. CASE UNCHANGED vars
    BY <1>15, StutterIsFine
<1> QED
    BY <1>1, <1>2, <1>3, <1>4, <1>5, <1>6, <1>7, <1>8, <1>9, <1>10, <1>11, <1>12, <1>13,
       <1>14, <1>15 DEF Next, Finished

LEMMA IInvHolds == Spec => []IInv
    BY InitIsFine, NextIsFine, PTL DEF Spec

-----------------------------------------------------------------------------
\* The equation of Through: paths through row k as well.
ThroughRow(paths, k) ==
    [i \in Rows |-> IF k \in paths[i] THEN paths[i] \cup paths[k] ELSE paths[i]]

\* Functions that satisfy it up to n.
ThroughUpTo(n) ==
    {f \in [0 .. n -> [Rows -> SUBSET Rows]] :
        f[0] = pattern /\ \A k \in 0 .. n - 1 : f[k + 1] = ThroughRow(f[k], k)}

LEMMA ThroughRowIsAPattern ==
    ASSUME NEW paths \in [Rows -> SUBSET Rows], NEW k \in Rows
    PROVE  ThroughRow(paths, k) \in [Rows -> SUBSET Rows]
    BY DEF ThroughRow

LEMMA ThroughExtends ==
    ASSUME TypeOK, NEW n \in Rows, NEW f \in ThroughUpTo(n)
    PROVE  ThroughUpTo(n + 1) # {}
<1> DEFINE g == [k \in 0 .. n + 1 |-> IF k <= n THEN f[k] ELSE ThroughRow(f[n], n)]
<1>1. n \in Nat /\ f \in [0 .. n -> [Rows -> SUBSET Rows]]
    BY RowsAreNatural DEF ThroughUpTo
<1>2. ThroughRow(f[n], n) \in [Rows -> SUBSET Rows]
    <2>1. f[n] \in [Rows -> SUBSET Rows]
        BY <1>1
    <2> QED
        BY <2>1, ThroughRowIsAPattern
<1>3. g \in [0 .. n + 1 -> [Rows -> SUBSET Rows]]
    BY <1>1, <1>2
<1>4. g[0] = pattern
    BY <1>1 DEF ThroughUpTo
<1>5. ASSUME NEW k \in 0 .. n PROVE g[k + 1] = ThroughRow(g[k], k)
    <2>1. CASE k = n
        <3>1. g[n + 1] = ThroughRow(f[n], n) /\ g[n] = f[n]
            BY <1>1
        <3> QED
            BY <2>1, <3>1
    <2>2. CASE k # n
        <3>1. k \in 0 .. n - 1
            BY <1>1, <2>2
        <3>2. g[k + 1] = f[k + 1] /\ g[k] = f[k]
            BY <1>1, <3>1
        <3>3. f[k + 1] = ThroughRow(f[k], k)
            BY <3>1 DEF ThroughUpTo
        <3> QED
            BY <3>2, <3>3
    <2> QED
        BY <2>1, <2>2
<1> HIDE DEF g
<1>6. PICK next : next = n + 1
    OBVIOUS
<1>7. \A k \in 0 .. next - 1 : g[k + 1] = ThroughRow(g[k], k)
    <2>1. \A k \in 0 .. next - 1 : k \in 0 .. n
        BY <1>1, <1>6
    <2> QED
        BY <1>5, <2>1
<1>8. g \in [0 .. next -> [Rows -> SUBSET Rows]]
    BY <1>3, <1>6
<1>9. g \in ThroughUpTo(next)
    BY <1>4, <1>7, <1>8 DEF ThroughUpTo
<1> QED
    BY <1>6, <1>9

LEMMA ThroughReachesEveryRow ==
    ASSUME TypeOK
    PROVE  ThroughUpTo(Dimension) # {}
<1> DEFINE Failing == {m \in 0 .. Dimension : ThroughUpTo(m) = {}}
<1> SUFFICES ASSUME Failing # {} PROVE FALSE
    BY RowsAreNatural
<1>1. PICK m \in Failing : \A x \in Failing : m <= x
    <2>1. Failing \in SUBSET Nat
        BY RowsAreNatural
    <2> QED
        BY <2>1, LeastNatural
<1>2. m # 0
    <2>1. [k \in 0 .. 0 |-> pattern] \in ThroughUpTo(0)
        <3>1. pattern \in [Rows -> SUBSET Rows]
            BY DEF TypeOK
        <3> QED
            BY <3>1 DEF ThroughUpTo
    <2> QED
        BY <2>1
<1>3. m - 1 \in Rows /\ m - 1 \in 0 .. Dimension /\ m - 1 < m /\ m - 1 + 1 = m
    BY <1>1, <1>2, RowsAreNatural
<1>4. m - 1 \notin Failing
    BY <1>1, <1>3
<1>5. PICK f : f \in ThroughUpTo(m - 1)
    BY <1>3, <1>4
<1>6. ThroughUpTo(m - 1 + 1) # {}
    BY <1>3, <1>5, ThroughExtends
<1> QED
    BY <1>1, <1>3, <1>6

LEMMA ThroughByRows ==
    ASSUME TypeOK
    PROVE  /\ Through[0] = pattern
           /\ \A k \in 0 .. Dimension : Through[k] \in [Rows -> SUBSET Rows]
           /\ \A k \in Rows : Through[k + 1] = ThroughRow(Through[k], k)
<1> DEFINE Equation(f) ==
        f = [k \in 0 .. Dimension |->
                IF k = 0 THEN pattern
                ELSE [i \in Rows |-> IF k - 1 \in f[k - 1][i]
                                     THEN f[k - 1][i] \cup f[k - 1][k - 1]
                                     ELSE f[k - 1][i]]]
<1>1. PICK f : f \in ThroughUpTo(Dimension)
    BY ThroughReachesEveryRow
<1>2. \A k \in 0 .. Dimension : k # 0 => k - 1 \in 0 .. Dimension - 1 /\ k - 1 + 1 = k
    BY RowsAreNatural
<1>3. Equation(f)
    <2>1. ASSUME NEW k \in 0 .. Dimension, k # 0
          PROVE  f[k] = [i \in Rows |-> IF k - 1 \in f[k - 1][i]
                                        THEN f[k - 1][i] \cup f[k - 1][k - 1]
                                        ELSE f[k - 1][i]]
        <3>1. f[k - 1 + 1] = ThroughRow(f[k - 1], k - 1)
            BY <1>1, <1>2, <2>1 DEF ThroughUpTo
        <3> QED
            BY <1>2, <2>1, <3>1 DEF ThroughRow
    <2>2. f[0] = pattern /\ f \in [0 .. Dimension -> [Rows -> SUBSET Rows]]
        BY <1>1 DEF ThroughUpTo
    <2> QED
        BY <2>1, <2>2
<1>4. Equation(Through)
    <2>1. Through = CHOOSE g : Equation(g)
        BY DEF Through
    <2> HIDE DEF Equation
    <2> QED
        BY <1>3, <2>1
<1> DEFINE step(k) == [i \in Rows |-> IF k - 1 \in Through[k - 1][i]
                                      THEN Through[k - 1][i] \cup Through[k - 1][k - 1]
                                      ELSE Through[k - 1][i]]
<1>5. \A k \in 0 .. Dimension : Through[k] = IF k = 0 THEN pattern ELSE step(k)
    BY <1>4
<1>6. \A k : step(k) = ThroughRow(Through[k - 1], k - 1)
    BY DEF ThroughRow
<1> HIDE DEF Equation, step
<1>9. Through[0] = pattern
    <2>1. 0 \in 0 .. Dimension
        BY RowsAreNatural
    <2> QED
        BY <1>5, <2>1
<1>7. ASSUME NEW k \in Rows PROVE Through[k + 1] = ThroughRow(Through[k], k)
    <2>1. PICK next \in 0 .. Dimension : next = k + 1 /\ next # 0 /\ next - 1 = k
        BY RowsAreNatural
    <2>2. Through[next] = step(next)
        BY <1>5, <2>1
    <2>3. step(next) = ThroughRow(Through[k], k)
        BY <1>6, <2>1
    <2> QED
        BY <2>1, <2>2, <2>3
<1>8. \A k \in 0 .. Dimension : Through[k] \in [Rows -> SUBSET Rows]
    <2> DEFINE Failing == {k \in 0 .. Dimension : Through[k] \notin [Rows -> SUBSET Rows]}
    <2> SUFFICES ASSUME Failing # {} PROVE FALSE
        OBVIOUS
    <2>1. PICK m \in Failing : \A x \in Failing : m <= x
        <3>1. Failing \in SUBSET Nat
            BY RowsAreNatural
        <3> QED
            BY <3>1, LeastNatural
    <2>2. m # 0
        BY <1>9, <2>1 DEF TypeOK
    <2>3. m - 1 \in Rows /\ m - 1 \in 0 .. Dimension /\ m - 1 < m /\ m - 1 + 1 = m
        BY <2>1, <2>2, RowsAreNatural
    <2>4. Through[m - 1] \in [Rows -> SUBSET Rows]
        BY <2>1, <2>3
    <2>5. Through[m - 1 + 1] \in [Rows -> SUBSET Rows]
        BY <1>7, <2>3, <2>4, ThroughRowIsAPattern
    <2> QED
        BY <2>1, <2>3, <2>5
<1> QED
    BY <1>7, <1>8, <1>9

\* More rows to go through, more paths.
LEMMA ThroughGrows ==
    ASSUME TypeOK, NEW low \in 0 .. Dimension, NEW high \in 0 .. Dimension, low <= high,
           NEW i \in Rows
    PROVE  Through[low][i] \subseteq Through[high][i]
<1> DEFINE Failing == {m \in 0 .. Dimension :
                          low <= m /\ ~(Through[low][i] \subseteq Through[m][i])}
<1> SUFFICES ASSUME Failing # {} PROVE FALSE
    OBVIOUS
<1>1. PICK m \in Failing : \A x \in Failing : m <= x
    <2>1. Failing \in SUBSET Nat
        BY RowsAreNatural
    <2> QED
        BY <2>1, LeastNatural
<1>2. m # low
    BY <1>1
<1>3. PICK k \in Rows : k + 1 = m /\ low <= k /\ k < m /\ k \in 0 .. Dimension
    <2>1. m - 1 \in Rows /\ m - 1 + 1 = m /\ low <= m - 1 /\ m - 1 < m /\ m - 1 \in 0 .. Dimension
        BY <1>1, <1>2, RowsAreNatural
    <2> QED
        BY <2>1
<1>4. Through[low][i] \subseteq Through[k][i]
    BY <1>1, <1>3
<1>5. Through[m] = ThroughRow(Through[k], k)
    BY <1>3, ThroughByRows
<1>6. Through[k][i] \subseteq Through[m][i]
    BY <1>5 DEF ThroughRow
<1> QED
    BY <1>1, <1>4, <1>6

\* What a closed pattern that holds the input contains: the paths through lower rows.
Closed(g) ==
    /\ \A r \in Rows : pattern[r] \cup {r} \subseteq g[r]
    /\ \A r \in Rows : \A k \in g[r] : k < r => {c \in g[k] : c > k} \subseteq g[r]

LEMMA FillIsNeeded ==
    ASSUME TypeOK, NEW g \in [Rows -> SUBSET Rows], Closed(g), NEW i \in Rows
    PROVE  FillRow(i) \subseteq g[i]
<1> DEFINE Holds(m) == \A x, y \in Rows : m <= x /\ m <= y /\ y \in Through[m][x] => y \in g[x]
           Failing == {m \in 0 .. Dimension : ~Holds(m)}
<1>1. Failing = {}
    <2> SUFFICES ASSUME Failing # {} PROVE FALSE
        OBVIOUS
    <2>1. PICK m \in Failing : \A x \in Failing : m <= x
        <3>1. Failing \in SUBSET Nat
            BY RowsAreNatural
        <3> QED
            BY <3>1, LeastNatural
    <2>2. m # 0
        <3>1. Holds(0)
            BY ThroughByRows DEF Closed
        <3> QED
            BY <2>1, <3>1
    <2>3. PICK k \in Rows : k + 1 = m /\ k < m /\ k \in 0 .. Dimension /\ k \in Nat
        <3>1. m - 1 \in Rows /\ m - 1 + 1 = m /\ m - 1 < m /\ m - 1 \in 0 .. Dimension
            BY <2>1, <2>2, RowsAreNatural
        <3> QED
            BY <3>1, RowsAreNatural
    <2>4. Holds(k)
        <3>1. k \notin Failing
            BY <2>1, <2>3, RowsAreNatural
        <3> QED
            BY <2>3, <3>1
    <2>5. Through[m] = ThroughRow(Through[k], k)
        BY <2>3, ThroughByRows
    <2>6. ASSUME NEW x \in Rows, NEW y \in Rows, m <= x, m <= y, y \in Through[m][x]
          PROVE  y \in g[x]
        <3>1. k < x /\ k < y /\ k <= x /\ k <= y /\ k <= k
            BY <2>3, <2>6, RowsAreNatural
        <3>2. y \in Through[k][x] \/ (k \in Through[k][x] /\ y \in Through[k][k])
            BY <2>5, <2>6 DEF ThroughRow
        <3>3. CASE y \in Through[k][x]
            BY <2>4, <3>1, <3>3
        <3>4. CASE k \in Through[k][x] /\ y \in Through[k][k]
            <4>1. k \in g[x] /\ y \in g[k]
                BY <2>4, <3>1, <3>4
            <4>2. y > k
                BY <2>3, <3>1, RowsAreNatural
            <4> QED
                BY <3>1, <4>1, <4>2 DEF Closed
        <3> QED
            BY <3>2, <3>3, <3>4
    <2> QED
        BY <2>1, <2>6
<1>2. ASSUME NEW j \in FillRow(i) PROVE j \in g[i]
    <2>1. j \in Rows /\ (i = j \/ j \in Through[IF i < j THEN i ELSE j][i])
        BY <1>2 DEF FillRow
    <2>2. CASE i = j
        BY <2>2 DEF Closed
    <2>3. CASE j \in Through[IF i < j THEN i ELSE j][i]
        <3>1. PICK m \in 0 .. Dimension : m = (IF i < j THEN i ELSE j) /\ m <= i /\ m <= j
            BY <2>1, RowsAreNatural
        <3>2. j \in Through[m][i] /\ Holds(m)
            BY <1>1, <2>3, <3>1
        <3> QED
            BY <2>1, <3>1, <3>2
    <2> QED
        BY <2>1, <2>2, <2>3
<1> QED
    BY <1>2

\* Paths stay in the block triangular form, and mirror where the input does.
LEMMA ThroughKeepsTheBlocks ==
    ASSUME TypeOK, BlockUpper(pattern, boundaries), NEW m \in 0 .. Dimension
    PROVE  /\ BlockUpper(Through[m], boundaries)
           /\ \A b \in Starts : IsSymmetric(b) =>
                  \A x, y \in BlockRows(b) : y \in Through[m][x] => x \in Through[m][y]
<1> DEFINE Mirror(b, p) == \A x, y \in BlockRows(b) : y \in p[x] => x \in p[y]
           Symmetric == {b \in Starts : IsSymmetric(b)}
           Holds(n) == /\ BlockUpper(Through[n], boundaries)
                       /\ \A b \in Symmetric : Mirror(b, Through[n])
           Failing == {n \in 0 .. Dimension : ~Holds(n)}
<1>1. SUFFICES ASSUME Failing # {} PROVE FALSE
    OBVIOUS
<1>2. PICK n \in Failing : \A x \in Failing : n <= x
    <2>1. Failing \in SUBSET Nat
        BY RowsAreNatural
    <2> QED
        BY <1>1, <2>1, LeastNatural
<1>3. n # 0
    <2>1. Holds(0)
        BY ThroughByRows DEF IsSymmetric
    <2> QED
        BY <1>2, <2>1
<1>4. PICK k \in Rows : k + 1 = n /\ k < n /\ k \in 0 .. Dimension /\ k \in Nat
    <2>1. n - 1 \in Rows /\ n - 1 + 1 = n /\ n - 1 < n /\ n - 1 \in 0 .. Dimension
        BY <1>2, <1>3, RowsAreNatural
    <2> QED
        BY <2>1, RowsAreNatural
<1>5. Holds(k)
    <2>1. k \notin Failing
        BY <1>2, <1>4, RowsAreNatural
    <2> QED
        BY <1>4, <2>1
<1>6. /\ Through[n] = ThroughRow(Through[k], k)
      /\ Through[k] \in [Rows -> SUBSET Rows]
    BY <1>4, ThroughByRows
<1>7. \A x \in Rows : \A y : y \in Through[n][x] <=>
          y \in Through[k][x] \/ (k \in Through[k][x] /\ y \in Through[k][k])
    BY <1>6 DEF ThroughRow
<1>8. \A x \in Rows : \A y \in Through[k][x] : \A b \in boundaries : b <= x => b <= y
    BY <1>5 DEF BlockUpper
<1>9. BlockUpper(Through[n], boundaries)
    <2>1. ASSUME NEW x \in Rows, NEW y \in Through[n][x], NEW b \in boundaries, b <= x
          PROVE  b <= y
        BY <1>7, <1>8, <2>1
    <2> QED
        BY <2>1 DEF BlockUpper
<1>10. ASSUME NEW b \in Symmetric PROVE Mirror(b, Through[n])
    <2>1. b \in boundaries /\ b \in Starts /\ b < Dimension
        BY RowsAreNatural DEF Starts, TypeOK
    <2>2. /\ BlockEnd(b) \in boundaries /\ BlockEnd(b) \in Nat /\ b \in Nat
          /\ BlockRows(b) = b .. BlockEnd(b) - 1 /\ BlockRows(b) \subseteq Rows
        BY <2>1, BlockIsAnInterval
    <2>3. \A x, y \in BlockRows(b) : y \in Through[k][x] => x \in Through[k][y]
        BY <1>5
    <2>4. ASSUME NEW x \in BlockRows(b), NEW y \in BlockRows(b), y \in Through[n][x]
          PROVE  x \in Through[n][y]
        <3>1. x \in Rows /\ y \in Rows /\ b <= x /\ y < BlockEnd(b) /\ x \in Nat /\ y \in Nat
            BY <2>2
        <3>2. CASE y \in Through[k][x]
            BY <1>7, <2>3, <3>1, <3>2
        <3>3. CASE k \in Through[k][x] /\ y \in Through[k][k]
            <4>1. b <= k
                BY <1>8, <2>1, <3>1, <3>3
            <4>2. ~(BlockEnd(b) <= k)
                <5>1. BlockEnd(b) <= k => BlockEnd(b) <= y
                    BY <1>8, <2>2, <3>3
                <5> QED
                    BY <2>2, <3>1, <5>1
            <4>3. k \in BlockRows(b)
                BY <1>4, <2>2, <4>1, <4>2
            <4>4. x \in Through[k][k] /\ k \in Through[k][y]
                BY <2>3, <3>3, <4>3
            <4> QED
                BY <1>7, <3>1, <4>4
        <3> QED
            BY <1>7, <2>4, <3>1, <3>2, <3>3
    <2> QED
        BY <2>4
<1> QED
    BY <1>2, <1>9, <1>10

\* The fill is one of the patterns that hold the input, are closed, and mirror.
LEMMA FillIsFilled ==
    ASSUME TypeOK, BlockUpper(pattern, boundaries)
    PROVE  /\ [r \in Rows |-> FillRow(r)] \in [Rows -> SUBSET Rows]
           /\ Filled([r \in Rows |-> FillRow(r)])
<1> DEFINE fill == [r \in Rows |-> FillRow(r)]
           least(r, c) == IF r < c THEN r ELSE c
<1>1. \A r, c \in Rows : /\ least(r, c) \in 0 .. Dimension
                         /\ least(r, c) = least(c, r)
                         /\ c < r => least(r, c) = c /\ least(c, r) = c
                         /\ least(r, r) = r
    BY RowsAreNatural
<1>2. \A r, c \in Rows : c \in fill[r] <=> r = c \/ c \in Through[least(r, c)][r]
    BY DEF FillRow
<1>3. \A r, c, k \in Rows : k < r /\ k < c => k + 1 \in 0 .. Dimension /\ k + 1 <= least(r, c)
    BY RowsAreNatural
<1> HIDE DEF least
<1>4. fill \in [Rows -> SUBSET Rows]
    BY DEF FillRow
<1>5. ASSUME NEW r \in Rows PROVE pattern[r] \cup {r} \subseteq fill[r]
    <2>1. r \in fill[r]
        BY <1>2
    <2>2. ASSUME NEW c \in pattern[r] PROVE c \in fill[r]
        <3>1. c \in Rows
            BY DEF TypeOK
        <3>2. least(r, c) \in 0 .. Dimension /\ 0 \in 0 .. Dimension /\ 0 <= least(r, c)
            BY <1>1, <3>1, RowsAreNatural
        <3>3. Through[0][r] \subseteq Through[least(r, c)][r]
            BY <3>2, ThroughGrows
        <3>4. c \in Through[least(r, c)][r]
            BY <3>3, ThroughByRows
        <3> QED
            BY <1>2, <3>1, <3>4
    <2> QED
        BY <2>1, <2>2
<1>6. ASSUME NEW r \in Rows, NEW k \in fill[r], k < r, NEW c \in fill[k], c > k
      PROVE  c \in fill[r]
    <2>1. k \in Rows /\ c \in Rows
        BY <1>4, <1>6
    <2>2. k \in Nat /\ r \in Nat /\ c \in Nat /\ k # r /\ k # c /\ k < c
        BY <1>6, <2>1, RowsAreNatural
    <2>3. k \in Through[k][r] /\ c \in Through[k][k]
        <3>1. least(r, k) = k /\ least(k, c) = k
            BY <1>1, <1>6, <2>1, <2>2
        <3> QED
            BY <1>2, <1>6, <2>1, <2>2, <3>1
    <2>4. PICK next \in 0 .. Dimension : next = k + 1 /\ next <= least(r, c)
        BY <1>3, <1>6, <2>1, <2>2
    <2>5. c \in Through[next][r]
        <3>1. Through[next] = ThroughRow(Through[k], k)
            BY <2>1, <2>4, ThroughByRows
        <3> QED
            BY <2>3, <3>1 DEF ThroughRow
    <2>6. least(r, c) \in 0 .. Dimension
        BY <1>1, <2>1
    <2>7. Through[next][r] \subseteq Through[least(r, c)][r]
        BY <2>4, <2>6, ThroughGrows
    <2> QED
        BY <1>2, <2>1, <2>5, <2>7
<1>7. ASSUME NEW b \in Starts, IsSymmetric(b), NEW r \in BlockRows(b), NEW c \in BlockRows(b),
             c \in fill[r]
      PROVE  r \in fill[c]
    <2>1. r \in Rows /\ c \in Rows
        <3>1. b \in boundaries /\ b < Dimension
            BY RowsAreNatural DEF Starts, TypeOK
        <3> QED
            BY <3>1, BlockIsAnInterval
    <2>2. least(r, c) \in 0 .. Dimension /\ least(r, c) = least(c, r)
        BY <1>1, <2>1
    <2>3. r = c \/ c \in Through[least(r, c)][r]
        BY <1>2, <1>7, <2>1
    <2>4. c \in Through[least(r, c)][r] => r \in Through[least(r, c)][c]
        BY <1>7, <2>2, ThroughKeepsTheBlocks
    <2> QED
        BY <1>2, <2>1, <2>2, <2>3, <2>4
<1> HIDE DEF fill
<1>8. Filled(fill)
    BY <1>5, <1>6, <1>7 DEF Filled
<1> QED
    BY <1>4, <1>8 DEF fill

-----------------------------------------------------------------------------
\* The state stays well typed, whatever the blocks and the pattern.
THEOREM TypeCorrect == Spec => []TypeOK
<1>1. IInv => TypeOK
    BY DEF IInv
<1> QED
    BY <1>1, IInvHolds, PTL

\* append_symbolic_pattern appends closed rows only: each has a slot for its input, its
\* diagonal, and every update that the rows before it make to it.
THEOREM AppendedRowsAreClosed == Spec => []FactorClosed
<1>1. IInv => FactorClosed
    BY DEF IInv
<1> QED
    BY <1>1, IInvHolds, PTL

\* When all is appended the factor is one of the closed patterns.
LEMMA FactorIsClosed ==
    ASSUME IInv, stage = "done"
    PROVE  Closed(factor) /\ factor \in [Rows -> SUBSET Rows]
<1>1. \A r \in Rows : Appended(r)
    BY RowsAreNatural DEF IInv, Layout, Frontier
<1> QED
    BY <1>1 DEF IInv, TypeOK, FactorClosed, Closed, LowerPart, UpperPart

\* What append_symbolic_pattern hands on: a closed pattern that holds the input and has
\* nothing left of a row's block, which is all that AnalysisPlan (IsFactor) and
\* RightLookingLU assume of the patterns they start from.
THEOREM FactorFitsThePlan ==
    Spec => [](stage = "done" => Closed(factor) /\ BlockUpper(factor, boundaries))
<1>1. IInv => (stage = "done" => Closed(factor) /\ BlockUpper(factor, boundaries))
    <2> SUFFICES ASSUME IInv, stage = "done"
                 PROVE  Closed(factor) /\ BlockUpper(factor, boundaries)
        OBVIOUS
    <2>1. Closed(factor)
        BY FactorIsClosed
    <2>2. BlockUpper(factor, boundaries)
        BY DEF IInv
    <2> QED
        BY <2>1, <2>2
<1> QED
    BY <1>1, IInvHolds, PTL

\* The row merge and the elimination tree both compute the fill of the fill path
\* theorem: all of it, and nothing else unless a block was symmetrized.
THEOREM FactorIsTheFill == Spec => []FactorIsFill
<1>1. IInv => FactorIsFill
    <2> SUFFICES ASSUME IInv, stage = "done" PROVE FactorIsFill
        BY DEF FactorIsFill
    <2>1. \A r \in Rows : FillRow(r) \subseteq factor[r]
        BY FactorIsClosed, FillIsNeeded DEF IInv
    <2>2. ASSUME enveloped = {}, NEW r \in Rows PROVE factor[r] \subseteq FillRow(r)
        <3> DEFINE fill == [i \in Rows |-> FillRow(i)]
        <3>1. fill \in [Rows -> SUBSET Rows] /\ Filled(fill)
            BY FillIsFilled DEF IInv, Layout
        <3> HIDE DEF fill
        <3>2. factor[r] \subseteq fill[r]
            BY <2>2, <3>1 DEF IInv, NothingExtra, Within
        <3> QED
            BY <3>2 DEF fill
    <2> QED
        BY <2>1, <2>2 DEF FactorIsFill
<1> QED
    BY <1>1, IInvHolds, PTL

\* A block flagged in structurally_symmetric_blocks has a symmetric factor, so the
\* right-looking plan may take the schedule of L for both triangles.
THEOREM SymmetricBlocksMirror == Spec => []FlaggedBlocksMirror
<1>1. IInv => FlaggedBlocksMirror
    <2> SUFFICES ASSUME IInv, stage = "done", NEW b \in symmetric PROVE Mirrors(b)
        BY DEF FlaggedBlocksMirror, Mirrors
    <2>1. b < begin
        BY DEF IInv, Layout, SymmetricStages
    <2> QED
        BY <2>1 DEF IInv, BlocksAreDone
<1> QED
    BY <1>1, IInvHolds, PTL

\* The tree that the climbs along shortcuts build is the elimination tree of the factor.
THEOREM ParentsAreFirstFill == Spec => []ParentIsFirstFill
<1>1. IInv => ParentIsFirstFill
    <2> SUFFICES ASSUME IInv, stage = "done", NEW b \in symmetric, NEW k \in BlockRows(b)
                 PROVE  LET below == {i \in BlockRows(b) : i > k /\ k \in factor[i]}
                        IN  parent[k] = IF below = {} THEN NoRow ELSE SetMin(below)
        BY DEF ParentIsFirstFill
    <2> DEFINE below == {i \in BlockRows(b) : i > k /\ k \in factor[i]}
    <2>1. b < begin /\ b \in boundaries /\ begin = Dimension
        BY DEF IInv, Layout, SymmetricStages, TypeOK
    <2>2. BlockRows(b) \subseteq Rows
        BY <2>1, BlockIsAnInterval DEF IInv
    <2>3. ParentIsFirst(b)
        BY <2>1 DEF IInv, BlocksAreDone
    <2>4. \A i \in below : parent[k] # NoRow /\ parent[k] <= i
        BY <2>3 DEF ParentIsFirst
    <2>5. parent[k] # NoRow => parent[k] \in below /\ parent[k] \in Nat
        <3>1. parent[k] # NoRow => parent[k] \in BlockRows(b) /\ k \in factor[parent[k]]
            BY <2>3 DEF ParentIsFirst
        <3>2. parent[k] # NoRow => k < parent[k] /\ parent[k] \in Nat /\ k \in Nat
            BY <2>2, <3>1, RowsAreNatural DEF IInv, Forest
        <3> QED
            BY <3>1, <3>2
    <2>6. below \in SUBSET Nat /\ \A i \in below : i \in Nat
        BY <2>2, RowsAreNatural
    <2> HIDE DEF below
    <2>7. CASE below = {}
        BY <2>5, <2>7 DEF below
    <2>8. CASE below # {}
        <3>1. SetMin(below) \in below /\ \A i \in below : SetMin(below) <= i
            BY <2>6, <2>8, SetMinOfRows
        <3>2. parent[k] \in below /\ parent[k] <= SetMin(below) /\ SetMin(below) <= parent[k]
            BY <2>4, <2>5, <2>8, <3>1
        <3>3. \A x, y \in Nat : x <= y /\ y <= x => x = y
            OBVIOUS
        <3>4. parent[k] = SetMin(below)
            BY <2>6, <3>1, <3>2, <3>3
        <3> QED
            BY <2>8, <3>4 DEF below
    <2> QED
        BY <2>7, <2>8
<1> QED
    BY <1>1, IInvHolds, PTL

\* Path compression is sound: between two climbs each shortcut leads along the path.
THEOREM ShortcutsStayInTheTree == Spec => []ShortcutsFollowTree
<1>1. IInv => ShortcutsFollowTree
    BY DEF IInv, Shortcuts, Climbing, ShortcutsFollowTree
<1> QED
    BY <1>1, IInvHolds, PTL
=============================================================================
