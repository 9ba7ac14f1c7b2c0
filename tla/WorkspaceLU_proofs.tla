-------------------------- MODULE WorkspaceLU_proofs --------------------------
(***************************************************************************)
(* Proofs about WorkspaceLU: whatever the pattern, the number of blocks,   *)
(* the bad pivots and the interleaving, no block observes what an earlier  *)
(* row left in its workspace, no two blocks hold the same row, and the     *)
(* launches implement the abstract elimination.                            *)
(*                                                                         *)
(* The argument: block w takes the positions w, w + G, w + 2G, ... of the  *)
(* level, G being the number of blocks, so the remainder of a position     *)
(* tells its block, and the schedule lists every row once.  A row depends  *)
(* on rows of earlier levels only, and their launches are over.  Until a   *)
(* report, the rows gathered are those at positions the blocks have        *)
(* passed; where a block is tells which steps its workspace has received.  *)
(***************************************************************************)
EXTENDS WorkspaceLU, WorkspaceConfiguration, LevelSchedule_proofs

\* The plan: a closed pattern, a schedule that lists every row once, the rows a row
\* depends on before its level.
PlanIsSound ==
    /\ Closed(factor)
    /\ offsets[0] = 0
    /\ \E last \in Nat : DOMAIN offsets = 0 .. last /\ offsets[last] = Dimension
    /\ \A a, b \in DOMAIN offsets : a <= b => offsets[a] <= offsets[b]
    /\ \A p, q \in Rows : schedule[p] = schedule[q] => p = q
    /\ \A r \in Rows : \E q \in Rows : schedule[q] = r
    /\ \A l \in DOMAIN offsets : l + 1 \in DOMAIN offsets =>
           \A q \in offsets[l] .. offsets[l + 1] - 1 : \A k \in Lower(factor, schedule[q]) :
               \E p \in 0 .. offsets[l] - 1 : schedule[p] = k

\* The blocks of the launch, and those that have taken a row.
AllBlocks  == 0 .. Workers - 1
Stride     == Cardinality(Grid)
Working(w) == pc[w] = "scatter" \/ Holding(w)

\* A block of the launch takes every Stride-th row of the level, from its own number on.
TakesItsTurns(w) ==
    /\ stage # "level" \/ w \notin Grid => pc[w] = "idle"
    /\ stage = "level" /\ w \in Grid => scheduled[w] % Stride = w
    /\ Working(w) => scheduled[w] < Width
    /\ pc[w] \notin {"update", "gather"} => pending[w] = {}

\* A block takes the pivots of its row in ascending order, in cells of that row.
HoldsItsRow(w) ==
    /\ lower[w] \subseteq Lower(factor, RowOf(w))
    /\ pc[w] = "scatter" => lower[w] = Lower(factor, RowOf(w))
    /\ pc[w] = "update" =>
           lower[w] # {} /\ pending[w] \subseteq Upper(factor, Min(lower[w]))
    /\ pc[w] = "gather" => lower[w] = {} /\ pending[w] \subseteq factor[RowOf(w)]
    /\ \A k \in Lower(factor, RowOf(w)) \ lower[w] : \A later \in lower[w] : k < later
    /\ Holding(w) => \A c \in factor[RowOf(w)] : workspace[w][c].row = RowOf(w)

BlockInOrder(w) == TakesItsTurns(w) /\ (Working(w) => HoldsItsRow(w))

\* What holds after a report as well.
SInv ==
    /\ TypeOK
    /\ PlanIsSound
    /\ stage = "done" => offsets[level + 1] = Dimension
    /\ \A w \in AllBlocks : BlockInOrder(w)

-----------------------------------------------------------------------------
\* Remainders: which block's turn a position is.
LEMMA TurnIsABlock ==
    ASSUME NEW G \in Nat \ {0}, NEW q \in Nat
    PROVE  q % G \in 0 .. G - 1
    OBVIOUS

LEMMA FirstTurn ==
    ASSUME NEW G \in Nat \ {0}, NEW w \in 0 .. G - 1
    PROVE  w % G = w
    OBVIOUS

LEMMA Division ==
    ASSUME NEW G \in Nat \ {0}, NEW q \in Nat
    PROVE  q = G * (q \div G) + (q % G) /\ q \div G \in Nat
<1>1. q = G * (q \div G) + (q % G)
    OBVIOUS
<1>2. q \div G \in Int
    OBVIOUS
<1>3. q \div G >= 0
    OBVIOUS
<1> QED
    BY <1>1, <1>2, <1>3

\* Multiples of G that are less than G apart are equal.
LEMMA CloseMultiples ==
    ASSUME NEW G \in Nat \ {0}, NEW a \in Int, NEW b \in Int,
           -G < G * a - G * b, G * a - G * b < G
    PROVE  a = b
<1>1. CASE a > b
    <2>1. PICK d \in Nat : a = b + 1 + d
        <3>1. a - b - 1 \in Nat
            BY <1>1
        <3> QED
            BY <3>1
    <2>2. G * a = G * b + G + G * d
        BY <2>1
    <2>3. G * d \in Nat
        OBVIOUS
    <2> QED
        BY <2>2, <2>3
<1>2. CASE b > a
    <2>1. PICK d \in Nat : b = a + 1 + d
        <3>1. b - a - 1 \in Nat
            BY <1>2
        <3> QED
            BY <3>1
    <2>2. G * b = G * a + G + G * d
        BY <2>1
    <2>3. G * d \in Nat
        OBVIOUS
    <2> QED
        BY <2>2, <2>3
<1> QED
    BY <1>1, <1>2

LEMMA OneTurnInAStride ==
    ASSUME NEW G \in Nat \ {0}, NEW q \in Nat, NEW x \in Nat,
           q % G = x % G, x <= q, q < x + G
    PROVE  q = x
<1> DEFINE a == q \div G
           b == x \div G
<1>1. /\ q = G * a + (q % G) /\ x = G * b + (x % G)
      /\ a \in Int /\ b \in Int
      /\ q % G \in Nat /\ x % G \in Nat
    BY Division, TurnIsABlock
<1>2. -G < G * a - G * b /\ G * a - G * b < G
    BY <1>1
<1>3. a = b
    BY <1>1, <1>2, CloseMultiples
<1> QED
    BY <1>1, <1>3

LEMMA NextTurn ==
    ASSUME NEW G \in Nat \ {0}, NEW q \in Nat
    PROVE  (q + G) % G = q % G
<1> DEFINE a == q \div G
           b == (q + G) \div G
<1>1. q = G * a + (q % G) /\ a \in Nat /\ q % G \in 0 .. G - 1
    BY Division, TurnIsABlock
<1>2. q + G = G * b + ((q + G) % G) /\ b \in Nat /\ (q + G) % G \in 0 .. G - 1
    <2>1. q + G \in Nat
        OBVIOUS
    <2> QED
        BY <2>1, Division, TurnIsABlock
<1>3. G * (a + 1) = G * a + G
    BY <1>1
<1> HIDE DEF a, b
<1>4. -G < G * (a + 1) - G * b /\ G * (a + 1) - G * b < G
    BY <1>1, <1>2, <1>3
<1>5. a + 1 = b
    BY <1>1, <1>2, <1>4, CloseMultiples
<1> QED
    BY <1>1, <1>2, <1>3, <1>5

-----------------------------------------------------------------------------
LEMMA RowsAreNatural == Rows = 0 .. Dimension - 1 /\ Rows \subseteq Nat /\ Dimension \in Nat
    BY SizeAssumption DEF Rows

\* The bounds of the level.
LEMMA LevelBounds ==
    ASSUME SInv
    PROVE  /\ level \in DOMAIN offsets /\ level + 1 \in DOMAIN offsets
           /\ offsets[level] \in 0 .. Dimension /\ offsets[level + 1] \in 0 .. Dimension
           /\ offsets[level] <= offsets[level + 1]
           /\ Width = offsets[level + 1] - offsets[level]
           /\ Width \in 0 .. Dimension
<1>1. PICK last \in Nat : DOMAIN offsets = 0 .. last
    BY DEF SInv, PlanIsSound
<1>2. level \in Nat /\ level + 1 \in DOMAIN offsets
    BY DEF SInv, TypeOK
<1>3. level \in DOMAIN offsets /\ level <= level + 1
    BY <1>1, <1>2
<1>4. offsets[level] \in 0 .. Dimension /\ offsets[level + 1] \in 0 .. Dimension
    BY <1>2, <1>3 DEF SInv, TypeOK
<1>5. offsets[level] <= offsets[level + 1]
    BY <1>2, <1>3 DEF SInv, PlanIsSound
<1> QED
    BY <1>2, <1>3, <1>4, <1>5, RowsAreNatural DEF Width

\* The blocks of the launch.
LEMMA GridIsAnInterval ==
    ASSUME SInv
    PROVE  /\ Stride \in Nat /\ Stride <= Width /\ Stride <= Workers
           /\ Grid = 0 .. Stride - 1
           /\ Grid \subseteq AllBlocks
           /\ Grid # {} => Stride \in Nat \ {0}
           /\ Width # 0 => Grid # {}
<1> DEFINE n == IF Width < Workers THEN Width ELSE Workers
<1>1. n \in Nat /\ n <= Width /\ n <= Workers /\ (Width # 0 => n # 0)
    BY LevelBounds, SizeAssumption
<1>2. Grid = 0 .. n - 1
    BY DEF Grid
<1> HIDE DEF n
<1>3. Stride = n
    BY <1>1, <1>2, FS_Interval DEF Stride
<1>4. Grid \subseteq AllBlocks
    BY <1>1, <1>2, SizeAssumption DEF AllBlocks
<1>5. (Grid # {} => n # 0) /\ (n # 0 => 0 \in Grid)
    BY <1>1, <1>2
<1> QED
    BY <1>1, <1>2, <1>3, <1>4, <1>5

\* A position of the level, and its row.
LEMMA PositionInLevel ==
    ASSUME SInv, NEW p \in Nat, p < Width
    PROVE  /\ offsets[level] + p \in Rows
           /\ offsets[level] + p \in offsets[level] .. offsets[level + 1] - 1
           /\ schedule[offsets[level] + p] \in Rows
<1>1. offsets[level] + p \in Rows
      /\ offsets[level] + p \in offsets[level] .. offsets[level + 1] - 1
    BY LevelBounds, RowsAreNatural
<1> QED
    BY <1>1 DEF SInv, TypeOK

LEMMA BlocksAreTyped ==
    ASSUME SInv, NEW w \in Grid
    PROVE  /\ w \in AllBlocks /\ scheduled[w] \in Nat /\ BlockInOrder(w)
           /\ lower[w] \in SUBSET Rows /\ pending[w] \in SUBSET Rows
           /\ Stride \in Nat \ {0}
<1>1. w \in AllBlocks /\ Stride \in Nat \ {0}
    BY GridIsAnInterval
<1> QED
    BY <1>1, SizeAssumption, RowsAreNatural DEF SInv, TypeOK, AllBlocks

\* A block that works is one of the launch, on a row of the level.
LEMMA WorkingInLevel ==
    ASSUME SInv, NEW w \in AllBlocks, Working(w)
    PROVE  w \in Grid /\ stage = "level" /\ scheduled[w] < Width /\ RowOf(w) \in Rows
<1>1. BlockInOrder(w) /\ pc[w] # "idle"
    BY DEF SInv, Working, Holding
<1>2. w \in Grid /\ stage = "level" /\ scheduled[w] < Width
    BY <1>1 DEF BlockInOrder, TakesItsTurns
<1>3. RowOf(w) \in Rows
    BY <1>2, BlocksAreTyped, PositionInLevel DEF RowOf
<1> QED
    BY <1>2, <1>3

\* Blocks at different places of the level have different rows.
LEMMA RowsOfBlocksDiffer ==
    ASSUME SInv, stage = "level", NEW v \in Grid, NEW w \in Grid,
           scheduled[v] < Width, scheduled[w] < Width, RowOf(v) = RowOf(w)
    PROVE  v = w
<1>1. /\ scheduled[v] \in Nat /\ scheduled[w] \in Nat
      /\ BlockInOrder(v) /\ BlockInOrder(w)
    BY BlocksAreTyped
<1>2. offsets[level] + scheduled[v] \in Rows /\ offsets[level] + scheduled[w] \in Rows
    BY <1>1, PositionInLevel
<1>3. offsets[level] + scheduled[v] = offsets[level] + scheduled[w]
    BY <1>2 DEF SInv, PlanIsSound, RowOf
<1>4. scheduled[v] = scheduled[w]
    BY <1>1, <1>3, LevelBounds
<1> QED
    BY <1>1, <1>4 DEF BlockInOrder, TakesItsTurns

\* The next pivot of a block.
LEMMA NextPivot ==
    ASSUME SInv, NEW w \in Grid, Working(w), lower[w] # {}
    PROVE  /\ Min(lower[w]) \in lower[w]
           /\ Min(lower[w]) \in Rows
           /\ Min(lower[w]) < RowOf(w)
           /\ Min(lower[w]) \in factor[RowOf(w)]
           /\ Min(lower[w]) \in Lower(factor, RowOf(w))
           /\ \A k \in lower[w] : Min(lower[w]) <= k
<1>1. /\ lower[w] \in SUBSET Nat /\ lower[w] \subseteq Rows
      /\ lower[w] \subseteq Lower(factor, RowOf(w))
    BY BlocksAreTyped, RowsAreNatural DEF BlockInOrder, HoldsItsRow
<1>2. Min(lower[w]) \in lower[w] /\ \A k \in lower[w] : Min(lower[w]) <= k
    BY <1>1, MinOfNaturals
<1> QED
    BY <1>1, <1>2 DEF Lower

-----------------------------------------------------------------------------
LEMMA InitIsInOrder == Init => SInv
<1> SUFFICES ASSUME Init PROVE SInv
    OBVIOUS
<1> DEFINE deps == [r \in Rows |-> Lower(factor, r)]
           levels == RowLevels(Rows, deps)
<1>1. /\ Dimension \in Nat \ {0}
      /\ Rows = 0 .. Dimension - 1
      /\ factor \in [Rows -> SUBSET Rows]
      /\ Closed(factor)
      /\ offsets = LevelOffsets(levels) /\ schedule = ScheduledRows(levels)
    BY SizeAssumption DEF Init, Rows
<1>2. \A r \in 0 .. Dimension - 1 : deps[r] \subseteq 0 .. r - 1
    BY <1>1 DEF Lower
<1>3. /\ Levelled(levels, Dimension)
      /\ levels \in [0 .. Dimension - 1 -> Nat]
      /\ \A r \in 0 .. Dimension - 1 : levels[r] <= r
      /\ \A r \in 0 .. Dimension - 1 : \A d \in deps[r] : levels[d] < levels[r]
    <2> HIDE DEF deps
    <2>2. /\ Levelled(levels, Dimension)
          /\ \A r \in 0 .. Dimension - 1 : levels[r] <= r
          /\ \A r \in 0 .. Dimension - 1 : \A d \in deps[r] : levels[d] < levels[r]
        BY <1>1, <1>2, RowLevelsRespectDependencies
    <2> QED
        BY <2>2 DEF Levelled
<1>4. \A r \in Rows : \A k \in Lower(factor, r) : k \in Rows /\ levels[k] < levels[r]
    BY <1>1, <1>3 DEF Lower
<1> HIDE DEF levels, deps
<1>5. Levels(levels) \in 1 .. Dimension /\ \A r \in Rows : levels[r] < Levels(levels)
    <2>1. Dimension \in Nat \ {0} /\ Levelled(levels, Dimension)
        BY <1>1, <1>3
    <2>2. /\ Levels(levels) \in 1 .. Dimension
          /\ \A r \in 0 .. Dimension - 1 : levels[r] \in 0 .. Levels(levels) - 1
        BY <2>1, LevelsAreCounted
    <2> QED
        BY <1>1, <2>2
<1>6. /\ offsets \in [0 .. Levels(levels) -> 0 .. Dimension]
      /\ offsets[0] = 0
      /\ offsets[Levels(levels)] = Dimension
      /\ \A a, b \in 0 .. Levels(levels) : a <= b => offsets[a] <= offsets[b]
    BY <1>1, <1>3, OffsetsAscend
<1>7. /\ schedule \in [Rows -> Rows]
      /\ \A i \in Rows : Place(levels, schedule[i]) = i
      /\ \A r \in Rows :
             /\ Place(levels, r) \in Rows /\ schedule[Place(levels, r)] = r
             /\ offsets[levels[r]] <= Place(levels, r)
             /\ Place(levels, r) < offsets[levels[r] + 1]
    BY <1>1, <1>3, ScheduleIsAPermutation
<1>8. PlanIsSound
    <2>1. \A p, q \in Rows : schedule[p] = schedule[q] => p = q
        BY <1>7
    <2>2. \A r \in Rows : \E q \in Rows : schedule[q] = r
        BY <1>7
    <2>3. ASSUME NEW l \in DOMAIN offsets, l + 1 \in DOMAIN offsets,
                 NEW q \in offsets[l] .. offsets[l + 1] - 1,
                 NEW k \in Lower(factor, schedule[q])
          PROVE  \E p \in 0 .. offsets[l] - 1 : schedule[p] = k
        <3>1. /\ l \in 0 .. Levels(levels) /\ l + 1 \in 0 .. Levels(levels)
              /\ offsets[l] \in 0 .. Dimension /\ offsets[l + 1] \in 0 .. Dimension
            BY <1>6, <2>3
        <3>2. q \in Rows
            BY <1>1, <3>1
        <3> DEFINE r == schedule[q]
        <3>3. r \in Rows /\ Place(levels, r) = q
            BY <1>7, <3>2
        <3>4. offsets[levels[r]] <= q /\ q < offsets[levels[r] + 1]
            BY <1>7, <3>3
        <3>5. k \in Rows /\ levels[k] < levels[r]
            BY <1>4, <3>3
        <3> HIDE DEF r
        <3>6. /\ levels[r] \in Nat /\ levels[k] \in Nat
              /\ levels[r] < Levels(levels) /\ levels[k] < Levels(levels)
            BY <1>1, <1>3, <1>5, <3>3, <3>5
        <3>7. /\ levels[k] + 1 \in 0 .. Levels(levels) /\ levels[r] \in 0 .. Levels(levels)
            BY <1>5, <3>6
        <3>8. offsets[levels[r]] \in 0 .. Dimension /\ offsets[levels[k] + 1] \in 0 .. Dimension
            BY <1>6, <3>7
        <3>9. levels[r] <= l
            <4> SUFFICES ASSUME l + 1 <= levels[r] PROVE FALSE
                BY <3>1, <3>6
            <4>1. offsets[l + 1] <= offsets[levels[r]]
                BY <1>6, <3>1, <3>7
            <4> QED
                BY <3>1, <3>4, <3>8, <4>1, <1>1
        <3>10. levels[k] + 1 <= l
            BY <3>1, <3>5, <3>6, <3>9
        <3>11. offsets[levels[k] + 1] <= offsets[l]
            BY <1>6, <3>1, <3>7, <3>10
        <3>12. /\ Place(levels, k) \in Rows /\ schedule[Place(levels, k)] = k
               /\ Place(levels, k) < offsets[levels[k] + 1]
            BY <1>7, <3>5
        <3>13. Place(levels, k) \in 0 .. offsets[l] - 1
            BY <1>1, <3>1, <3>8, <3>11, <3>12
        <3> QED
            BY <3>12, <3>13
    <2>4. \A a, b \in DOMAIN offsets : a <= b => offsets[a] <= offsets[b]
        BY <1>6
    <2>5. \E last \in Nat : DOMAIN offsets = 0 .. last /\ offsets[last] = Dimension
        <3>1. Levels(levels) \in Nat
            BY <1>5
        <3> QED
            BY <1>6, <3>1
    <2> QED
        BY <1>1, <1>6, <2>1, <2>2, <2>3, <2>4, <2>5 DEF PlanIsSound
<1>9. TypeOK
    <2>1. offsets \in [DOMAIN offsets -> 0 .. Dimension]
        BY <1>6
    <2>2. level \in Nat /\ level + 1 \in DOMAIN offsets
        <3>1. 1 \in 0 .. Levels(levels) /\ level = 0
            BY <1>5 DEF Init
        <3> QED
            BY <1>6, <3>1
    <2>3. applied \in [Steps(Rows) -> 0 .. 2] /\ status \in Rows \cup {NoReport}
          /\ stage \in {"launch", "level", "done"}
        BY DEF Init
    <2>4. workspace \in [0 .. Workers - 1 ->
              [Rows -> [row : Rows \cup {NoRow}, work : [Rows -> 0 .. 2]]]]
        BY DEF Init
    <2>5. /\ pc \in [0 .. Workers - 1 ->
                         {"idle", "take", "scatter", "pivot", "update", "gather"}]
          /\ lower \in [0 .. Workers - 1 -> SUBSET Rows]
          /\ pending \in [0 .. Workers - 1 -> SUBSET Rows]
        BY DEF Init
    <2>6. scheduled \in [0 .. Workers - 1 -> 0 .. Dimension + Workers - 1]
        BY <1>1, SizeAssumption DEF Init
    <2>7. tiny \subseteq Rows
        BY SizeAssumption DEF Init
    <2> QED
        BY <1>1, <1>7, <2>1, <2>2, <2>3, <2>4, <2>5, <2>6, <2>7 DEF TypeOK
<1>10. \A w \in AllBlocks : BlockInOrder(w)
    BY DEF Init, AllBlocks, BlockInOrder, TakesItsTurns, Working, Holding
<1> QED
    BY <1>8, <1>9, <1>10 DEF Init, SInv

-----------------------------------------------------------------------------
\* What no step of a block changes.
LEMMA Frame ==
    ASSUME UNCHANGED <<plan, host>>
    PROVE  /\ factor' = factor /\ offsets' = offsets /\ schedule' = schedule /\ tiny' = tiny
           /\ stage' = stage /\ level' = level
           /\ Width' = Width /\ Grid' = Grid /\ Stride' = Stride
    BY DEF plan, host, Width, Grid, Stride

LEMMA PlanStays ==
    ASSUME PlanIsSound, UNCHANGED plan
    PROVE  PlanIsSound'
    BY DEF PlanIsSound, plan, Closed, Lower, Upper

\* A block that does not move.
Stays(v) ==
    /\ pc'[v] = pc[v] /\ scheduled'[v] = scheduled[v] /\ lower'[v] = lower[v]
    /\ pending'[v] = pending[v] /\ workspace'[v] = workspace[v]

LEMMA BlockThatStays ==
    ASSUME UNCHANGED <<plan, host>>, NEW v, Stays(v)
    PROVE  /\ RowOf(v)' = RowOf(v) /\ (Working(v)' <=> Working(v))
           /\ (Holding(v)' <=> Holding(v))
           /\ BlockInOrder(v) => BlockInOrder(v)'
<1>1. /\ factor' = factor /\ offsets' = offsets /\ schedule' = schedule
      /\ stage' = stage /\ level' = level
      /\ Width' = Width /\ Grid' = Grid /\ Stride' = Stride
    BY Frame
<1>2. RowOf(v)' = RowOf(v) /\ (Working(v)' <=> Working(v)) /\ (Holding(v)' <=> Holding(v))
    BY <1>1 DEF RowOf, Working, Holding, Stays
<1>3. \A k : Lower(factor', k) = Lower(factor, k) /\ Upper(factor', k) = Upper(factor, k)
    BY <1>1
<1>4. TakesItsTurns(v) => TakesItsTurns(v)'
    BY <1>1, <1>2 DEF TakesItsTurns, Stays
<1>5. HoldsItsRow(v) => HoldsItsRow(v)'
    BY <1>1, <1>2, <1>3 DEF HoldsItsRow, Stays
<1> QED
    BY <1>2, <1>4, <1>5 DEF BlockInOrder

\* A step of one block.
LEMMA OneBlockMoves ==
    ASSUME SInv, NEW w \in Grid, UNCHANGED <<plan, host>>, TypeOK', BlockInOrder(w)',
           \A v \in AllBlocks : v # w => Stays(v)
    PROVE  SInv'
<1>1. PlanIsSound'
    BY PlanStays DEF SInv
<1>2. ASSUME NEW v \in AllBlocks PROVE BlockInOrder(v)'
    BY BlockThatStays DEF SInv
<1>3. stage' = "done" => offsets'[level' + 1] = Dimension
    BY Frame DEF SInv
<1> QED
    BY <1>1, <1>2, <1>3 DEF SInv, AllBlocks

-----------------------------------------------------------------------------
\* The structure after each action.
LEMMA LaunchInOrder ==
    ASSUME SInv, Launch
    PROVE  SInv'
<1>1. /\ stage = "launch" /\ stage' = "level"
      /\ UNCHANGED <<plan, applied, status, level, workspace, lower, pending>>
    BY DEF Launch
<1>2. factor' = factor /\ offsets' = offsets /\ schedule' = schedule /\ tiny' = tiny
    BY <1>1 DEF plan
<1>3. Width' = Width /\ Grid' = Grid /\ Stride' = Stride
    BY <1>1, <1>2 DEF Width, Grid, Stride
<1>4. /\ pc \in [AllBlocks -> {"idle", "take", "scatter", "pivot", "update", "gather"}]
      /\ DOMAIN scheduled = AllBlocks
    BY DEF SInv, TypeOK, AllBlocks
<1>5. ASSUME NEW v \in AllBlocks
      PROVE  /\ pc[v] = "idle" /\ pending[v] = {}
             /\ pc'[v] = IF v \in Grid THEN "take" ELSE "idle"
             /\ scheduled'[v] = v
    <2>1. BlockInOrder(v)
        BY DEF SInv
    <2>2. pc[v] = "idle" /\ pending[v] = {}
        BY <1>1, <2>1 DEF BlockInOrder, TakesItsTurns
    <2> QED
        BY <1>4, <2>2 DEF Launch
<1>6. TypeOK'
    <2>1. pc' \in [0 .. Workers - 1 ->
                       {"idle", "take", "scatter", "pivot", "update", "gather"}]
        BY <1>4 DEF Launch, AllBlocks
    <2>2. scheduled' \in [0 .. Workers - 1 -> 0 .. Dimension + Workers - 1]
        BY <1>4, SizeAssumption DEF Launch, AllBlocks
    <2> QED
        BY <1>1, <1>2, <2>1, <2>2 DEF SInv, TypeOK
<1>7. PlanIsSound'
    BY <1>1, PlanStays DEF SInv
<1>8. ASSUME NEW v \in AllBlocks PROVE BlockInOrder(v)'
    <2>1. ~Working(v)' /\ pc'[v] \notin {"update", "gather"} /\ pending'[v] = {}
        BY <1>1, <1>5 DEF Working, Holding
    <2>2. v \in Grid => scheduled'[v] % Stride = v
        <3> SUFFICES ASSUME v \in Grid PROVE v % Stride = v
            BY <1>5
        <3> QED
            BY GridIsAnInterval, FirstTurn
    <2>3. v \notin Grid => pc'[v] = "idle"
        BY <1>5
    <2> QED
        BY <1>1, <1>3, <2>1, <2>2, <2>3 DEF BlockInOrder, TakesItsTurns
<1> QED
    BY <1>1, <1>6, <1>7, <1>8 DEF SInv, AllBlocks

LEMMA FinishLevelInOrder ==
    ASSUME SInv, FinishLevel
    PROVE  SInv' /\ \A v \in AllBlocks : pc[v] = "idle" /\ pending[v] = {}
<1>1. /\ stage = "level" /\ UNCHANGED <<plan, applied, status, blocks>>
      /\ level' = IF offsets[level + 1] = Dimension THEN level ELSE level + 1
      /\ stage' = IF offsets[level + 1] = Dimension THEN "done" ELSE "launch"
    BY DEF FinishLevel
<1>2. ASSUME NEW v \in AllBlocks PROVE pc[v] = "idle" /\ pending[v] = {}
    <2>1. BlockInOrder(v)
        BY DEF SInv
    <2>2. pc[v] = "idle"
        BY <2>1 DEF FinishLevel, BlockInOrder, TakesItsTurns
    <2> QED
        BY <2>1, <2>2 DEF BlockInOrder, TakesItsTurns
<1>3. level' \in Nat /\ level' + 1 \in DOMAIN offsets
    <2>1. PICK last \in Nat : DOMAIN offsets = 0 .. last /\ offsets[last] = Dimension
        BY DEF SInv, PlanIsSound
    <2>2. level \in Nat /\ level + 1 \in 0 .. last
        BY <2>1 DEF SInv, TypeOK
    <2>3. CASE offsets[level + 1] = Dimension
        BY <1>1, <2>1, <2>2, <2>3
    <2>4. CASE offsets[level + 1] # Dimension
        <3>1. level + 1 # last
            BY <2>1, <2>4
        <3>2. level + 1 + 1 \in 0 .. last /\ level' = level + 1
            BY <1>1, <2>2, <2>4, <3>1
        <3> QED
            BY <2>1, <2>2, <3>2
    <2> QED
        BY <2>3, <2>4
<1>4. TypeOK'
    BY <1>1, <1>3 DEF SInv, TypeOK, plan, blocks
<1>5. PlanIsSound'
    BY <1>1, PlanStays DEF SInv
<1>6. ASSUME NEW v \in AllBlocks PROVE BlockInOrder(v)'
    BY <1>1, <1>2 DEF BlockInOrder, TakesItsTurns, Working, Holding, blocks
<1>7. stage' = "done" => offsets'[level' + 1] = Dimension
    BY <1>1 DEF plan
<1> QED
    BY <1>2, <1>4, <1>5, <1>6, <1>7 DEF SInv, AllBlocks

LEMMA TakeRowInOrder ==
    ASSUME SInv, NEW w \in Grid, TakeRow(w)
    PROVE  SInv' /\ \A v \in AllBlocks : v # w => Stays(v)
<1>1. /\ pc[w] = "take" /\ w \in AllBlocks /\ BlockInOrder(w)
      /\ UNCHANGED <<plan, applied, status, host, workspace, scheduled, pending>>
    BY BlocksAreTyped DEF TakeRow
<1>2. /\ pc' \in [0 .. Workers - 1 ->
                      {"idle", "take", "scatter", "pivot", "update", "gather"}]
      /\ \A v \in AllBlocks : v # w => pc'[v] = pc[v]
    BY <1>1 DEF TakeRow, SInv, TypeOK, AllBlocks
<1>3. lower' \in [0 .. Workers - 1 -> SUBSET Rows]
      /\ \A v \in AllBlocks : v # w => lower'[v] = lower[v]
    <2>1. CASE scheduled[w] < Width
        <3>1. RowOf(w) \in Rows
            BY <2>1, BlocksAreTyped, PositionInLevel DEF RowOf
        <3>2. Lower(factor, RowOf(w)) \subseteq Rows
            BY <3>1 DEF SInv, TypeOK, Lower
        <3>3. lower' = [lower EXCEPT ![w] = Lower(factor, RowOf(w))]
            BY <2>1 DEF TakeRow
        <3> QED
            BY <3>2, <3>3 DEF SInv, TypeOK, AllBlocks
    <2>2. CASE ~(scheduled[w] < Width)
        BY <2>2 DEF TakeRow, SInv, TypeOK
    <2> QED
        BY <2>1, <2>2
<1>4. TypeOK'
    BY <1>1, <1>2, <1>3 DEF SInv, TypeOK, plan, host
<1>5. \A v \in AllBlocks : v # w => Stays(v)
    BY <1>1, <1>2, <1>3 DEF Stays
<1>6. BlockInOrder(w)'
    <2>1. /\ factor' = factor /\ stage' = stage /\ Width' = Width
          /\ Grid' = Grid /\ Stride' = Stride
        BY <1>1, Frame
    <2>2. RowOf(w)' = RowOf(w)
        BY <1>1, Frame DEF RowOf
    <2>3. stage = "level" /\ scheduled[w] % Stride = w /\ pending[w] = {}
        BY <1>1 DEF BlockInOrder, TakesItsTurns
    <2>4. CASE scheduled[w] < Width
        <3>1. pc'[w] = "scatter" /\ lower'[w] = Lower(factor, RowOf(w))
            BY <1>1, <2>4 DEF TakeRow, SInv, TypeOK, AllBlocks
        <3>2. TakesItsTurns(w)'
            BY <1>1, <2>1, <2>3, <2>4, <3>1 DEF TakesItsTurns
        <3>3. HoldsItsRow(w)'
            BY <2>1, <2>2, <3>1 DEF HoldsItsRow, Holding
        <3> QED
            BY <3>2, <3>3 DEF BlockInOrder
    <2>5. CASE ~(scheduled[w] < Width)
        <3>1. pc'[w] = "idle"
            BY <1>1, <2>5 DEF TakeRow, SInv, TypeOK, AllBlocks
        <3> QED
            BY <1>1, <2>1, <2>3, <3>1 DEF BlockInOrder, TakesItsTurns, Working, Holding
    <2> QED
        BY <2>4, <2>5
<1> QED
    BY <1>1, <1>4, <1>5, <1>6, OneBlockMoves

\* What the scatter leaves in a workspace.
LEMMA CellIsTyped ==
    ASSUME SInv, NEW r \in Rows, NEW c \in Rows
    PROVE  Cell(r, c) \in [row : Rows \cup {NoRow}, work : [Rows -> 0 .. 2]]
<1>1. \A k \in Rows :
          (IF <<r, k, c>> \in DOMAIN applied THEN applied[<<r, k, c>>] ELSE 0) \in 0 .. 2
    BY DEF SInv, TypeOK
<1> QED
    BY <1>1 DEF Cell

LEMMA ScatterInOrder ==
    ASSUME SInv, NEW w \in Grid, Scatter(w)
    PROVE  SInv' /\ \A v \in AllBlocks : v # w => Stays(v)
<1> DEFINE r == RowOf(w)
<1>1. /\ pc[w] = "scatter" /\ w \in AllBlocks /\ BlockInOrder(w)
      /\ UNCHANGED <<plan, applied, status, host, scheduled, lower, pending>>
      /\ pc' = [pc EXCEPT ![w] = "pivot"]
    BY BlocksAreTyped DEF Scatter
<1>2. Working(w) /\ r \in Rows
    BY <1>1, WorkingInLevel DEF Working
<1>3. factor[r] \subseteq Rows
    BY <1>2 DEF SInv, TypeOK
<1>4. workspace' = [workspace EXCEPT ![w] = [c \in Rows |->
          IF c \in factor[r] THEN Cell(r, c) ELSE workspace[w][c]]]
    BY DEF Scatter
<1>5. /\ pc' \in [0 .. Workers - 1 ->
                      {"idle", "take", "scatter", "pivot", "update", "gather"}]
      /\ pc'[w] = "pivot" /\ \A v \in AllBlocks : v # w => pc'[v] = pc[v]
    BY <1>1 DEF SInv, TypeOK, AllBlocks
<1>6. /\ workspace' \in [0 .. Workers - 1 ->
             [Rows -> [row : Rows \cup {NoRow}, work : [Rows -> 0 .. 2]]]]
      /\ \A v \in AllBlocks : v # w => workspace'[v] = workspace[v]
      /\ \A c \in factor[r] : workspace'[w][c] = Cell(r, c)
    <2>1. \A c \in Rows : (IF c \in factor[r] THEN Cell(r, c) ELSE workspace[w][c])
              \in [row : Rows \cup {NoRow}, work : [Rows -> 0 .. 2]]
        BY <1>1, <1>2, CellIsTyped DEF SInv, TypeOK, AllBlocks
    <2> HIDE DEF r
    <2> QED
        BY <1>1, <1>3, <1>4, <2>1 DEF SInv, TypeOK, AllBlocks
<1> HIDE DEF r
<1>7. TypeOK'
    BY <1>1, <1>5, <1>6 DEF SInv, TypeOK, plan, host
<1>8. \A v \in AllBlocks : v # w => Stays(v)
    BY <1>1, <1>5, <1>6 DEF Stays
<1>9. BlockInOrder(w)'
    <2>1. /\ factor' = factor /\ stage' = stage /\ Width' = Width
          /\ Grid' = Grid /\ Stride' = Stride
        BY <1>1, Frame
    <2>2. RowOf(w)' = r
        BY <1>1, Frame DEF RowOf, r
    <2>3. TakesItsTurns(w)'
        BY <1>1, <1>2, <1>5, <2>1 DEF BlockInOrder, TakesItsTurns
    <2>4. lower[w] = Lower(factor, r) /\ lower' = lower
        BY <1>1, <1>2 DEF BlockInOrder, HoldsItsRow, r
    <2>5. \A c \in factor[r] : workspace'[w][c].row = r
        <3>1. \A c : Cell(r, c).row = r
            BY DEF Cell
        <3> QED
            BY <1>6, <3>1
    <2>6. HoldsItsRow(w)'
        BY <1>5, <2>1, <2>2, <2>4, <2>5 DEF HoldsItsRow
    <2> QED
        BY <2>3, <2>6 DEF BlockInOrder
<1> QED
    BY <1>1, <1>7, <1>8, <1>9, OneBlockMoves

\* One more step on a cell: the cell keeps its row, the other cells and blocks all.
LEMMA WorkedIs ==
    ASSUME SInv, NEW w \in AllBlocks, NEW k \in Rows, NEW c \in Rows,
           workspace' = Worked(w, k, c)
    PROVE  /\ workspace' \in [AllBlocks ->
                  [Rows -> [row : Rows \cup {NoRow}, work : [Rows -> 0 .. 2]]]]
           /\ \A v \in AllBlocks : v # w => workspace'[v] = workspace[v]
           /\ \A d \in Rows : workspace'[w][d].row = workspace[w][d].row
           /\ \A d, p \in Rows : workspace'[w][d].work[p] =
                  IF d = c /\ p = k THEN Outcome(factor, View(w), <<RowOf(w), k, c>>)
                  ELSE workspace[w][d].work[p]
<1> DEFINE out == Outcome(factor, View(w), <<RowOf(w), k, c>>)
           cell == workspace[w][c]
           Cells == [row : Rows \cup {NoRow}, work : [Rows -> 0 .. 2]]
<1>1. out \in 0 .. 2
    BY DEF Outcome
<1>2. workspace' = [workspace EXCEPT ![w] = [workspace[w] EXCEPT ![c] =
          [workspace[w][c] EXCEPT !.work = [workspace[w][c].work EXCEPT ![k] = out]]]]
    BY DEF Worked
<1>3. workspace \in [AllBlocks -> [Rows -> Cells]]
    BY DEF SInv, TypeOK, AllBlocks
<1> DEFINE work == [cell.work EXCEPT ![k] = out]
           new == [cell EXCEPT !.work = work]
           cells == [workspace[w] EXCEPT ![c] = new]
<1>4. cell \in Cells /\ cell.work \in [Rows -> 0 .. 2]
    BY <1>3
<1> HIDE DEF out, cell
<1>5. work \in [Rows -> 0 .. 2] /\ \A p \in Rows : work[p] = IF p = k THEN out ELSE cell.work[p]
    BY <1>1, <1>4
<1>6. new \in Cells /\ new.row = cell.row /\ new.work = work
    <2> HIDE DEF work
    <2> QED
        BY <1>4, <1>5
<1>7. /\ cells \in [Rows -> Cells]
      /\ \A d \in Rows : cells[d] = IF d = c THEN new ELSE workspace[w][d]
    <2> HIDE DEF new, Cells
    <2> QED
        BY <1>3, <1>6
<1>8. workspace' = [workspace EXCEPT ![w] = cells]
    BY <1>2 DEF cell
<1> HIDE DEF work, new, cells, Cells
<1>9. workspace' \in [AllBlocks -> [Rows -> Cells]]
      /\ workspace'[w] = cells
      /\ \A v \in AllBlocks : v # w => workspace'[v] = workspace[v]
    BY <1>3, <1>7, <1>8
<1>10. \A d \in Rows : workspace'[w][d].row = workspace[w][d].row
    BY <1>6, <1>7, <1>9 DEF cell
<1>11. \A d, p \in Rows : workspace'[w][d].work[p] =
           IF d = c /\ p = k THEN out ELSE workspace[w][d].work[p]
    BY <1>5, <1>6, <1>7, <1>9 DEF cell
<1> QED
    BY <1>9, <1>10, <1>11 DEF out, Cells

\* What a step of the block that holds row r leaves of its order.
LEMMA BlockGoesOn ==
    ASSUME SInv, NEW w \in Grid, Working(w), UNCHANGED <<plan, host>>,
           scheduled'[w] = scheduled[w], pc'[w] # "idle",
           pc'[w] \notin {"update", "gather"} => pending'[w] = {}
    PROVE  /\ TakesItsTurns(w)'
           /\ RowOf(w)' = RowOf(w)
           /\ \A k : Lower(factor, k)' = Lower(factor, k) /\ Upper(factor, k)' = Upper(factor, k)
<1>1. w \in AllBlocks /\ BlockInOrder(w)
    BY BlocksAreTyped
<1>2. stage = "level" /\ scheduled[w] < Width
    BY <1>1, WorkingInLevel
<1>3. /\ factor' = factor /\ stage' = stage /\ Width' = Width
      /\ Grid' = Grid /\ Stride' = Stride /\ RowOf(w)' = RowOf(w)
    BY Frame DEF RowOf
<1>4. TakesItsTurns(w)'
    BY <1>1, <1>2, <1>3 DEF BlockInOrder, TakesItsTurns
<1> QED
    BY <1>3, <1>4

LEMMA PivotInOrder ==
    ASSUME SInv, NEW w \in Grid, Pivot(w)
    PROVE  SInv' /\ \A v \in AllBlocks : v # w => Stays(v)
<1> DEFINE k == Min(lower[w])
<1>1. /\ pc[w] = "pivot" /\ lower[w] # {} /\ w \in AllBlocks /\ BlockInOrder(w)
      /\ UNCHANGED <<plan, applied, host, scheduled, lower>>
    BY BlocksAreTyped DEF Pivot
<1>2. Working(w) /\ Holding(w) /\ HoldsItsRow(w) /\ TakesItsTurns(w)
    BY <1>1 DEF Working, Holding, BlockInOrder
<1>3. k \in lower[w] /\ k \in Rows /\ RowOf(w) \in Rows
    BY <1>1, <1>2, NextPivot, WorkingInLevel
<1>4. Upper(factor, k) \subseteq Rows
    BY <1>3 DEF SInv, TypeOK, Upper
<1>5. factor[RowOf(w)] \subseteq Rows
    BY <1>3 DEF SInv, TypeOK
<1>6. /\ factor' = factor /\ stage' = stage /\ Width' = Width
      /\ Grid' = Grid /\ Stride' = Stride /\ RowOf(w)' = RowOf(w)
    BY <1>1, Frame DEF RowOf
<1> HIDE DEF k
<1>7. CASE /\ workspace' = Worked(w, k, k)
           /\ pending' = [pending EXCEPT ![w] = Upper(factor, k)]
           /\ pc' = [pc EXCEPT ![w] = "update"]
           /\ UNCHANGED status
    <2>1. /\ pc' \in [0 .. Workers - 1 ->
                          {"idle", "take", "scatter", "pivot", "update", "gather"}]
          /\ pc'[w] = "update" /\ \A v \in AllBlocks : v # w => pc'[v] = pc[v]
        BY <1>1, <1>7 DEF SInv, TypeOK, AllBlocks
    <2>2. /\ pending' \in [0 .. Workers - 1 -> SUBSET Rows] /\ pending'[w] = Upper(factor, k)
          /\ \A v \in AllBlocks : v # w => pending'[v] = pending[v]
        BY <1>1, <1>4, <1>7 DEF SInv, TypeOK, AllBlocks
    <2>3. /\ workspace' \in [AllBlocks ->
                 [Rows -> [row : Rows \cup {NoRow}, work : [Rows -> 0 .. 2]]]]
          /\ \A v \in AllBlocks : v # w => workspace'[v] = workspace[v]
          /\ \A d \in Rows : workspace'[w][d].row = workspace[w][d].row
        BY <1>1, <1>3, <1>7, WorkedIs
    <2>4. TypeOK'
        BY <1>1, <1>7, <2>1, <2>2, <2>3 DEF SInv, TypeOK, plan, host, AllBlocks
    <2>5. \A v \in AllBlocks : v # w => Stays(v)
        BY <1>1, <2>1, <2>2, <2>3 DEF Stays
    <2>6. TakesItsTurns(w)'
        BY <1>1, <1>2, <2>1, BlockGoesOn
    <2>7. HoldsItsRow(w)'
        <3>1. \A c \in factor[RowOf(w)] : workspace'[w][c].row = RowOf(w)
            BY <1>2, <1>5, <2>3 DEF HoldsItsRow
        <3>2. \A i : Lower(factor', i) = Lower(factor, i)
            BY <1>6
        <3>3. Upper(factor', Min(lower'[w])) = Upper(factor, k) /\ lower' = lower
            BY <1>1, <1>6 DEF k
        <3> QED
            BY <1>1, <1>2, <1>6, <2>1, <2>2, <3>1, <3>2, <3>3 DEF HoldsItsRow
    <2> QED
        BY <1>1, <2>4, <2>5, <2>6, <2>7, OneBlockMoves DEF BlockInOrder
<1>8. CASE /\ Report(k)
           /\ pc' = [pc EXCEPT ![w] = "idle"]
           /\ UNCHANGED <<workspace, pending>>
    <2>1. /\ pc' \in [0 .. Workers - 1 ->
                          {"idle", "take", "scatter", "pivot", "update", "gather"}]
          /\ pc'[w] = "idle" /\ \A v \in AllBlocks : v # w => pc'[v] = pc[v]
        BY <1>1, <1>8 DEF SInv, TypeOK, AllBlocks
    <2>2. status' \in Rows \cup {NoReport}
        BY <1>3, <1>8 DEF SInv, TypeOK, Report
    <2>3. TypeOK'
        BY <1>1, <1>8, <2>1, <2>2 DEF SInv, TypeOK, plan, host
    <2>4. \A v \in AllBlocks : v # w => Stays(v)
        BY <1>1, <1>8, <2>1 DEF Stays
    <2>5. pending'[w] = {}
        BY <1>1, <1>2, <1>8 DEF TakesItsTurns
    <2>6. BlockInOrder(w)'
        BY <1>1, <1>2, <1>6, <2>1, <2>5 DEF BlockInOrder, TakesItsTurns, Working, Holding
    <2> QED
        BY <1>1, <2>3, <2>4, <2>6, OneBlockMoves
<1> QED
    BY <1>7, <1>8 DEF Pivot, k

LEMMA SubtractInOrder ==
    ASSUME SInv, NEW w \in Grid, Subtract(w)
    PROVE  SInv' /\ \A v \in AllBlocks : v # w => Stays(v)
<1> DEFINE k == Min(lower[w])
<1>1. /\ pc[w] = "update" /\ w \in AllBlocks /\ BlockInOrder(w)
      /\ UNCHANGED <<plan, applied, status, host, pc, scheduled, lower>>
    BY BlocksAreTyped DEF Subtract
<1>2. Working(w) /\ Holding(w) /\ HoldsItsRow(w) /\ lower[w] # {}
    BY <1>1 DEF Working, Holding, BlockInOrder, HoldsItsRow
<1>3. k \in Rows /\ RowOf(w) \in Rows
    BY <1>2, NextPivot, WorkingInLevel, BlocksAreTyped
<1>4. factor[RowOf(w)] \subseteq Rows /\ pending[w] \subseteq Rows
    BY <1>3, BlocksAreTyped DEF SInv, TypeOK
<1>5. PICK c \in pending[w] :
          workspace' = Worked(w, k, c) /\ pending' = [pending EXCEPT ![w] = @ \ {c}]
    BY DEF Subtract
<1>6. /\ factor' = factor /\ RowOf(w)' = RowOf(w)
    BY <1>1, Frame DEF RowOf
<1> HIDE DEF k
<1>7. /\ pending' \in [0 .. Workers - 1 -> SUBSET Rows] /\ pending'[w] = pending[w] \ {c}
      /\ \A v \in AllBlocks : v # w => pending'[v] = pending[v]
    BY <1>1, <1>5 DEF SInv, TypeOK, AllBlocks
<1>8. /\ workspace' \in [AllBlocks ->
             [Rows -> [row : Rows \cup {NoRow}, work : [Rows -> 0 .. 2]]]]
      /\ \A v \in AllBlocks : v # w => workspace'[v] = workspace[v]
      /\ \A d \in Rows : workspace'[w][d].row = workspace[w][d].row
    BY <1>1, <1>3, <1>4, <1>5, WorkedIs
<1>9. TypeOK'
    BY <1>1, <1>7, <1>8 DEF SInv, TypeOK, plan, host, AllBlocks
<1>10. \A v \in AllBlocks : v # w => Stays(v)
    BY <1>1, <1>7, <1>8 DEF Stays
<1>11. TakesItsTurns(w)'
    BY <1>1, <1>2, BlockGoesOn
<1>12. HoldsItsRow(w)'
    <2>1. \A d \in factor[RowOf(w)] : workspace'[w][d].row = RowOf(w)
        BY <1>2, <1>4, <1>8 DEF HoldsItsRow
    <2>2. /\ \A i : Lower(factor', i) = Lower(factor, i)
          /\ Upper(factor', Min(lower'[w])) = Upper(factor, Min(lower[w]))
        BY <1>1, <1>6
    <2> QED
        BY <1>1, <1>2, <1>6, <1>7, <2>1, <2>2 DEF HoldsItsRow
<1> QED
    BY <1>1, <1>9, <1>10, <1>11, <1>12, OneBlockMoves DEF BlockInOrder

LEMMA BarrierInOrder ==
    ASSUME SInv, NEW w \in Grid, Barrier(w)
    PROVE  SInv' /\ \A v \in AllBlocks : v # w => Stays(v)
<1> DEFINE k == Min(lower[w])
<1>1. /\ pc[w] = "update" /\ pending[w] = {} /\ w \in AllBlocks /\ BlockInOrder(w)
      /\ UNCHANGED <<plan, applied, status, host, workspace, scheduled, pending>>
      /\ pc' = [pc EXCEPT ![w] = "pivot"]
      /\ lower' = [lower EXCEPT ![w] = lower[w] \ {k}]
    BY BlocksAreTyped DEF Barrier
<1>2. Working(w) /\ Holding(w) /\ HoldsItsRow(w) /\ lower[w] # {}
    BY <1>1 DEF Working, Holding, BlockInOrder, HoldsItsRow
<1>3. k \in Rows /\ k \in lower[w] /\ \A later \in lower[w] : k <= later
    BY <1>2, NextPivot
<1>4. lower[w] \subseteq Rows
    BY BlocksAreTyped
<1> HIDE DEF k
<1>5. /\ pc' \in [0 .. Workers - 1 ->
                      {"idle", "take", "scatter", "pivot", "update", "gather"}]
      /\ pc'[w] = "pivot" /\ \A v \in AllBlocks : v # w => pc'[v] = pc[v]
    BY <1>1 DEF SInv, TypeOK, AllBlocks
<1>6. /\ lower' \in [0 .. Workers - 1 -> SUBSET Rows] /\ lower'[w] = lower[w] \ {k}
      /\ \A v \in AllBlocks : v # w => lower'[v] = lower[v]
    BY <1>1 DEF SInv, TypeOK, AllBlocks
<1>7. /\ factor' = factor /\ RowOf(w)' = RowOf(w)
    BY <1>1, Frame DEF RowOf
<1>8. TypeOK'
    BY <1>1, <1>5, <1>6 DEF SInv, TypeOK, plan, host
<1>9. \A v \in AllBlocks : v # w => Stays(v)
    BY <1>1, <1>5, <1>6 DEF Stays
<1>10. TakesItsTurns(w)'
    BY <1>1, <1>2, <1>5, BlockGoesOn
<1>11. HoldsItsRow(w)'
    <2>1. \A i : Lower(factor', i) = Lower(factor, i)
        BY <1>7
    <2>2. ASSUME NEW p \in Lower(factor, RowOf(w)) \ lower'[w], NEW later \in lower'[w]
          PROVE  p < later
        <3>1. CASE p = k
            <4>1. later \in Rows /\ k <= later /\ k # later
                BY <1>3, <1>4, <1>6
            <4> QED
                BY <1>3, <3>1, <4>1, RowsAreNatural
        <3>2. CASE p # k
            BY <1>2, <1>6, <3>2 DEF HoldsItsRow
        <3> QED
            BY <3>1, <3>2
    <2> QED
        BY <1>1, <1>2, <1>5, <1>6, <1>7, <2>1, <2>2 DEF HoldsItsRow
<1> QED
    BY <1>1, <1>8, <1>9, <1>10, <1>11, OneBlockMoves DEF BlockInOrder

LEMMA TestDiagonalInOrder ==
    ASSUME SInv, NEW w \in Grid, TestDiagonal(w)
    PROVE  SInv' /\ \A v \in AllBlocks : v # w => Stays(v)
<1> DEFINE r == RowOf(w)
<1>1. /\ pc[w] = "pivot" /\ lower[w] = {} /\ w \in AllBlocks /\ BlockInOrder(w)
      /\ UNCHANGED <<plan, applied, host, workspace, scheduled, lower>>
    BY BlocksAreTyped DEF TestDiagonal
<1>2. /\ Working(w) /\ Holding(w) /\ HoldsItsRow(w) /\ TakesItsTurns(w)
    BY <1>1 DEF Working, Holding, BlockInOrder
<1>3. r \in Rows /\ factor[r] \subseteq Rows /\ pending[w] = {}
    BY <1>1, <1>2, WorkingInLevel DEF SInv, TypeOK, TakesItsTurns
<1>4. /\ factor' = factor /\ stage' = stage /\ Width' = Width
      /\ Grid' = Grid /\ Stride' = Stride /\ RowOf(w)' = RowOf(w)
    BY <1>1, Frame DEF RowOf
<1> HIDE DEF r
<1>5. CASE /\ pc' = [pc EXCEPT ![w] = "gather"]
           /\ pending' = [pending EXCEPT ![w] = factor[r]]
           /\ UNCHANGED status
    <2>1. /\ pc' \in [0 .. Workers - 1 ->
                          {"idle", "take", "scatter", "pivot", "update", "gather"}]
          /\ pc'[w] = "gather" /\ \A v \in AllBlocks : v # w => pc'[v] = pc[v]
        BY <1>1, <1>5 DEF SInv, TypeOK, AllBlocks
    <2>2. /\ pending' \in [0 .. Workers - 1 -> SUBSET Rows] /\ pending'[w] = factor[r]
          /\ \A v \in AllBlocks : v # w => pending'[v] = pending[v]
        BY <1>1, <1>3, <1>5 DEF SInv, TypeOK, AllBlocks
    <2>3. TypeOK'
        BY <1>1, <1>5, <2>1, <2>2 DEF SInv, TypeOK, plan, host
    <2>4. \A v \in AllBlocks : v # w => Stays(v)
        BY <1>1, <2>1, <2>2 DEF Stays
    <2>5. TakesItsTurns(w)'
        BY <1>1, <1>2, <2>1, BlockGoesOn
    <2>6. HoldsItsRow(w)'
        <3>1. \A i : Lower(factor', i) = Lower(factor, i)
            BY <1>4
        <3>2. \A c \in factor[RowOf(w)] : workspace'[w][c].row = RowOf(w)
            BY <1>1, <1>2 DEF HoldsItsRow
        <3> QED
            BY <1>1, <1>2, <1>4, <2>1, <2>2, <3>1, <3>2 DEF HoldsItsRow, r
    <2> QED
        BY <1>1, <2>3, <2>4, <2>5, <2>6, OneBlockMoves DEF BlockInOrder
<1>6. CASE /\ Report(r)
           /\ pc' = [pc EXCEPT ![w] = "idle"]
           /\ UNCHANGED pending
    <2>1. /\ pc' \in [0 .. Workers - 1 ->
                          {"idle", "take", "scatter", "pivot", "update", "gather"}]
          /\ pc'[w] = "idle" /\ \A v \in AllBlocks : v # w => pc'[v] = pc[v]
        BY <1>1, <1>6 DEF SInv, TypeOK, AllBlocks
    <2>2. status' \in Rows \cup {NoReport}
        BY <1>3, <1>6 DEF SInv, TypeOK, Report
    <2>3. TypeOK'
        BY <1>1, <1>6, <2>1, <2>2 DEF SInv, TypeOK, plan, host
    <2>4. \A v \in AllBlocks : v # w => Stays(v)
        BY <1>1, <1>6, <2>1 DEF Stays
    <2>5. BlockInOrder(w)'
        BY <1>1, <1>2, <1>3, <1>4, <1>6, <2>1
        DEF BlockInOrder, TakesItsTurns, Working, Holding
    <2> QED
        BY <1>1, <2>3, <2>4, <2>5, OneBlockMoves
<1> QED
    BY <1>5, <1>6 DEF TestDiagonal, r

LEMMA WorkspaceIsTyped ==
    ASSUME SInv, NEW w \in AllBlocks, NEW s \in Steps(Rows)
    PROVE  InWorkspace(w, s) \in 0 .. 2
<1>1. s[2] \in Rows /\ s[3] \in Rows
    BY DEF Steps
<1>2. workspace[w][s[3]].work[s[2]] \in 0 .. 2
    BY <1>1 DEF SInv, TypeOK, AllBlocks
<1> QED
    BY <1>2 DEF InWorkspace

\* A thread of the gather, and the block's next turn after the last entry.
LEMMA GatherIs ==
    ASSUME SInv, NEW w \in Grid, Gather(w)
    PROVE  /\ pc[w] = "gather" /\ w \in AllBlocks /\ BlockInOrder(w)
           /\ Working(w) /\ Holding(w) /\ HoldsItsRow(w) /\ lower[w] = {}
           /\ UNCHANGED <<plan, status, host, workspace, lower>>
           /\ \E c \in pending[w] :
                  /\ applied' = [s \in DOMAIN applied |->
                         IF s[1] = RowOf(w) /\ s[3] = c THEN InWorkspace(w, s) ELSE applied[s]]
                  /\ pending' = [pending EXCEPT ![w] = @ \ {c}]
                  /\ IF pending[w] = {c}
                     THEN /\ pc' = [pc EXCEPT ![w] = "take"]
                          /\ scheduled' = [scheduled EXCEPT ![w] = @ + Stride]
                     ELSE UNCHANGED <<pc, scheduled>>
    BY BlocksAreTyped DEF Gather, Stride, Working, Holding, BlockInOrder, HoldsItsRow

LEMMA GatherInOrder ==
    ASSUME SInv, NEW w \in Grid, Gather(w)
    PROVE  SInv' /\ \A v \in AllBlocks : v # w => Stays(v)
<1>1. /\ pc[w] = "gather" /\ w \in AllBlocks /\ BlockInOrder(w)
      /\ Working(w) /\ Holding(w) /\ HoldsItsRow(w) /\ lower[w] = {}
      /\ UNCHANGED <<plan, status, host, workspace, lower>>
    BY GatherIs
<1>2. PICK c \in pending[w] :
          /\ applied' = [s \in DOMAIN applied |->
                 IF s[1] = RowOf(w) /\ s[3] = c THEN InWorkspace(w, s) ELSE applied[s]]
          /\ pending' = [pending EXCEPT ![w] = @ \ {c}]
          /\ IF pending[w] = {c}
             THEN /\ pc' = [pc EXCEPT ![w] = "take"]
                  /\ scheduled' = [scheduled EXCEPT ![w] = @ + Stride]
             ELSE UNCHANGED <<pc, scheduled>>
    BY GatherIs
<1>3. applied' \in [Steps(Rows) -> 0 .. 2]
    <2>1. applied \in [Steps(Rows) -> 0 .. 2]
        BY DEF SInv, TypeOK
    <2>2. \A s \in Steps(Rows) : InWorkspace(w, s) \in 0 .. 2
        BY <1>1, WorkspaceIsTyped
    <2> QED
        BY <1>2, <2>1, <2>2
<1>4. /\ pending' \in [0 .. Workers - 1 -> SUBSET Rows] /\ pending'[w] = pending[w] \ {c}
      /\ \A v \in AllBlocks : v # w => pending'[v] = pending[v]
    BY <1>1, <1>2 DEF SInv, TypeOK, AllBlocks
<1>5. /\ stage = "level" /\ scheduled[w] < Width /\ scheduled[w] \in Nat
      /\ scheduled[w] % Stride = w
    <2>1. stage = "level" /\ scheduled[w] < Width /\ scheduled[w] \in Nat
        BY <1>1, WorkingInLevel, BlocksAreTyped
    <2> QED
        BY <1>1, <2>1 DEF BlockInOrder, TakesItsTurns
<1>6. /\ factor' = factor /\ stage' = stage /\ Width' = Width
      /\ Grid' = Grid /\ Stride' = Stride
    BY <1>1, Frame
<1>7. CASE pending[w] = {c}
    <2>1. /\ pc' \in [0 .. Workers - 1 ->
                          {"idle", "take", "scatter", "pivot", "update", "gather"}]
          /\ pc'[w] = "take" /\ \A v \in AllBlocks : v # w => pc'[v] = pc[v]
        BY <1>1, <1>2, <1>7 DEF SInv, TypeOK, AllBlocks
    <2>2. scheduled[w] + Stride \in 0 .. Dimension + Workers - 1
        BY <1>5, GridIsAnInterval, LevelBounds, SizeAssumption
    <2>3. /\ scheduled' \in [0 .. Workers - 1 -> 0 .. Dimension + Workers - 1]
          /\ scheduled'[w] = scheduled[w] + Stride
          /\ \A v \in AllBlocks : v # w => scheduled'[v] = scheduled[v]
        BY <1>1, <1>2, <1>7, <2>2 DEF SInv, TypeOK, AllBlocks
    <2>4. TypeOK'
        BY <1>1, <1>3, <1>4, <2>1, <2>3 DEF SInv, TypeOK, plan, host
    <2>5. \A v \in AllBlocks : v # w => Stays(v)
        BY <1>1, <1>4, <2>1, <2>3 DEF Stays
    <2>6. scheduled'[w] % Stride = w
        <3>1. (scheduled[w] + Stride) % Stride = scheduled[w] % Stride
            BY <1>5, BlocksAreTyped, NextTurn
        <3> QED
            BY <1>5, <2>3, <3>1
    <2>7. pending'[w] = {}
        BY <1>4, <1>7
    <2>8. BlockInOrder(w)'
        BY <1>5, <1>6, <2>1, <2>6, <2>7 DEF BlockInOrder, TakesItsTurns, Working, Holding
    <2> QED
        BY <1>1, <2>4, <2>5, <2>8, OneBlockMoves
<1>8. CASE pending[w] # {c}
    <2>1. pc' = pc /\ scheduled' = scheduled
        BY <1>2, <1>8
    <2>2. TypeOK'
        BY <1>1, <1>3, <1>4, <2>1 DEF SInv, TypeOK, plan, host
    <2>3. \A v \in AllBlocks : v # w => Stays(v)
        BY <1>1, <1>4, <2>1 DEF Stays
    <2>4. /\ TakesItsTurns(w)' /\ RowOf(w)' = RowOf(w)
          /\ \A k : Lower(factor, k)' = Lower(factor, k) /\ Upper(factor, k)' = Upper(factor, k)
        BY <1>1, <2>1, BlockGoesOn
    <2>5. HoldsItsRow(w)'
        BY <1>1, <1>4, <1>6, <2>1, <2>4 DEF HoldsItsRow, Holding
    <2> QED
        BY <1>1, <2>2, <2>3, <2>4, <2>5, OneBlockMoves DEF BlockInOrder
<1> QED
    BY <1>7, <1>8

LEMMA StepInOrder ==
    ASSUME SInv, NEW w \in Grid, Block(w)
    PROVE  SInv'
    BY TakeRowInOrder, ScatterInOrder, PivotInOrder, SubtractInOrder, BarrierInOrder,
       TestDiagonalInOrder, GatherInOrder DEF Block

LEMMA StutterInOrder == SInv /\ UNCHANGED vars => SInv'
<1> SUFFICES ASSUME SInv, UNCHANGED vars PROVE SInv'
    OBVIOUS
<1>1. /\ UNCHANGED <<plan, host>> /\ PlanIsSound' /\ TypeOK'
      /\ \A v \in AllBlocks : Stays(v)
    BY PlanStays DEF vars, plan, host, blocks, SInv, TypeOK, Stays
<1>2. \A v \in AllBlocks : BlockInOrder(v)'
    BY <1>1, BlockThatStays DEF SInv
<1>3. stage' = "done" => offsets'[level' + 1] = Dimension
    BY <1>1, Frame DEF SInv
<1> QED
    BY <1>1, <1>2, <1>3 DEF SInv, AllBlocks

LEMMA NextInOrder == SInv /\ [Next]_vars => SInv'
    BY LaunchInOrder, FinishLevelInOrder, StepInOrder, StutterInOrder DEF Next, Finished

\* The structural invariant holds of every reachable state, reports or not.
THEOREM InOrder == Spec => []SInv
<1> QED
    BY InitIsInOrder, NextInOrder, PTL DEF Spec

\* The state is well typed.
THEOREM TypeCorrect == Spec => []TypeOK
<1>1. SInv => TypeOK
    BY DEF SInv
<1> QED
    BY InOrder, <1>1, PTL

\* What an earlier row, an abandoned row or an earlier level left in a workspace
\* of numerical_lu_workspace_level_kernel is never observed.
THEOREM NoStaleCell == Spec => []StaleIsNeverRead
<1>1. SInv => StaleIsNeverRead
    <2> SUFFICES ASSUME SInv, NEW w \in Grid, Holding(w)
                 PROVE  /\ \A c \in factor[RowOf(w)] : workspace[w][c].row = RowOf(w)
                        /\ pending[w] \subseteq factor[RowOf(w)]
        BY DEF StaleIsNeverRead
    <2>1. Working(w) /\ w \in AllBlocks /\ HoldsItsRow(w) /\ TakesItsTurns(w)
        BY BlocksAreTyped DEF Working, BlockInOrder
    <2>2. \A c \in factor[RowOf(w)] : workspace[w][c].row = RowOf(w)
        BY <2>1 DEF HoldsItsRow
    <2>3. CASE pc[w] = "update"
        <3>1. lower[w] # {} /\ pending[w] \subseteq Upper(factor, Min(lower[w]))
            BY <2>1, <2>3 DEF HoldsItsRow
        <3>2. Min(lower[w]) \in Lower(factor, RowOf(w)) /\ RowOf(w) \in Rows
            BY <2>1, <3>1, NextPivot, WorkingInLevel
        <3>3. Upper(factor, Min(lower[w])) \subseteq factor[RowOf(w)]
            BY <3>2 DEF SInv, PlanIsSound, Closed, TypeOK
        <3> QED
            BY <2>2, <3>1, <3>3
    <2>4. CASE pc[w] = "gather"
        BY <2>1, <2>2, <2>4 DEF HoldsItsRow
    <2>5. CASE pc[w] = "pivot"
        BY <2>1, <2>2, <2>5 DEF TakesItsTurns
    <2> QED
        BY <2>3, <2>4, <2>5 DEF Holding
<1> QED
    BY InOrder, <1>1, PTL

\* The blocks of a launch share its rows out.
THEOREM NoRowIsShared == Spec => []OneBlockPerRow
<1>1. SInv => OneBlockPerRow
    <2> SUFFICES ASSUME SInv, NEW v \in Grid, NEW w \in Grid, Holding(v), Holding(w),
                        RowOf(v) = RowOf(w)
                 PROVE  v = w
        BY DEF OneBlockPerRow
    <2>1. Working(v) /\ Working(w) /\ v \in AllBlocks /\ w \in AllBlocks
        BY BlocksAreTyped DEF Working
    <2> QED
        BY <2>1, WorkingInLevel, RowsOfBlocksDiffer
<1> QED
    BY InOrder, <1>1, PTL

-----------------------------------------------------------------------------
\* Positions whose row has been gathered: of earlier levels, and those the blocks of the
\* launch have passed.
Passed(q) ==
    \/ q < offsets[level]
    \/ stage = "done"
    \/ /\ stage = "level" /\ q < offsets[level + 1]
       /\ q - offsets[level] < scheduled[(q - offsets[level]) % Stride]

Gathered(i) == \E q \in Rows : schedule[q] = i /\ Passed(q)

\* The entry is back in factor storage.
Written(i, j) ==
    \/ Gathered(i)
    \/ \E w \in Grid : pc[w] = "gather" /\ RowOf(w) = i /\ j \notin pending[w]

\* The steps by pivot row k that block w has made on its row.
Made(w, k, j) ==
    \/ k \notin lower[w]
    \/ pc[w] = "update" /\ k = Min(lower[w]) /\ j \notin pending[w]

HoldsItsValues(w) ==
    \A k \in Rows : \A j \in factor[RowOf(w)] : k < RowOf(w) /\ k <= j =>
        workspace[w][j].work[k] =
            IF Needed(factor, <<RowOf(w), k, j>>) /\ Made(w, k, j) THEN 1 ELSE 0

\* Until a report, storage and workspaces have received the steps that were made, once,
\* rows gathered have a good pivot, and a block has left only at the end of its stride.
ValuesFollowBlocks ==
    /\ \A i, k, j \in Rows : k < i /\ k <= j =>
           applied[<<i, k, j>>] =
               IF Needed(factor, <<i, k, j>>) /\ Written(i, j) THEN 1 ELSE 0
    /\ \A w \in Grid : Holding(w) => HoldsItsValues(w)
    /\ \A i \in Rows : Gathered(i) => i \notin tiny
    /\ \A w \in Grid : pc[w] = "gather" => RowOf(w) \notin tiny
    /\ stage = "level" => \A w \in Grid : pc[w] = "idle" => scheduled[w] >= Width

IInv == SInv /\ (status = NoReport => ValuesFollowBlocks)

-----------------------------------------------------------------------------
\* A row has a slot for each of its steps.
LEMMA NeededSlot ==
    ASSUME SInv, NEW i \in Rows, NEW k \in Rows, NEW j \in Rows, k < i, k <= j,
           Needed(factor, <<i, k, j>>)
    PROVE  k \in Lower(factor, i) /\ j \in factor[k] /\ j \in factor[i]
<1>1. k \in factor[i] /\ j \in factor[k]
    BY DEF Needed
<1>2. k \in Lower(factor, i)
    BY <1>1 DEF Lower
<1>3. CASE j = k
    BY <1>1, <1>2, <1>3
<1>4. CASE j # k
    <2>1. j > k
        BY <1>4, RowsAreNatural
    <2>2. j \in Upper(factor, k)
        BY <1>1, <2>1 DEF Upper
    <2> QED
        BY <1>1, <1>2, <2>2 DEF SInv, PlanIsSound, Closed, TypeOK
<1> QED
    BY <1>3, <1>4

\* The rows that a row of the level depends on have been gathered.
LEMMA PivotRowsAreGathered ==
    ASSUME SInv, NEW w \in Grid, Working(w), NEW k \in Lower(factor, RowOf(w))
    PROVE  Gathered(k) /\ k \in Rows
<1>1. /\ scheduled[w] \in Nat /\ scheduled[w] < Width /\ RowOf(w) \in Rows
    BY BlocksAreTyped, WorkingInLevel
<1>2. offsets[level] + scheduled[w] \in offsets[level] .. offsets[level + 1] - 1
    BY <1>1, PositionInLevel
<1>3. PICK p \in 0 .. offsets[level] - 1 : schedule[p] = k
    BY <1>2, LevelBounds DEF SInv, PlanIsSound, RowOf
<1>4. p \in Rows /\ p < offsets[level]
    BY LevelBounds, RowsAreNatural
<1>5. k \in Rows
    BY <1>1 DEF Lower, SInv, TypeOK
<1> QED
    BY <1>3, <1>4, <1>5 DEF Gathered, Passed

\* A row in a workspace is not among those gathered.
LEMMA HeldRowIsNotGathered ==
    ASSUME SInv, NEW w \in Grid, Working(w)
    PROVE  ~Gathered(RowOf(w))
<1>1. /\ scheduled[w] \in Nat /\ scheduled[w] < Width /\ RowOf(w) \in Rows
      /\ stage = "level" /\ w \in AllBlocks
    BY BlocksAreTyped, WorkingInLevel
<1>2. scheduled[w] % Stride = w
    BY <1>1, BlocksAreTyped DEF BlockInOrder, TakesItsTurns
<1> DEFINE p == offsets[level] + scheduled[w]
<1>3. p \in Rows /\ p - offsets[level] = scheduled[w] /\ ~(p < offsets[level])
    BY <1>1, PositionInLevel, LevelBounds
<1>4. ~Passed(p)
    BY <1>1, <1>2, <1>3 DEF Passed
<1>5. \A q \in Rows : schedule[q] = RowOf(w) => q = p
    BY <1>3 DEF SInv, PlanIsSound, RowOf
<1> QED
    BY <1>4, <1>5 DEF Gathered

\* Rows gathered are final, and stay so in the eyes of every block.
LEMMA GatheredIsFinal ==
    ASSUME IInv, status = NoReport, NEW k \in Rows, Gathered(k)
    PROVE  k \notin tiny /\ \A j \in Rows : Final(factor, applied, k, j)
<1>1. \A p, j \in Rows : p < k /\ p <= j =>
          applied[<<k, p, j>>] = IF Needed(factor, <<k, p, j>>) THEN 1 ELSE 0
    BY DEF IInv, ValuesFollowBlocks, Written
<1>2. DOMAIN factor = Rows
    BY DEF IInv, SInv, TypeOK
<1>3. k \notin tiny
    BY DEF IInv, ValuesFollowBlocks
<1> QED
    BY <1>1, <1>2, <1>3 DEF Final, DoneBelow

\* What a block sees: of its own row the steps it has made, of others what is stored.
LEMMA ViewIs ==
    ASSUME IInv, status = NoReport, NEW w \in Grid, Holding(w),
           NEW i \in Rows, NEW k \in Rows, NEW j \in Rows, k < i, k <= j
    PROVE  View(w)[<<i, k, j>>] =
               IF i = RowOf(w)
               THEN IF Needed(factor, <<i, k, j>>) /\ Made(w, k, j) THEN 1 ELSE 0
               ELSE applied[<<i, k, j>>]
<1>1. <<i, k, j>> \in DOMAIN applied
    BY DEF IInv, SInv, TypeOK, Steps
<1>2. View(w)[<<i, k, j>>] =
          IF i = RowOf(w) /\ j \in factor[i] THEN InWorkspace(w, <<i, k, j>>)
          ELSE applied[<<i, k, j>>]
    BY <1>1 DEF View
<1>3. CASE i = RowOf(w) /\ j \in factor[i]
    <2>1. workspace[w][j].row = i
        BY <1>3, BlocksAreTyped DEF IInv, BlockInOrder, HoldsItsRow, Working
    <2>2. workspace[w][j].work[k] =
              IF Needed(factor, <<i, k, j>>) /\ Made(w, k, j) THEN 1 ELSE 0
        BY <1>3 DEF IInv, ValuesFollowBlocks, HoldsItsValues
    <2>3. InWorkspace(w, <<i, k, j>>) = workspace[w][j].work[k]
        BY <2>1 DEF InWorkspace
    <2> QED
        BY <1>2, <1>3, <2>2, <2>3
<1>4. CASE i = RowOf(w) /\ j \notin factor[i]
    <2>1. ~Needed(factor, <<i, k, j>>)
        BY <1>4, NeededSlot DEF IInv
    <2>2. applied[<<i, k, j>>] = 0
        BY <2>1 DEF IInv, ValuesFollowBlocks
    <2> QED
        BY <1>2, <1>4, <2>1, <2>2
<1>5. CASE i # RowOf(w)
    BY <1>2, <1>5
<1> QED
    BY <1>3, <1>4, <1>5

\* The pivot rows of a row that is being eliminated are final.
LEMMA PivotRowIsFinal ==
    ASSUME IInv, status = NoReport, NEW w \in Grid, Holding(w),
           NEW k \in Lower(factor, RowOf(w))
    PROVE  /\ k \in Rows /\ k \notin tiny
           /\ \A j \in Rows : Final(factor, applied, k, j) /\ Final(factor, View(w), k, j)
<1>1. Working(w) /\ k < RowOf(w) /\ RowOf(w) \in Rows /\ k \in Rows /\ Gathered(k)
    BY PivotRowsAreGathered, WorkingInLevel, BlocksAreTyped DEF IInv, Working, Lower
<1>2. k \notin tiny /\ \A j \in Rows : Final(factor, applied, k, j)
    BY <1>1, GatheredIsFinal
<1>3. DOMAIN factor = Rows /\ k # RowOf(w)
    BY <1>1, RowsAreNatural DEF IInv, SInv, TypeOK
<1>4. \A p, j \in Rows : p < k /\ p <= j => View(w)[<<k, p, j>>] = applied[<<k, p, j>>]
    BY <1>1, <1>3, ViewIs
<1> QED
    BY <1>1, <1>2, <1>3, <1>4 DEF Final, DoneBelow

\* The steps of a row by the pivots before the next one have been made.
LEMMA EarlierPivotsAreMade ==
    ASSUME IInv, status = NoReport, NEW w \in Grid, Holding(w), lower[w] # {},
           NEW j \in Rows, NEW p \in Rows, p < Min(lower[w]), p <= j
    PROVE  View(w)[<<RowOf(w), p, j>>] =
               IF Needed(factor, <<RowOf(w), p, j>>) THEN 1 ELSE 0
<1>1. Working(w) /\ RowOf(w) \in Rows /\ SInv
    BY WorkingInLevel, BlocksAreTyped DEF IInv, Working
<1>2. /\ Min(lower[w]) \in Rows /\ Min(lower[w]) < RowOf(w)
      /\ \A k \in lower[w] : Min(lower[w]) <= k
    BY <1>1, NextPivot
<1>3. p < RowOf(w) /\ p \notin lower[w]
    BY <1>1, <1>2, RowsAreNatural
<1> QED
    BY <1>1, <1>3, ViewIs DEF Made

LEMMA DivisionIsSound ==
    ASSUME IInv, status = NoReport, NEW w \in Grid, pc[w] = "pivot", lower[w] # {}
    PROVE  LET r == RowOf(w)
               k == Min(lower[w])
           IN  /\ k \notin tiny
               /\ Final(factor, applied, k, k)
               /\ Needed(factor, <<r, k, k>>)
               /\ View(w)[<<r, k, k>>] = 0
               /\ Sound(factor, View(w), <<r, k, k>>)
<1> DEFINE r == RowOf(w)
           k == Min(lower[w])
<1>1. SInv /\ Holding(w) /\ Working(w) /\ r \in Rows
    BY WorkingInLevel, BlocksAreTyped DEF IInv, Working, Holding
<1>2. /\ k \in lower[w] /\ k \in Rows /\ k < r /\ k <= k /\ k \in factor[r]
      /\ k \in Lower(factor, r)
    BY <1>1, NextPivot, RowsAreNatural
<1>3. /\ k \notin tiny /\ Final(factor, applied, k, k) /\ Final(factor, View(w), k, k)
    BY <1>1, <1>2, PivotRowIsFinal
<1>4. DOMAIN factor = Rows
    BY <1>1 DEF SInv, TypeOK
<1>5. Needed(factor, <<r, k, k>>)
    BY <1>1, <1>2, <1>4 DEF SInv, PlanIsSound, Closed, Needed
<1>6. View(w)[<<r, k, k>>] = 0
    <2>1. ~Made(w, k, k)
        BY <1>2 DEF Made
    <2> QED
        BY <1>1, <1>2, <2>1, ViewIs
<1>7. DoneBelow(factor, View(w), r, k, k)
    BY <1>1, <1>2, <1>4, EarlierPivotsAreMade DEF DoneBelow
<1> QED
    BY <1>3, <1>5, <1>6, <1>7 DEF Sound

LEMMA SubtractionIsSound ==
    ASSUME IInv, NEW w \in Grid, pc[w] = "update", NEW j \in pending[w]
    PROVE  LET r == RowOf(w)
               k == Min(lower[w])
           IN  /\ r \in Rows /\ k \in Rows /\ j \in Rows /\ k < r /\ k < j /\ k \in lower[w]
               /\ j \in factor[r]
               /\ Needed(factor, <<r, k, j>>)
               /\ status = NoReport =>
                      /\ k \notin tiny
                      /\ View(w)[<<r, k, j>>] = 0
                      /\ Sound(factor, View(w), <<r, k, j>>)
<1> DEFINE r == RowOf(w)
           k == Min(lower[w])
<1>1. SInv /\ Holding(w) /\ Working(w) /\ r \in Rows /\ HoldsItsRow(w)
    BY WorkingInLevel, BlocksAreTyped DEF IInv, Working, Holding, BlockInOrder
<1>2. lower[w] # {} /\ j \in Upper(factor, k)
    BY <1>1 DEF HoldsItsRow
<1>3. /\ k \in lower[w] /\ k \in Rows /\ k < r /\ k \in factor[r]
      /\ k \in Lower(factor, r)
    BY <1>1, <1>2, NextPivot
<1>4. DOMAIN factor = Rows /\ j \in Rows /\ j \in factor[k] /\ k < j
    BY <1>1, <1>2, <1>3 DEF SInv, TypeOK, Upper
<1>5. j \in factor[r] /\ k \in factor[k]
    BY <1>1, <1>2, <1>3, <1>4 DEF SInv, PlanIsSound, Closed
<1>6. Needed(factor, <<r, k, j>>) /\ Needed(factor, <<r, k, k>>)
    BY <1>3, <1>4, <1>5 DEF Needed
<1>7. k <= j /\ k <= k /\ k # j /\ ~(j < k)
    BY <1>3, <1>4, RowsAreNatural
<1>8. ASSUME status = NoReport
      PROVE  /\ k \notin tiny
             /\ View(w)[<<r, k, j>>] = 0
             /\ Sound(factor, View(w), <<r, k, j>>)
    <2>1. k \notin tiny /\ Final(factor, View(w), k, j)
        BY <1>1, <1>3, <1>4, <1>8, PivotRowIsFinal
    <2>2. View(w)[<<r, k, j>>] = 0
        <3>1. ~Made(w, k, j)
            BY <1>3 DEF Made
        <3> QED
            BY <1>1, <1>3, <1>4, <1>7, <1>8, <3>1, ViewIs
    <2>3. k \notin pending[w]
        BY <1>1, <1>2, <1>3, RowsAreNatural DEF HoldsItsRow, Upper
    <2>4. View(w)[<<r, k, k>>] = 1
        <3>1. Made(w, k, k)
            BY <2>3 DEF Made
        <3> QED
            BY <1>1, <1>3, <1>6, <1>7, <1>8, <3>1, ViewIs
    <2>5. \A p \in Rows : p < k /\ p <= k =>
              View(w)[<<r, p, k>>] = IF Needed(factor, <<r, p, k>>) THEN 1 ELSE 0
        BY <1>1, <1>2, <1>3, <1>8, EarlierPivotsAreMade
    <2>6. Final(factor, View(w), r, k)
        <3>1. ASSUME NEW p \in Rows, p < r, p <= k
              PROVE  View(w)[<<r, p, k>>] = IF Needed(factor, <<r, p, k>>) THEN 1 ELSE 0
            <4>1. CASE p = k
                BY <1>6, <2>4, <4>1
            <4>2. CASE p # k
                <5>1. p < k
                    BY <1>3, <3>1, <4>2, RowsAreNatural
                <5> QED
                    BY <2>5, <3>1, <5>1
            <4> QED
                BY <4>1, <4>2
        <3> QED
            BY <1>4, <3>1 DEF Final, DoneBelow
    <2>7. ASSUME j < r PROVE View(w)[<<r, j, j>>] = 0
        <3>1. j \in Lower(factor, r)
            BY <1>5, <2>7 DEF Lower
        <3>2. j \in lower[w]
            BY <1>1, <1>3, <1>7, <3>1 DEF HoldsItsRow
        <3>3. ~Made(w, j, j)
            BY <1>7, <3>2 DEF Made
        <3>4. j <= j
            BY <1>4, RowsAreNatural
        <3> QED
            BY <1>1, <1>4, <1>8, <2>7, <3>3, <3>4, ViewIs
    <2> QED
        BY <1>7, <2>1, <2>2, <2>6, <2>7 DEF Sound
<1> QED
    BY <1>1, <1>3, <1>4, <1>5, <1>6, <1>8

-----------------------------------------------------------------------------
\* What the steps of other blocks leave alone.
LEMMA BlockValuesStay ==
    ASSUME UNCHANGED <<plan, host>>, NEW v, Stays(v), HoldsItsValues(v)
    PROVE  HoldsItsValues(v)'
<1>1. factor' = factor /\ RowOf(v)' = RowOf(v)
    BY Frame, BlockThatStays
<1>2. \A k, j : Made(v, k, j)' <=> Made(v, k, j)
    BY DEF Made, Stays
<1>3. workspace'[v] = workspace[v]
    BY DEF Stays
<1> QED
    BY <1>1, <1>2, <1>3 DEF HoldsItsValues, Needed

LEMMA GatheredStays ==
    ASSUME UNCHANGED <<plan, host, scheduled>>, NEW i
    PROVE  Gathered(i)' <=> Gathered(i)
<1>1. /\ offsets' = offsets /\ schedule' = schedule /\ stage' = stage /\ level' = level
      /\ Stride' = Stride
    BY Frame
<1>2. \A q : Passed(q)' <=> Passed(q)
    BY <1>1 DEF Passed
<1> QED
    BY <1>1, <1>2 DEF Gathered

\* Of a row in a workspace only the entries gathered so far are back.
LEMMA WrittenOfHeldRow ==
    ASSUME SInv, NEW w \in Grid, Working(w), NEW j
    PROVE  Written(RowOf(w), j) <=> pc[w] = "gather" /\ j \notin pending[w]
<1>1. ~Gathered(RowOf(w))
    BY HeldRowIsNotGathered
<1>2. ASSUME NEW v \in Grid, pc[v] = "gather", RowOf(v) = RowOf(w)
      PROVE  v = w
    <2>1. Working(v) /\ v \in AllBlocks /\ w \in AllBlocks
        BY <1>2, BlocksAreTyped DEF Working, Holding
    <2> QED
        BY <1>2, <2>1, WorkingInLevel, RowsOfBlocksDiffer
<1> QED
    BY <1>1, <1>2 DEF Written

\* A step of block w that does not write storage back.
LEMMA ValuesAfterStep ==
    ASSUME IInv, status = NoReport, NEW w \in Grid,
           UNCHANGED <<plan, host, scheduled>>, applied' = applied,
           \A v \in AllBlocks : v # w => Stays(v),
           \A j \in factor[RowOf(w)] : pc'[w] = "gather" /\ j \notin pending'[w]
                                           <=> pc[w] = "gather" /\ j \notin pending[w],
           Holding(w)' => HoldsItsValues(w)',
           pc'[w] = "gather" => RowOf(w) \notin tiny,
           pc'[w] = "idle" => scheduled[w] >= Width
    PROVE  ValuesFollowBlocks'
<1>1. /\ factor' = factor /\ tiny' = tiny /\ stage' = stage
      /\ Width' = Width /\ Grid' = Grid /\ RowOf(w)' = RowOf(w)
    BY Frame DEF RowOf
<1>2. ASSUME NEW v \in Grid, v # w
      PROVE  /\ Stays(v) /\ RowOf(v)' = RowOf(v) /\ (Holding(v)' <=> Holding(v))
             /\ pc'[v] = pc[v] /\ pending'[v] = pending[v] /\ scheduled'[v] = scheduled[v]
    <2>1. v \in AllBlocks
        BY BlocksAreTyped DEF IInv
    <2>2. Stays(v)
        BY <1>2, <2>1
    <2> QED
        BY <2>2, BlockThatStays DEF Stays
<1>3. \A i : Gathered(i)' <=> Gathered(i)
    BY GatheredStays
<1>4. ASSUME NEW i \in Rows, NEW j \in factor[i]
      PROVE  Written(i, j)' <=> Written(i, j)
    <2>1. ASSUME NEW v \in Grid
          PROVE  pc'[v] = "gather" /\ RowOf(v)' = i /\ j \notin pending'[v]
                     <=> pc[v] = "gather" /\ RowOf(v) = i /\ j \notin pending[v]
        <3>1. CASE v = w
            BY <1>1, <3>1
        <3>2. CASE v # w
            BY <1>2, <3>2
        <3> QED
            BY <3>1, <3>2
    <2> QED
        BY <1>1, <1>3, <2>1 DEF Written
<1>5. ASSUME NEW i \in Rows, NEW k \in Rows, NEW j \in Rows, k < i, k <= j
      PROVE  applied'[<<i, k, j>>] =
                 IF Needed(factor', <<i, k, j>>) /\ Written(i, j)' THEN 1 ELSE 0
    <2>1. Needed(factor, <<i, k, j>>) => j \in factor[i]
        BY <1>5, NeededSlot DEF IInv
    <2>2. Needed(factor, <<i, k, j>>) => (Written(i, j)' <=> Written(i, j))
        BY <1>4, <2>1
    <2>3. applied[<<i, k, j>>] = IF Needed(factor, <<i, k, j>>) /\ Written(i, j) THEN 1 ELSE 0
        BY <1>5 DEF IInv, ValuesFollowBlocks
    <2> QED
        BY <1>1, <2>2, <2>3
<1>6. ASSUME NEW v \in Grid, Holding(v)' PROVE HoldsItsValues(v)'
    <2>1. CASE v = w
        BY <1>6, <2>1
    <2>2. CASE v # w
        <3>1. HoldsItsValues(v) /\ Stays(v)
            BY <1>2, <1>6, <2>2 DEF IInv, ValuesFollowBlocks
        <3> QED
            BY <3>1, BlockValuesStay
    <2> QED
        BY <2>1, <2>2
<1>7. \A i \in Rows : Gathered(i)' => i \notin tiny
    BY <1>3 DEF IInv, ValuesFollowBlocks
<1>8. ASSUME NEW v \in Grid
      PROVE  /\ pc'[v] = "gather" => RowOf(v)' \notin tiny
             /\ stage = "level" /\ pc'[v] = "idle" => scheduled'[v] >= Width
    <2>1. CASE v = w
        BY <1>1, <2>1
    <2>2. CASE v # w
        BY <1>2, <2>2 DEF IInv, ValuesFollowBlocks
    <2> QED
        BY <2>1, <2>2
<1> QED
    BY <1>1, <1>5, <1>6, <1>7, <1>8 DEF ValuesFollowBlocks

LEMMA TakeRowFollows ==
    ASSUME IInv, status = NoReport, NEW w \in Grid, TakeRow(w)
    PROVE  ValuesFollowBlocks'
<1>1. /\ pc[w] = "take" /\ w \in AllBlocks /\ SInv
      /\ UNCHANGED <<plan, applied, host, scheduled>>
      /\ \A v \in AllBlocks : v # w => Stays(v)
    BY BlocksAreTyped, TakeRowInOrder DEF TakeRow, IInv
<1>2. scheduled[w] \in Nat /\ Width \in Nat
    BY <1>1, BlocksAreTyped, LevelBounds, RowsAreNatural
<1>3. \/ pc'[w] = "scatter"
      \/ pc'[w] = "idle" /\ scheduled[w] >= Width
    <2>1. pc \in [AllBlocks -> {"idle", "take", "scatter", "pivot", "update", "gather"}]
        BY <1>1 DEF SInv, TypeOK, AllBlocks
    <2> QED
        BY <1>1, <1>2, <2>1 DEF TakeRow
<1> QED
    BY <1>1, <1>3, ValuesAfterStep DEF Holding

LEMMA ScatterFollows ==
    ASSUME IInv, status = NoReport, NEW w \in Grid, Scatter(w)
    PROVE  ValuesFollowBlocks'
<1> DEFINE r == RowOf(w)
<1>1. /\ pc[w] = "scatter" /\ w \in AllBlocks /\ SInv /\ BlockInOrder(w)
      /\ UNCHANGED <<plan, applied, host, scheduled, lower>>
      /\ \A v \in AllBlocks : v # w => Stays(v)
      /\ pc' = [pc EXCEPT ![w] = "pivot"]
    BY BlocksAreTyped, ScatterInOrder DEF Scatter, IInv
<1>2. Working(w) /\ r \in Rows /\ lower[w] = Lower(factor, r)
    BY <1>1, WorkingInLevel DEF Working, BlockInOrder, HoldsItsRow
<1>3. factor[r] \subseteq Rows
    BY <1>1, <1>2 DEF SInv, TypeOK
<1>4. pc'[w] = "pivot"
    BY <1>1 DEF SInv, TypeOK, AllBlocks
<1>5. factor' = factor /\ RowOf(w)' = r
    BY <1>1, Frame DEF RowOf
<1> HIDE DEF r
<1>6. ASSUME NEW k \in Rows, NEW j \in factor[r], k < r, k <= j
      PROVE  workspace'[w][j].work[k] = 0
    <2>1. workspace' = [workspace EXCEPT ![w] = [c \in Rows |->
              IF c \in factor[r] THEN Cell(r, c) ELSE workspace[w][c]]]
        BY DEF Scatter, r
    <2>2. workspace'[w][j] = Cell(r, j)
        BY <1>1, <1>3, <1>6, <2>1 DEF SInv, TypeOK, AllBlocks
    <2>3. <<r, k, j>> \in DOMAIN applied
        BY <1>1, <1>2, <1>3, <1>6 DEF SInv, TypeOK, Steps
    <2>4. Cell(r, j).work[k] = applied[<<r, k, j>>]
        BY <1>6, <2>3 DEF Cell
    <2>5. ~Written(r, j)
        BY <1>1, <1>2, WrittenOfHeldRow DEF r
    <2>6. applied[<<r, k, j>>] = 0
        BY <1>2, <1>3, <1>6, <2>5 DEF IInv, ValuesFollowBlocks
    <2> QED
        BY <2>2, <2>4, <2>6
<1>7. ASSUME NEW k \in Rows, NEW j \in factor[r], k < r, k <= j
      PROVE  ~(Needed(factor, <<r, k, j>>) /\ Made(w, k, j)')
    <2>1. Needed(factor, <<r, k, j>>) => k \in lower[w]
        BY <1>1, <1>2, <1>3, <1>7, NeededSlot
    <2> QED
        BY <1>1, <1>4, <2>1 DEF Made
<1>8. HoldsItsValues(w)'
    BY <1>5, <1>6, <1>7 DEF HoldsItsValues
<1> QED
    BY <1>1, <1>4, <1>8, ValuesAfterStep

\* Until a report a block only divides by good pivots, and what it computes is right.
LEMMA PivotIs ==
    ASSUME IInv, status = NoReport, NEW w \in Grid, Pivot(w)
    PROVE  LET k == Min(lower[w])
           IN  /\ workspace' = Worked(w, k, k)
               /\ Outcome(factor, View(w), <<RowOf(w), k, k>>) = 1
               /\ pending' = [pending EXCEPT ![w] = Upper(factor, k)]
               /\ pc' = [pc EXCEPT ![w] = "update"]
               /\ UNCHANGED status
<1> DEFINE k == Min(lower[w])
<1>1. pc[w] = "pivot" /\ lower[w] # {}
    BY DEF Pivot
<1>2. /\ k \notin tiny /\ Final(factor, applied, k, k)
      /\ View(w)[<<RowOf(w), k, k>>] = 0
      /\ Sound(factor, View(w), <<RowOf(w), k, k>>)
    BY <1>1, DivisionIsSound
<1>3. \A valid \in BOOLEAN : PivotIsValid(applied, k, valid) => valid = TRUE
    BY <1>2 DEF PivotIsValid
<1>4. Outcome(factor, View(w), <<RowOf(w), k, k>>) = 1
    BY <1>2 DEF Outcome
<1> QED
    BY <1>3, <1>4 DEF Pivot

LEMMA PivotFollows ==
    ASSUME IInv, status = NoReport, NEW w \in Grid, Pivot(w)
    PROVE  ValuesFollowBlocks'
<1> DEFINE r == RowOf(w)
           k == Min(lower[w])
<1>1. /\ pc[w] = "pivot" /\ lower[w] # {} /\ w \in AllBlocks /\ SInv
      /\ UNCHANGED <<plan, applied, host, scheduled, lower>>
      /\ \A v \in AllBlocks : v # w => Stays(v)
    BY BlocksAreTyped, PivotInOrder DEF Pivot, IInv
<1>2. /\ workspace' = Worked(w, k, k)
      /\ Outcome(factor, View(w), <<r, k, k>>) = 1
      /\ pending' = [pending EXCEPT ![w] = Upper(factor, k)]
      /\ pc' = [pc EXCEPT ![w] = "update"]
    BY PivotIs
<1>3. Working(w) /\ Holding(w) /\ r \in Rows
    BY <1>1, WorkingInLevel DEF Working, Holding
<1>4. k \in lower[w] /\ k \in Rows /\ k < r
    BY <1>1, <1>3, NextPivot
<1>5. factor[r] \subseteq Rows
    BY <1>1, <1>3 DEF SInv, TypeOK
<1>6. Needed(factor, <<r, k, k>>)
    BY <1>1, DivisionIsSound
<1>7. pc'[w] = "update" /\ pending'[w] = Upper(factor, k)
    BY <1>1, <1>2 DEF SInv, TypeOK, AllBlocks
<1>8. factor' = factor /\ RowOf(w)' = r /\ Min(lower'[w]) = k /\ lower' = lower
    BY <1>1, Frame DEF RowOf
<1>9. \A d, p \in Rows : workspace'[w][d].work[p] =
          IF d = k /\ p = k THEN 1 ELSE workspace[w][d].work[p]
    BY <1>1, <1>2, <1>4, WorkedIs
<1> HIDE DEF r, k
<1>10. ASSUME NEW p \in Rows, NEW d \in factor[r], p < r, p <= d
       PROVE  workspace'[w][d].work[p] =
                  IF Needed(factor, <<r, p, d>>) /\ Made(w, p, d)' THEN 1 ELSE 0
    <2>1. d \in Rows
        BY <1>5
    <2>2. workspace[w][d].work[p] =
              IF Needed(factor, <<r, p, d>>) /\ Made(w, p, d) THEN 1 ELSE 0
        BY <1>3, <1>10 DEF IInv, ValuesFollowBlocks, HoldsItsValues, r
    <2>3. Made(w, p, d) <=> p \notin lower[w]
        BY <1>1 DEF Made
    <2>4. Made(w, p, d)' <=> p \notin lower[w] \/ (p = k /\ d \notin Upper(factor, k))
        BY <1>7, <1>8 DEF Made
    <2>5. CASE p # k
        BY <1>9, <1>10, <2>1, <2>2, <2>3, <2>4, <2>5
    <2>6. CASE p = k /\ d = k
        <3>1. k \notin Upper(factor, k)
            BY <1>4, RowsAreNatural DEF Upper
        <3> QED
            BY <1>6, <1>9, <2>1, <2>4, <2>6, <3>1
    <2>7. CASE p = k /\ d # k
        <3>1. Needed(factor, <<r, p, d>>) => d \in Upper(factor, k)
            <4>1. d > k
                BY <1>4, <1>10, <2>1, <2>7, RowsAreNatural
            <4> QED
                BY <2>7, <4>1 DEF Needed, Upper
        <3>2. workspace'[w][d].work[p] = workspace[w][d].work[p]
            BY <1>9, <2>1, <2>7
        <3> QED
            BY <1>4, <2>2, <2>3, <2>4, <2>7, <3>1, <3>2
    <2> QED
        BY <2>5, <2>6, <2>7
<1>11. HoldsItsValues(w)'
    BY <1>8, <1>10 DEF HoldsItsValues
<1> QED
    BY <1>1, <1>7, <1>11, ValuesAfterStep

LEMMA SubtractFollows ==
    ASSUME IInv, status = NoReport, NEW w \in Grid, Subtract(w)
    PROVE  /\ ValuesFollowBlocks'
           /\ \E c \in pending[w] :
                  /\ pending' = [pending EXCEPT ![w] = @ \ {c}]
                  /\ Outcome(factor, View(w), <<RowOf(w), Min(lower[w]), c>>) = 1
<1> DEFINE r == RowOf(w)
           k == Min(lower[w])
<1>1. /\ pc[w] = "update" /\ w \in AllBlocks /\ SInv
      /\ UNCHANGED <<plan, applied, host, pc, scheduled, lower>>
      /\ \A v \in AllBlocks : v # w => Stays(v)
    BY BlocksAreTyped, SubtractInOrder DEF Subtract, IInv
<1>2. PICK c \in pending[w] :
          workspace' = Worked(w, k, c) /\ pending' = [pending EXCEPT ![w] = @ \ {c}]
    BY DEF Subtract
<1>3. /\ r \in Rows /\ k \in Rows /\ c \in Rows /\ k < r /\ k < c /\ k \in lower[w]
      /\ Needed(factor, <<r, k, c>>)
      /\ View(w)[<<r, k, c>>] = 0
      /\ Sound(factor, View(w), <<r, k, c>>)
    BY <1>1, SubtractionIsSound
<1>4. Outcome(factor, View(w), <<r, k, c>>) = 1
    BY <1>3 DEF Outcome
<1>5. Holding(w) /\ factor[r] \subseteq Rows
    BY <1>1, <1>3 DEF Holding, SInv, TypeOK
<1>6. pc'[w] = "update" /\ pending'[w] = pending[w] \ {c}
    BY <1>1, <1>2 DEF SInv, TypeOK, AllBlocks
<1>7. factor' = factor /\ RowOf(w)' = r /\ Min(lower'[w]) = k /\ lower' = lower
    BY <1>1, Frame DEF RowOf
<1>8. \A d, p \in Rows : workspace'[w][d].work[p] =
          IF d = c /\ p = k THEN 1 ELSE workspace[w][d].work[p]
    BY <1>1, <1>2, <1>3, <1>4, WorkedIs
<1>9. \A p, d : Made(w, p, d) <=> p \notin lower[w] \/ (p = k /\ d \notin pending[w])
    BY <1>1 DEF Made
<1> HIDE DEF r, k
<1>10. ASSUME NEW p \in Rows, NEW d \in factor[r], p < r, p <= d
       PROVE  workspace'[w][d].work[p] =
                  IF Needed(factor, <<r, p, d>>) /\ Made(w, p, d)' THEN 1 ELSE 0
    <2>1. d \in Rows
        BY <1>5
    <2>2. workspace[w][d].work[p] =
              IF Needed(factor, <<r, p, d>>) /\ Made(w, p, d) THEN 1 ELSE 0
        BY <1>5, <1>10 DEF IInv, ValuesFollowBlocks, HoldsItsValues, r
    <2>3. Made(w, p, d)' <=> p \notin lower[w] \/ (p = k /\ d \notin pending[w] \ {c})
        BY <1>6, <1>7 DEF Made
    <2>4. CASE p = k /\ d = c
        BY <1>3, <1>8, <2>1, <2>3, <2>4
    <2>5. CASE ~(p = k /\ d = c)
        <3>1. workspace'[w][d].work[p] = workspace[w][d].work[p]
            BY <1>8, <1>10, <2>1, <2>5
        <3>2. Made(w, p, d)' <=> Made(w, p, d)
            BY <1>9, <2>3, <2>5
        <3> QED
            BY <2>2, <3>1, <3>2
    <2> QED
        BY <2>4, <2>5
<1>11. HoldsItsValues(w)'
    BY <1>7, <1>10 DEF HoldsItsValues
<1>12. ValuesFollowBlocks'
    BY <1>1, <1>6, <1>11, ValuesAfterStep
<1> QED
    BY <1>2, <1>4, <1>12 DEF r, k

\* A barrier only records what has been done.
LEMMA MadeAcrossBarrier ==
    ASSUME SInv, NEW w \in Grid, Barrier(w), NEW p, NEW d
    PROVE  Made(w, p, d)' <=> Made(w, p, d)
<1> DEFINE k == Min(lower[w])
<1>1. /\ pc[w] = "update" /\ pending[w] = {} /\ w \in AllBlocks
      /\ pc' = [pc EXCEPT ![w] = "pivot"]
      /\ lower' = [lower EXCEPT ![w] = lower[w] \ {k}]
    BY BlocksAreTyped DEF Barrier
<1> HIDE DEF k
<1>2. pc'[w] = "pivot" /\ lower'[w] = lower[w] \ {k}
    BY <1>1 DEF SInv, TypeOK, AllBlocks
<1>3. Made(w, p, d) <=> p \notin lower[w] \/ p = k
    BY <1>1 DEF Made, k
<1>4. Made(w, p, d)' <=> p \notin lower[w] \ {k}
    BY <1>2 DEF Made
<1> QED
    BY <1>3, <1>4

LEMMA BarrierFollows ==
    ASSUME IInv, status = NoReport, NEW w \in Grid, Barrier(w)
    PROVE  ValuesFollowBlocks'
<1>1. /\ pc[w] = "update" /\ w \in AllBlocks /\ SInv
      /\ UNCHANGED <<plan, applied, host, workspace, scheduled>>
      /\ \A v \in AllBlocks : v # w => Stays(v)
      /\ pc' = [pc EXCEPT ![w] = "pivot"]
    BY BlocksAreTyped, BarrierInOrder DEF Barrier, IInv
<1>2. pc'[w] = "pivot" /\ Holding(w)
    BY <1>1 DEF SInv, TypeOK, AllBlocks, Holding
<1>3. factor' = factor /\ RowOf(w)' = RowOf(w)
    BY <1>1, Frame DEF RowOf
<1>4. HoldsItsValues(w)
    BY <1>2 DEF IInv, ValuesFollowBlocks
<1>5. HoldsItsValues(w)'
    BY <1>1, <1>3, <1>4, MadeAcrossBarrier DEF HoldsItsValues
<1> QED
    BY <1>1, <1>2, <1>5, ValuesAfterStep

\* The diagonal is tested when it is final, so the test decides whether the row is bad.
LEMMA TestDiagonalIs ==
    ASSUME IInv, status = NoReport, NEW w \in Grid, TestDiagonal(w)
    PROVE  LET r == RowOf(w)
           IN  /\ r \in Rows /\ Final(factor, View(w), r, r)
               /\ \/ /\ r \notin tiny
                     /\ pc' = [pc EXCEPT ![w] = "gather"]
                     /\ pending' = [pending EXCEPT ![w] = factor[r]]
                     /\ UNCHANGED status
                  \/ r \in tiny /\ status' = r /\ status' # NoReport
<1> DEFINE r == RowOf(w)
<1>1. pc[w] = "pivot" /\ lower[w] = {}
    BY DEF TestDiagonal
<1>2. Holding(w) /\ Working(w) /\ r \in Rows
    BY <1>1, WorkingInLevel, BlocksAreTyped DEF IInv, Working, Holding
<1>3. \A p \in Rows : p < r /\ p <= r =>
          View(w)[<<r, p, r>>] = IF Needed(factor, <<r, p, r>>) THEN 1 ELSE 0
    BY <1>1, <1>2, ViewIs DEF Made
<1>4. DOMAIN factor = Rows
    BY DEF IInv, SInv, TypeOK
<1>5. Final(factor, View(w), r, r)
    BY <1>2, <1>3, <1>4 DEF Final, DoneBelow
<1>6. r # NoReport
    BY <1>2, RowsAreNatural DEF NoReport
<1>7. PICK valid \in BOOLEAN :
          /\ PivotIsValid(View(w), r, valid)
          /\ IF valid
             THEN /\ pc' = [pc EXCEPT ![w] = "gather"]
                  /\ pending' = [pending EXCEPT ![w] = factor[r]]
                  /\ UNCHANGED status
             ELSE /\ Report(r)
                  /\ pc' = [pc EXCEPT ![w] = "idle"]
                  /\ UNCHANGED pending
    BY DEF TestDiagonal
<1>8. valid = (r \notin tiny)
    BY <1>5, <1>7 DEF PivotIsValid
<1> HIDE DEF r
<1>9. CASE valid
    BY <1>2, <1>5, <1>7, <1>8, <1>9 DEF r
<1>10. CASE ~valid
    <2>1. status' = r /\ r \in tiny
        BY <1>7, <1>8, <1>10 DEF Report
    <2> QED
        BY <1>2, <1>5, <1>6, <2>1 DEF r
<1> QED
    BY <1>9, <1>10

LEMMA TestDiagonalFollows ==
    ASSUME IInv, status = NoReport, status' = NoReport, NEW w \in Grid, TestDiagonal(w)
    PROVE  ValuesFollowBlocks'
<1> DEFINE r == RowOf(w)
<1>1. /\ pc[w] = "pivot" /\ lower[w] = {} /\ w \in AllBlocks /\ SInv
      /\ UNCHANGED <<plan, applied, host, workspace, scheduled, lower>>
      /\ \A v \in AllBlocks : v # w => Stays(v)
    BY BlocksAreTyped, TestDiagonalInOrder DEF TestDiagonal, IInv
<1>2. /\ r \notin tiny /\ pc' = [pc EXCEPT ![w] = "gather"]
      /\ pending' = [pending EXCEPT ![w] = factor[r]]
    BY TestDiagonalIs
<1>3. pc'[w] = "gather" /\ pending'[w] = factor[r] /\ Holding(w)
    BY <1>1, <1>2 DEF SInv, TypeOK, AllBlocks, Holding
<1>4. factor' = factor /\ RowOf(w)' = r
    BY <1>1, Frame DEF RowOf
<1>5. HoldsItsValues(w)
    BY <1>3 DEF IInv, ValuesFollowBlocks
<1>6. \A p, d : Made(w, p, d)' /\ Made(w, p, d)
    BY <1>1 DEF Made
<1>7. HoldsItsValues(w)'
    BY <1>1, <1>4, <1>5, <1>6 DEF HoldsItsValues
<1> QED
    BY <1>1, <1>2, <1>3, <1>7, ValuesAfterStep

-----------------------------------------------------------------------------
\* The last entry of a row gathers the row: the block passes its position and no other.
LEMMA GatherPasses ==
    ASSUME SInv, NEW w \in Grid, Working(w), UNCHANGED <<plan, host>>,
           scheduled' = [scheduled EXCEPT ![w] = @ + Stride], NEW i
    PROVE  Gathered(i)' <=> Gathered(i) \/ i = RowOf(w)
<1> DEFINE here == scheduled[w]
<1>1. /\ w \in AllBlocks /\ here \in Nat /\ here < Width /\ stage = "level"
      /\ here % Stride = w /\ Stride \in Nat \ {0}
    BY BlocksAreTyped, WorkingInLevel DEF BlockInOrder, TakesItsTurns
<1>2. /\ offsets' = offsets /\ schedule' = schedule /\ stage' = stage /\ level' = level
      /\ Stride' = Stride
    BY Frame
<1>3. /\ scheduled'[w] = here + Stride
      /\ \A v \in AllBlocks : v # w => scheduled'[v] = scheduled[v]
    BY <1>1 DEF SInv, TypeOK, AllBlocks
<1>4. /\ offsets[level] \in Nat /\ offsets[level + 1] \in Nat
      /\ Width = offsets[level + 1] - offsets[level]
      /\ offsets[level] + here \in Rows
    BY <1>1, LevelBounds, PositionInLevel, RowsAreNatural
<1> HIDE DEF here
<1>5. ASSUME NEW q \in Rows
      PROVE  Passed(q)' <=> Passed(q) \/ q = offsets[level] + here
    <2> DEFINE p == q - offsets[level]
               turn == p % Stride
    <2>1. q \in Nat
        BY RowsAreNatural
    <2>2. CASE q < offsets[level]
        BY <1>1, <1>2, <1>4, <2>1, <2>2 DEF Passed
    <2>3. CASE ~(q < offsets[level + 1])
        <3>1. ~(q < offsets[level]) /\ q # offsets[level] + here
            BY <1>1, <1>4, <2>1, <2>3, LevelBounds
        <3> QED
            BY <1>1, <1>2, <2>3, <3>1 DEF Passed
    <2>4. CASE ~(q < offsets[level]) /\ q < offsets[level + 1]
        <3>1. p \in Nat /\ q = offsets[level] + p
            BY <1>4, <2>1, <2>4
        <3>2. turn \in AllBlocks /\ turn \in Grid
            BY <1>1, <3>1, TurnIsABlock, GridIsAnInterval
        <3>3. Passed(q) <=> p < scheduled[turn]
            BY <1>1, <2>4 DEF Passed
        <3>4. Passed(q)' <=> p < scheduled'[turn]
            BY <1>1, <1>2, <2>4 DEF Passed
        <3>5. q = offsets[level] + here <=> p = here
            BY <1>1, <1>4, <3>1
        <3> HIDE DEF p
        <3>6. CASE turn # w
            <4>1. p # here
                BY <1>1, <3>6
            <4> QED
                BY <1>3, <3>2, <3>3, <3>4, <3>5, <3>6, <4>1
        <3>7. CASE turn = w
            <4>1. p % Stride = here % Stride /\ scheduled[turn] = here
                BY <1>1, <3>7 DEF here
            <4>2. p < here + Stride <=> p < here \/ p = here
                <5>1. here <= p /\ p < here + Stride => p = here
                    BY <1>1, <3>1, <4>1, OneTurnInAStride
                <5> QED
                    BY <1>1, <3>1, <5>1
            <4> QED
                BY <1>3, <3>3, <3>4, <3>5, <3>7, <4>1, <4>2
        <3> QED
            BY <3>6, <3>7
    <2> QED
        BY <2>2, <2>3, <2>4
<1>6. RowOf(w) = schedule[offsets[level] + here]
    BY DEF RowOf, here
<1> QED
    BY <1>2, <1>4, <1>5, <1>6 DEF Gathered

LEMMA GatherFollows ==
    ASSUME IInv, status = NoReport, NEW w \in Grid, Gather(w)
    PROVE  /\ ValuesFollowBlocks'
           /\ RowOf(w) \in Rows /\ \A i : Gathered(i)' => Gathered(i) \/ i = RowOf(w)
<1> DEFINE r == RowOf(w)
<1>1. /\ pc[w] = "gather" /\ w \in AllBlocks /\ SInv
      /\ Working(w) /\ Holding(w) /\ HoldsItsRow(w) /\ lower[w] = {}
      /\ UNCHANGED <<plan, host, workspace, lower>>
      /\ \A v \in AllBlocks : v # w => Stays(v)
    BY GatherIs, GatherInOrder DEF IInv
<1>2. PICK c \in pending[w] :
          /\ applied' = [s \in DOMAIN applied |->
                 IF s[1] = RowOf(w) /\ s[3] = c THEN InWorkspace(w, s) ELSE applied[s]]
          /\ pending' = [pending EXCEPT ![w] = @ \ {c}]
          /\ IF pending[w] = {c}
             THEN /\ pc' = [pc EXCEPT ![w] = "take"]
                  /\ scheduled' = [scheduled EXCEPT ![w] = @ + Stride]
             ELSE UNCHANGED <<pc, scheduled>>
    BY GatherIs DEF IInv
<1>3. r \in Rows /\ c \in factor[r] /\ c \in Rows
    BY <1>1, WorkingInLevel, BlocksAreTyped DEF HoldsItsRow
<1>4. /\ factor' = factor /\ tiny' = tiny /\ stage' = stage
      /\ Width' = Width /\ Grid' = Grid
    BY <1>1, Frame
<1>5. ASSUME NEW v \in Grid, v # w
      PROVE  /\ Stays(v) /\ RowOf(v)' = RowOf(v) /\ (Holding(v)' <=> Holding(v))
             /\ pc'[v] = pc[v] /\ pending'[v] = pending[v] /\ scheduled'[v] = scheduled[v]
    <2>1. v \in AllBlocks
        BY <1>1, BlocksAreTyped
    <2>2. Stays(v)
        BY <1>1, <1>5, <2>1
    <2> QED
        BY <1>1, <2>2, BlockThatStays DEF Stays
<1>6. pending'[w] = pending[w] \ {c}
    BY <1>1, <1>2 DEF SInv, TypeOK, AllBlocks
<1>7. r \notin tiny /\ HoldsItsValues(w)
    BY <1>1 DEF IInv, ValuesFollowBlocks
<1>8. \A j : Written(r, j) <=> j \notin pending[w]
    BY <1>1, WrittenOfHeldRow
<1>9. \/ /\ pending[w] = {c} /\ pc'[w] = "take"
         /\ \A i : Gathered(i)' <=> Gathered(i) \/ i = r
      \/ /\ pc'[w] = "gather" /\ RowOf(w)' = r /\ scheduled' = scheduled
         /\ \A i : Gathered(i)' <=> Gathered(i)
    <2>1. CASE pending[w] = {c}
        <3>1. pc'[w] = "take"
            BY <1>1, <1>2, <2>1 DEF SInv, TypeOK, AllBlocks
        <3>2. scheduled' = [scheduled EXCEPT ![w] = @ + Stride]
            BY <1>2, <2>1
        <3>3. \A i : Gathered(i)' <=> Gathered(i) \/ i = r
            BY <1>1, <3>2, GatherPasses
        <3> QED
            BY <2>1, <3>1, <3>3
    <2>2. CASE pending[w] # {c}
        <3>1. pc' = pc /\ scheduled' = scheduled
            BY <1>2, <2>2
        <3>2. RowOf(w)' = r
            BY <1>1, <3>1, Frame DEF RowOf
        <3>3. \A i : Gathered(i)' <=> Gathered(i)
            BY <1>1, <3>1, GatheredStays
        <3> QED
            BY <1>1, <3>1, <3>2, <3>3
    <2> QED
        BY <2>1, <2>2
<1> HIDE DEF r
<1>10. \A i : Gathered(i)' => Gathered(i) \/ i = r
    BY <1>9
<1>11. ASSUME NEW i \in Rows, NEW j \in Rows
       PROVE  Written(i, j)' <=> Written(i, j) \/ (i = r /\ j = c)
    <2> DEFINE Others == \E v \in Grid : v # w /\ pc[v] = "gather" /\ RowOf(v) = i
                                           /\ j \notin pending[v]
    <2>1. Written(i, j) <=> Gathered(i) \/ Others \/ (i = r /\ j \notin pending[w])
        BY <1>1 DEF Written, r
    <2>2. Written(i, j)' <=>
              Gathered(i)' \/ Others
                  \/ (pc'[w] = "gather" /\ RowOf(w)' = i /\ j \notin pending'[w])
        <3>1. \A v \in Grid : v # w =>
                  (pc'[v] = "gather" /\ RowOf(v)' = i /\ j \notin pending'[v]
                       <=> pc[v] = "gather" /\ RowOf(v) = i /\ j \notin pending[v])
            BY <1>5
        <3> QED
            BY <1>4, <3>1 DEF Written
    <2> HIDE DEF Others
    <2>3. CASE i = r
        BY <1>6, <1>8, <1>9, <2>1, <2>2, <2>3
    <2>4. CASE i # r
        BY <1>9, <2>1, <2>2, <2>4
    <2> QED
        BY <2>3, <2>4
<1>12. ASSUME NEW i \in Rows, NEW k \in Rows, NEW j \in Rows, k < i, k <= j
       PROVE  applied'[<<i, k, j>>] =
                  IF Needed(factor', <<i, k, j>>) /\ Written(i, j)' THEN 1 ELSE 0
    <2> DEFINE s == <<i, k, j>>
    <2>1. s \in DOMAIN applied
        BY <1>1, <1>12 DEF SInv, TypeOK, Steps
    <2>2. applied'[s] = IF i = r /\ j = c THEN InWorkspace(w, s) ELSE applied[s]
        BY <1>2, <2>1 DEF r
    <2>3. applied[s] = IF Needed(factor, s) /\ Written(i, j) THEN 1 ELSE 0
        BY <1>12 DEF IInv, ValuesFollowBlocks
    <2>4. CASE i = r /\ j = c
        <3>1. workspace[w][j].row = r
            BY <1>1, <1>3, <2>4 DEF HoldsItsRow, r
        <3>2. Made(w, k, j)
            BY <1>1 DEF Made
        <3>3. workspace[w][j].work[k] = IF Needed(factor, s) THEN 1 ELSE 0
            BY <1>3, <1>7, <1>12, <2>4, <3>2 DEF HoldsItsValues, r
        <3>4. InWorkspace(w, s) = workspace[w][j].work[k]
            BY <2>4, <3>1 DEF InWorkspace
        <3> HIDE DEF s
        <3> QED
            BY <1>4, <1>11, <2>2, <2>4, <3>3, <3>4 DEF s
    <2>5. CASE ~(i = r /\ j = c)
        <3> HIDE DEF s
        <3> QED
            BY <1>4, <1>11, <2>2, <2>3, <2>5 DEF s
    <2> QED
        BY <2>4, <2>5
<1>13. ASSUME NEW v \in Grid, Holding(v)' PROVE HoldsItsValues(v)'
    <2>1. CASE v # w
        BY <1>1, <1>5, <1>13, <2>1, BlockValuesStay DEF IInv, ValuesFollowBlocks
    <2>2. CASE v = w
        <3>1. RowOf(w)' = r
            BY <1>9, <1>13, <2>2 DEF Holding
        <3>2. \A p, d : Made(w, p, d)' /\ Made(w, p, d)
            BY <1>1 DEF Made
        <3>3. HoldsItsValues(w)'
            BY <1>1, <1>4, <1>7, <3>1, <3>2 DEF HoldsItsValues, r
        <3> QED
            BY <2>2, <3>3
    <2> QED
        BY <2>1, <2>2
<1>14. \A i \in Rows : Gathered(i)' => i \notin tiny
    BY <1>7, <1>10 DEF IInv, ValuesFollowBlocks
<1>15. ASSUME NEW v \in Grid
       PROVE  /\ pc'[v] = "gather" => RowOf(v)' \notin tiny
              /\ stage = "level" /\ pc'[v] = "idle" => scheduled'[v] >= Width
    <2>1. CASE v # w
        BY <1>5, <2>1 DEF IInv, ValuesFollowBlocks
    <2>2. CASE v = w
        BY <1>7, <1>9, <2>2
    <2> QED
        BY <2>1, <2>2
<1>16. ValuesFollowBlocks'
    BY <1>4, <1>12, <1>13, <1>14, <1>15 DEF ValuesFollowBlocks
<1> QED
    BY <1>3, <1>10, <1>16 DEF r

-----------------------------------------------------------------------------
LEMMA TurnIsNoLater ==
    ASSUME NEW G \in Nat \ {0}, NEW q \in Nat
    PROVE  q % G <= q
<1>1. q = G * (q \div G) + (q % G) /\ q \div G \in Nat /\ q % G \in Nat
    BY Division, TurnIsABlock
<1>2. \A d \in Nat : G * d \in Nat
    OBVIOUS
<1>3. G * (q \div G) \in Nat
    BY <1>1, <1>2
<1> QED
    BY <1>1, <1>3

\* The block whose turn a position of the level is.
LEMMA TurnInLevel ==
    ASSUME SInv, NEW q \in Rows, offsets[level] <= q, q < offsets[level + 1]
    PROVE  /\ q - offsets[level] \in Nat /\ q - offsets[level] < Width
           /\ (q - offsets[level]) % Stride \in Grid
           /\ (q - offsets[level]) % Stride \in AllBlocks
           /\ (q - offsets[level]) % Stride <= q - offsets[level]
<1> DEFINE p == q - offsets[level]
<1>1. p \in Nat /\ p < Width /\ Width # 0
    BY LevelBounds, RowsAreNatural
<1>2. Stride \in Nat \ {0} /\ Grid = 0 .. Stride - 1 /\ Grid \subseteq AllBlocks
    BY <1>1, GridIsAnInterval
<1> HIDE DEF p
<1>3. p % Stride \in 0 .. Stride - 1 /\ p % Stride <= p
    BY <1>1, <1>2, TurnIsABlock, TurnIsNoLater
<1> QED
    BY <1>1, <1>2, <1>3 DEF p

LEMMA LaunchFollows ==
    ASSUME IInv, status = NoReport, Launch
    PROVE  ValuesFollowBlocks' /\ \A i : Gathered(i)' <=> Gathered(i)
<1>1. /\ stage = "launch" /\ stage' = "level" /\ SInv
      /\ UNCHANGED <<plan, applied, status, level>>
    BY DEF Launch, IInv
<1>2. /\ factor' = factor /\ offsets' = offsets /\ schedule' = schedule /\ tiny' = tiny
      /\ Width' = Width /\ Grid' = Grid /\ Stride' = Stride
    BY <1>1 DEF plan, Width, Grid, Stride
<1>3. ASSUME NEW v \in AllBlocks
      PROVE  /\ pc[v] = "idle" /\ scheduled'[v] = v
             /\ pc'[v] = IF v \in Grid THEN "take" ELSE "idle"
    <2>1. BlockInOrder(v)
        BY <1>1 DEF SInv
    <2>2. pc[v] = "idle"
        BY <1>1, <2>1 DEF BlockInOrder, TakesItsTurns
    <2> QED
        BY <1>1, <2>2 DEF Launch, SInv, TypeOK, AllBlocks
<1>4. Grid \subseteq AllBlocks
    BY <1>1, GridIsAnInterval
<1>5. ASSUME NEW q \in Rows PROVE Passed(q)' <=> Passed(q)
    <2>1. Passed(q) <=> q < offsets[level]
        BY <1>1 DEF Passed
    <2>2. CASE q < offsets[level]
        BY <1>1, <1>2, <2>1, <2>2 DEF Passed
    <2>3. CASE ~(q < offsets[level])
        <3>1. CASE q < offsets[level + 1]
            <4> DEFINE p == q - offsets[level]
            <4>1. offsets[level] <= q
                BY <1>1, <2>3, LevelBounds, RowsAreNatural
            <4>2. /\ p \in Nat /\ p % Stride \in AllBlocks /\ p % Stride <= p
                  /\ p % Stride \in Grid
                BY <1>1, <3>1, <4>1, TurnInLevel
            <4>3. scheduled'[p % Stride] = p % Stride
                BY <1>3, <4>2
            <4>4. p % Stride \in Nat
                BY <1>1, <4>2, GridIsAnInterval
            <4> HIDE DEF p
            <4>5. ~(p < scheduled'[p % Stride])
                <5>1. ~(p < p % Stride)
                    BY <4>2, <4>4
                <5> QED
                    BY <4>3, <5>1
            <4> QED
                BY <1>1, <1>2, <2>1, <2>3, <4>5 DEF Passed, p
        <3>2. CASE ~(q < offsets[level + 1])
            BY <1>1, <1>2, <2>1, <2>3, <3>2 DEF Passed
        <3> QED
            BY <3>1, <3>2
    <2> QED
        BY <2>2, <2>3
<1>6. \A i : Gathered(i)' <=> Gathered(i)
    BY <1>2, <1>5 DEF Gathered
<1>7. \A v \in Grid : pc[v] = "idle" /\ pc'[v] = "take"
    BY <1>3, <1>4
<1>8. \A i, j : Written(i, j)' <=> Written(i, j)
    BY <1>2, <1>6, <1>7 DEF Written
<1>9. \A i, k, j \in Rows : k < i /\ k <= j =>
          applied'[<<i, k, j>>] = IF Needed(factor', <<i, k, j>>) /\ Written(i, j)' THEN 1 ELSE 0
    BY <1>1, <1>2, <1>8 DEF IInv, ValuesFollowBlocks
<1>10. \A i \in Rows : Gathered(i)' => i \notin tiny'
    BY <1>2, <1>6 DEF IInv, ValuesFollowBlocks
<1>11. ValuesFollowBlocks'
    BY <1>2, <1>7, <1>9, <1>10 DEF ValuesFollowBlocks, Holding
<1> QED
    BY <1>6, <1>11

LEMMA GridOfBlocks == SInv => (Grid \subseteq AllBlocks)
    BY GridIsAnInterval

LEMMA FinishLevelFollows ==
    ASSUME IInv, status = NoReport, FinishLevel
    PROVE  ValuesFollowBlocks' /\ \A i : Gathered(i)' <=> Gathered(i)
<1>1. /\ stage = "level" /\ SInv
      /\ UNCHANGED <<plan, applied, status, pc, scheduled>>
      /\ level' = IF offsets[level + 1] = Dimension THEN level ELSE level + 1
      /\ stage' = IF offsets[level + 1] = Dimension THEN "done" ELSE "launch"
    BY DEF FinishLevel, IInv, blocks
<1>2. /\ factor' = factor /\ offsets' = offsets /\ schedule' = schedule /\ tiny' = tiny
    BY <1>1 DEF plan
<1>3. \A v \in AllBlocks : pc[v] = "idle"
    BY <1>1, FinishLevelInOrder
<1>4. Grid \subseteq AllBlocks
    BY <1>1, GridIsAnInterval
<1>5. ASSUME NEW q \in Rows PROVE Passed(q) <=> q < offsets[level + 1]
    <2>1. offsets[level] <= offsets[level + 1] /\ offsets[level] \in Nat
          /\ offsets[level + 1] \in Nat /\ q \in Nat
        BY <1>1, LevelBounds, RowsAreNatural
    <2>2. CASE q < offsets[level]
        BY <2>1, <2>2 DEF Passed
    <2>3. CASE ~(q < offsets[level]) /\ q < offsets[level + 1]
        <3> DEFINE p == q - offsets[level]
        <3>1. p \in Nat /\ p < Width /\ p % Stride \in Grid
            BY <1>1, <2>1, <2>3, TurnInLevel
        <3>2. scheduled[p % Stride] >= Width /\ scheduled[p % Stride] \in Nat
            BY <1>1, <1>3, <1>4, <3>1, BlocksAreTyped DEF IInv, ValuesFollowBlocks
        <3>3. Width \in Nat
            BY <1>1, LevelBounds, RowsAreNatural
        <3> HIDE DEF p
        <3>4. p < scheduled[p % Stride]
            BY <3>1, <3>2, <3>3
        <3> QED
            BY <1>1, <2>3, <3>4 DEF Passed, p
    <2>4. CASE ~(q < offsets[level + 1])
        <3>1. ~(q < offsets[level])
            BY <2>1, <2>4
        <3> QED
            BY <1>1, <2>4, <3>1 DEF Passed
    <2> QED
        BY <2>2, <2>3, <2>4
<1>6. ASSUME NEW q \in Rows PROVE Passed(q)' <=> Passed(q)
    <2>1. CASE offsets[level + 1] = Dimension
        <3>1. stage' = "done"
            BY <1>1, <2>1
        <3>2. q < offsets[level + 1]
            BY <2>1, RowsAreNatural
        <3> QED
            BY <1>5, <3>1, <3>2 DEF Passed
    <2>2. CASE offsets[level + 1] # Dimension
        <3>1. stage' = "launch"
            BY <1>1, <2>2
        <3>2. offsets'[level'] = offsets[level + 1]
            BY <1>1, <1>2, <2>2
        <3> QED
            BY <1>5, <3>1, <3>2 DEF Passed
    <2> QED
        BY <2>1, <2>2
<1>7. \A i : Gathered(i)' <=> Gathered(i)
    BY <1>2, <1>6 DEF Gathered
<1>8. ASSUME NEW v, pc[v] = "gather" \/ Holding(v)' \/ pc'[v] = "gather", v \in AllBlocks
      PROVE  FALSE
    BY <1>1, <1>3, <1>8 DEF Holding
<1>9. SInv'
    BY <1>1, FinishLevelInOrder
<1>10. (Grid \subseteq AllBlocks)'
    BY <1>9, GridOfBlocks, PTL
<1>11. \A i, j : Written(i, j)' <=> Written(i, j)
    BY <1>4, <1>7, <1>8, <1>10 DEF Written, AllBlocks
<1>12. \A i, k, j \in Rows : k < i /\ k <= j =>
          applied'[<<i, k, j>>] = IF Needed(factor', <<i, k, j>>) /\ Written(i, j)' THEN 1 ELSE 0
    BY <1>1, <1>2, <1>11 DEF IInv, ValuesFollowBlocks
<1>13. \A i \in Rows : Gathered(i)' => i \notin tiny'
    BY <1>2, <1>7 DEF IInv, ValuesFollowBlocks
<1>14. stage' # "level"
    BY <1>1
<1>15. ASSUME NEW v \in Grid' PROVE ~Holding(v)' /\ pc'[v] # "gather"
    <2>1. v \in AllBlocks
        BY <1>10 DEF AllBlocks
    <2> QED
        BY <1>8, <2>1
<1>16. ValuesFollowBlocks'
    BY <1>12, <1>13, <1>14, <1>15 DEF ValuesFollowBlocks
<1> QED
    BY <1>7, <1>16

-----------------------------------------------------------------------------
LEMMA InitIsFine == Init => IInv
<1> SUFFICES ASSUME Init PROVE IInv
    OBVIOUS
<1>1. SInv
    BY InitIsInOrder
<1>2. /\ stage = "launch" /\ level = 0
      /\ \A w \in AllBlocks : pc[w] = "idle"
    BY DEF Init, AllBlocks
<1>3. Grid \subseteq AllBlocks
    BY <1>1, GridIsAnInterval
<1>4. \A i : ~Gathered(i)
    <2>1. \A q \in Rows : ~(q < offsets[level])
        BY <1>1, <1>2, RowsAreNatural DEF SInv, PlanIsSound
    <2> QED
        BY <1>2, <2>1 DEF Gathered, Passed
<1>5. \A i, j : ~Written(i, j)
    BY <1>2, <1>3, <1>4 DEF Written
<1>6. \A i, k, j \in Rows : k < i /\ k <= j => applied[<<i, k, j>>] = 0
    BY DEF Init, Steps
<1>7. \A w \in Grid : ~Holding(w) /\ pc[w] # "gather"
    BY <1>2, <1>3 DEF Holding
<1>8. stage # "level"
    BY <1>2
<1>9. ValuesFollowBlocks
    BY <1>4, <1>5, <1>6, <1>7, <1>8 DEF ValuesFollowBlocks
<1> QED
    BY <1>1, <1>9 DEF IInv

\* The plan stays, and a report stays.
LEMMA PlanAndReportStay ==
    ASSUME Next
    PROVE  UNCHANGED plan /\ (status # NoReport => status' = status)
<1>1. ASSUME NEW w \in Grid, Block(w)
      PROVE  UNCHANGED plan /\ (status # NoReport => status' = status)
    BY <1>1 DEF Block, TakeRow, Scatter, Pivot, Subtract, Barrier, TestDiagonal, Gather, Report
<1> QED
    BY <1>1 DEF Next, Launch, FinishLevel, Finished, vars

LEMMA StutterFollows ==
    ASSUME IInv, status = NoReport, UNCHANGED vars
    PROVE  ValuesFollowBlocks'
<1>1. UNCHANGED <<plan, host, scheduled>> /\ UNCHANGED <<applied, pc, lower, pending, workspace>>
    BY DEF vars, host, blocks
<1>2. /\ factor' = factor /\ tiny' = tiny /\ stage' = stage
      /\ Width' = Width /\ Grid' = Grid
    BY <1>1, Frame
<1>3. \A i : Gathered(i)' <=> Gathered(i)
    BY <1>1, GatheredStays
<1>4. \A v : Stays(v)
    BY <1>1 DEF Stays
<1>5. \A v : RowOf(v)' = RowOf(v) /\ (Holding(v)' <=> Holding(v))
    BY <1>1, <1>4, BlockThatStays
<1>6. \A i, j : Written(i, j)' <=> Written(i, j)
    BY <1>1, <1>2, <1>3, <1>5 DEF Written
<1>7. \A i, k, j \in Rows : k < i /\ k <= j =>
          applied'[<<i, k, j>>] = IF Needed(factor', <<i, k, j>>) /\ Written(i, j)' THEN 1 ELSE 0
    BY <1>1, <1>2, <1>6 DEF IInv, ValuesFollowBlocks
<1>8. \A v \in Grid : Holding(v)' => HoldsItsValues(v)'
    BY <1>1, <1>4, <1>5, BlockValuesStay DEF IInv, ValuesFollowBlocks
<1>9. \A i \in Rows : Gathered(i)' => i \notin tiny
    BY <1>3 DEF IInv, ValuesFollowBlocks
<1>10. /\ \A v \in Grid : pc'[v] = "gather" => RowOf(v)' \notin tiny
       /\ stage = "level" => \A v \in Grid : pc'[v] = "idle" => scheduled'[v] >= Width
    BY <1>1, <1>5 DEF IInv, ValuesFollowBlocks
<1> QED
    BY <1>2, <1>7, <1>8, <1>9, <1>10 DEF ValuesFollowBlocks

LEMMA NextIsFine == IInv /\ [Next]_vars => IInv'
<1> SUFFICES ASSUME IInv, [Next]_vars PROVE IInv'
    OBVIOUS
<1>1. SInv'
    BY NextInOrder DEF IInv
<1>2. ASSUME status' = NoReport PROVE ValuesFollowBlocks'
    <2>1. CASE UNCHANGED vars
        <3>1. status = NoReport
            BY <1>2, <2>1 DEF vars
        <3> QED
            BY <2>1, <3>1, StutterFollows
    <2>2. CASE Next
        <3>1. status = NoReport
            BY <1>2, <2>2, PlanAndReportStay
        <3>2. ASSUME NEW w \in Grid, Block(w) PROVE ValuesFollowBlocks'
            BY <1>2, <3>1, <3>2, TakeRowFollows, ScatterFollows, PivotFollows, SubtractFollows,
               BarrierFollows, TestDiagonalFollows, GatherFollows DEF Block
        <3> QED
            BY <2>1, <2>2, <3>1, <3>2, LaunchFollows, FinishLevelFollows DEF Next, Finished
    <2> QED
        BY <2>1, <2>2
<1> QED
    BY <1>1, <1>2 DEF IInv

\* The inductive invariant holds of every reachable state.
THEOREM Invariance == Spec => []IInv
<1> QED
    BY InitIsFine, NextIsFine, PTL DEF Spec

-----------------------------------------------------------------------------
\* The steps made so far, in storage or in a workspace.
Did(i, k, j) ==
    \/ Gathered(i)
    \/ \E w \in Grid : Holding(w) /\ RowOf(w) = i /\ Made(w, k, j)

EntriesFollow ==
    status = NoReport =>
        \A i, k, j \in Rows : k < i /\ k <= j =>
            Entries[<<i, k, j>>] = IF Needed(factor, <<i, k, j>>) /\ Did(i, k, j) THEN 1 ELSE 0

\* The entries of a row in a workspace are the cells there.
LEMMA EntryInWorkspace ==
    ASSUME SInv, NEW w \in Grid, Holding(w), NEW k \in Rows, NEW j \in factor[RowOf(w)],
           k < RowOf(w), k <= j
    PROVE  /\ Entries[<<RowOf(w), k, j>>] = workspace[w][j].work[k]
           /\ \A p, d : Did(RowOf(w), p, d) <=> Made(w, p, d)
<1> DEFINE s == <<RowOf(w), k, j>>
           holders == {v \in Grid : Holding(v) /\ RowOf(v) = s[1]}
<1>1. Working(w) /\ RowOf(w) \in Rows /\ j \in Rows /\ ~Gathered(RowOf(w)) /\ w \in AllBlocks
    BY WorkingInLevel, BlocksAreTyped, HeldRowIsNotGathered DEF Working, SInv, TypeOK
<1>2. ASSUME NEW v \in Grid, Holding(v), RowOf(v) = RowOf(w)
      PROVE  v = w
    <2>1. Working(v) /\ v \in AllBlocks
        BY <1>2, BlocksAreTyped DEF Working
    <2> QED
        BY <1>1, <1>2, <2>1, WorkingInLevel, RowsOfBlocksDiffer
<1>3. \A p, d : Did(RowOf(w), p, d) <=> Made(w, p, d)
    BY <1>1, <1>2 DEF Did
<1>4. holders = {w}
    BY <1>2
<1>5. (CHOOSE v \in holders : TRUE) = w
    BY <1>4
<1>6. s \in DOMAIN applied
    BY <1>1 DEF SInv, TypeOK, Steps
<1>7. Entries[s] = IF holders # {} /\ s[3] \in factor[s[1]]
                   THEN InWorkspace(CHOOSE v \in holders : TRUE, s) ELSE applied[s]
    BY <1>6 DEF Entries
<1>8. Entries[s] = InWorkspace(w, s)
    <2> HIDE DEF holders
    <2> QED
        BY <1>4, <1>5, <1>7
<1>9. workspace[w][j].row = RowOf(w)
    BY <1>1, BlocksAreTyped DEF BlockInOrder, HoldsItsRow
<1>10. InWorkspace(w, s) = workspace[w][j].work[k]
    BY <1>9 DEF InWorkspace
<1> QED
    BY <1>3, <1>8, <1>10

\* Other entries are those in storage.
LEMMA EntryInStorage ==
    ASSUME SInv, NEW i \in Rows, NEW k \in Rows, NEW j \in Rows, k < i, k <= j,
           j \notin factor[i] \/ \A w \in Grid : ~(Holding(w) /\ RowOf(w) = i)
    PROVE  Entries[<<i, k, j>>] = applied[<<i, k, j>>]
<1> DEFINE s == <<i, k, j>>
           holders == {w \in Grid : Holding(w) /\ RowOf(w) = s[1]}
<1>1. s \in DOMAIN applied
    BY DEF SInv, TypeOK, Steps
<1>2. Entries[s] = IF holders # {} /\ s[3] \in factor[s[1]]
                   THEN InWorkspace(CHOOSE v \in holders : TRUE, s) ELSE applied[s]
    BY <1>1 DEF Entries
<1>3. ~(holders # {} /\ s[3] \in factor[s[1]])
    OBVIOUS
<1> HIDE DEF holders
<1> QED
    BY <1>2, <1>3

LEMMA EntriesOfBlocks == IInv => EntriesFollow
<1> SUFFICES ASSUME IInv, status = NoReport,
                    NEW i \in Rows, NEW k \in Rows, NEW j \in Rows, k < i, k <= j
             PROVE  Entries[<<i, k, j>>] =
                        IF Needed(factor, <<i, k, j>>) /\ Did(i, k, j) THEN 1 ELSE 0
    BY DEF EntriesFollow
<1>1. SInv
    BY DEF IInv
<1>2. applied[<<i, k, j>>] = IF Needed(factor, <<i, k, j>>) /\ Written(i, j) THEN 1 ELSE 0
    BY DEF IInv, ValuesFollowBlocks
<1>3. CASE j \notin factor[i]
    <2>1. ~Needed(factor, <<i, k, j>>)
        BY <1>1, <1>3, NeededSlot
    <2> QED
        BY <1>1, <1>2, <1>3, <2>1, EntryInStorage
<1>4. CASE \A w \in Grid : ~(Holding(w) /\ RowOf(w) = i)
    <2>1. Entries[<<i, k, j>>] = applied[<<i, k, j>>]
        BY <1>1, <1>4, EntryInStorage
    <2>2. Written(i, j) <=> Gathered(i)
        BY <1>4 DEF Written, Holding
    <2>3. Did(i, k, j) <=> Gathered(i)
        BY <1>4 DEF Did
    <2> QED
        BY <1>2, <2>1, <2>2, <2>3
<1>5. ASSUME j \in factor[i], NEW w \in Grid, Holding(w), RowOf(w) = i
      PROVE  Entries[<<i, k, j>>] =
                 IF Needed(factor, <<i, k, j>>) /\ Did(i, k, j) THEN 1 ELSE 0
    <2>1. HoldsItsValues(w)
        BY <1>5 DEF IInv, ValuesFollowBlocks
    <2>2. workspace[w][j].work[k] =
              IF Needed(factor, <<i, k, j>>) /\ Made(w, k, j) THEN 1 ELSE 0
        BY <1>5, <2>1 DEF HoldsItsValues
    <2>3. Entries[<<i, k, j>>] = workspace[w][j].work[k] /\ (Did(i, k, j) <=> Made(w, k, j))
        BY <1>1, <1>5, EntryInWorkspace
    <2> QED
        BY <2>2, <2>3
<1> QED
    BY <1>3, <1>4, <1>5

-----------------------------------------------------------------------------
LEMMA StepsAreTriples ==
    \A s \in Steps(Rows) : \E i, k, j \in Rows : k < i /\ k <= j /\ s = <<i, k, j>>
    BY DEF Steps

\* What has been done decides the entries.
LEMMA EntriesChange ==
    ASSUME IInv, IInv', status = NoReport, status' = NoReport, UNCHANGED plan,
           NEW T \in SUBSET Steps(Rows),
           \A i, k, j \in Rows : k < i /\ k <= j /\ Needed(factor, <<i, k, j>>) =>
               (Did(i, k, j)' <=> Did(i, k, j) \/ <<i, k, j>> \in T),
           \A s \in T : Needed(factor, s)
    PROVE  Entries' = [s \in Steps(Rows) |-> IF s \in T THEN 1 ELSE Entries[s]]
<1>1. EntriesFollow /\ EntriesFollow'
    BY EntriesOfBlocks, PTL
<1>2. factor' = factor
    BY DEF plan
<1>3. DOMAIN applied' = Steps(Rows)
    BY DEF IInv, SInv, TypeOK
<1>4. DOMAIN Entries' = Steps(Rows) /\ Entries' = [s \in Steps(Rows) |-> Entries'[s]]
    BY <1>3 DEF Entries
<1>5. ASSUME NEW s \in Steps(Rows)
      PROVE  Entries'[s] = IF s \in T THEN 1 ELSE Entries[s]
    <2>1. PICK i \in Rows, k \in Rows, j \in Rows : k < i /\ k <= j /\ s = <<i, k, j>>
        BY StepsAreTriples
    <2>2. Entries[s] = IF Needed(factor, s) /\ Did(i, k, j) THEN 1 ELSE 0
        BY <1>1, <2>1 DEF EntriesFollow
    <2>3. Entries'[s] = IF Needed(factor, s) /\ Did(i, k, j)' THEN 1 ELSE 0
        BY <1>1, <1>2, <2>1 DEF EntriesFollow
    <2>4. Needed(factor, s) => (Did(i, k, j)' <=> Did(i, k, j) \/ s \in T)
        BY <2>1
    <2>5. s \in T => Needed(factor, s)
        OBVIOUS
    <2> QED
        BY <2>2, <2>3, <2>4, <2>5
<1> QED
    BY <1>4, <1>5

LEMMA EntriesStay ==
    ASSUME IInv, IInv', status = NoReport, status' = NoReport, UNCHANGED plan,
           \A i, k, j \in Rows : k < i /\ k <= j /\ Needed(factor, <<i, k, j>>) =>
               (Did(i, k, j)' <=> Did(i, k, j))
    PROVE  Entries' = Entries
<1> PICK T \in SUBSET Steps(Rows) : T = {}
    OBVIOUS
<1>1. Entries' = [s \in Steps(Rows) |-> IF s \in T THEN 1 ELSE Entries[s]]
    BY EntriesChange
<1>2. Entries = [s \in Steps(Rows) |-> Entries[s]]
    BY DEF Entries, IInv, SInv, TypeOK
<1> QED
    BY <1>1, <1>2

\* A step of block w changes only what has been done to its row.
LEMMA DidOfOthers ==
    ASSUME SInv, NEW w \in Grid, UNCHANGED <<plan, host>>,
           \A v \in AllBlocks : v # w => Stays(v),
           NEW i, NEW k, NEW j, NEW new \in BOOLEAN,
           Gathered(i)' \/ (Holding(w)' /\ RowOf(w)' = i /\ Made(w, k, j)')
               <=> Gathered(i) \/ (Holding(w) /\ RowOf(w) = i /\ Made(w, k, j)) \/ new
    PROVE  Did(i, k, j)' <=> Did(i, k, j) \/ new
<1>1. Grid' = Grid
    BY Frame
<1>2. ASSUME NEW v \in Grid, v # w
      PROVE  Holding(v)' /\ RowOf(v)' = i /\ Made(v, k, j)'
                 <=> Holding(v) /\ RowOf(v) = i /\ Made(v, k, j)
    <2>1. Stays(v)
        BY <1>2, BlocksAreTyped
    <2>2. Made(v, k, j)' <=> Made(v, k, j)
        BY <2>1 DEF Made, Stays
    <2> QED
        BY <2>1, <2>2, BlockThatStays
<1> DEFINE Others == \E v \in Grid : v # w /\ Holding(v) /\ RowOf(v) = i /\ Made(v, k, j)
<1>3. Did(i, k, j) <=>
          Others \/ Gathered(i) \/ (Holding(w) /\ RowOf(w) = i /\ Made(w, k, j))
    BY DEF Did
<1>4. Did(i, k, j)' <=>
          Others \/ Gathered(i)' \/ (Holding(w)' /\ RowOf(w)' = i /\ Made(w, k, j)')
    BY <1>1, <1>2 DEF Did
<1> HIDE DEF Others
<1> QED
    BY <1>3, <1>4

\* The abstract entries of its own row and of gathered rows are what a block sees.
LEMMA EntriesAreSeen ==
    ASSUME IInv, status = NoReport, NEW w \in Grid, Holding(w),
           NEW i \in Rows, i = RowOf(w) \/ Gathered(i),
           NEW k \in Rows, NEW j \in Rows, k < i, k <= j
    PROVE  Entries[<<i, k, j>>] = View(w)[<<i, k, j>>]
<1>1. Entries[<<i, k, j>>] = IF Needed(factor, <<i, k, j>>) /\ Did(i, k, j) THEN 1 ELSE 0
    BY EntriesOfBlocks DEF EntriesFollow
<1>2. SInv /\ Working(w)
    BY DEF IInv, Working
<1>3. CASE i = RowOf(w)
    <2>1. View(w)[<<i, k, j>>] = IF Needed(factor, <<i, k, j>>) /\ Made(w, k, j) THEN 1 ELSE 0
        BY <1>3, ViewIs
    <2>2. Needed(factor, <<i, k, j>>) => j \in factor[i]
        BY <1>2, NeededSlot
    <2>3. j \in factor[i] => (Did(i, k, j) <=> Made(w, k, j))
        BY <1>2, <1>3, EntryInWorkspace
    <2> QED
        BY <1>1, <2>1, <2>2, <2>3
<1>4. CASE i # RowOf(w)
    <2>1. Gathered(i)
        BY <1>4
    <2>2. View(w)[<<i, k, j>>] = applied[<<i, k, j>>]
        BY <1>4, ViewIs
    <2>3. applied[<<i, k, j>>] = IF Needed(factor, <<i, k, j>>) THEN 1 ELSE 0
        BY <2>1 DEF IInv, ValuesFollowBlocks, Written
    <2> QED
        BY <1>1, <2>1, <2>2, <2>3 DEF Did
<1> QED
    BY <1>3, <1>4

LEMMA FinalAsSeen ==
    ASSUME IInv, status = NoReport, NEW w \in Grid, Holding(w),
           NEW i \in Rows, i = RowOf(w) \/ Gathered(i)
    PROVE  /\ \A j \in Rows : \A limit : DoneBelow(factor, Entries, i, j, limit)
                                             <=> DoneBelow(factor, View(w), i, j, limit)
           /\ \A j \in Rows : Final(factor, Entries, i, j) <=> Final(factor, View(w), i, j)
<1>1. DOMAIN factor = Rows
    BY DEF IInv, SInv, TypeOK
<1>2. \A k, j \in Rows : k < i /\ k <= j => Entries[<<i, k, j>>] = View(w)[<<i, k, j>>]
    BY EntriesAreSeen
<1>3. \A j \in Rows : \A limit : DoneBelow(factor, Entries, i, j, limit)
                                     <=> DoneBelow(factor, View(w), i, j, limit)
    BY <1>1, <1>2 DEF DoneBelow
<1> QED
    BY <1>3 DEF Final

\* A step that is sound in the eyes of the block is a step of the elimination.
LEMMA SoundAsSeen ==
    ASSUME IInv, status = NoReport, NEW w \in Grid, Holding(w),
           NEW k \in Lower(factor, RowOf(w)), NEW j \in Rows, k <= j,
           Sound(factor, View(w), <<RowOf(w), k, j>>)
    PROVE  Sound(factor, Entries, <<RowOf(w), k, j>>)
<1> DEFINE r == RowOf(w)
<1>1. r \in Rows /\ k \in Rows /\ k < r /\ Gathered(k)
    BY PivotRowsAreGathered, WorkingInLevel, BlocksAreTyped DEF IInv, Working, Lower
<1>2. /\ \A c \in Rows : Final(factor, Entries, r, c) <=> Final(factor, View(w), r, c)
      /\ \A c \in Rows : Final(factor, Entries, k, c) <=> Final(factor, View(w), k, c)
      /\ DoneBelow(factor, Entries, r, k, k) <=> DoneBelow(factor, View(w), r, k, k)
    BY <1>1, FinalAsSeen
<1>3. j < r => Entries[<<r, j, j>>] = View(w)[<<r, j, j>>]
    <2>1. j <= j
        BY RowsAreNatural
    <2> QED
        BY <1>1, <2>1, EntriesAreSeen
<1> QED
    BY <1>1, <1>2, <1>3 DEF Sound

-----------------------------------------------------------------------------
\* The operators of the pattern are the same in both specifications.
LEMMA SameOperators ==
    /\ Abstract!Steps(Rows) = Steps(Rows)
    /\ \A s : Abstract!Needed(factor, s) <=> Needed(factor, s)
    /\ \A i, j : Abstract!Final(factor, Entries, i, j) <=> Final(factor, Entries, i, j)
    /\ \A s : Abstract!Sound(factor, Entries, s) <=> Sound(factor, Entries, s)
<1>1. Abstract!Steps(Rows) = Steps(Rows)
    BY DEF Abstract!Steps, Steps
<1>2. \A s : Abstract!Needed(factor, s) <=> Needed(factor, s)
    BY DEF Abstract!Needed, Needed
<1>3. \A i, j, limit : Abstract!DoneBelow(factor, Entries, i, j, limit)
                           <=> DoneBelow(factor, Entries, i, j, limit)
    BY <1>2 DEF Abstract!DoneBelow, DoneBelow
<1>4. \A i, j : Abstract!Final(factor, Entries, i, j) <=> Final(factor, Entries, i, j)
    BY <1>3 DEF Abstract!Final, Final
<1>5. \A s : Abstract!Sound(factor, Entries, s) <=> Sound(factor, Entries, s)
    BY <1>3, <1>4 DEF Abstract!Sound, Sound
<1> QED
    BY <1>1, <1>2, <1>4, <1>5

LEMMA InitImplements == Init => Abstract!Init
<1> SUFFICES ASSUME Init PROVE Abstract!Init
    OBVIOUS
<1>1. factor \in [Rows -> SUBSET Rows] /\ tiny \subseteq Rows
    BY SizeAssumption DEF Init
<1>2. IInv /\ status = NoReport /\ stage = "launch" /\ level = 0
    BY InitIsFine DEF Init
<1>3. Grid \subseteq AllBlocks
    BY <1>2, GridIsAnInterval DEF IInv
<1>4. \A w \in Grid : ~Holding(w)
    BY <1>3 DEF Init, Holding, AllBlocks
<1>5. Entries = [s \in DOMAIN applied |-> applied[s]]
    <2>1. \A s : {w \in Grid : Holding(w) /\ RowOf(w) = s[1]} = {}
        BY <1>4
    <2> QED
        BY <2>1 DEF Entries
<1>6. Entries = [s \in Abstract!Steps(Rows) |-> 0]
    BY <1>5, SameOperators DEF Init
<1> QED
    BY <1>1, <1>2, <1>6 DEF Abstract!Init, Abstract!NoReport, NoReport

\* A step on one entry, made when it was sound.
LEMMA StepOfElimination ==
    ASSUME IInv, IInv', status = NoReport, UNCHANGED <<plan, host, status>>, stage = "level",
           NEW i \in Rows, NEW k \in Rows, NEW j \in Rows, k < i, k <= j,
           Needed(factor, <<i, k, j>>), j \in factor[i], k \notin tiny,
           Entries[<<i, k, j>>] = 0, Sound(factor, Entries, <<i, k, j>>),
           \A a, b, c \in Rows : b < a /\ b <= c /\ Needed(factor, <<a, b, c>>) =>
               (Did(a, b, c)' <=> Did(a, b, c) \/ <<a, b, c>> = <<i, k, j>>)
    PROVE  Abstract!Next
<1> DEFINE s == <<i, k, j>>
<1> PICK T \in SUBSET Steps(Rows) : T = {s}
    <2>1. s \in Steps(Rows)
        BY DEF Steps
    <2> QED
        BY <2>1
<1>1. \A x \in T : Needed(factor, x)
    OBVIOUS
<1>2. Entries' = [x \in Steps(Rows) |-> IF x \in T THEN 1 ELSE Entries[x]]
    <2>1. \A a, b, c \in Rows : b < a /\ b <= c /\ Needed(factor, <<a, b, c>>) =>
              (Did(a, b, c)' <=> Did(a, b, c) \/ <<a, b, c>> \in T)
        OBVIOUS
    <2> HIDE DEF s
    <2> QED
        BY <1>1, <2>1, EntriesChange
<1>3. Entries = [x \in Steps(Rows) |-> Entries[x]]
    BY DEF Entries, IInv, SInv, TypeOK
<1>4. Entries' = [Entries EXCEPT ![s] = 1]
    BY <1>2, <1>3
<1>5. s \in Abstract!Steps(Rows)
    BY SameOperators DEF Steps
<1>6. Abstract!EliminationStep(s)
    BY <1>4, SameOperators
    DEF Abstract!EliminationStep, Abstract!Open, Abstract!NoReport, NoReport, plan, host
<1> QED
    BY <1>5, <1>6 DEF Abstract!Next

\* A division is the step of the multiplier.
LEMMA PivotImplements ==
    ASSUME IInv, IInv', NEW w \in Grid, Pivot(w), status = NoReport
    PROVE  Abstract!Next
<1> DEFINE r == RowOf(w)
           k == Min(lower[w])
<1>1. /\ pc[w] = "pivot" /\ lower[w] # {} /\ w \in AllBlocks /\ SInv
      /\ UNCHANGED <<plan, applied, host, scheduled, lower>>
      /\ \A v \in AllBlocks : v # w => Stays(v)
    BY BlocksAreTyped, PivotInOrder DEF Pivot, IInv
<1>2. /\ pending' = [pending EXCEPT ![w] = Upper(factor, k)]
      /\ pc' = [pc EXCEPT ![w] = "update"] /\ UNCHANGED status
    BY PivotIs
<1>3. Working(w) /\ Holding(w) /\ r \in Rows /\ stage = "level"
    BY <1>1, WorkingInLevel DEF Working, Holding
<1>4. k \in lower[w] /\ k \in Rows /\ k < r /\ k \in Lower(factor, r) /\ k \in factor[r]
    BY <1>1, <1>3, NextPivot
<1>5. /\ k \notin tiny
      /\ Needed(factor, <<r, k, k>>)
      /\ View(w)[<<r, k, k>>] = 0
      /\ Sound(factor, View(w), <<r, k, k>>)
    BY <1>1, DivisionIsSound
<1>6. pc'[w] = "update" /\ pending'[w] = Upper(factor, k)
    BY <1>1, <1>2 DEF SInv, TypeOK, AllBlocks
<1>7. RowOf(w)' = r /\ Min(lower'[w]) = k /\ lower' = lower
    BY <1>1, Frame DEF RowOf
<1>8. Holding(w)' /\ k <= k
    BY <1>4, <1>6, RowsAreNatural DEF Holding
<1>9. \A i : Gathered(i)' <=> Gathered(i)
    BY <1>1, GatheredStays
<1>10. Entries[<<r, k, k>>] = 0 /\ Sound(factor, Entries, <<r, k, k>>)
    BY <1>3, <1>4, <1>5, <1>8, EntriesAreSeen, SoundAsSeen
<1> HIDE DEF r, k
<1>11. ASSUME NEW i \in Rows, NEW p \in Rows, NEW d \in Rows, p < i, p <= d,
              Needed(factor, <<i, p, d>>)
       PROVE  Did(i, p, d)' <=> Did(i, p, d) \/ <<i, p, d>> = <<r, k, k>>
    <2> DEFINE new == <<i, p, d>> = <<r, k, k>>
    <2>1. p = k => (d \notin Upper(factor, k) <=> d = k)
        <3>1. d \in factor[p]
            BY <1>11 DEF Needed
        <3>2. p = k => (d > k <=> d # k)
            BY <1>4, <1>11, RowsAreNatural
        <3> QED
            BY <3>1, <3>2 DEF Upper
    <2>2. Made(w, p, d) <=> p \notin lower[w]
        BY <1>1 DEF Made
    <2>3. Made(w, p, d)' <=> p \notin lower[w] \/ (p = k /\ d \notin Upper(factor, k))
        BY <1>6, <1>7 DEF Made
    <2>4. r = RowOf(w)
        BY DEF r
    <2>5. new \in BOOLEAN
        OBVIOUS
    <2>6. Gathered(i)' \/ (Holding(w)' /\ RowOf(w)' = i /\ Made(w, p, d)')
              <=> Gathered(i) \/ (Holding(w) /\ RowOf(w) = i /\ Made(w, p, d)) \/ new
        BY <1>3, <1>7, <1>8, <1>9, <2>1, <2>2, <2>3, <2>4
    <2> HIDE DEF new
    <2>7. Did(i, p, d)' <=> Did(i, p, d) \/ new
        BY <1>1, <2>5, <2>6, DidOfOthers
    <2> QED
        BY <2>7 DEF new
<1> QED
    BY <1>1, <1>2, <1>3, <1>4, <1>5, <1>8, <1>10, <1>11, StepOfElimination

\* A subtraction is the step of an entry.
LEMMA SubtractImplements ==
    ASSUME IInv, IInv', NEW w \in Grid, Subtract(w), status = NoReport
    PROVE  Abstract!Next
<1> DEFINE r == RowOf(w)
           k == Min(lower[w])
<1>1. /\ pc[w] = "update" /\ w \in AllBlocks /\ SInv
      /\ UNCHANGED <<plan, applied, status, host, pc, scheduled, lower>>
      /\ \A v \in AllBlocks : v # w => Stays(v)
    BY BlocksAreTyped, SubtractInOrder DEF Subtract, IInv
<1>2. PICK c \in pending[w] : pending' = [pending EXCEPT ![w] = @ \ {c}]
    BY SubtractFollows
<1>3. /\ r \in Rows /\ k \in Rows /\ c \in Rows /\ k < r /\ k < c /\ k \in lower[w]
      /\ c \in factor[r]
      /\ Needed(factor, <<r, k, c>>)
      /\ k \notin tiny
      /\ View(w)[<<r, k, c>>] = 0
      /\ Sound(factor, View(w), <<r, k, c>>)
    BY <1>1, SubtractionIsSound
<1>4. Working(w) /\ Holding(w) /\ stage = "level" /\ k \in Lower(factor, r) /\ k <= c
    <2>1. Working(w) /\ Holding(w)
        BY <1>1 DEF Working, Holding
    <2> QED
        BY <1>1, <1>3, <2>1, WorkingInLevel, NextPivot, RowsAreNatural
<1>5. pc'[w] = "update" /\ pending'[w] = pending[w] \ {c}
    BY <1>1, <1>2 DEF SInv, TypeOK, AllBlocks
<1>6. RowOf(w)' = r /\ Min(lower'[w]) = k /\ lower' = lower
    BY <1>1, Frame DEF RowOf
<1>7. Holding(w)'
    BY <1>5 DEF Holding
<1>8. \A i : Gathered(i)' <=> Gathered(i)
    BY <1>1, GatheredStays
<1>9. Entries[<<r, k, c>>] = 0 /\ Sound(factor, Entries, <<r, k, c>>)
    BY <1>3, <1>4, EntriesAreSeen, SoundAsSeen
<1>10. \A p, d : Made(w, p, d) <=> p \notin lower[w] \/ (p = k /\ d \notin pending[w])
    BY <1>1 DEF Made
<1> HIDE DEF r, k
<1>11. ASSUME NEW i \in Rows, NEW p \in Rows, NEW d \in Rows
       PROVE  Did(i, p, d)' <=> Did(i, p, d) \/ <<i, p, d>> = <<r, k, c>>
    <2> DEFINE new == <<i, p, d>> = <<r, k, c>>
    <2>1. Made(w, p, d)' <=> p \notin lower[w] \/ (p = k /\ d \notin pending[w] \ {c})
        BY <1>5, <1>6 DEF Made
    <2>2. r = RowOf(w) /\ new \in BOOLEAN
        BY DEF r
    <2>3. Gathered(i)' \/ (Holding(w)' /\ RowOf(w)' = i /\ Made(w, p, d)')
              <=> Gathered(i) \/ (Holding(w) /\ RowOf(w) = i /\ Made(w, p, d)) \/ new
        BY <1>4, <1>6, <1>7, <1>8, <1>10, <2>1, <2>2
    <2> HIDE DEF new
    <2>4. Did(i, p, d)' <=> Did(i, p, d) \/ new
        BY <1>1, <2>2, <2>3, DidOfOthers
    <2> QED
        BY <2>4 DEF new
<1> QED
    BY <1>1, <1>3, <1>4, <1>9, <1>11, StepOfElimination

-----------------------------------------------------------------------------
\* A step of block w that makes no elimination step is a stutter.
LEMMA BlockStutters ==
    ASSUME IInv, IInv', NEW w \in Grid, UNCHANGED <<plan, host>>,
           status = NoReport, status' = NoReport,
           \A v \in AllBlocks : v # w => Stays(v),
           \A i, k, j \in Rows : k < i /\ k <= j /\ Needed(factor, <<i, k, j>>) =>
               (Gathered(i)' \/ (Holding(w)' /\ RowOf(w)' = i /\ Made(w, k, j)')
                    <=> Gathered(i) \/ (Holding(w) /\ RowOf(w) = i /\ Made(w, k, j)))
    PROVE  UNCHANGED Abstract!vars
<1>1. ASSUME NEW i \in Rows, NEW k \in Rows, NEW j \in Rows, k < i, k <= j,
             Needed(factor, <<i, k, j>>)
      PROVE  Did(i, k, j)' <=> Did(i, k, j)
    <2> PICK new \in BOOLEAN : ~new
        OBVIOUS
    <2>1. Gathered(i)' \/ (Holding(w)' /\ RowOf(w)' = i /\ Made(w, k, j)')
              <=> Gathered(i) \/ (Holding(w) /\ RowOf(w) = i /\ Made(w, k, j)) \/ new
        BY <1>1
    <2>2. Did(i, k, j)' <=> Did(i, k, j) \/ new
        BY <2>1, DidOfOthers DEF IInv
    <2> QED
        BY <2>2
<1>2. Entries' = Entries
    BY <1>1, EntriesStay
<1> QED
    BY <1>2 DEF Abstract!vars, plan, host

LEMMA TakeRowImplements ==
    ASSUME IInv, IInv', NEW w \in Grid, TakeRow(w), status = NoReport
    PROVE  UNCHANGED Abstract!vars
<1>1. /\ pc[w] = "take" /\ w \in AllBlocks /\ SInv
      /\ UNCHANGED <<plan, status, host, scheduled>>
      /\ \A v \in AllBlocks : v # w => Stays(v)
    BY BlocksAreTyped, TakeRowInOrder DEF TakeRow, IInv
<1>2. pc'[w] \in {"scatter", "idle"}
    BY <1>1 DEF TakeRow, SInv, TypeOK, AllBlocks
<1>3. ~Holding(w) /\ ~Holding(w)'
    BY <1>1, <1>2 DEF Holding
<1>4. \A i : Gathered(i)' <=> Gathered(i)
    BY <1>1, GatheredStays
<1> QED
    BY <1>1, <1>3, <1>4, BlockStutters

\* A scattered row has received none of its steps.
LEMMA ScatterImplements ==
    ASSUME IInv, IInv', NEW w \in Grid, Scatter(w), status = NoReport
    PROVE  UNCHANGED Abstract!vars
<1>1. /\ pc[w] = "scatter" /\ w \in AllBlocks /\ SInv
      /\ UNCHANGED <<plan, status, host, scheduled, lower>>
      /\ pc' = [pc EXCEPT ![w] = "pivot"]
      /\ \A v \in AllBlocks : v # w => Stays(v)
    BY BlocksAreTyped, ScatterInOrder DEF Scatter, IInv
<1>2. pc'[w] = "pivot" /\ RowOf(w)' = RowOf(w) /\ lower' = lower
    BY <1>1, Frame DEF SInv, TypeOK, AllBlocks, RowOf
<1>3. ~Holding(w) /\ lower[w] = Lower(factor, RowOf(w))
    BY <1>1 DEF Holding, Working, SInv, BlockInOrder, HoldsItsRow
<1>4. \A i : Gathered(i)' <=> Gathered(i)
    BY <1>1, GatheredStays
<1>5. ASSUME NEW i \in Rows, NEW k \in Rows, NEW j \in Rows, k < i, k <= j,
             Needed(factor, <<i, k, j>>)
      PROVE  ~(RowOf(w)' = i /\ Made(w, k, j)')
    <2>1. k \in Lower(factor, i)
        BY <1>1, <1>5, NeededSlot
    <2> QED
        BY <1>2, <1>3, <2>1 DEF Made
<1> QED
    BY <1>1, <1>3, <1>4, <1>5, BlockStutters

LEMMA BarrierImplements ==
    ASSUME IInv, IInv', NEW w \in Grid, Barrier(w), status = NoReport
    PROVE  UNCHANGED Abstract!vars
<1>1. /\ pc[w] = "update" /\ w \in AllBlocks /\ SInv
      /\ UNCHANGED <<plan, status, host, scheduled>>
      /\ pc' = [pc EXCEPT ![w] = "pivot"]
      /\ \A v \in AllBlocks : v # w => Stays(v)
    BY BlocksAreTyped, BarrierInOrder DEF Barrier, IInv
<1>2. Holding(w) /\ Holding(w)' /\ RowOf(w)' = RowOf(w)
    BY <1>1, Frame DEF SInv, TypeOK, AllBlocks, RowOf, Holding
<1>3. \A i : Gathered(i)' <=> Gathered(i)
    BY <1>1, GatheredStays
<1>4. \A k, j : Made(w, k, j)' <=> Made(w, k, j)
    BY <1>1, MadeAcrossBarrier
<1> QED
    BY <1>1, <1>2, <1>3, <1>4, BlockStutters

\* A good diagonal lets the row be gathered, a bad one is reported when it is final.
LEMMA TestDiagonalImplements ==
    ASSUME IInv, IInv', NEW w \in Grid, TestDiagonal(w), status = NoReport
    PROVE  [Abstract!Next]_Abstract!vars
<1> DEFINE r == RowOf(w)
<1>1. /\ pc[w] = "pivot" /\ lower[w] = {} /\ w \in AllBlocks /\ SInv
      /\ UNCHANGED <<plan, host, scheduled, lower>>
      /\ \A v \in AllBlocks : v # w => Stays(v)
    BY BlocksAreTyped, TestDiagonalInOrder DEF TestDiagonal, IInv
<1>2. Holding(w) /\ Working(w) /\ stage = "level"
    BY <1>1, WorkingInLevel DEF Holding, Working
<1>3. /\ r \in Rows /\ Final(factor, View(w), r, r)
      /\ \/ r \notin tiny /\ pc' = [pc EXCEPT ![w] = "gather"] /\ UNCHANGED status
         \/ r \in tiny /\ status' = r /\ status' # NoReport
    BY TestDiagonalIs
<1>4. CASE r \notin tiny /\ pc' = [pc EXCEPT ![w] = "gather"] /\ UNCHANGED status
    <2>1. Holding(w)' /\ RowOf(w)' = RowOf(w)
        BY <1>1, <1>4, Frame DEF SInv, TypeOK, AllBlocks, RowOf, Holding
    <2>2. \A i : Gathered(i)' <=> Gathered(i)
        BY <1>1, GatheredStays
    <2>3. \A k, j : Made(w, k, j) /\ Made(w, k, j)'
        BY <1>1 DEF Made
    <2> QED
        BY <1>1, <1>2, <1>4, <2>1, <2>2, <2>3, BlockStutters
<1>5. CASE r \in tiny /\ status' = r /\ status' # NoReport
    <2>1. Final(factor, Entries, r, r)
        BY <1>2, <1>3, FinalAsSeen
    <2>2. Abstract!Final(factor, Entries, r, r)
        BY <2>1, SameOperators
    <2> HIDE DEF r
    <2>3. Abstract!Reject
        BY <1>1, <1>2, <1>5, <2>2
        DEF Abstract!Reject, Abstract!Open, Abstract!NoReport, NoReport, plan, host
    <2> QED
        BY <2>3 DEF Abstract!Next
<1> QED
    BY <1>3, <1>4, <1>5

\* The last entry turns a row held into a row gathered: the steps are the same.
LEMMA GatherImplements ==
    ASSUME IInv, IInv', NEW w \in Grid, Gather(w), status = NoReport
    PROVE  UNCHANGED Abstract!vars
<1>1. /\ pc[w] = "gather" /\ w \in AllBlocks /\ SInv
      /\ Working(w) /\ Holding(w) /\ lower[w] = {}
      /\ UNCHANGED <<plan, status, host, workspace, lower>>
      /\ \A v \in AllBlocks : v # w => Stays(v)
    BY GatherIs, GatherInOrder DEF IInv
<1>2. PICK c \in pending[w] :
          IF pending[w] = {c}
          THEN /\ pc' = [pc EXCEPT ![w] = "take"]
               /\ scheduled' = [scheduled EXCEPT ![w] = @ + Stride]
          ELSE UNCHANGED <<pc, scheduled>>
    BY <1>1, GatherIs
<1>3. \A k, j : Made(w, k, j) /\ Made(w, k, j)'
    BY <1>1 DEF Made
<1>4. CASE pending[w] = {c}
    <2>1. ~Holding(w)'
        BY <1>1, <1>2, <1>4 DEF SInv, TypeOK, AllBlocks, Holding
    <2>2. \A i : Gathered(i)' <=> Gathered(i) \/ i = RowOf(w)
        BY <1>1, <1>2, <1>4, GatherPasses
    <2> QED
        BY <1>1, <1>3, <2>1, <2>2, BlockStutters
<1>5. CASE pending[w] # {c}
    <2>1. UNCHANGED <<pc, scheduled>>
        BY <1>2, <1>5
    <2>2. Holding(w)' /\ RowOf(w)' = RowOf(w)
        BY <1>1, <2>1, Frame DEF RowOf, Holding
    <2>3. \A i : Gathered(i)' <=> Gathered(i)
        BY <1>1, <2>1, GatheredStays
    <2> QED
        BY <1>1, <1>3, <2>2, <2>3, BlockStutters
<1> QED
    BY <1>4, <1>5

\* Where no block holds a row, before the step and after it, the entries are in storage.
LEMMA HostStutters ==
    ASSUME IInv, IInv', UNCHANGED plan, status = NoReport, status' = NoReport,
           \A v \in AllBlocks : ~Holding(v) /\ ~Holding(v)',
           \A i : Gathered(i)' <=> Gathered(i)
    PROVE  Entries' = Entries
<1>1. SInv /\ SInv'
    BY DEF IInv
<1>2. Grid \subseteq AllBlocks /\ (Grid \subseteq AllBlocks)'
    BY <1>1, GridOfBlocks, PTL
<1>3. AllBlocks' = AllBlocks
    BY DEF AllBlocks
<1>4. \A i, k, j : Did(i, k, j)' <=> Did(i, k, j)
    BY <1>2, <1>3 DEF Did
<1> QED
    BY <1>4, EntriesStay

LEMMA LaunchImplements ==
    ASSUME IInv, IInv', Launch, status = NoReport
    PROVE  UNCHANGED Abstract!vars
<1>1. /\ stage = "launch" /\ stage' = "level" /\ SInv
      /\ UNCHANGED <<plan, status>>
      /\ pc' = [w \in DOMAIN pc |-> IF w \in Grid THEN "take" ELSE pc[w]]
    BY DEF Launch, IInv
<1>2. \A v \in AllBlocks : pc[v] = "idle"
    BY <1>1 DEF SInv, BlockInOrder, TakesItsTurns
<1>3. \A v \in AllBlocks : pc'[v] \in {"take", "idle"}
    BY <1>1, <1>2 DEF SInv, TypeOK, AllBlocks
<1>4. \A v \in AllBlocks : ~Holding(v) /\ ~Holding(v)'
    BY <1>2, <1>3 DEF Holding
<1>5. Entries' = Entries
    BY <1>1, <1>4, LaunchFollows, HostStutters
<1> QED
    BY <1>1, <1>5 DEF Abstract!vars, plan

\* When the last launch is over every row has been gathered.
LEMMA FactorIsFinal ==
    ASSUME IInv, status = NoReport, \A i \in Rows : Gathered(i)
    PROVE  tiny = {} /\ \A i, j \in Rows : Final(factor, Entries, i, j)
<1>1. tiny = {}
    BY DEF IInv, ValuesFollowBlocks, SInv, TypeOK
<1>2. DOMAIN factor = Rows
    BY DEF IInv, SInv, TypeOK
<1>3. \A i, k, j \in Rows : k < i /\ k <= j =>
          Entries[<<i, k, j>>] = IF Needed(factor, <<i, k, j>>) THEN 1 ELSE 0
    BY EntriesOfBlocks DEF EntriesFollow, Did
<1> QED
    BY <1>1, <1>2, <1>3 DEF Final, DoneBelow

LEMMA FinishLevelImplements ==
    ASSUME IInv, IInv', FinishLevel, status = NoReport
    PROVE  [Abstract!Next]_Abstract!vars
<1>1. /\ stage = "level" /\ SInv /\ UNCHANGED <<plan, status, pc>>
      /\ stage' = IF offsets[level + 1] = Dimension THEN "done" ELSE "launch"
    BY DEF FinishLevel, IInv, blocks
<1>2. \A v \in AllBlocks : pc[v] = "idle"
    BY <1>1, FinishLevelInOrder
<1>3. \A v \in AllBlocks : ~Holding(v) /\ ~Holding(v)'
    BY <1>1, <1>2 DEF Holding
<1>4. \A i : Gathered(i)' <=> Gathered(i)
    BY FinishLevelFollows
<1>5. Entries' = Entries
    BY <1>1, <1>3, <1>4, HostStutters
<1>6. CASE stage' = "launch"
    BY <1>1, <1>5, <1>6 DEF Abstract!vars, plan
<1>7. CASE stage' = "done"
    <2>1. schedule' = schedule
        BY <1>1 DEF plan
    <2>2. \A i \in Rows : Gathered(i)'
        BY <1>1, <1>7, <2>1 DEF Gathered, Passed, SInv, PlanIsSound
    <2>3. \A i \in Rows : Gathered(i)
        BY <1>4, <2>2
    <2>4. tiny = {} /\ \A i, j \in Rows : Final(factor, Entries, i, j)
        BY <2>3, FactorIsFinal
    <2>5. factor \in [Rows -> SUBSET Rows]
        BY <1>1 DEF SInv, TypeOK
    <2>6. Abstract!FactorFinal(factor, Entries)
        BY <2>4, <2>5, SameOperators DEF Abstract!FactorFinal
    <2>7. Abstract!Accept
        BY <1>1, <1>5, <1>7, <2>4, <2>6
        DEF Abstract!Accept, Abstract!Open, Abstract!NoReport, NoReport, plan
    <2> QED
        BY <2>7 DEF Abstract!Next
<1> QED
    BY <1>1, <1>6, <1>7

\* A step that changes nothing changes nothing the abstraction sees.
LEMMA StutterImplements ==
    ASSUME IInv, IInv', UNCHANGED vars, status = NoReport
    PROVE  UNCHANGED Abstract!vars
<1>1. UNCHANGED <<plan, host, scheduled, status, pc, lower, pending, workspace>>
    BY DEF vars, blocks
<1>2. Grid' = Grid
    BY <1>1, Frame
<1>3. \A v : Stays(v)
    BY <1>1 DEF Stays
<1>4. \A v : RowOf(v)' = RowOf(v) /\ (Holding(v)' <=> Holding(v))
    BY <1>1, <1>3, BlockThatStays
<1>5. \A v, k, j : Made(v, k, j)' <=> Made(v, k, j)
    BY <1>1 DEF Made
<1>6. \A i : Gathered(i)' <=> Gathered(i)
    BY <1>1, GatheredStays
<1>7. \A i, k, j : Did(i, k, j)' <=> Did(i, k, j)
    BY <1>2, <1>4, <1>5, <1>6 DEF Did
<1>8. Entries' = Entries
    BY <1>1, <1>7, EntriesStay
<1> QED
    BY <1>1, <1>8 DEF Abstract!vars, plan, host

\* Every step of the launches is a step of the elimination, or changes nothing it sees.
LEMMA StepImplements ==
    IInv /\ IInv' /\ [Next]_vars => [Abstract!Next]_Abstract!vars
<1> SUFFICES ASSUME IInv, IInv', [Next]_vars PROVE [Abstract!Next]_Abstract!vars
    OBVIOUS
<1>1. CASE status # NoReport
    <2>1. UNCHANGED <<plan, status>>
        BY <1>1, PlanAndReportStay DEF vars
    <2>2. Abstract!Unspecified
        BY <1>1, <2>1 DEF Abstract!Unspecified, Abstract!NoReport, NoReport, plan
    <2> QED
        BY <2>2 DEF Abstract!Next
<1>2. CASE status = NoReport
    <2>1. ASSUME NEW w \in Grid, Block(w) PROVE [Abstract!Next]_Abstract!vars
        BY <1>2, <2>1, TakeRowImplements, ScatterImplements, PivotImplements,
           SubtractImplements, BarrierImplements, TestDiagonalImplements, GatherImplements
        DEF Block
    <2> QED
        BY <1>2, <2>1, LaunchImplements, FinishLevelImplements, StutterImplements
        DEF Next, Finished
<1> QED
    BY <1>1, <1>2

\* The launches implement the abstract elimination (Elimination): until a report every
\* step is made once, on a ready operand and from final ones, whatever the blocks'
\* interleaving and whatever their workspaces held before; a report names a bad pivot, and
\* the factor that check_factor_status accepts is final in every entry.
THEOREM Refinement == Spec => ImplementsElimination
<1> QED
    BY InitImplements, StepImplements, Invariance, NextIsFine, PTL
    DEF Spec, ImplementsElimination, Abstract!Spec

-----------------------------------------------------------------------------
\* The larger of two naturals.
LEMMA MaxOfTwo ==
    ASSUME NEW a \in Nat, NEW b \in Nat
    PROVE  Max({a, b}) \in {a, b} /\ a <= Max({a, b})
<1>1. \E x \in {a, b} : \A y \in {a, b} : x >= y
    <2>1. CASE a >= b
        BY <2>1
    <2>2. CASE b >= a
        BY <2>2
    <2> QED
        BY <2>1, <2>2
<1> QED
    BY <1>1 DEF Max

\* What configure_factor_kernel reserves: at least one workspace, whatever is free, and
\* not more than rows; several only within "one quarter of currently free memory", so
\* that the comment in the code holds but for a workspace that exceeds it alone.
THEOREM WorkspacesFitAQuarter ==
    ASSUME NEW dimension \in Nat \ {0}, NEW processors \in Nat, NEW free \in Nat
    PROVE  LET workers == WorkerBlocks(dimension, processors, free)
           IN  /\ workers \in 1 .. dimension
               /\ workers = 1 \/ 4 * (workers * BytesPerWorker(dimension)) <= free
<1> DEFINE bytes   == BytesPerWorker(dimension)
           share   == (free \div 4) \div bytes
           target  == TargetWorkers(processors)
           limited == MemoryLimitedWorkers(dimension, free)
           workers == WorkerBlocks(dimension, processors, free)
<1>1. bytes \in Nat \ {0}
    BY DEF BytesPerWorker
<1>2. free \div 4 \in Nat /\ 4 * (free \div 4) <= free
    OBVIOUS
<1>3. share \in Nat /\ bytes * share <= free \div 4
    <2> HIDE DEF bytes
    <2>1. (free \div 4) = bytes * share + ((free \div 4) % bytes) /\ share \in Nat
        BY <1>1, <1>2, Division
    <2>2. (free \div 4) % bytes \in 0 .. bytes - 1
        BY <1>1, <1>2, TurnIsABlock
    <2>3. bytes * share \in Nat
        BY <1>1, <2>1
    <2> HIDE DEF share
    <2> QED
        BY <2>1, <2>2, <2>3, <1>1, <1>2
<1>4. limited \in {1, share} /\ limited \in Nat \ {0}
    <2>1. limited = Max({1, share})
        BY DEF MemoryLimitedWorkers
    <2> HIDE DEF share, limited
    <2>2. Max({1, share}) \in {1, share} /\ 1 <= Max({1, share})
        BY <1>3, MaxOfTwo
    <2> QED
        BY <1>3, <2>1, <2>2
<1>5. target \in Nat \ {0}
    <2> DEFINE wanted == processors * BlocksPerMultiprocessor
    <2>1. wanted \in Nat
        BY DEF BlocksPerMultiprocessor
    <2>2. target = Max({1, wanted})
        BY DEF TargetWorkers
    <2> HIDE DEF wanted, target
    <2>3. Max({1, wanted}) \in {1, wanted} /\ 1 <= Max({1, wanted})
        BY <2>1, MaxOfTwo
    <2> QED
        BY <2>1, <2>2, <2>3
<1>6. workers \in 1 .. dimension /\ workers <= limited
    <2> HIDE DEF target, limited
    <2>1. DEFINE all == {target, limited, dimension}
    <2>2. all \subseteq Nat /\ all # {}
        BY <1>4, <1>5
    <2>3. Min(all) \in all /\ \A x \in all : Min(all) <= x
        BY <2>2, MinOfNaturals
    <2> QED
        BY <1>4, <1>5, <2>3 DEF WorkerBlocks, target, limited
<1>7. ASSUME workers # 1 PROVE 4 * (workers * bytes) <= free
    <2> HIDE DEF workers, limited, share, bytes
    <2>1. workers <= share
        BY <1>4, <1>6, <1>7
    <2>2. workers * bytes <= bytes * share
        BY <1>1, <1>3, <1>6, <2>1
    <2> QED
        BY <1>1, <1>2, <1>3, <1>6, <2>2
<1> QED
    BY <1>6, <1>7
=============================================================================
