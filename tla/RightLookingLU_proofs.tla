------------------------- MODULE RightLookingLU_proofs -------------------------
(***************************************************************************)
(* Proofs about RightLookingLU: the levels of build_right_looking_plan     *)
(* keep apart what blocks of one launch must not do together, so that the  *)
(* launches implement the abstract elimination for every pattern.          *)
(*                                                                         *)
(* The argument: two pivots k < j meet in a row i when L(i, k) and L(i, j) *)
(* exist and k updates column j.  Then the level of k is below that of j:  *)
(* through L(j, k) if there is one, else through the double-U edge; and    *)
(* when the schedule of L is reused there is one, since k and j are in one *)
(* block of the triangular form and blocks mirror.                         *)
(***************************************************************************)
EXTENDS RightLookingLU, LevelSchedule_proofs

\* Pivot k changes entry (i, j) that pivot j divides.
Meet(i, k, j) == k \in Lower(factor, i) /\ j \in Lower(factor, i) /\ j \in Upper(factor, k)

PlanIsSound ==
    /\ Closed(factor)
    /\ \A r \in Rows : \A k \in Lower(factor, r) : levels[k] < levels[r]
    /\ \A i, k, j \in Rows : Meet(i, k, j) => levels[k] < levels[j]
    /\ \A r \in Rows : levels[r] < Levels(levels)
    /\ Levels(levels) \in 1 .. Dimension

\* Tasks of lower levels have been left, those of higher levels have not started, and
\* the diagonals come after all of them.
BlocksFollowLevels ==
    /\ stage \in {"launch", "level"} => level < Levels(levels)
    /\ stage \in {"validate", "done"} => level = Levels(levels)
    /\ \A i \in Rows : \A k \in Lower(factor, i) :
           /\ levels[k] < level => pc[<<i, k>>] = "exited"
           /\ levels[k] > level => pc[<<i, k>>] = "idle"
           /\ levels[k] = level => (stage = "launch" <=> pc[<<i, k>>] = "idle")
    /\ \A r \in Rows :
           /\ pc[<<r, r>>] \in {"idle", "exited"}
           /\ stage \in {"launch", "level"} => pc[<<r, r>>] = "idle"
           /\ stage = "done" => pc[<<r, r>>] = "exited"

UpdatesAreUpper ==
    \A i \in Rows : \A k \in Lower(factor, i) : pending[<<i, k>>] \subseteq Upper(factor, k)

\* The steps of row i by pivot row k that the block of the task has made.
Made(i, k, j) == pc[<<i, k>>] \in {"update", "exited"} /\ j \notin pending[<<i, k>>]

\* Until a report, each step made was sound, and whoever left has finished.
StepsFollowBlocks ==
    status = NoReport =>
        /\ \A i, k, j \in Rows : k < i /\ k <= j =>
               applied[<<i, k, j>>] =
                   IF Needed(factor, <<i, k, j>>) /\ Made(i, k, j) THEN 1 ELSE 0
        /\ \A i \in Rows : \A k \in Lower(factor, i) :
               /\ pc[<<i, k>>] \in {"update", "exited"} => k \notin tiny
               /\ pc[<<i, k>>] = "exited" => pending[<<i, k>>] = {}
        /\ \A r \in Rows : pc[<<r, r>>] = "exited" => r \notin tiny

IInv ==
    /\ TypeOK
    /\ PlanIsSound
    /\ BlocksFollowLevels
    /\ UpdatesAreUpper
    /\ StepsFollowBlocks

-----------------------------------------------------------------------------
\* A task is a pair of rows with an entry of strict L.
LEMMA TaskIsEntry ==
    ASSUME NEW t \in Tasks
    PROVE  \E i \in Rows : \E k \in Rows :
               t = <<i, k>> /\ k < i /\ k \in factor[i] /\ k \in Lower(factor, i)
    BY DEF Tasks, Lower

LEMMA EntryIsTask ==
    ASSUME NEW i \in Rows, NEW k \in Lower(factor, i), factor \in [Rows -> SUBSET Rows]
    PROVE  /\ k \in Rows /\ k < i /\ k \in factor[i] /\ <<i, k>> \in Tasks
           /\ <<i, k>>[1] = i /\ <<i, k>>[2] = k
    BY DEF Tasks, Lower

LEMMA StepsOfRows ==
    \A a, b, c \in Rows : b < a /\ b <= c => <<a, b, c>> \in Steps(Rows)
    BY DEF Steps

LEMMA NeededStep ==
    ASSUME NEW i, NEW k, NEW j
    PROVE  Needed(factor, <<i, k, j>>) <=> k \in factor[i] /\ j \in factor[k]
    BY DEF Needed

\* Whatever a step does, the table of steps stays one.
LEMMA AnyStep ==
    ASSUME applied \in [Steps(Rows) -> 0 .. 2], NEW s
    PROVE  Apply(factor, applied, s) \in [Steps(Rows) -> 0 .. 2]
<1>1. Outcome(factor, applied, s) \in 0 .. 2
    BY DEF Outcome
<1> QED
    BY <1>1 DEF Apply

-----------------------------------------------------------------------------
\* Two pivots that meet in a row below them are in one block, which the block upper
\* triangular form puts both of them and the row in.
LEMMA MeetInOneBlock ==
    ASSUME NEW i \in Rows, NEW k \in Rows, NEW j \in Rows, Meet(i, k, j),
           factor \in [Rows -> SUBSET Rows],
           boundaries \subseteq Int, BlockUpper(factor, boundaries)
    PROVE  \A b \in boundaries : b <= k <=> b <= j
<1>1. k < j /\ j < i /\ k \in factor[i]
    BY DEF Meet, Lower, Upper
<1>2. ASSUME NEW b \in boundaries, b <= k PROVE b <= j
    BY <1>1, <1>2, SizeAssumption DEF Rows
<1>3. ASSUME NEW b \in boundaries, b <= j PROVE b <= k
    <2>1. b <= i
        BY <1>1, <1>3, SizeAssumption DEF Rows
    <2> QED
        BY <1>1, <2>1 DEF BlockUpper
<1> QED
    BY <1>2, <1>3

\* The levels order pivots that meet, with the reused schedule and with the generic.
LEMMA LevelsSeparate ==
    ASSUME Init
    PROVE  PlanIsSound /\ levels \in [Rows -> 0 .. Dimension - 1]
<1> DEFINE deps == IF reuse THEN [r \in Rows |-> Lower(factor, r)] ELSE PivotDeps(factor)
<1>1. /\ Dimension \in Nat \ {0}
      /\ Rows = 0 .. Dimension - 1
      /\ factor \in [Rows -> SUBSET Rows]
      /\ Closed(factor) /\ BlockUpper(factor, boundaries)
      /\ boundaries \subseteq Int
      /\ reuse => Mirrors(factor, boundaries)
    <2>1. reuse => Mirrors(factor, boundaries)
        BY Zenon DEF Init
    <2> QED
        BY <2>1, SizeAssumption DEF Init, Rows
<1>2. \A r \in 0 .. Dimension - 1 : deps[r] \subseteq 0 .. r - 1
    <2>1. \A r \in Rows : Lower(factor, r) \subseteq 0 .. r - 1
        BY <1>1 DEF Lower
    <2>2. \A r \in Rows : PivotDeps(factor)[r] \subseteq 0 .. r - 1
        BY <1>1, <2>1 DEF PivotDeps, Upper
    <2> QED
        BY <1>1, <2>1, <2>2
<1>3. /\ Levelled(levels, Dimension)
      /\ levels \in [0 .. Dimension - 1 -> Nat]
      /\ \A r \in 0 .. Dimension - 1 : levels[r] <= r
      /\ \A r \in 0 .. Dimension - 1 : \A d \in deps[r] : levels[d] < levels[r]
    <2>1. levels = RowLevels(0 .. Dimension - 1, deps)
        BY <1>1 DEF Init, PivotLevels
    <2> HIDE DEF deps
    <2>2. /\ Levelled(levels, Dimension)
          /\ \A r \in 0 .. Dimension - 1 : levels[r] <= r
          /\ \A r \in 0 .. Dimension - 1 : \A d \in deps[r] : levels[d] < levels[r]
        BY <1>1, <1>2, <2>1, RowLevelsRespectDependencies
    <2> QED
        BY <2>2 DEF Levelled
<1>4. Levels(levels) \in 1 .. Dimension /\ \A r \in Rows : levels[r] < Levels(levels)
    <2>1. Dimension \in Nat \ {0} /\ Levelled(levels, Dimension)
        BY <1>1, <1>3
    <2>2. /\ Levels(levels) \in 1 .. Dimension
          /\ \A r \in 0 .. Dimension - 1 : levels[r] \in 0 .. Levels(levels) - 1
        BY <2>1, LevelsAreCounted
    <2> QED
        BY <1>1, <2>2
<1>5. \A r \in Rows : Lower(factor, r) \subseteq deps[r]
    BY DEF PivotDeps
<1>6. \A r \in Rows : \A k \in Lower(factor, r) : levels[k] < levels[r]
    BY <1>1, <1>3, <1>5
<1>7. ASSUME NEW i \in Rows, NEW k \in Rows, NEW j \in Rows, Meet(i, k, j)
      PROVE  levels[k] < levels[j]
    <2>1. k < j /\ j \in factor[k] /\ j \in Upper(factor, k)
        BY <1>7 DEF Meet, Upper
    <2>2. CASE k \in factor[j]
        <3>1. k \in Lower(factor, j)
            BY <2>1, <2>2 DEF Lower
        <3> QED
            BY <1>6, <3>1
    <2>3. CASE k \notin factor[j] /\ ~reuse
        <3>1. SharedTarget(factor, k, j)
            BY <1>7 DEF Meet, SharedTarget
        <3>2. k \in deps[j]
            BY <2>1, <2>3, <3>1 DEF PivotDeps
        <3> QED
            BY <1>1, <1>3, <3>2
    <2>4. CASE k \notin factor[j] /\ reuse
        <3>1. Mirrors(factor, boundaries)
            BY <1>1, <2>4
        <3>2. \A b \in boundaries : b <= k <=> b <= j
            BY <1>1, <1>7, MeetInOneBlock
        <3>3. k \in factor[j]
            BY <2>1, <3>1, <3>2 DEF Mirrors
        <3> QED
            BY <2>4, <3>3
    <2> QED
        BY <2>2, <2>3, <2>4
<1>8. levels \in [Rows -> 0 .. Dimension - 1]
    BY <1>1, <1>3
<1> QED
    BY <1>1, <1>4, <1>6, <1>7, <1>8 DEF PlanIsSound

LEMMA InitIsFine == Init => IInv
<1> SUFFICES ASSUME Init PROVE IInv
    OBVIOUS
<1>1. PlanIsSound /\ levels \in [Rows -> 0 .. Dimension - 1]
    BY LevelsSeparate
<1>2. factor \in [Rows -> SUBSET Rows] /\ boundaries \subseteq 0 .. Dimension
    BY SizeAssumption DEF Init
<1>3. TypeOK
    <2>1. tiny \subseteq Rows
        BY SizeAssumption DEF Init
    <2>2. reuse \in BOOLEAN
        BY DEF Init, Mirrors
    <2>3. applied \in [Steps(Rows) -> 0 .. 2] /\ status \in Rows \cup {NoReport, Incomplete}
        BY DEF Init
    <2>4. stage \in {"launch", "level", "validate", "done"} /\ level \in 0 .. Dimension
        BY SizeAssumption DEF Init
    <2>5. /\ pc \in [Rows \X Rows -> {"idle", "pivot", "update", "exited"}]
          /\ pending \in [Rows \X Rows -> SUBSET Rows]
        BY DEF Init
    <2> QED
        BY <1>1, <1>2, <2>1, <2>2, <2>3, <2>4, <2>5 DEF TypeOK
<1>4. \A i, k \in Rows : pc[<<i, k>>] = "idle" /\ pending[<<i, k>>] = {}
    BY DEF Init
<1>5. BlocksFollowLevels
    <2>1. stage = "launch" /\ level = 0
        BY DEF Init
    <2>2. \A r \in Rows : levels[r] \in Nat
        BY <1>1, SizeAssumption
    <2>3. \A i \in Rows : \A k \in Lower(factor, i) : k \in Rows
        BY <1>2 DEF Lower
    <2>4. level < Levels(levels)
        BY <1>1, <2>1, SizeAssumption DEF PlanIsSound
    <2> QED
        BY <1>4, <2>1, <2>2, <2>3, <2>4 DEF BlocksFollowLevels
<1>6. UpdatesAreUpper
    BY <1>2, <1>4 DEF UpdatesAreUpper, Lower
<1>7. StepsFollowBlocks
    <2>1. \A i, k, j \in Rows : k < i /\ k <= j => applied[<<i, k, j>>] = 0
        BY StepsOfRows DEF Init
    <2>2. \A i \in Rows : \A k \in Lower(factor, i) : k \in Rows
        BY <1>2 DEF Lower
    <2> QED
        BY <1>4, <2>1, <2>2 DEF StepsFollowBlocks, Made
<1> QED
    BY <1>1, <1>3, <1>5, <1>6, <1>7 DEF IInv

-----------------------------------------------------------------------------
\* A block that runs belongs to the level that was launched.
LEMMA BlockIsAtLevel ==
    ASSUME IInv, NEW i \in Rows, NEW k \in Lower(factor, i),
           pc[<<i, k>>] \in {"pivot", "update"}
    PROVE  /\ k \in Rows /\ k < i /\ k \in factor[i] /\ <<i, k>> \in Rows \X Rows
           /\ levels[k] = level /\ stage = "level"
<1>1. k \in Rows /\ k < i /\ k \in factor[i] /\ <<i, k>> \in Rows \X Rows
    BY DEF IInv, TypeOK, Lower
<1>2. levels[k] \in Nat /\ level \in Nat /\ levels[k] < Levels(levels)
    BY <1>1, SizeAssumption DEF IInv, TypeOK, PlanIsSound
<1>3. /\ levels[k] < level => pc[<<i, k>>] = "exited"
      /\ levels[k] > level => pc[<<i, k>>] = "idle"
      /\ levels[k] = level => (stage = "launch" <=> pc[<<i, k>>] = "idle")
    BY DEF IInv, BlocksFollowLevels
<1>4. levels[k] = level
    BY <1>2, <1>3
<1>5. stage = "level"
    BY <1>2, <1>3, <1>4 DEF IInv, TypeOK, BlocksFollowLevels
<1> QED
    BY <1>1, <1>4, <1>5

\* While nothing has been reported, a row whose tasks have all left is final.
LEMMA ExitedIsFinal ==
    ASSUME IInv, status = NoReport, NEW k \in Rows,
           \A p \in Lower(factor, k) : pc[<<k, p>>] = "exited"
    PROVE  \A j \in Rows : Final(factor, applied, k, j)
<1>1. ASSUME NEW j \in Rows, NEW p \in Rows, p < k, p <= j
      PROVE  applied[<<k, p, j>>] = IF Needed(factor, <<k, p, j>>) THEN 1 ELSE 0
    <2>1. applied[<<k, p, j>>] =
              IF Needed(factor, <<k, p, j>>) /\ Made(k, p, j) THEN 1 ELSE 0
        BY <1>1 DEF IInv, StepsFollowBlocks
    <2>2. ASSUME Needed(factor, <<k, p, j>>) PROVE Made(k, p, j)
        <3>1. p \in Lower(factor, k)
            BY <1>1, <2>2, NeededStep DEF Lower
        <3>2. pc[<<k, p>>] = "exited" /\ pending[<<k, p>>] = {}
            BY <3>1 DEF IInv, StepsFollowBlocks
        <3> QED
            BY <3>2 DEF Made
    <2> QED
        BY <2>1, <2>2
<1>2. DOMAIN factor = Rows
    BY DEF IInv, TypeOK
<1> QED
    BY <1>1, <1>2 DEF Final, DoneBelow

\* The pivot row of a running block is final.
LEMMA PivotRowIsFinal ==
    ASSUME IInv, status = NoReport, NEW i \in Rows, NEW k \in Lower(factor, i),
           pc[<<i, k>>] \in {"pivot", "update"}
    PROVE  \A j \in Rows : Final(factor, applied, k, j)
<1>1. k \in Rows /\ levels[k] = level
    BY BlockIsAtLevel
<1>2. ASSUME NEW p \in Lower(factor, k) PROVE pc[<<k, p>>] = "exited"
    BY <1>1, <1>2 DEF IInv, PlanIsSound, BlocksFollowLevels
<1> QED
    BY <1>1, <1>2, ExitedIsFinal

\* Pivots that update the entry (i, k) before it is divided have left.
LEMMA EntryIsUpdated ==
    ASSUME IInv, status = NoReport, NEW i \in Rows, NEW k \in Lower(factor, i),
           pc[<<i, k>>] \in {"pivot", "update"}, NEW p \in Rows, p < k
    PROVE  applied[<<i, p, k>>] = IF Needed(factor, <<i, p, k>>) THEN 1 ELSE 0
<1>1. k \in Rows /\ k < i /\ k \in factor[i] /\ levels[k] = level
    BY BlockIsAtLevel
<1>2. p < i /\ p <= k
    BY <1>1, SizeAssumption DEF Rows
<1>3. applied[<<i, p, k>>] =
          IF Needed(factor, <<i, p, k>>) /\ Made(i, p, k) THEN 1 ELSE 0
    BY <1>1, <1>2 DEF IInv, StepsFollowBlocks
<1>4. ASSUME Needed(factor, <<i, p, k>>) PROVE Made(i, p, k)
    <2>1. p \in factor[i] /\ k \in factor[p]
        BY <1>4, NeededStep
    <2>2. p \in Lower(factor, i) /\ k \in Upper(factor, p)
        BY <1>1, <1>2, <2>1, SizeAssumption DEF Lower, Upper, Rows
    <2>3. levels[p] < level
        BY <1>1, <2>2 DEF Meet, IInv, PlanIsSound
    <2>4. pc[<<i, p>>] = "exited" /\ pending[<<i, p>>] = {}
        BY <2>2, <2>3 DEF IInv, BlocksFollowLevels, StepsFollowBlocks
    <2> QED
        BY <2>4 DEF Made
<1> QED
    BY <1>3, <1>4

LEMMA DivisionIsSound ==
    ASSUME IInv, status = NoReport, NEW i \in Rows, NEW k \in Lower(factor, i),
           pc[<<i, k>>] = "pivot"
    PROVE  /\ Final(factor, applied, k, k)
           /\ Needed(factor, <<i, k, k>>)
           /\ applied[<<i, k, k>>] = 0
           /\ Sound(factor, applied, <<i, k, k>>)
<1>1. k \in Rows /\ k < i /\ k \in factor[i] /\ k <= k
    BY BlockIsAtLevel, SizeAssumption DEF Rows
<1>2. DOMAIN factor = Rows /\ k \in factor[k]
    BY <1>1 DEF IInv, TypeOK, PlanIsSound, Closed
<1>3. Final(factor, applied, k, k)
    BY <1>1, PivotRowIsFinal
<1>4. Needed(factor, <<i, k, k>>)
    BY <1>1, <1>2, NeededStep
<1>5. applied[<<i, k, k>>] = 0
    BY <1>1 DEF IInv, StepsFollowBlocks, Made
<1>6. DoneBelow(factor, applied, i, k, k)
    BY <1>1, <1>2, EntryIsUpdated DEF DoneBelow
<1> QED
    BY <1>3, <1>4, <1>5, <1>6 DEF Sound

LEMMA AdditionIsSound ==
    ASSUME IInv, NEW i \in Rows, NEW k \in Lower(factor, i),
           pc[<<i, k>>] = "update", NEW j \in pending[<<i, k>>]
    PROVE  /\ k \in Rows /\ j \in Rows /\ k < i /\ k < j
           /\ j \in factor[i]
           /\ Needed(factor, <<i, k, j>>)
           /\ status = NoReport =>
                  /\ k \notin tiny
                  /\ applied[<<i, k, j>>] = 0
                  /\ Sound(factor, applied, <<i, k, j>>)
<1>1. k \in Rows /\ k < i /\ k \in factor[i] /\ levels[k] = level
    BY BlockIsAtLevel
<1>2. DOMAIN factor = Rows
    BY DEF IInv, TypeOK
<1>3. j \in Upper(factor, k) /\ pending[<<i, k>>] \subseteq Upper(factor, k)
    BY DEF IInv, UpdatesAreUpper
<1>4. j \in Rows /\ j \in factor[k] /\ k < j
    BY <1>1, <1>3 DEF IInv, TypeOK, Upper
<1>5. j \in factor[i] /\ k \in factor[k]
    BY <1>1, <1>2, <1>3 DEF IInv, PlanIsSound, Closed
<1>6. Needed(factor, <<i, k, j>>) /\ Needed(factor, <<i, k, k>>)
    BY <1>1, <1>4, <1>5, NeededStep
<1>7. ASSUME status = NoReport
      PROVE  /\ k \notin tiny
             /\ applied[<<i, k, j>>] = 0
             /\ Sound(factor, applied, <<i, k, j>>)
    <2>1. k \notin tiny /\ Final(factor, applied, k, j)
        BY <1>4, <1>7, PivotRowIsFinal DEF IInv, StepsFollowBlocks
    <2>2. k <= j /\ k <= k
        BY <1>1, <1>4, SizeAssumption DEF Rows
    <2>3. applied[<<i, k, j>>] = 0
        BY <1>1, <1>4, <1>7, <2>2 DEF IInv, StepsFollowBlocks, Made
    <2>4. k \notin pending[<<i, k>>]
        BY <1>1, <1>3, SizeAssumption DEF Upper, Rows
    <2>5. applied[<<i, k, k>>] = 1
        BY <1>1, <1>6, <1>7, <2>2, <2>4 DEF IInv, StepsFollowBlocks, Made
    <2>6. \A p \in Rows : p < k =>
              applied[<<i, p, k>>] = IF Needed(factor, <<i, p, k>>) THEN 1 ELSE 0
        BY <1>7, EntryIsUpdated
    <2>7. Final(factor, applied, i, k)
        BY <1>1, <1>2, <1>6, <2>5, <2>6, SizeAssumption DEF Final, DoneBelow, Rows
    <2>8. ASSUME j < i PROVE applied[<<i, j, j>>] = 0
        <3>1. j \in Lower(factor, i) /\ k \in Lower(factor, i) /\ j <= j
            BY <1>4, <1>5, <2>8, SizeAssumption DEF Lower, Rows
        <3>2. levels[k] < levels[j]
            BY <1>1, <1>3, <1>4, <3>1 DEF IInv, PlanIsSound, Meet
        <3>3. levels[j] \in Int /\ level \in Int
            BY <1>4, SizeAssumption DEF IInv, TypeOK
        <3>4. pc[<<i, j>>] = "idle"
            BY <1>1, <3>1, <3>2, <3>3 DEF IInv, BlocksFollowLevels
        <3> QED
            BY <1>4, <1>7, <2>8, <3>1, <3>4 DEF IInv, StepsFollowBlocks, Made
    <2> QED
        BY <1>4, <2>1, <2>3, <2>7, <2>8, <1>1, SizeAssumption DEF Sound, Rows
<1> QED
    BY <1>1, <1>4, <1>5, <1>6, <1>7

\* When all levels are over every row is final, and what was not reported is good.
LEMMA AllIsFinal ==
    ASSUME IInv, status = NoReport, stage = "validate"
    PROVE  \A r, j \in Rows : Final(factor, applied, r, j)
<1>1. level = Levels(levels)
    BY DEF IInv, BlocksFollowLevels
<1>2. ASSUME NEW r \in Rows, NEW p \in Lower(factor, r) PROVE pc[<<r, p>>] = "exited"
    <2>1. p \in Rows
        BY <1>2 DEF IInv, TypeOK, Lower
    <2> QED
        BY <1>1, <2>1 DEF IInv, PlanIsSound, BlocksFollowLevels
<1> QED
    BY <1>2, ExitedIsFinal

-----------------------------------------------------------------------------
\* The plan does not change.
LEMMA PlanStays ==
    ASSUME PlanIsSound, UNCHANGED plan
    PROVE  PlanIsSound'
    BY DEF PlanIsSound, plan, Closed, Lower, Upper, Meet

\* The next level: launched, or after the last the tests of the diagonals.
LEMMA NextLevelIsFine ==
    ASSUME IInv, stage \in {"launch", "level"}, NextLevel, UNCHANGED <<plan, blocks>>,
           \A i \in Rows : \A k \in Lower(factor, i) :
               levels[k] = level => pc[<<i, k>>] = "exited"
    PROVE  /\ PlanIsSound' /\ BlocksFollowLevels'
           /\ stage' \in {"launch", "validate"} /\ level' \in 0 .. Dimension
<1>1. PlanIsSound'
    BY PlanStays DEF IInv
<1>2. level < Levels(levels) /\ Levels(levels) \in 1 .. Dimension /\ level \in Nat
    BY DEF IInv, TypeOK, BlocksFollowLevels, PlanIsSound
<1>3. /\ level' = level + 1 /\ level' <= Levels(levels)
      /\ stage' \in {"launch", "validate"}
      /\ stage' = "launch" => level + 1 < Levels(levels)
      /\ stage' = "validate" => level + 1 = Levels(levels)
      /\ levels' = levels /\ factor' = factor /\ pc' = pc
    BY <1>2 DEF NextLevel, plan, blocks
<1>4. ASSUME NEW i \in Rows, NEW k \in Lower(factor, i)
      PROVE  /\ levels[k] < level + 1 => pc[<<i, k>>] = "exited"
             /\ levels[k] > level + 1 => pc[<<i, k>>] = "idle"
             /\ levels[k] = level + 1 => pc[<<i, k>>] = "idle" /\ stage' = "launch"
    <2>1. levels[k] \in Nat /\ levels[k] < Levels(levels)
        BY DEF IInv, TypeOK, PlanIsSound, Lower
    <2>2. /\ levels[k] < level => pc[<<i, k>>] = "exited"
          /\ levels[k] > level => pc[<<i, k>>] = "idle"
          /\ levels[k] = level => pc[<<i, k>>] = "exited"
        BY DEF IInv, BlocksFollowLevels
    <2> QED
        BY <1>2, <1>3, <2>1, <2>2
<1>5. \A i \in Rows : \A k \in Lower(factor', i) :
          /\ levels'[k] < level' => pc'[<<i, k>>] = "exited"
          /\ levels'[k] > level' => pc'[<<i, k>>] = "idle"
          /\ levels'[k] = level' => (stage' = "launch" <=> pc'[<<i, k>>] = "idle")
    BY <1>3, <1>4
<1>6. \A r \in Rows : pc'[<<r, r>>] = "idle"
    BY <1>3 DEF IInv, BlocksFollowLevels
<1>7. BlocksFollowLevels'
    BY <1>3, <1>5, <1>6 DEF BlocksFollowLevels
<1>8. level' \in 0 .. Dimension
    BY <1>2, <1>3, SizeAssumption
<1> QED
    BY <1>1, <1>3, <1>7, <1>8

LEMMA LaunchIsFine ==
    ASSUME IInv, Launch
    PROVE  IInv'
<1>1. /\ stage = "launch" /\ UNCHANGED <<plan, applied, status, pending>>
      /\ pc' = [t \in Rows \X Rows |-> IF t \in TasksOfLevel(level) THEN "pivot" ELSE pc[t]]
    BY DEF Launch
<1>2. factor' = factor /\ levels' = levels /\ tiny' = tiny /\ applied' = applied
      /\ status' = status /\ pending' = pending
    BY <1>1 DEF plan
<1>3. ASSUME NEW i \in Rows, NEW k \in Lower(factor, i)
      PROVE  /\ levels[k] = level => pc[<<i, k>>] = "idle" /\ pc'[<<i, k>>] = "pivot"
             /\ levels[k] # level => pc'[<<i, k>>] = pc[<<i, k>>]
    <2>1. /\ k \in Rows /\ <<i, k>> \in Rows \X Rows /\ <<i, k>> \in Tasks
          /\ <<i, k>>[2] = k
        BY EntryIsTask DEF IInv, TypeOK
    <2>2. <<i, k>> \in TasksOfLevel(level) <=> levels[k] = level
        BY <2>1 DEF TasksOfLevel
    <2>3. levels[k] = level => pc[<<i, k>>] = "idle"
        BY <1>1 DEF IInv, BlocksFollowLevels
    <2> QED
        BY <1>1, <2>1, <2>2, <2>3
<1>4. ASSUME NEW r \in Rows PROVE pc'[<<r, r>>] = pc[<<r, r>>]
    <2>1. <<r, r>> \notin TasksOfLevel(level)
        BY SizeAssumption DEF TasksOfLevel, Tasks, Rows
    <2> QED
        BY <1>1, <2>1
<1>5. pc' \in [Rows \X Rows -> {"idle", "pivot", "update", "exited"}]
    BY <1>1 DEF IInv, TypeOK
<1>6. PlanIsSound' /\ BlocksFollowLevels' /\ level' \in 0 .. Dimension
      /\ stage' \in {"launch", "level", "validate", "done"}
    <2>1. CASE TasksOfLevel(level) = {}
        <3>1. NextLevel
            BY <2>1 DEF Launch
        <3>2. pc' = pc
            BY <1>1, <2>1 DEF IInv, TypeOK
        <3>3. \A i \in Rows : \A k \in Lower(factor, i) : levels[k] # level
            <4> SUFFICES ASSUME NEW i \in Rows, NEW k \in Lower(factor, i), levels[k] = level
                         PROVE  FALSE
                OBVIOUS
            <4>1. <<i, k>> \in Tasks /\ <<i, k>>[2] = k
                BY EntryIsTask DEF IInv, TypeOK
            <4> QED
                BY <2>1, <4>1 DEF TasksOfLevel
        <3> QED
            BY <1>1, <3>1, <3>2, <3>3, NextLevelIsFine DEF blocks
    <2>2. CASE TasksOfLevel(level) # {}
        <3>1. stage' = "level" /\ level' = level
            BY <2>2 DEF Launch
        <3>2. PlanIsSound'
            BY <1>1, PlanStays DEF IInv
        <3>3. level' < Levels(levels')
            BY <1>1, <1>2, <3>1 DEF IInv, BlocksFollowLevels
        <3>4. ASSUME NEW i \in Rows, NEW k \in Lower(factor, i)
              PROVE  /\ levels[k] < level => pc'[<<i, k>>] = "exited"
                     /\ levels[k] > level => pc'[<<i, k>>] = "idle"
                     /\ levels[k] = level => pc'[<<i, k>>] = "pivot"
            <4>1. levels[k] \in Nat /\ level \in Nat
                BY SizeAssumption DEF IInv, TypeOK, Lower
            <4>2. /\ levels[k] < level => pc[<<i, k>>] = "exited"
                  /\ levels[k] > level => pc[<<i, k>>] = "idle"
                BY DEF IInv, BlocksFollowLevels
            <4> QED
                BY <1>3, <4>1, <4>2
        <3>5. \A r \in Rows : pc'[<<r, r>>] = "idle"
            BY <1>1, <1>4 DEF IInv, BlocksFollowLevels
        <3>6. BlocksFollowLevels'
            BY <1>2, <3>1, <3>3, <3>4, <3>5 DEF BlocksFollowLevels
        <3> QED
            BY <3>1, <3>2, <3>6 DEF IInv, TypeOK
    <2> QED
        BY <2>1, <2>2
<1>7. TypeOK'
    BY <1>1, <1>5, <1>6 DEF IInv, TypeOK, plan
<1>8. UpdatesAreUpper'
    BY <1>2 DEF IInv, UpdatesAreUpper, Lower, Upper
<1>9. StepsFollowBlocks'
    <2> SUFFICES ASSUME status = NoReport PROVE StepsFollowBlocks'
        BY <1>2 DEF StepsFollowBlocks
    <2>1. ASSUME NEW i \in Rows, NEW k \in Rows, NEW j \in Rows, k < i, k <= j
          PROVE  applied'[<<i, k, j>>] =
                     IF Needed(factor, <<i, k, j>>) /\ Made(i, k, j)' THEN 1 ELSE 0
        <3>1. applied[<<i, k, j>>] =
                  IF Needed(factor, <<i, k, j>>) /\ Made(i, k, j) THEN 1 ELSE 0
            BY <2>1 DEF IInv, StepsFollowBlocks
        <3>2. CASE Needed(factor, <<i, k, j>>)
            <4>1. k \in Lower(factor, i)
                BY <2>1, <3>2, NeededStep DEF Lower
            <4>2. CASE levels[k] = level
                <5>1. pc[<<i, k>>] = "idle" /\ pc'[<<i, k>>] = "pivot"
                    BY <1>3, <4>1, <4>2
                <5>2. ~Made(i, k, j) /\ ~Made(i, k, j)'
                    BY <5>1 DEF Made
                <5> QED
                    BY <1>2, <3>1, <5>2
            <4>3. CASE levels[k] # level
                <5>1. Made(i, k, j)' <=> Made(i, k, j)
                    BY <1>2, <1>3, <4>1, <4>3 DEF Made
                <5> QED
                    BY <1>2, <3>1, <5>1
            <4> QED
                BY <4>2, <4>3
        <3>3. CASE ~Needed(factor, <<i, k, j>>)
            BY <1>2, <3>1, <3>3
        <3> QED
            BY <3>2, <3>3
    <2>2. ASSUME NEW i \in Rows, NEW k \in Lower(factor, i)
          PROVE  /\ pc'[<<i, k>>] \in {"update", "exited"} => k \notin tiny
                 /\ pc'[<<i, k>>] = "exited" => pending[<<i, k>>] = {}
        BY <1>3, <2>2 DEF IInv, StepsFollowBlocks
    <2>3. \A r \in Rows : pc'[<<r, r>>] = "exited" => r \notin tiny
        BY <1>4 DEF IInv, StepsFollowBlocks
    <2> QED
        BY <1>2, <2>1, <2>2, <2>3 DEF StepsFollowBlocks, Needed, Lower
<1> QED
    BY <1>6, <1>7, <1>8, <1>9 DEF IInv

LEMMA FinishLevelIsFine ==
    ASSUME IInv, FinishLevel
    PROVE  IInv'
<1>1. stage = "level" /\ NextLevel /\ UNCHANGED <<plan, applied, status, blocks>>
    BY DEF FinishLevel
<1>2. ASSUME NEW i \in Rows, NEW k \in Lower(factor, i), levels[k] = level
      PROVE  pc[<<i, k>>] = "exited"
    <2>1. <<i, k>> \in Tasks /\ <<i, k>>[2] = k
        BY EntryIsTask DEF IInv, TypeOK
    <2>2. <<i, k>> \in TasksOfLevel(level)
        BY <1>2, <2>1 DEF TasksOfLevel
    <2> QED
        BY <2>2 DEF FinishLevel
<1>3. /\ PlanIsSound' /\ BlocksFollowLevels'
      /\ stage' \in {"launch", "validate"} /\ level' \in 0 .. Dimension
    BY <1>1, <1>2, NextLevelIsFine
<1>4. TypeOK'
    BY <1>1, <1>3 DEF IInv, TypeOK, plan, blocks
<1>5. UpdatesAreUpper' /\ StepsFollowBlocks'
    BY <1>1 DEF IInv, UpdatesAreUpper, StepsFollowBlocks, Made, plan, blocks, Lower, Upper,
                Needed
<1> QED
    BY <1>3, <1>4, <1>5 DEF IInv

-----------------------------------------------------------------------------
\* What a step of a block leaves of the plan and of the other blocks' places.
LEMMA BlockMoves ==
    ASSUME IInv, NEW i \in Rows, NEW k \in Lower(factor, i),
           pc[<<i, k>>] \in {"pivot", "update"}, NEW x \in {"update", "exited"},
           pc' = [pc EXCEPT ![<<i, k>>] = x], UNCHANGED <<plan, host>>
    PROVE  /\ PlanIsSound' /\ BlocksFollowLevels'
           /\ pc' \in [Rows \X Rows -> {"idle", "pivot", "update", "exited"}]
           /\ pc'[<<i, k>>] = x
           /\ \A a, b \in Rows : a # i \/ b # k => pc'[<<a, b>>] = pc[<<a, b>>]
<1>1. PlanIsSound'
    BY PlanStays DEF IInv
<1>2. k \in Rows /\ k < i /\ <<i, k>> \in Rows \X Rows /\ levels[k] = level /\ stage = "level"
    BY BlockIsAtLevel
<1>3. /\ pc' \in [Rows \X Rows -> {"idle", "pivot", "update", "exited"}]
      /\ pc'[<<i, k>>] = x
      /\ \A a, b \in Rows : a # i \/ b # k => pc'[<<a, b>>] = pc[<<a, b>>]
    BY <1>2 DEF IInv, TypeOK
<1>4. \A r \in Rows : pc'[<<r, r>>] = pc[<<r, r>>]
    BY <1>2, <1>3, SizeAssumption DEF Rows
<1>5. ASSUME NEW a \in Rows, NEW b \in Lower(factor, a)
      PROVE  /\ levels[b] < level => pc'[<<a, b>>] = "exited"
             /\ levels[b] > level => pc'[<<a, b>>] = "idle"
             /\ levels[b] = level => pc'[<<a, b>>] # "idle"
    <2>1. /\ levels[b] < level => pc[<<a, b>>] = "exited"
          /\ levels[b] > level => pc[<<a, b>>] = "idle"
          /\ levels[b] = level => pc[<<a, b>>] # "idle"
        BY <1>2 DEF IInv, BlocksFollowLevels
    <2>2. CASE a = i /\ b = k
        <3>1. level \in Nat
            BY SizeAssumption DEF IInv, TypeOK
        <3> QED
            BY <1>2, <1>3, <2>2, <3>1
    <2>3. CASE a # i \/ b # k
        <3>1. b \in Rows
            BY DEF IInv, TypeOK, Lower
        <3> QED
            BY <1>3, <2>1, <2>3, <3>1
    <2> QED
        BY <2>2, <2>3
<1>6. stage' = stage /\ level' = level /\ levels' = levels /\ factor' = factor
    BY DEF plan, host
<1>7. BlocksFollowLevels'
    <2>1. level < Levels(levels)
        BY <1>2 DEF IInv, BlocksFollowLevels
    <2>2. \A r \in Rows : pc[<<r, r>>] = "idle"
        BY <1>2 DEF IInv, BlocksFollowLevels
    <2> QED
        BY <1>2, <1>4, <1>5, <1>6, <2>1, <2>2 DEF BlocksFollowLevels
<1> QED
    BY <1>1, <1>3, <1>7

LEMMA PivotIsFine ==
    ASSUME IInv, NEW i \in Rows, NEW k \in Lower(factor, i), Pivot(<<i, k>>)
    PROVE  IInv'
<1>1. pc[<<i, k>>] = "pivot" /\ UNCHANGED <<plan, host>>
    BY DEF Pivot
<1>2. k \in Rows /\ k < i /\ k \in factor[i] /\ <<i, k>> \in Rows \X Rows /\ k <= k
    BY <1>1, BlockIsAtLevel, SizeAssumption DEF Rows
<1>3. factor' = factor /\ tiny' = tiny
    BY <1>1 DEF plan
<1>4. CASE /\ status = NoReport => k \notin tiny
           /\ applied' = Apply(factor, applied, <<i, k, k>>)
           /\ pending' = [pending EXCEPT ![<<i, k>>] = Upper(factor, k)]
           /\ pc' = [pc EXCEPT ![<<i, k>>] = "update"]
           /\ UNCHANGED status
    <2>1. /\ PlanIsSound' /\ BlocksFollowLevels'
          /\ pc' \in [Rows \X Rows -> {"idle", "pivot", "update", "exited"}]
          /\ pc'[<<i, k>>] = "update"
          /\ \A a, b \in Rows : a # i \/ b # k => pc'[<<a, b>>] = pc[<<a, b>>]
        BY <1>1, <1>4, BlockMoves
    <2>2. /\ pending' \in [Rows \X Rows -> SUBSET Rows]
          /\ pending'[<<i, k>>] = Upper(factor, k)
          /\ \A a, b \in Rows : a # i \/ b # k => pending'[<<a, b>>] = pending[<<a, b>>]
        <3>1. Upper(factor, k) \subseteq Rows
            BY <1>2 DEF Upper, IInv, TypeOK
        <3> QED
            BY <1>2, <1>4, <3>1 DEF IInv, TypeOK
    <2>3. TypeOK'
        BY <1>1, <1>4, <2>1, <2>2, AnyStep DEF IInv, TypeOK, plan, host
    <2>4. \A a \in Rows : \A b \in Lower(factor, a) : b \in Rows
        BY DEF IInv, TypeOK, Lower
    <2>5. UpdatesAreUpper'
        <3>1. ASSUME NEW a \in Rows, NEW b \in Lower(factor, a)
              PROVE  pending'[<<a, b>>] \subseteq Upper(factor, b)
            <4>1. CASE a = i /\ b = k
                BY <2>2, <4>1
            <4>2. CASE a # i \/ b # k
                BY <2>2, <2>4, <4>2 DEF IInv, UpdatesAreUpper
            <4> QED
                BY <4>1, <4>2
        <3> QED
            BY <1>3, <3>1 DEF UpdatesAreUpper, Lower, Upper
    <2>6. StepsFollowBlocks'
        <3> SUFFICES ASSUME status = NoReport PROVE StepsFollowBlocks'
            BY <1>4 DEF StepsFollowBlocks
        <3>1. /\ Needed(factor, <<i, k, k>>) /\ applied[<<i, k, k>>] = 0
              /\ Sound(factor, applied, <<i, k, k>>)
            BY <1>1, DivisionIsSound
        <3>2. /\ applied'[<<i, k, k>>] = 1
              /\ \A a, b, c \in Rows : b < a /\ b <= c /\ <<a, b, c>> # <<i, k, k>> =>
                     applied'[<<a, b, c>>] = applied[<<a, b, c>>]
            <4>1. applied \in [Steps(Rows) -> 0 .. 2] /\ <<i, k, k>> \in Steps(Rows)
                BY <1>2, StepsOfRows DEF IInv, TypeOK
            <4>2. applied' = [applied EXCEPT ![<<i, k, k>>] = 1]
                BY <1>4, <3>1 DEF Apply, Outcome
            <4> QED
                BY <4>1, <4>2, StepsOfRows
        <3>3. ASSUME NEW a \in Rows, NEW b \in Rows, NEW c \in Rows, b < a, b <= c
              PROVE  applied'[<<a, b, c>>] =
                         IF Needed(factor, <<a, b, c>>) /\ Made(a, b, c)' THEN 1 ELSE 0
            <4>1. applied[<<a, b, c>>] =
                      IF Needed(factor, <<a, b, c>>) /\ Made(a, b, c) THEN 1 ELSE 0
                BY <3>3 DEF IInv, StepsFollowBlocks
            <4>2. CASE a # i \/ b # k
                <5>1. Made(a, b, c)' <=> Made(a, b, c)
                    BY <2>1, <2>2, <4>2 DEF Made
                <5> QED
                    BY <3>2, <3>3, <4>1, <4>2, <5>1
            <4>3. CASE a = i /\ b = k /\ c = k
                <5>1. k \notin Upper(factor, k)
                    BY <1>2, SizeAssumption DEF Upper, Rows
                <5>2. Made(i, k, k)'
                    BY <2>1, <2>2, <5>1 DEF Made
                <5> QED
                    BY <3>1, <3>2, <4>3, <5>2
            <4>4. CASE a = i /\ b = k /\ c # k
                <5>1. Needed(factor, <<a, b, c>>) => ~Made(a, b, c)'
                    <6> SUFFICES ASSUME Needed(factor, <<i, k, c>>) PROVE c \in Upper(factor, k)
                        BY <2>2, <4>4 DEF Made
                    <6>1. c \in factor[k]
                        BY NeededStep
                    <6>2. k < c
                        BY <1>2, <3>3, <4>4, SizeAssumption DEF Rows
                    <6> QED
                        BY <6>1, <6>2 DEF Upper
                <5>2. ~Made(a, b, c)
                    BY <1>1, <4>4 DEF Made
                <5> QED
                    BY <3>2, <3>3, <4>1, <4>4, <5>1, <5>2
            <4> QED
                BY <4>2, <4>3, <4>4
        <3>4. ASSUME NEW a \in Rows, NEW b \in Lower(factor, a)
              PROVE  /\ pc'[<<a, b>>] \in {"update", "exited"} => b \notin tiny
                     /\ pc'[<<a, b>>] = "exited" => pending'[<<a, b>>] = {}
            <4>1. CASE a = i /\ b = k
                BY <1>4, <2>1, <4>1
            <4>2. CASE a # i \/ b # k
                BY <2>1, <2>2, <2>4, <4>2 DEF IInv, StepsFollowBlocks
            <4> QED
                BY <4>1, <4>2
        <3>5. \A r \in Rows : pc'[<<r, r>>] = "exited" => r \notin tiny
            <4>1. \A r \in Rows : r # i \/ r # k
                BY <1>2, SizeAssumption DEF Rows
            <4> QED
                BY <2>1, <4>1 DEF IInv, StepsFollowBlocks
        <3> QED
            BY <1>3, <3>3, <3>4, <3>5 DEF StepsFollowBlocks, Needed, Lower
    <2> QED
        BY <2>1, <2>3, <2>5, <2>6 DEF IInv
<1>5. CASE /\ Report(k) /\ pc' = [pc EXCEPT ![<<i, k>>] = "exited"]
           /\ UNCHANGED <<applied, pending>>
    <2>1. /\ PlanIsSound' /\ BlocksFollowLevels'
          /\ pc' \in [Rows \X Rows -> {"idle", "pivot", "update", "exited"}]
        BY <1>1, <1>5, BlockMoves
    <2>2. status' # NoReport /\ status' \in Rows \cup {NoReport, Incomplete}
        BY <1>2, <1>5, SizeAssumption DEF Report, IInv, TypeOK, Rows, NoReport
    <2>3. TypeOK'
        BY <1>1, <1>5, <2>1, <2>2 DEF IInv, TypeOK, plan, host
    <2>4. UpdatesAreUpper'
        BY <1>3, <1>5 DEF IInv, UpdatesAreUpper, Lower, Upper
    <2> QED
        BY <2>1, <2>2, <2>3, <2>4 DEF IInv, StepsFollowBlocks
<1>6. status = NoReport => Final(factor, applied, k, k)
    BY <1>1, DivisionIsSound
<1>7. <<i, k>>[1] = i /\ <<i, k>>[2] = k
    OBVIOUS
<1> QED
    BY <1>4, <1>5, <1>6, <1>7 DEF Pivot, PivotIsValid

LEMMA AtomicAddIsFine ==
    ASSUME IInv, NEW i \in Rows, NEW k \in Lower(factor, i), AtomicAdd(<<i, k>>)
    PROVE  IInv'
<1>1. pc[<<i, k>>] = "update" /\ UNCHANGED <<plan, host, pc>>
    BY DEF AtomicAdd
<1>2. PICK j \in pending[<<i, k>>] :
          /\ pending' = [pending EXCEPT ![<<i, k>>] = @ \ {j}]
          /\ IF j \in factor[i]
             THEN applied' = Apply(factor, applied, <<i, k, j>>) /\ UNCHANGED status
             ELSE Report(Incomplete) /\ UNCHANGED applied
    BY DEF AtomicAdd
<1>3. /\ k \in Rows /\ j \in Rows /\ k < i /\ k < j
      /\ j \in factor[i]
      /\ Needed(factor, <<i, k, j>>)
      /\ status = NoReport =>
             applied[<<i, k, j>>] = 0 /\ Sound(factor, applied, <<i, k, j>>)
    BY <1>1, AdditionIsSound
<1>4. applied' = Apply(factor, applied, <<i, k, j>>) /\ UNCHANGED status
    BY <1>2, <1>3
<1>5. /\ pending' \in [Rows \X Rows -> SUBSET Rows]
      /\ pending'[<<i, k>>] = pending[<<i, k>>] \ {j}
      /\ \A a, b \in Rows : a # i \/ b # k => pending'[<<a, b>>] = pending[<<a, b>>]
    <2>1. <<i, k>> \in Rows \X Rows
        BY <1>3
    <2> QED
        BY <1>2, <2>1 DEF IInv, TypeOK
<1>6. factor' = factor /\ tiny' = tiny /\ pc' = pc
    BY <1>1 DEF plan
<1>7. TypeOK'
    BY <1>1, <1>4, <1>5, AnyStep DEF IInv, TypeOK, plan, host
<1>8. PlanIsSound'
    BY <1>1, PlanStays DEF IInv
<1>9. BlocksFollowLevels'
    BY <1>1 DEF IInv, BlocksFollowLevels, plan, host, Lower
<1>10. \A a \in Rows : \A b \in Lower(factor, a) : b \in Rows
    BY DEF IInv, TypeOK, Lower
<1>11. UpdatesAreUpper'
    BY <1>5, <1>6, <1>10 DEF IInv, UpdatesAreUpper, Lower, Upper
<1>12. StepsFollowBlocks'
    <2> SUFFICES ASSUME status = NoReport PROVE StepsFollowBlocks'
        BY <1>4 DEF StepsFollowBlocks
    <2>1. /\ applied'[<<i, k, j>>] = 1
          /\ \A a, b, c \in Rows : b < a /\ b <= c /\ <<a, b, c>> # <<i, k, j>> =>
                 applied'[<<a, b, c>>] = applied[<<a, b, c>>]
        <3>1. k <= j
            BY <1>3, SizeAssumption DEF Rows
        <3>2. applied \in [Steps(Rows) -> 0 .. 2] /\ <<i, k, j>> \in Steps(Rows)
            BY <1>3, <3>1, StepsOfRows DEF IInv, TypeOK
        <3>3. applied' = [applied EXCEPT ![<<i, k, j>>] = 1]
            BY <1>3, <1>4 DEF Apply, Outcome
        <3> QED
            BY <3>2, <3>3, StepsOfRows
    <2>2. ASSUME NEW a \in Rows, NEW b \in Rows, NEW c \in Rows, b < a, b <= c
          PROVE  applied'[<<a, b, c>>] =
                     IF Needed(factor, <<a, b, c>>) /\ Made(a, b, c)' THEN 1 ELSE 0
        <3>1. applied[<<a, b, c>>] =
                  IF Needed(factor, <<a, b, c>>) /\ Made(a, b, c) THEN 1 ELSE 0
            BY <2>2 DEF IInv, StepsFollowBlocks
        <3>2. CASE a = i /\ b = k /\ c = j
            <4>1. Made(a, b, c)'
                BY <1>1, <1>5, <1>6, <3>2 DEF Made
            <4> QED
                BY <1>3, <2>1, <3>2, <4>1
        <3>3. CASE a # i \/ b # k \/ c # j
            <4>1. Made(a, b, c)' <=> Made(a, b, c)
                <5>1. CASE a = i /\ b = k
                    BY <1>5, <1>6, <3>3, <5>1 DEF Made
                <5>2. CASE a # i \/ b # k
                    BY <1>5, <1>6, <5>2 DEF Made
                <5> QED
                    BY <5>1, <5>2
            <4>2. <<a, b, c>> # <<i, k, j>>
                BY <3>3
            <4> QED
                BY <2>1, <2>2, <3>1, <4>1, <4>2
        <3> QED
            BY <3>2, <3>3
    <2>3. ASSUME NEW a \in Rows, NEW b \in Lower(factor, a)
          PROVE  /\ pc'[<<a, b>>] \in {"update", "exited"} => b \notin tiny
                 /\ pc'[<<a, b>>] = "exited" => pending'[<<a, b>>] = {}
        <3>1. CASE a = i /\ b = k
            BY <1>1, <1>6, <3>1 DEF IInv, StepsFollowBlocks
        <3>2. CASE a # i \/ b # k
            BY <1>5, <1>6, <1>10, <3>2 DEF IInv, StepsFollowBlocks
        <3> QED
            BY <3>1, <3>2
    <2>4. \A r \in Rows : pc'[<<r, r>>] = "exited" => r \notin tiny
        BY <1>6 DEF IInv, StepsFollowBlocks
    <2> QED
        BY <1>6, <2>2, <2>3, <2>4 DEF StepsFollowBlocks, Needed, Lower
<1> QED
    BY <1>7, <1>8, <1>9, <1>11, <1>12 DEF IInv

LEMMA ExitIsFine ==
    ASSUME IInv, NEW i \in Rows, NEW k \in Lower(factor, i), Exit(<<i, k>>)
    PROVE  IInv'
<1>1. /\ pc[<<i, k>>] = "update" /\ pending[<<i, k>>] = {}
      /\ pc' = [pc EXCEPT ![<<i, k>>] = "exited"]
      /\ UNCHANGED <<plan, applied, status, host, pending>>
    BY DEF Exit
<1>2. /\ PlanIsSound' /\ BlocksFollowLevels'
      /\ pc' \in [Rows \X Rows -> {"idle", "pivot", "update", "exited"}]
      /\ pc'[<<i, k>>] = "exited"
      /\ \A a, b \in Rows : a # i \/ b # k => pc'[<<a, b>>] = pc[<<a, b>>]
    BY <1>1, BlockMoves
<1>3. k \in Rows /\ k < i
    BY <1>1, BlockIsAtLevel
<1>4. factor' = factor /\ tiny' = tiny /\ applied' = applied /\ status' = status
      /\ pending' = pending
    BY <1>1 DEF plan
<1>5. TypeOK'
    BY <1>1, <1>2 DEF IInv, TypeOK, plan, host
<1>6. UpdatesAreUpper'
    BY <1>4 DEF IInv, UpdatesAreUpper, Lower, Upper
<1>7. StepsFollowBlocks'
    <2> SUFFICES ASSUME status = NoReport PROVE StepsFollowBlocks'
        BY <1>4 DEF StepsFollowBlocks
    <2>1. ASSUME NEW a \in Rows, NEW b \in Rows, NEW c \in Rows
          PROVE  Made(a, b, c)' <=> Made(a, b, c)
        <3>1. CASE a = i /\ b = k
            BY <1>1, <1>2, <3>1 DEF Made
        <3>2. CASE a # i \/ b # k
            BY <1>2, <1>4, <3>2 DEF Made
        <3> QED
            BY <3>1, <3>2
    <2>2. ASSUME NEW a \in Rows, NEW b \in Lower(factor, a)
          PROVE  /\ pc'[<<a, b>>] \in {"update", "exited"} => b \notin tiny
                 /\ pc'[<<a, b>>] = "exited" => pending'[<<a, b>>] = {}
        <3>1. CASE a = i /\ b = k
            BY <1>1, <1>4, <3>1 DEF IInv, StepsFollowBlocks
        <3>2. CASE a # i \/ b # k
            <4>1. b \in Rows
                BY DEF IInv, TypeOK, Lower
            <4> QED
                BY <1>2, <1>4, <3>2, <4>1 DEF IInv, StepsFollowBlocks
        <3> QED
            BY <3>1, <3>2
    <2>3. \A r \in Rows : pc'[<<r, r>>] = "exited" => r \notin tiny
        <3>1. \A r \in Rows : r # i \/ r # k
            BY <1>3, SizeAssumption DEF Rows
        <3> QED
            BY <1>2, <3>1 DEF IInv, StepsFollowBlocks
    <2> QED
        BY <1>4, <2>1, <2>2, <2>3 DEF IInv, StepsFollowBlocks, Needed, Lower
<1> QED
    BY <1>2, <1>5, <1>6, <1>7 DEF IInv

-----------------------------------------------------------------------------
\* The tests of the diagonals, after the last level.
LEMMA ValidateDiagonalIsFine ==
    ASSUME IInv, NEW r \in Rows, ValidateDiagonal(r)
    PROVE  IInv' /\ (status = NoReport /\ status' # NoReport =>
                        r \in tiny /\ Final(factor, applied, r, r) /\ status' = r)
<1>1. /\ stage = "validate" /\ pc[<<r, r>>] = "idle"
      /\ pc' = [pc EXCEPT ![<<r, r>>] = "exited"]
      /\ UNCHANGED <<plan, applied, host, pending>>
    BY DEF ValidateDiagonal
<1>2. status = NoReport => Final(factor, applied, r, r)
    BY <1>1, AllIsFinal
<1>3. \/ UNCHANGED status /\ (status = NoReport => r \notin tiny)
      \/ Report(r) /\ (status = NoReport => r \in tiny)
    BY <1>2 DEF ValidateDiagonal, PivotIsValid
<1>4. /\ pc' \in [Rows \X Rows -> {"idle", "pivot", "update", "exited"}]
      /\ pc'[<<r, r>>] = "exited"
      /\ \A a, b \in Rows : a # r \/ b # r => pc'[<<a, b>>] = pc[<<a, b>>]
    BY <1>1 DEF IInv, TypeOK
<1>5. \A a \in Rows : \A b \in Lower(factor, a) :
          b \in Rows /\ pc'[<<a, b>>] = pc[<<a, b>>]
    <2> SUFFICES ASSUME NEW a \in Rows, NEW b \in Lower(factor, a)
                 PROVE  b \in Rows /\ pc'[<<a, b>>] = pc[<<a, b>>]
        OBVIOUS
    <2>1. b \in Rows /\ b < a
        BY DEF IInv, TypeOK, Lower
    <2>2. a # r \/ b # r
        BY <2>1, SizeAssumption DEF Rows
    <2> QED
        BY <1>4, <2>1, <2>2
<1>6. factor' = factor /\ levels' = levels /\ tiny' = tiny /\ applied' = applied
      /\ pending' = pending /\ stage' = stage /\ level' = level
    BY <1>1 DEF plan, host
<1>7. /\ status' \in Rows \cup {NoReport, Incomplete}
      /\ status' = NoReport => status = NoReport /\ r \notin tiny
    <2>1. CASE UNCHANGED status /\ (status = NoReport => r \notin tiny)
        BY <2>1 DEF IInv, TypeOK
    <2>2. CASE Report(r)
        BY <2>2, SizeAssumption DEF IInv, TypeOK, Report, Rows, NoReport
    <2> QED
        BY <1>3, <2>1, <2>2
<1>8. TypeOK'
    BY <1>1, <1>4, <1>7 DEF IInv, TypeOK, plan, host
<1>9. PlanIsSound'
    BY <1>1, PlanStays DEF IInv
<1>10. BlocksFollowLevels'
    <2>1. \A a \in Rows : pc'[<<a, a>>] \in {"idle", "exited"}
        BY <1>4 DEF IInv, BlocksFollowLevels
    <2> QED
        BY <1>1, <1>5, <1>6, <2>1 DEF IInv, BlocksFollowLevels, Lower
<1>11. UpdatesAreUpper'
    BY <1>6 DEF IInv, UpdatesAreUpper, Lower, Upper
<1>12. StepsFollowBlocks'
    <2> SUFFICES ASSUME status' = NoReport PROVE StepsFollowBlocks'
        BY DEF StepsFollowBlocks
    <2>1. status = NoReport /\ r \notin tiny
        BY <1>7
    <2>2. ASSUME NEW i \in Rows, NEW k \in Rows, NEW j \in Rows, k < i, k <= j
          PROVE  applied'[<<i, k, j>>] =
                     IF Needed(factor, <<i, k, j>>) /\ Made(i, k, j)' THEN 1 ELSE 0
        <3>1. i # r \/ k # r
            BY <2>2, SizeAssumption DEF Rows
        <3>2. Made(i, k, j)' <=> Made(i, k, j)
            BY <1>4, <1>6, <3>1 DEF Made
        <3> QED
            BY <1>6, <2>1, <2>2, <3>2 DEF IInv, StepsFollowBlocks
    <2>3. ASSUME NEW i \in Rows, NEW k \in Lower(factor, i)
          PROVE  /\ pc'[<<i, k>>] \in {"update", "exited"} => k \notin tiny
                 /\ pc'[<<i, k>>] = "exited" => pending'[<<i, k>>] = {}
        BY <1>5, <1>6, <2>1 DEF IInv, StepsFollowBlocks
    <2>4. ASSUME NEW a \in Rows, pc'[<<a, a>>] = "exited" PROVE a \notin tiny
        BY <1>4, <2>1, <2>4 DEF IInv, StepsFollowBlocks
    <2> QED
        BY <1>6, <2>2, <2>3, <2>4 DEF StepsFollowBlocks, Needed, Lower
<1>13. status = NoReport /\ status' # NoReport =>
           r \in tiny /\ Final(factor, applied, r, r) /\ status' = r
    BY <1>2, <1>3 DEF Report
<1> QED
    BY <1>8, <1>9, <1>10, <1>11, <1>12, <1>13 DEF IInv

LEMMA FinishIsFine ==
    ASSUME IInv, Finish
    PROVE  IInv'
<1>1. /\ stage = "validate" /\ stage' = "done"
      /\ \A r \in Rows : pc[<<r, r>>] = "exited"
      /\ UNCHANGED <<plan, applied, status, level, blocks>>
    BY DEF Finish
<1>2. TypeOK'
    BY <1>1 DEF IInv, TypeOK, plan, blocks
<1>3. PlanIsSound'
    BY <1>1, PlanStays DEF IInv
<1>4. BlocksFollowLevels'
    BY <1>1 DEF IInv, BlocksFollowLevels, plan, blocks, Lower
<1>5. UpdatesAreUpper' /\ StepsFollowBlocks'
    BY <1>1 DEF IInv, UpdatesAreUpper, StepsFollowBlocks, Made, plan, blocks, Lower, Upper,
                Needed
<1> QED
    BY <1>2, <1>3, <1>4, <1>5 DEF IInv

\* A step of a block is a step of the task of two rows.
LEMMA BlockOfRows ==
    ASSUME NEW t \in Tasks, Block(t)
    PROVE  \E i \in Rows : \E k \in Lower(factor, i) :
               Pivot(<<i, k>>) \/ AtomicAdd(<<i, k>>) \/ Exit(<<i, k>>)
<1>1. PICK i \in Rows : \E k \in Rows : t = <<i, k>> /\ k \in Lower(factor, i)
    BY TaskIsEntry
<1>2. PICK k \in Lower(factor, i) : t = <<i, k>>
    BY <1>1
<1>3. Pivot(<<i, k>>) \/ AtomicAdd(<<i, k>>) \/ Exit(<<i, k>>)
    BY <1>2 DEF Block
<1> QED
    BY <1>3

LEMMA NextIsFine == IInv /\ [Next]_vars => IInv'
<1> SUFFICES ASSUME IInv, [Next]_vars PROVE IInv'
    OBVIOUS
<1>1. ASSUME NEW t \in Tasks, Block(t) PROVE IInv'
    BY <1>1, BlockOfRows, PivotIsFine, AtomicAddIsFine, ExitIsFine
<1>2. CASE UNCHANGED vars
    BY <1>2 DEF vars, plan, host, blocks, IInv, TypeOK, PlanIsSound, Closed, Lower, Upper,
                Meet, BlocksFollowLevels, UpdatesAreUpper, StepsFollowBlocks, Made, Needed
<1> QED
    BY <1>1, <1>2, LaunchIsFine, FinishLevelIsFine, ValidateDiagonalIsFine, FinishIsFine
    DEF Next, Finished

-----------------------------------------------------------------------------
\* The inductive invariant holds of every reachable state.
THEOREM Invariance == Spec => []IInv
<1> QED
    BY InitIsFine, NextIsFine, PTL DEF Spec

\* The state is well typed.
THEOREM TypeCorrect == Spec => []TypeOK
<1>1. IInv => TypeOK
    BY DEF IInv
<1> QED
    BY Invariance, <1>1, PTL

\* No block of numerical_lu_right_looking_level_kernel adds to an entry that another
\* block of the launch divides: the levels of build_right_looking_plan are enough.
THEOREM DivisionsAreAlone == Spec => []NoUpdateUnderDivision
<1>1. IInv => NoUpdateUnderDivision
    <2> SUFFICES ASSUME IInv, NEW t \in Tasks, NEW u \in Tasks,
                        pc[t] = "pivot", pc[u] = "update", t[1] = u[1], t[2] \in pending[u]
                 PROVE  FALSE
        BY DEF NoUpdateUnderDivision
    <2> DEFINE i == t[1]
               j == t[2]
               k == u[2]
    <2>1. i \in Rows /\ j \in Lower(factor, i) /\ t = <<i, j>>
        BY DEF Tasks, Lower
    <2>2. k \in Lower(factor, i) /\ u = <<i, k>>
        BY DEF Tasks, Lower
    <2> HIDE DEF i, j, k
    <2>3. j \in pending[<<i, k>>]
        BY <2>1, <2>2 DEF j
    <2>4. j \in Rows /\ levels[j] = level
        BY <2>1, BlockIsAtLevel
    <2>5. k \in Rows /\ levels[k] = level
        BY <2>1, <2>2, BlockIsAtLevel
    <2>6. j \in Upper(factor, k) /\ k \in Lower(factor, i)
        BY <2>1, <2>2, <2>3 DEF IInv, UpdatesAreUpper
    <2>7. levels[k] < levels[j]
        BY <2>1, <2>4, <2>5, <2>6 DEF IInv, PlanIsSound, Meet
    <2>8. level \in Int
        BY SizeAssumption DEF IInv, TypeOK
    <2> QED
        BY <2>4, <2>5, <2>7, <2>8
<1> QED
    BY Invariance, <1>1, PTL

-----------------------------------------------------------------------------
\* The operators of the pattern are the same in both specifications.
LEMMA SameOperators ==
    /\ Abstract!Steps(Rows) = Steps(Rows)
    /\ \A s : Abstract!Needed(factor, s) <=> Needed(factor, s)
    /\ \A i, j : Abstract!Final(factor, applied, i, j) <=> Final(factor, applied, i, j)
    /\ \A s : Abstract!Sound(factor, applied, s) <=> Sound(factor, applied, s)
<1>1. Abstract!Steps(Rows) = Steps(Rows)
    BY DEF Abstract!Steps, Steps
<1>2. \A s : Abstract!Needed(factor, s) <=> Needed(factor, s)
    BY DEF Abstract!Needed, Needed
<1>3. \A i, j, limit : Abstract!DoneBelow(factor, applied, i, j, limit)
                           <=> DoneBelow(factor, applied, i, j, limit)
    BY <1>2 DEF Abstract!DoneBelow, DoneBelow
<1>4. \A i, j : Abstract!Final(factor, applied, i, j) <=> Final(factor, applied, i, j)
    BY <1>3 DEF Abstract!Final, Final
<1>5. \A s : Abstract!Sound(factor, applied, s) <=> Sound(factor, applied, s)
    BY <1>3, <1>4 DEF Abstract!Sound, Sound
<1> QED
    BY <1>1, <1>2, <1>4, <1>5

LEMMA InitImplements == Init => Abstract!Init
<1> SUFFICES ASSUME Init PROVE Abstract!Init
    OBVIOUS
<1>1. factor \in [Rows -> SUBSET Rows] /\ tiny \subseteq Rows
    BY SizeAssumption DEF Init
<1>2. applied = [s \in Abstract!Steps(Rows) |-> 0]
    BY SameOperators DEF Init
<1>3. status = Abstract!NoReport /\ (stage = "done" /\ status = NoReport) = FALSE
    BY DEF Init, NoReport, Abstract!NoReport
<1> QED
    BY <1>1, <1>2, <1>3 DEF Abstract!Init

\* A good division is the step of the multiplier, a bad pivot the abstract rejection.
LEMMA PivotImplements ==
    ASSUME IInv, NEW i \in Rows, NEW k \in Lower(factor, i), Pivot(<<i, k>>),
           status = NoReport
    PROVE  Abstract!Next
<1>1. pc[<<i, k>>] = "pivot" /\ UNCHANGED <<plan, host>>
      /\ <<i, k>>[1] = i /\ <<i, k>>[2] = k
    BY DEF Pivot
<1>2. k \in Rows /\ k < i /\ k \in factor[i] /\ k <= k /\ stage = "level"
    BY <1>1, BlockIsAtLevel, SizeAssumption DEF Rows
<1>3. /\ Final(factor, applied, k, k)
      /\ Needed(factor, <<i, k, k>>)
      /\ applied[<<i, k, k>>] = 0
      /\ Sound(factor, applied, <<i, k, k>>)
    BY <1>1, DivisionIsSound
<1>4. stage' = "level"
    BY <1>1, <1>2 DEF host
<1>5. \/ k \notin tiny /\ applied' = Apply(factor, applied, <<i, k, k>>) /\ UNCHANGED status
      \/ k \in tiny /\ Report(k)
    BY <1>1, <1>3 DEF Pivot, PivotIsValid
<1>6. CASE k \notin tiny /\ applied' = Apply(factor, applied, <<i, k, k>>)
           /\ UNCHANGED status
    <2>1. applied' = [applied EXCEPT ![<<i, k, k>>] = 1]
        BY <1>3, <1>6 DEF Apply, Outcome
    <2>2. <<i, k, k>> \in Abstract!Steps(Rows)
        BY <1>2, SameOperators, StepsOfRows
    <2>3. Abstract!EliminationStep(<<i, k, k>>)
        BY <1>1, <1>2, <1>3, <1>4, <1>6, <2>1, SameOperators
        DEF Abstract!EliminationStep, Abstract!Open, Abstract!NoReport, NoReport, plan
    <2> QED
        BY <2>2, <2>3 DEF Abstract!Next
<1>7. CASE k \in tiny /\ Report(k)
    <2>1. status' = k
        BY <1>7 DEF Report
    <2>2. Abstract!Reject
        BY <1>1, <1>2, <1>3, <1>4, <1>7, <2>1, SameOperators
        DEF Abstract!Reject, Abstract!Open, Abstract!NoReport, NoReport, plan
    <2> QED
        BY <2>2 DEF Abstract!Next
<1> QED
    BY <1>5, <1>6, <1>7

\* An atomic update is the step of an entry.
LEMMA AtomicAddImplements ==
    ASSUME IInv, NEW i \in Rows, NEW k \in Lower(factor, i), AtomicAdd(<<i, k>>),
           status = NoReport
    PROVE  Abstract!Next
<1>1. pc[<<i, k>>] = "update" /\ UNCHANGED <<plan, host>>
    BY DEF AtomicAdd
<1>2. PICK j \in pending[<<i, k>>] :
          IF j \in factor[i]
          THEN applied' = Apply(factor, applied, <<i, k, j>>) /\ UNCHANGED status
          ELSE Report(Incomplete) /\ UNCHANGED applied
    BY DEF AtomicAdd
<1>3. /\ k \in Rows /\ j \in Rows /\ k < i /\ k < j /\ j \in factor[i]
      /\ k \notin tiny
      /\ Needed(factor, <<i, k, j>>)
      /\ applied[<<i, k, j>>] = 0
      /\ Sound(factor, applied, <<i, k, j>>)
    BY <1>1, AdditionIsSound
<1>4. applied' = Apply(factor, applied, <<i, k, j>>) /\ UNCHANGED status
    BY <1>2, <1>3
<1>5. stage = "level" /\ stage' = "level"
    BY <1>1, BlockIsAtLevel DEF host
<1>6. applied' = [applied EXCEPT ![<<i, k, j>>] = 1]
    BY <1>3, <1>4 DEF Apply, Outcome
<1>7. <<i, k, j>> \in Abstract!Steps(Rows)
    <2>1. k <= j
        BY <1>3, SizeAssumption DEF Rows
    <2> QED
        BY <1>3, <2>1, SameOperators, StepsOfRows
<1>8. Abstract!EliminationStep(<<i, k, j>>)
    BY <1>1, <1>3, <1>4, <1>5, <1>6, SameOperators
    DEF Abstract!EliminationStep, Abstract!Open, Abstract!NoReport, NoReport, plan
<1> QED
    BY <1>7, <1>8 DEF Abstract!Next

\* The first report of a diagonal is the abstract rejection.
LEMMA ValidateDiagonalImplements ==
    ASSUME IInv, NEW r \in Rows, ValidateDiagonal(r), status = NoReport
    PROVE  [Abstract!Next]_Abstract!vars
<1>1. stage = "validate" /\ stage' = "validate" /\ UNCHANGED <<plan, applied>>
    BY DEF ValidateDiagonal, host
<1>2. CASE status' = NoReport
    BY <1>1, <1>2 DEF Abstract!vars, plan
<1>3. CASE status' # NoReport
    <2>1. r \in tiny /\ Final(factor, applied, r, r) /\ status' = r
        BY <1>3, ValidateDiagonalIsFine
    <2>2. Abstract!Reject
        BY <1>1, <2>1, SameOperators
        DEF Abstract!Reject, Abstract!Open, Abstract!NoReport, NoReport, plan
    <2> QED
        BY <2>2 DEF Abstract!Next
<1> QED
    BY <1>2, <1>3

\* Without a report every row is final at the end, and no pivot is bad.
LEMMA FinishImplements ==
    ASSUME IInv, Finish, status = NoReport
    PROVE  Abstract!Next
<1>1. /\ stage = "validate" /\ stage' = "done"
      /\ UNCHANGED <<plan, applied, status>>
    BY DEF Finish
<1>2. \A r, j \in Rows : Final(factor, applied, r, j)
    BY <1>1, AllIsFinal
<1>3. tiny = {}
    BY DEF Finish, IInv, TypeOK, StepsFollowBlocks
<1>4. Abstract!FactorFinal(factor, applied)
    BY <1>2, SameOperators DEF Abstract!FactorFinal, IInv, TypeOK
<1>5. Abstract!Accept
    BY <1>1, <1>3, <1>4
    DEF Abstract!Accept, Abstract!Open, Abstract!NoReport, NoReport, plan
<1> QED
    BY <1>5 DEF Abstract!Next

\* Once there is a report it stays, and nothing is accepted.
LEMMA ReportStays ==
    ASSUME IInv, Next, status # NoReport
    PROVE  Abstract!Next
<1>1. UNCHANGED plan /\ status' = status
    <2>1. ASSUME NEW t \in Tasks, Block(t) PROVE UNCHANGED plan /\ status' = status
        BY <2>1 DEF Block, Pivot, AtomicAdd, Exit, Report
    <2>2. ASSUME NEW r \in Rows, ValidateDiagonal(r)
          PROVE  UNCHANGED plan /\ status' = status
        BY <2>2 DEF ValidateDiagonal, Report
    <2> QED
        BY <2>1, <2>2 DEF Next, Launch, FinishLevel, Finish, Finished, vars
<1> QED
    BY <1>1 DEF Abstract!Next, Abstract!Unspecified, Abstract!NoReport, NoReport, plan

\* Between the levels nothing changes that the abstract specification sees.
LEMMA HostStutters ==
    ASSUME IInv, Launch \/ FinishLevel
    PROVE  UNCHANGED Abstract!vars
<1>1. /\ stage \in {"launch", "level"} /\ stage' # "done"
      /\ UNCHANGED <<plan, applied, status>>
    BY DEF Launch, FinishLevel, NextLevel
<1> QED
    BY <1>1 DEF Abstract!vars, plan

LEMMA StepImplements ==
    IInv /\ [Next]_vars => [Abstract!Next]_Abstract!vars
<1> SUFFICES ASSUME IInv, [Next]_vars PROVE [Abstract!Next]_Abstract!vars
    OBVIOUS
<1>1. CASE UNCHANGED vars
    BY <1>1 DEF vars, plan, host, Abstract!vars
<1>2. CASE Next /\ status # NoReport
    BY <1>2, ReportStays
<1>3. CASE Next /\ status = NoReport
    <2>1. CASE Launch \/ FinishLevel
        BY <2>1, HostStutters
    <2>2. ASSUME NEW t \in Tasks, Block(t) PROVE [Abstract!Next]_Abstract!vars
        <3>1. PICK i \in Rows : \E k \in Lower(factor, i) :
                  Pivot(<<i, k>>) \/ AtomicAdd(<<i, k>>) \/ Exit(<<i, k>>)
            BY <2>2, BlockOfRows
        <3>2. PICK k \in Lower(factor, i) :
                  Pivot(<<i, k>>) \/ AtomicAdd(<<i, k>>) \/ Exit(<<i, k>>)
            BY <3>1
        <3>3. CASE Exit(<<i, k>>)
            BY <3>3 DEF Exit, plan, host, Abstract!vars
        <3> QED
            BY <1>3, <3>2, <3>3, PivotImplements, AtomicAddImplements
    <2>3. ASSUME NEW r \in Rows, ValidateDiagonal(r) PROVE [Abstract!Next]_Abstract!vars
        BY <1>3, <2>3, ValidateDiagonalImplements
    <2>4. CASE Finish
        BY <1>3, <2>4, FinishImplements
    <2>5. CASE Finished
        BY <1>1, <2>5 DEF Finished
    <2> QED
        BY <1>3, <2>1, <2>2, <2>3, <2>4, <2>5 DEF Next
<1> QED
    BY <1>1, <1>2, <1>3

\* The right-looking launches implement the elimination with static pivots, for every
\* closed block-upper pattern, with the generic and with the reused schedule, and every
\* set of bad pivots.
THEOREM Refinement == Spec => ImplementsElimination
<1> QED
    BY InitImplements, StepImplements, Invariance, PTL
    DEF Spec, ImplementsElimination, Abstract!Spec
=============================================================================
