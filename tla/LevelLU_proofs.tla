---------------------------- MODULE LevelLU_proofs ----------------------------
(***************************************************************************)
(* Proofs about LevelLU: whatever the pattern, the bad pivots and the      *)
(* interleaving of blocks and threads, the launches of the kernel          *)
(* implement the abstract elimination.                                     *)
(*                                                                         *)
(* The argument: a row depends on rows of lower levels only, and these     *)
(* have left before the row's level is launched.  While nothing has been   *)
(* reported a row that left is eliminated to its end and its pivot is      *)
(* good, so every step is made from final operands; which steps were made  *)
(* follows from where each block is.                                       *)
(***************************************************************************)
EXTENDS LevelLU, LevelSchedule_proofs

\* The plan: a closed pattern, rows above the rows they depend on.
PlanIsSound ==
    /\ Closed(factor)
    /\ \A r \in Rows : \A k \in Lower(factor, r) : levels[k] < levels[r]
    /\ \A r \in Rows : levels[r] < Levels(levels)
    /\ Levels(levels) \in 1 .. Dimension

\* The blocks of lower levels have left, those of higher levels have not started.
BlocksFollowLevels ==
    /\ stage # "done" => level < Levels(levels)
    /\ stage = "done" => level = Levels(levels)
    /\ \A r \in Rows :
           /\ levels[r] < level => pc[r] = "exited"
           /\ levels[r] > level => pc[r] = "idle"
           /\ levels[r] = level => (stage = "launch" <=> pc[r] = "idle")

\* A block takes the pivots of its row in ascending order.
PivotsInOrder ==
    \A r \in Rows :
        /\ lower[r] \subseteq Lower(factor, r)
        /\ pc[r] = "update" =>
               lower[r] # {} /\ pending[r] \subseteq Upper(factor, Min(lower[r]))
        /\ pc[r] # "idle" =>
               \A k \in Lower(factor, r) \ lower[r] : \A later \in lower[r] : k < later

\* The steps of row i by pivot row k that its block has made.
Made(i, k, j) ==
    /\ pc[i] # "idle"
    /\ \/ k \notin lower[i]
       \/ pc[i] = "update" /\ k = Min(lower[i]) /\ j \notin pending[i]

\* Until a report, each step made was sound, and whoever left has finished.
StepsFollowBlocks ==
    status = NoReport =>
        /\ \A i, k, j \in Rows : k < i /\ k <= j =>
               applied[<<i, k, j>>] =
                   IF Needed(factor, <<i, k, j>>) /\ Made(i, k, j) THEN 1 ELSE 0
        /\ \A r \in Rows : pc[r] = "exited" => lower[r] = {} /\ r \notin tiny

IInv ==
    /\ TypeOK
    /\ PlanIsSound
    /\ BlocksFollowLevels
    /\ PivotsInOrder
    /\ StepsFollowBlocks
    /\ NeverIncomplete
    /\ ReportIsTrue

-----------------------------------------------------------------------------
LEMMA RowsAreNatural == Rows \subseteq Nat /\ Rows # {} /\ DOMAIN [r \in Rows |-> 0] = Rows
    BY SizeAssumption DEF Rows

LEMMA NeededStep ==
    ASSUME NEW i, NEW k, NEW j
    PROVE  Needed(factor, <<i, k, j>>) <=> k \in factor[i] /\ j \in factor[k]
    BY DEF Needed

\* The next pivot of a block.
LEMMA NextPivot ==
    ASSUME IInv, NEW r \in Rows, lower[r] # {}
    PROVE  /\ Min(lower[r]) \in lower[r]
           /\ Min(lower[r]) \in Rows
           /\ Min(lower[r]) < r
           /\ Min(lower[r]) \in factor[r]
           /\ \A k \in lower[r] : Min(lower[r]) <= k
<1>1. lower[r] \in SUBSET Nat /\ lower[r] \subseteq Rows /\ lower[r] \subseteq Lower(factor, r)
    BY RowsAreNatural DEF IInv, TypeOK, PivotsInOrder
<1>2. Min(lower[r]) \in lower[r] /\ \A k \in lower[r] : Min(lower[r]) <= k
    BY <1>1, MinOfNaturals
<1> QED
    BY <1>1, <1>2 DEF Lower

LEMMA StepsOfRows ==
    \A a, b, c \in Rows : b < a /\ b <= c => <<a, b, c>> \in Steps(Rows)
    BY DEF Steps

\* Whatever a step does, the table of steps stays one.
LEMMA AnyStep ==
    ASSUME applied \in [Steps(Rows) -> 0 .. 2], NEW s
    PROVE  Apply(factor, applied, s) \in [Steps(Rows) -> 0 .. 2]
<1>1. Outcome(factor, applied, s) \in 0 .. 2
    BY DEF Outcome
<1> QED
    BY <1>1 DEF Apply

\* While nothing has been reported, a row whose block left is final and its pivot good.
LEMMA ExitedIsFinal ==
    ASSUME IInv, status = NoReport, NEW k \in Rows, pc[k] = "exited"
    PROVE  k \notin tiny /\ \A j \in Rows : Final(factor, applied, k, j)
<1>1. lower[k] = {} /\ k \notin tiny
    BY DEF IInv, StepsFollowBlocks
<1>2. ASSUME NEW j \in Rows, NEW p \in Rows, p < k, p <= j
      PROVE  applied[<<k, p, j>>] = IF Needed(factor, <<k, p, j>>) THEN 1 ELSE 0
    BY <1>1, <1>2 DEF IInv, StepsFollowBlocks, Made
<1>3. DOMAIN factor = Rows
    BY DEF IInv, TypeOK
<1> QED
    BY <1>1, <1>2, <1>3 DEF Final, DoneBelow

\* The pivot rows of a row that is being eliminated are final.
LEMMA PivotRowIsFinal ==
    ASSUME IInv, status = NoReport, NEW r \in Rows, pc[r] # "idle",
           NEW k \in Lower(factor, r)
    PROVE  k \in Rows /\ k \notin tiny /\ \A j \in Rows : Final(factor, applied, k, j)
<1>1. k \in Rows
    BY DEF IInv, TypeOK, Lower
<1>2. levels[k] < levels[r] /\ levels[r] <= level
    BY SizeAssumption DEF IInv, TypeOK, PlanIsSound, BlocksFollowLevels
<1>3. pc[k] = "exited"
    BY <1>1, <1>2, SizeAssumption DEF IInv, TypeOK, BlocksFollowLevels
<1> QED
    BY <1>1, <1>3, ExitedIsFinal

\* The steps of a row by the pivots before the next one have been made.
LEMMA EarlierPivotsAreMade ==
    ASSUME IInv, status = NoReport, NEW r \in Rows, pc[r] # "idle", lower[r] # {},
           NEW j \in Rows, NEW p \in Rows, p < Min(lower[r]), p <= j
    PROVE  applied[<<r, p, j>>] = IF Needed(factor, <<r, p, j>>) THEN 1 ELSE 0
<1>1. p \notin lower[r] /\ p < r
    <2>1. Min(lower[r]) \in Rows /\ Min(lower[r]) < r
        BY NextPivot
    <2>2. p < r
        BY <2>1, SizeAssumption DEF Rows
    <2>3. p \notin lower[r]
        <3>1. \A k \in lower[r] : Min(lower[r]) <= k
            BY NextPivot
        <3> QED
            BY <2>1, <3>1, SizeAssumption DEF Rows
    <2> QED
        BY <2>2, <2>3
<1> QED
    BY <1>1 DEF IInv, StepsFollowBlocks, Made

LEMMA DivisionIsSound ==
    ASSUME IInv, status = NoReport, NEW r \in Rows, pc[r] = "pivot", lower[r] # {}
    PROVE  LET k == Min(lower[r])
           IN  /\ k \notin tiny
               /\ Final(factor, applied, k, k)
               /\ Needed(factor, <<r, k, k>>)
               /\ applied[<<r, k, k>>] = 0
               /\ Sound(factor, applied, <<r, k, k>>)
<1> DEFINE k == Min(lower[r])
<1>1. /\ k \in lower[r] /\ k \in Rows /\ k < r /\ k \in factor[r]
      /\ k \in Lower(factor, r)
    BY NextPivot DEF Lower
<1>2. k \notin tiny /\ Final(factor, applied, k, k)
    BY <1>1, PivotRowIsFinal
<1>3. DOMAIN factor = Rows
    BY DEF IInv, TypeOK
<1>4. Needed(factor, <<r, k, k>>)
    BY <1>1, <1>3, NeededStep DEF IInv, PlanIsSound, Closed
<1>5. applied[<<r, k, k>>] = 0
    BY <1>1 DEF IInv, StepsFollowBlocks, Made, Rows
<1>6. DoneBelow(factor, applied, r, k, k)
    BY <1>1, <1>3, EarlierPivotsAreMade DEF DoneBelow
<1> QED
    BY <1>2, <1>4, <1>5, <1>6 DEF Sound

LEMMA SubtractionIsSound ==
    ASSUME IInv, NEW r \in Rows, pc[r] = "update", NEW j \in pending[r]
    PROVE  LET k == Min(lower[r])
           IN  /\ k \in Rows /\ j \in Rows /\ k < r /\ k < j
               /\ j \in factor[r]
               /\ Needed(factor, <<r, k, j>>)
               /\ status = NoReport =>
                      /\ k \notin tiny
                      /\ applied[<<r, k, j>>] = 0
                      /\ Sound(factor, applied, <<r, k, j>>)
<1> DEFINE k == Min(lower[r])
<1>1. lower[r] # {} /\ j \in Upper(factor, k)
    BY DEF IInv, PivotsInOrder
<1>2. /\ k \in lower[r] /\ k \in Rows /\ k < r /\ k \in factor[r]
      /\ k \in Lower(factor, r)
    BY <1>1, NextPivot DEF Lower
<1>3. DOMAIN factor = Rows /\ j \in Rows /\ j \in factor[k] /\ k < j
    BY <1>1, <1>2 DEF IInv, TypeOK, Upper
<1>4. j \in factor[r] /\ k \in factor[k]
    BY <1>1, <1>2, <1>3 DEF IInv, PlanIsSound, Closed
<1>5. Needed(factor, <<r, k, j>>) /\ Needed(factor, <<r, k, k>>)
    BY <1>2, <1>3, <1>4, NeededStep
<1>6. ASSUME status = NoReport
      PROVE  /\ k \notin tiny
             /\ applied[<<r, k, j>>] = 0
             /\ Sound(factor, applied, <<r, k, j>>)
    <2>1. k \notin tiny /\ Final(factor, applied, k, j)
        BY <1>2, <1>3, <1>6, PivotRowIsFinal
    <2>2. applied[<<r, k, j>>] = 0
        BY <1>2, <1>3, <1>6 DEF IInv, StepsFollowBlocks, Made, Rows
    <2>3. k \notin pending[r]
        BY <1>1, <1>2 DEF IInv, PivotsInOrder, Upper, Rows
    <2>4. applied[<<r, k, k>>] = 1
        BY <1>2, <1>5, <1>6, <2>3 DEF IInv, StepsFollowBlocks, Made, Rows
    <2>5. \A p \in Rows : p < k =>
              applied[<<r, p, k>>] = IF Needed(factor, <<r, p, k>>) THEN 1 ELSE 0
        BY <1>1, <1>2, <1>6, EarlierPivotsAreMade DEF Rows
    <2>6. Final(factor, applied, r, k)
        BY <1>2, <1>3, <1>5, <2>4, <2>5 DEF Final, DoneBelow, Rows
    <2>7. ASSUME j < r PROVE applied[<<r, j, j>>] = 0
        <3>1. j \in Lower(factor, r)
            BY <1>4, <2>7 DEF Lower
        <3>2. j \in lower[r]
            BY <1>2, <1>3, <3>1 DEF IInv, PivotsInOrder, Rows
        <3> QED
            BY <1>3, <1>6, <2>7, <3>2 DEF IInv, StepsFollowBlocks, Made, Rows
    <2> QED
        BY <1>3, <2>1, <2>2, <2>6, <2>7 DEF Sound, Rows
<1> QED
    BY <1>2, <1>3, <1>4, <1>5, <1>6

-----------------------------------------------------------------------------
LEMMA InitIsFine == Init => IInv
<1> SUFFICES ASSUME Init PROVE IInv
    OBVIOUS
<1> DEFINE deps == [r \in Rows |-> Lower(factor, r)]
<1>1. /\ Dimension \in Nat \ {0}
      /\ Rows = 0 .. Dimension - 1
      /\ factor \in [Rows -> SUBSET Rows]
      /\ Closed(factor)
    BY SizeAssumption DEF Init, Rows
<1>2. \A r \in 0 .. Dimension - 1 : deps[r] \subseteq 0 .. r - 1
    BY <1>1 DEF Lower
<1>3. /\ Levelled(levels, Dimension)
      /\ levels \in [0 .. Dimension - 1 -> Nat]
      /\ \A r \in 0 .. Dimension - 1 : levels[r] <= r
      /\ \A r \in 0 .. Dimension - 1 : \A d \in deps[r] : levels[d] < levels[r]
    <2>1. levels = RowLevels(0 .. Dimension - 1, deps)
        BY <1>1 DEF Init
    <2> HIDE DEF deps
    <2>2. /\ Levelled(levels, Dimension)
          /\ \A r \in 0 .. Dimension - 1 : levels[r] <= r
          /\ \A r \in 0 .. Dimension - 1 : \A d \in deps[r] : levels[d] < levels[r]
        BY <1>1, <1>2, <2>1, RowLevelsRespectDependencies
    <2> QED
        BY <2>2 DEF Levelled
<1>4. Levels(levels) \in 1 .. Dimension /\ \A r \in Rows : levels[r] < Levels(levels)
    <2>1. Dimension \in Nat \ {0} /\ Levelled(levels, Dimension)
        BY <1>1, <1>3
    <2>2. /\ Levels(levels) \in 1 .. Dimension
          /\ \A r \in 0 .. Dimension - 1 : levels[r] \in 0 .. Levels(levels) - 1
        BY <2>1, LevelsAreCounted
    <2> QED
        BY <1>1, <2>2
<1>5. PlanIsSound
    BY <1>1, <1>3, <1>4 DEF PlanIsSound
<1>6. TypeOK
    <2>1. levels \in [Rows -> 0 .. Dimension - 1]
        BY <1>1, <1>3
    <2>2. tiny \subseteq Rows
        BY SizeAssumption DEF Init
    <2>3. applied \in [Steps(Rows) -> 0 .. 2] /\ status \in Rows \cup {NoReport, Incomplete}
        BY DEF Init
    <2>4. stage \in {"launch", "level", "done"} /\ level \in 0 .. Dimension
        BY <1>1 DEF Init
    <2>5. /\ pc \in [Rows -> {"idle", "pivot", "update", "exited"}]
          /\ lower \in [Rows -> SUBSET Rows]
          /\ pending \in [Rows -> SUBSET Rows]
        BY DEF Init
    <2> QED
        BY <1>1, <2>1, <2>2, <2>3, <2>4, <2>5 DEF TypeOK
<1>7. BlocksFollowLevels
    <2>1. \A r \in Rows : levels[r] \in Nat /\ pc[r] = "idle"
        BY <1>1, <1>3 DEF Init
    <2>2. stage = "launch" /\ level = 0
        BY DEF Init
    <2> QED
        BY <1>4, <2>1, <2>2 DEF BlocksFollowLevels
<1>8. PivotsInOrder
    BY DEF Init, PivotsInOrder
<1>9. StepsFollowBlocks
    <2>1. \A i, k, j \in Rows : k < i /\ k <= j => applied[<<i, k, j>>] = 0
        BY DEF Init, Steps
    <2> QED
        BY <2>1 DEF Init, StepsFollowBlocks, Made
<1>10. NeverIncomplete /\ ReportIsTrue
    BY <1>1 DEF Init, NeverIncomplete, ReportIsTrue, NoReport, Incomplete
<1> QED
    BY <1>5, <1>6, <1>7, <1>8, <1>9, <1>10 DEF IInv

\* The plan does not change.
LEMMA PlanStays ==
    ASSUME PlanIsSound, UNCHANGED plan
    PROVE  PlanIsSound'
    BY DEF PlanIsSound, plan, Closed, Lower, Upper

LEMMA LaunchIsFine ==
    ASSUME IInv, Launch
    PROVE  IInv'
<1> USE DEF Launch
<1>1. TypeOK'
    BY DEF IInv, TypeOK, plan, Lower
<1>2. PlanIsSound'
    BY PlanStays DEF IInv
<1>3. BlocksFollowLevels'
    BY SizeAssumption DEF IInv, TypeOK, BlocksFollowLevels, plan
<1>4. PivotsInOrder'
    BY DEF IInv, TypeOK, BlocksFollowLevels, PivotsInOrder, plan, Lower, Upper
<1>5. StepsFollowBlocks'
    <2> SUFFICES ASSUME status = NoReport PROVE StepsFollowBlocks'
        BY DEF StepsFollowBlocks
    <2>1. ASSUME NEW i \in Rows, NEW k \in Rows, NEW j \in Rows, k < i, k <= j,
                 Needed(factor, <<i, k, j>>)
          PROVE  Made(i, k, j)' <=> Made(i, k, j)
        <3>1. CASE levels[i] = level
            <4>1. k \in Lower(factor, i)
                BY <2>1, NeededStep DEF Lower
            <4>2. pc[i] = "idle" /\ pc'[i] = "pivot" /\ lower'[i] = Lower(factor, i)
                BY <3>1 DEF IInv, TypeOK, BlocksFollowLevels
            <4> QED
                BY <4>1, <4>2 DEF Made
        <3>2. CASE levels[i] # level
            <4>1. pc'[i] = pc[i] /\ lower'[i] = lower[i] /\ pending' = pending
                BY <3>2 DEF IInv, TypeOK
            <4> QED
                BY <4>1 DEF Made
        <3> QED
            BY <3>1, <3>2
    <2>2. \A r \in Rows : pc'[r] = "exited" => pc[r] = "exited" /\ lower'[r] = lower[r]
        BY DEF IInv, TypeOK
    <2>3. factor' = factor /\ tiny' = tiny /\ applied' = applied /\ status' = status
        BY DEF plan
    <2> QED
        BY <2>1, <2>2, <2>3 DEF IInv, StepsFollowBlocks, Needed
<1>6. NeverIncomplete' /\ ReportIsTrue'
    BY DEF IInv, NeverIncomplete, ReportIsTrue, plan
<1> QED
    BY <1>1, <1>2, <1>3, <1>4, <1>5, <1>6 DEF IInv

LEMMA FinishLevelIsFine ==
    ASSUME IInv, FinishLevel
    PROVE  IInv'
<1> USE DEF FinishLevel
<1>1. level < Levels(levels) /\ Levels(levels) \in 1 .. Dimension /\ level \in Nat
    BY DEF IInv, TypeOK, BlocksFollowLevels, PlanIsSound
<1>2. TypeOK'
    BY <1>1, SizeAssumption DEF IInv, TypeOK, plan, blocks
<1>3. PlanIsSound'
    BY PlanStays DEF IInv
<1>4. BlocksFollowLevels'
    <2>1. \A r \in Rows : levels[r] \in Nat /\ levels[r] < Levels(levels)
        BY DEF IInv, TypeOK, PlanIsSound
    <2>2. /\ stage' # "done" => level + 1 < Levels(levels)
          /\ stage' = "done" => level + 1 = Levels(levels)
          /\ levels' = levels /\ pc' = pc /\ level' = level + 1
          /\ stage' \in {"launch", "done"}
        BY <1>1 DEF plan, blocks
    <2>3. ASSUME NEW r \in Rows
          PROVE  /\ levels[r] < level + 1 => pc[r] = "exited"
                 /\ levels[r] > level + 1 => pc[r] = "idle"
                 /\ levels[r] = level + 1 => pc[r] = "idle" /\ stage' = "launch"
        BY <1>1, <2>1, <2>2 DEF IInv, BlocksFollowLevels
    <2> QED
        BY <2>2, <2>3 DEF BlocksFollowLevels
<1>5. PivotsInOrder' /\ StepsFollowBlocks'
    BY DEF IInv, PivotsInOrder, StepsFollowBlocks, Made, plan, blocks, Lower, Upper, Needed
<1>6. NeverIncomplete' /\ ReportIsTrue'
    BY DEF IInv, NeverIncomplete, ReportIsTrue, plan
<1> QED
    BY <1>2, <1>3, <1>4, <1>5, <1>6 DEF IInv

-----------------------------------------------------------------------------
\* A block that runs belongs to the level that was launched.
LEMMA BlockIsAtLevel ==
    ASSUME IInv, NEW r \in Rows, pc[r] \in {"pivot", "update"}
    PROVE  levels[r] = level /\ stage = "level"
<1>1. levels[r] \in Nat /\ level \in Nat /\ levels[r] < Levels(levels)
    BY SizeAssumption DEF IInv, TypeOK, PlanIsSound
<1> QED
    BY <1>1 DEF IInv, TypeOK, BlocksFollowLevels

\* What a step of a block leaves of the plan and of the other blocks' places.
LEMMA BlockMoves ==
    ASSUME IInv, NEW r \in Rows, pc[r] \in {"pivot", "update"},
           NEW x \in {"pivot", "update", "exited"},
           pc' = [pc EXCEPT ![r] = x], UNCHANGED <<plan, host>>
    PROVE  PlanIsSound' /\ BlocksFollowLevels'
<1>1. PlanIsSound'
    BY PlanStays DEF IInv
<1>2. pc'[r] = x /\ \A i \in Rows : i # r => pc'[i] = pc[i]
    BY DEF IInv, TypeOK
<1>3. BlocksFollowLevels'
    BY <1>2, BlockIsAtLevel DEF IInv, TypeOK, BlocksFollowLevels, plan, host
<1> QED
    BY <1>1, <1>3

\* A report other than of a missing slot keeps the first, which has to be true.
LEMMA TrueReport ==
    ASSUME IInv, NEW k \in Rows, Report(k), status = NoReport => k \in tiny, UNCHANGED plan
    PROVE  /\ status' \in Rows \cup {NoReport, Incomplete}
           /\ status' # NoReport
           /\ NeverIncomplete' /\ ReportIsTrue'
<1>1. k # NoReport /\ k # Incomplete
    BY SizeAssumption DEF Rows, NoReport, Incomplete
<1> QED
    BY <1>1 DEF IInv, TypeOK, NeverIncomplete, ReportIsTrue, Report, plan

LEMMA PivotIsFine ==
    ASSUME IInv, NEW r \in Rows, Pivot(r)
    PROVE  IInv'
<1> DEFINE k == Min(lower[r])
<1>1. /\ pc[r] = "pivot" /\ lower[r] # {}
      /\ UNCHANGED <<plan, host, lower>>
    BY DEF Pivot
<1>2. /\ k \in lower[r] /\ k \in Rows /\ k < r /\ k \in factor[r]
      /\ \A later \in lower[r] : k <= later
    BY <1>1, NextPivot
<1>3. status = NoReport => k \notin tiny /\ Final(factor, applied, k, k)
    BY <1>1, DivisionIsSound
<1> HIDE DEF k
<1>4. CASE /\ applied' = Apply(factor, applied, <<r, k, k>>)
           /\ pending' = [pending EXCEPT ![r] = Upper(factor, k)]
           /\ pc' = [pc EXCEPT ![r] = "update"]
           /\ UNCHANGED status
    <2>1. PlanIsSound' /\ BlocksFollowLevels'
        BY <1>1, <1>4, BlockMoves
    <2>2. Upper(factor, k) \subseteq Rows
        BY <1>2 DEF Upper, IInv, TypeOK
    <2>3. /\ pc'[r] = "update" /\ pending'[r] = Upper(factor, k) /\ lower' = lower
          /\ \A i \in Rows : i # r => pc'[i] = pc[i] /\ pending'[i] = pending[i]
          /\ pc' \in [Rows -> {"idle", "pivot", "update", "exited"}]
          /\ pending' \in [Rows -> SUBSET Rows]
        BY <1>1, <1>4, <2>2 DEF IInv, TypeOK
    <2>4. TypeOK'
        BY <1>1, <1>4, <2>3, AnyStep DEF IInv, TypeOK, plan, host
    <2>5. factor' = factor /\ tiny' = tiny
        BY <1>1 DEF plan
    <2>6. PivotsInOrder'
        BY <1>1, <2>3, <2>5 DEF IInv, PivotsInOrder, k, Lower, Upper
    <2>7. StepsFollowBlocks'
        <3> SUFFICES ASSUME status = NoReport PROVE StepsFollowBlocks'
            BY <1>4 DEF StepsFollowBlocks
        <3>1. /\ Needed(factor, <<r, k, k>>) /\ applied[<<r, k, k>>] = 0
              /\ Sound(factor, applied, <<r, k, k>>)
            BY <1>1, DivisionIsSound DEF k
        <3>2. /\ applied'[<<r, k, k>>] = 1
              /\ \A a, b, c \in Rows : b < a /\ b <= c /\ <<a, b, c>> # <<r, k, k>> =>
                     applied'[<<a, b, c>>] = applied[<<a, b, c>>]
            <4>1. k <= k
                BY <1>2, SizeAssumption DEF Rows
            <4>2. applied \in [Steps(Rows) -> 0 .. 2] /\ <<r, k, k>> \in Steps(Rows)
                BY <1>2, <4>1, StepsOfRows DEF IInv, TypeOK
            <4>3. applied' = [applied EXCEPT ![<<r, k, k>>] = 1]
                BY <1>4, <3>1 DEF Apply, Outcome
            <4> QED
                BY <4>2, <4>3, StepsOfRows
        <3>3. ASSUME NEW i \in Rows, NEW p \in Rows, NEW j \in Rows, p < i, p <= j
              PROVE  applied'[<<i, p, j>>] =
                         IF Needed(factor, <<i, p, j>>) /\ Made(i, p, j)' THEN 1 ELSE 0
            <4>1. CASE i # r
                BY <2>3, <3>2, <3>3, <4>1 DEF IInv, StepsFollowBlocks, Made
            <4>2. CASE i = r /\ p # k
                <5>1. Made(i, p, j)' <=> Made(i, p, j)
                    BY <1>1, <2>3, <4>2 DEF Made, k
                <5> QED
                    BY <3>2, <3>3, <4>2, <5>1 DEF IInv, StepsFollowBlocks
            <4>3. CASE i = r /\ p = k /\ j = k
                <5>1. Made(i, p, j)'
                    BY <2>3, <4>3, SizeAssumption DEF Made, k, Upper, Rows
                <5> QED
                    BY <3>1, <3>2, <4>3, <5>1
            <4>4. CASE i = r /\ p = k /\ j # k
                <5>1. Needed(factor, <<i, p, j>>) => ~Made(i, p, j)'
                    BY <1>2, <2>3, <3>3, <4>4, NeededStep, SizeAssumption
                    DEF Made, Upper, Rows
                <5>2. ~Made(i, p, j)
                    BY <1>1, <1>2, <4>4 DEF Made
                <5> QED
                    BY <3>2, <3>3, <4>4, <5>1, <5>2 DEF IInv, StepsFollowBlocks
            <4> QED
                BY <4>1, <4>2, <4>3, <4>4
        <3>4. ASSUME NEW i \in Rows, pc'[i] = "exited"
              PROVE  lower'[i] = {} /\ i \notin tiny
            BY <2>3, <3>4 DEF IInv, StepsFollowBlocks
        <3> QED
            BY <2>5, <3>3, <3>4 DEF StepsFollowBlocks, Needed
    <2>8. NeverIncomplete' /\ ReportIsTrue'
        BY <1>4, <2>5 DEF IInv, NeverIncomplete, ReportIsTrue
    <2> QED
        BY <2>1, <2>4, <2>6, <2>7, <2>8 DEF IInv
<1>5. CASE Report(k) /\ status # NoReport /\ pc' = [pc EXCEPT ![r] = "exited"]
           /\ UNCHANGED <<applied, pending>>
    <2>1. PlanIsSound' /\ BlocksFollowLevels'
        BY <1>1, <1>5, BlockMoves
    <2>2. /\ pc'[r] = "exited" /\ lower' = lower /\ pending' = pending
          /\ \A i \in Rows : i # r => pc'[i] = pc[i]
          /\ pc' \in [Rows -> {"idle", "pivot", "update", "exited"}]
        BY <1>1, <1>5 DEF IInv, TypeOK
    <2>3. status' # NoReport /\ NeverIncomplete' /\ ReportIsTrue'
          /\ status' \in Rows \cup {NoReport, Incomplete}
        BY <1>1, <1>2, <1>5, TrueReport
    <2>4. TypeOK'
        BY <1>1, <1>5, <2>2, <2>3 DEF IInv, TypeOK, plan, host
    <2>5. PivotsInOrder'
        BY <1>1, <2>2 DEF IInv, PivotsInOrder, plan, Lower, Upper
    <2> QED
        BY <2>1, <2>3, <2>4, <2>5 DEF IInv, StepsFollowBlocks
<1> QED
    BY <1>3, <1>4, <1>5 DEF Pivot, PivotIsValid, k

LEMMA SubtractIsFine ==
    ASSUME IInv, NEW r \in Rows, Subtract(r)
    PROVE  IInv'
<1> DEFINE k == Min(lower[r])
<1>1. pc[r] = "update" /\ UNCHANGED <<plan, host, pc, lower>>
    BY DEF Subtract
<1>2. PICK j \in pending[r] :
          /\ pending' = [pending EXCEPT ![r] = @ \ {j}]
          /\ IF j \in factor[r]
             THEN applied' = Apply(factor, applied, <<r, k, j>>) /\ UNCHANGED status
             ELSE Report(Incomplete) /\ UNCHANGED applied
    BY DEF Subtract
<1>3. /\ k \in Rows /\ j \in Rows /\ k < r /\ k < j
      /\ j \in factor[r]
      /\ Needed(factor, <<r, k, j>>)
      /\ status = NoReport =>
             applied[<<r, k, j>>] = 0 /\ Sound(factor, applied, <<r, k, j>>)
    BY <1>1, SubtractionIsSound
<1>4. applied' = Apply(factor, applied, <<r, k, j>>) /\ UNCHANGED status
    BY <1>2, <1>3
<1> HIDE DEF k
<1>5. /\ pending'[r] = pending[r] \ {j}
      /\ \A i \in Rows : i # r => pending'[i] = pending[i]
      /\ pending' \in [Rows -> SUBSET Rows]
    BY <1>2 DEF IInv, TypeOK
<1>6. factor' = factor /\ tiny' = tiny /\ pc' = pc /\ lower' = lower
    BY <1>1 DEF plan
<1>7. TypeOK'
    BY <1>1, <1>4, <1>5, AnyStep DEF IInv, TypeOK, plan, host
<1>8. PlanIsSound'
    BY <1>1, PlanStays DEF IInv
<1>9. BlocksFollowLevels'
    BY <1>1 DEF IInv, BlocksFollowLevels, plan, host
<1>10. PivotsInOrder'
    BY <1>5, <1>6 DEF IInv, PivotsInOrder, Lower, Upper
<1>11. StepsFollowBlocks'
    <2> SUFFICES ASSUME status = NoReport PROVE StepsFollowBlocks'
        BY <1>4 DEF StepsFollowBlocks
    <2>1. /\ applied'[<<r, k, j>>] = 1
          /\ \A a, b, c \in Rows : b < a /\ b <= c /\ <<a, b, c>> # <<r, k, j>> =>
                 applied'[<<a, b, c>>] = applied[<<a, b, c>>]
        <3>1. k <= j
            BY <1>3, SizeAssumption DEF Rows
        <3>2. applied \in [Steps(Rows) -> 0 .. 2] /\ <<r, k, j>> \in Steps(Rows)
            BY <1>3, <3>1, StepsOfRows DEF IInv, TypeOK
        <3>3. applied' = [applied EXCEPT ![<<r, k, j>>] = 1]
            BY <1>3, <1>4 DEF Apply, Outcome
        <3> QED
            BY <3>2, <3>3, StepsOfRows
    <2>2. ASSUME NEW i \in Rows, NEW p \in Rows, NEW c \in Rows, p < i, p <= c
          PROVE  applied'[<<i, p, c>>] =
                     IF Needed(factor, <<i, p, c>>) /\ Made(i, p, c)' THEN 1 ELSE 0
        <3>1. CASE <<i, p, c>> = <<r, k, j>>
            <4>1. Made(i, p, c)'
                BY <1>1, <1>5, <1>6, <3>1 DEF Made, k
            <4> QED
                BY <1>3, <2>1, <3>1, <4>1
        <3>2. CASE <<i, p, c>> # <<r, k, j>>
            <4>1. Made(i, p, c)' <=> Made(i, p, c)
                BY <1>5, <1>6, <3>2 DEF Made, k
            <4> QED
                BY <2>1, <2>2, <3>2, <4>1 DEF IInv, StepsFollowBlocks
        <3> QED
            BY <3>1, <3>2
    <2>3. \A i \in Rows : pc'[i] = "exited" => lower'[i] = {} /\ i \notin tiny
        BY <1>6 DEF IInv, StepsFollowBlocks
    <2> QED
        BY <1>6, <2>2, <2>3 DEF StepsFollowBlocks, Needed
<1>12. NeverIncomplete' /\ ReportIsTrue'
    BY <1>4, <1>6 DEF IInv, NeverIncomplete, ReportIsTrue
<1> QED
    BY <1>7, <1>8, <1>9, <1>10, <1>11, <1>12 DEF IInv

LEMMA BarrierIsFine ==
    ASSUME IInv, NEW r \in Rows, Barrier(r)
    PROVE  IInv'
<1> DEFINE k == Min(lower[r])
<1>1. /\ pc[r] = "update" /\ pending[r] = {} /\ lower[r] # {}
      /\ UNCHANGED <<plan, applied, status, host, pending>>
      /\ pc' = [pc EXCEPT ![r] = "pivot"]
      /\ lower' = [lower EXCEPT ![r] = @ \ {k}]
    BY DEF Barrier, IInv, PivotsInOrder
<1>2. /\ k \in lower[r] /\ k \in Rows /\ \A later \in lower[r] : k <= later
    BY <1>1, NextPivot
<1> HIDE DEF k
<1>3. /\ pc'[r] = "pivot" /\ lower'[r] = lower[r] \ {k} /\ pending' = pending
      /\ \A i \in Rows : i # r => pc'[i] = pc[i] /\ lower'[i] = lower[i]
      /\ pc' \in [Rows -> {"idle", "pivot", "update", "exited"}]
      /\ lower' \in [Rows -> SUBSET Rows]
    BY <1>1 DEF IInv, TypeOK
<1>4. factor' = factor /\ tiny' = tiny /\ applied' = applied /\ status' = status
    BY <1>1 DEF plan
<1>5. TypeOK'
    BY <1>1, <1>3 DEF IInv, TypeOK, plan, host
<1>6. PlanIsSound' /\ BlocksFollowLevels'
    BY <1>1, BlockMoves
<1>7. PivotsInOrder'
    <2>1. ASSUME NEW i \in Rows, i # r
          PROVE  /\ lower'[i] \subseteq Lower(factor, i)
                 /\ pc'[i] = "update" =>
                        lower'[i] # {} /\ pending'[i] \subseteq Upper(factor, Min(lower'[i]))
                 /\ pc'[i] # "idle" =>
                        \A p \in Lower(factor, i) \ lower'[i] : \A later \in lower'[i] : p < later
        BY <1>3, <2>1 DEF IInv, PivotsInOrder
    <2>2. lower'[r] \subseteq Lower(factor, r)
        BY <1>3 DEF IInv, PivotsInOrder
    <2>3. ASSUME NEW p \in Lower(factor, r) \ lower'[r], NEW later \in lower'[r]
          PROVE  p < later
        <3>1. CASE p = k
            <4>1. later \in Rows /\ k <= later /\ k # later
                BY <1>2, <1>3 DEF IInv, TypeOK
            <4> QED
                BY <1>2, <3>1, <4>1, SizeAssumption DEF Rows
        <3>2. CASE p # k
            BY <1>1, <1>3, <3>2 DEF IInv, PivotsInOrder
        <3> QED
            BY <3>1, <3>2
    <2>4. \A i \in Rows : Lower(factor', i) = Lower(factor, i)
                         /\ Upper(factor', Min(lower'[i])) = Upper(factor, Min(lower'[i]))
        BY <1>4
    <2> QED
        BY <1>3, <2>1, <2>2, <2>3, <2>4 DEF PivotsInOrder
<1>8. StepsFollowBlocks'
    <2> SUFFICES ASSUME status = NoReport PROVE StepsFollowBlocks'
        BY <1>4 DEF StepsFollowBlocks
    <2>1. ASSUME NEW i \in Rows, NEW p \in Rows, NEW c \in Rows
          PROVE  Made(i, p, c)' <=> Made(i, p, c)
        <3>1. CASE i # r
            BY <1>3, <3>1 DEF Made
        <3>2. CASE i = r
            BY <1>1, <1>2, <1>3, <3>2 DEF Made, k
        <3> QED
            BY <3>1, <3>2
    <2>2. \A i \in Rows : pc'[i] = "exited" => lower'[i] = {} /\ i \notin tiny
        BY <1>3 DEF IInv, StepsFollowBlocks
    <2> QED
        BY <1>4, <2>1, <2>2 DEF IInv, StepsFollowBlocks, Needed
<1>9. NeverIncomplete' /\ ReportIsTrue'
    BY <1>4 DEF IInv, NeverIncomplete, ReportIsTrue
<1> QED
    BY <1>5, <1>6, <1>7, <1>8, <1>9 DEF IInv

LEMMA TestDiagonalIsFine ==
    ASSUME IInv, NEW r \in Rows, TestDiagonal(r)
    PROVE  IInv' /\ (status = NoReport /\ status' # NoReport =>
                        r \in tiny /\ Final(factor, applied, r, r) /\ status' = r)
<1>1. /\ pc[r] = "pivot" /\ lower[r] = {}
      /\ pc' = [pc EXCEPT ![r] = "exited"]
      /\ UNCHANGED <<plan, applied, host, lower, pending>>
    BY DEF TestDiagonal
<1>2. status = NoReport => Final(factor, applied, r, r)
    <2> SUFFICES ASSUME status = NoReport PROVE Final(factor, applied, r, r)
        OBVIOUS
    <2>1. \A p \in Rows : p < r =>
              applied[<<r, p, r>>] = IF Needed(factor, <<r, p, r>>) THEN 1 ELSE 0
        BY <1>1, SizeAssumption DEF IInv, StepsFollowBlocks, Made, Rows
    <2>2. DOMAIN factor = Rows
        BY DEF IInv, TypeOK
    <2> QED
        BY <2>1, <2>2 DEF Final, DoneBelow
<1>3. \/ UNCHANGED status /\ (status = NoReport => r \notin tiny)
      \/ Report(r) /\ (status = NoReport => r \in tiny)
    BY <1>2 DEF TestDiagonal, PivotIsValid
<1>4. /\ pc'[r] = "exited" /\ lower' = lower /\ pending' = pending
      /\ \A i \in Rows : i # r => pc'[i] = pc[i]
      /\ pc' \in [Rows -> {"idle", "pivot", "update", "exited"}]
    BY <1>1 DEF IInv, TypeOK
<1>5. factor' = factor /\ tiny' = tiny /\ applied' = applied
    BY <1>1 DEF plan
<1>6. /\ status' \in Rows \cup {NoReport, Incomplete}
      /\ NeverIncomplete' /\ ReportIsTrue'
      /\ status' = NoReport => status = NoReport /\ r \notin tiny
    <2>1. CASE UNCHANGED status /\ (status = NoReport => r \notin tiny)
        BY <1>5, <2>1 DEF IInv, TypeOK, NeverIncomplete, ReportIsTrue
    <2>2. CASE Report(r) /\ (status = NoReport => r \in tiny)
        BY <1>1, <2>2, TrueReport
    <2> QED
        BY <1>3, <2>1, <2>2
<1>7. TypeOK'
    BY <1>1, <1>4, <1>6 DEF IInv, TypeOK, plan, host
<1>8. PlanIsSound' /\ BlocksFollowLevels'
    BY <1>1, BlockMoves
<1>9. PivotsInOrder'
    BY <1>1, <1>4, <1>5 DEF IInv, PivotsInOrder, Lower, Upper
<1>10. StepsFollowBlocks'
    <2> SUFFICES ASSUME status' = NoReport PROVE StepsFollowBlocks'
        BY DEF StepsFollowBlocks
    <2>1. status = NoReport /\ r \notin tiny
        BY <1>6
    <2>2. ASSUME NEW i \in Rows, NEW p \in Rows, NEW c \in Rows
          PROVE  Made(i, p, c)' <=> Made(i, p, c)
        BY <1>1, <1>4 DEF Made
    <2>3. \A i \in Rows : pc'[i] = "exited" => lower'[i] = {} /\ i \notin tiny
        BY <1>1, <1>4, <2>1 DEF IInv, StepsFollowBlocks
    <2> QED
        BY <1>5, <2>1, <2>2, <2>3 DEF IInv, StepsFollowBlocks, Needed
<1>11. status = NoReport /\ status' # NoReport =>
           r \in tiny /\ Final(factor, applied, r, r) /\ status' = r
    BY <1>2, <1>3 DEF Report
<1> QED
    BY <1>6, <1>7, <1>8, <1>9, <1>10, <1>11 DEF IInv

LEMMA NextIsFine == IInv /\ [Next]_vars => IInv'
<1> SUFFICES ASSUME IInv, [Next]_vars PROVE IInv'
    OBVIOUS
<1>1. ASSUME NEW r \in Rows, Block(r) PROVE IInv'
    BY <1>1, PivotIsFine, SubtractIsFine, BarrierIsFine, TestDiagonalIsFine DEF Block
<1>2. CASE UNCHANGED vars
    BY <1>2 DEF vars, plan, host, blocks, IInv, TypeOK, PlanIsSound, Closed, Lower, Upper,
                BlocksFollowLevels, PivotsInOrder, StepsFollowBlocks, Made, Needed,
                NeverIncomplete, ReportIsTrue
<1> QED
    BY <1>1, <1>2, LaunchIsFine, FinishLevelIsFine DEF Next, Finished

-----------------------------------------------------------------------------
\* The inductive invariant holds of every reachable state.
THEOREM Invariance == Spec => []IInv
<1> QED
    BY InitIsFine, NextIsFine, PTL DEF Spec

\* The state is well typed; status is a row or one of its two special values.
THEOREM TypeCorrect == Spec => []TypeOK
<1>1. IInv => TypeOK
    BY DEF IInv
<1> QED
    BY Invariance, <1>1, PTL

\* On a closed pattern no thread of numerical_lu_level_kernel misses its destination.
THEOREM NoSlotIsMissing == Spec => []NeverIncomplete
<1>1. IInv => NeverIncomplete
    BY DEF IInv
<1> QED
    BY Invariance, <1>1, PTL

\* The row that first_bad_pivot names has a bad pivot.
THEOREM ReportNamesABadPivot == Spec => []ReportIsTrue
<1>1. IInv => ReportIsTrue
    BY DEF IInv
<1> QED
    BY Invariance, <1>1, PTL

\* Blocks of one launch do not read each other's rows.
THEOREM LaunchesNeedNoLocks == Spec => []LevelIsIndependent
<1>1. IInv => LevelIsIndependent
    <2> SUFFICES ASSUME IInv, NEW r \in Rows, NEW k \in Rows,
                        pc[r] \in {"pivot", "update"}, k \in lower[r],
                        pc[k] \in {"pivot", "update"}
                 PROVE  FALSE
        BY DEF LevelIsIndependent
    <2>1. levels[r] = level /\ levels[k] = level
        BY BlockIsAtLevel
    <2>2. levels[k] < levels[r]
        BY DEF IInv, PlanIsSound, PivotsInOrder
    <2>3. level \in Nat
        BY SizeAssumption DEF IInv, TypeOK
    <2> QED
        BY <2>1, <2>2, <2>3
<1> QED
    BY Invariance, <1>1, PTL

-----------------------------------------------------------------------------
\* The operators of the pattern are the same in both specifications.
LEMMA SameOperators ==
    /\ Abstract!Steps(Rows) = Steps(Rows)
    /\ \A s : Abstract!Needed(factor, s) <=> Needed(factor, s)
    /\ \A i, j : Abstract!Final(factor, applied, i, j) <=> Final(factor, applied, i, j)
    /\ \A s : Abstract!Sound(factor, applied, s) <=> Sound(factor, applied, s)
<1>1. Abstract!Steps(Rows) = Steps(Rows)
    BY DEF Abstract!Steps, Steps
<1>2. \A s : Abstract!Needed(factor, s) <=> Needed(factor, s)
    BY DEF Abstract!Needed, Needed
<1>3. \A i, j, limit : Abstract!DoneBelow(factor, applied, i, j, limit)
                           <=> DoneBelow(factor, applied, i, j, limit)
    BY <1>2 DEF Abstract!DoneBelow, DoneBelow
<1>4. \A i, j : Abstract!Final(factor, applied, i, j) <=> Final(factor, applied, i, j)
    BY <1>3 DEF Abstract!Final, Final
<1>5. \A s : Abstract!Sound(factor, applied, s) <=> Sound(factor, applied, s)
    BY <1>3, <1>4 DEF Abstract!Sound, Sound
<1> QED
    BY <1>1, <1>2, <1>4, <1>5

LEMMA InitImplements == Init => Abstract!Init
<1> SUFFICES ASSUME Init PROVE Abstract!Init
    OBVIOUS
<1>1. factor \in [Rows -> SUBSET Rows] /\ tiny \subseteq Rows
    BY SizeAssumption DEF Init
<1>2. applied = [s \in Abstract!Steps(Rows) |-> 0]
    BY SameOperators DEF Init
<1>3. status = Abstract!NoReport /\ (stage = "done" /\ status = NoReport) = FALSE
    BY DEF Init, NoReport, Abstract!NoReport
<1> QED
    BY <1>1, <1>2, <1>3 DEF Abstract!Init

\* A division is the step of the multiplier.
LEMMA PivotImplements ==
    ASSUME IInv, NEW r \in Rows, Pivot(r), status = NoReport
    PROVE  Abstract!Next
<1> DEFINE k == Min(lower[r])
<1>1. pc[r] = "pivot" /\ lower[r] # {} /\ UNCHANGED <<plan, host>>
    BY DEF Pivot
<1>2. k \in Rows /\ k < r /\ k \in factor[r] /\ k <= k
    BY <1>1, NextPivot, SizeAssumption DEF Rows
<1>3. /\ k \notin tiny /\ Final(factor, applied, k, k)
      /\ Needed(factor, <<r, k, k>>)
      /\ applied[<<r, k, k>>] = 0
      /\ Sound(factor, applied, <<r, k, k>>)
    BY <1>1, DivisionIsSound
<1>4. applied' = Apply(factor, applied, <<r, k, k>>) /\ UNCHANGED status
    BY <1>3 DEF Pivot, PivotIsValid
<1>5. stage = "level" /\ stage' = "level"
    BY <1>1, BlockIsAtLevel DEF host
<1> HIDE DEF k
<1>6. applied' = [applied EXCEPT ![<<r, k, k>>] = 1]
    BY <1>3, <1>4 DEF Apply, Outcome
<1>7. <<r, k, k>> \in Abstract!Steps(Rows)
    BY <1>2, SameOperators, StepsOfRows
<1>8. Abstract!EliminationStep(<<r, k, k>>)
    BY <1>1, <1>2, <1>3, <1>4, <1>5, <1>6, SameOperators
    DEF Abstract!EliminationStep, Abstract!Open, Abstract!NoReport, NoReport, plan
<1> QED
    BY <1>7, <1>8 DEF Abstract!Next

\* A subtraction is the step of an entry.
LEMMA SubtractImplements ==
    ASSUME IInv, NEW r \in Rows, Subtract(r), status = NoReport
    PROVE  Abstract!Next
<1> DEFINE k == Min(lower[r])
<1>1. pc[r] = "update" /\ UNCHANGED <<plan, host>>
    BY DEF Subtract
<1>2. PICK j \in pending[r] :
          IF j \in factor[r]
          THEN applied' = Apply(factor, applied, <<r, k, j>>) /\ UNCHANGED status
          ELSE Report(Incomplete) /\ UNCHANGED applied
    BY DEF Subtract
<1>3. /\ k \in Rows /\ j \in Rows /\ k < r /\ k < j /\ j \in factor[r]
      /\ k \notin tiny
      /\ Needed(factor, <<r, k, j>>)
      /\ applied[<<r, k, j>>] = 0
      /\ Sound(factor, applied, <<r, k, j>>)
    BY <1>1, SubtractionIsSound
<1>4. applied' = Apply(factor, applied, <<r, k, j>>) /\ UNCHANGED status
    BY <1>2, <1>3
<1>5. stage = "level" /\ stage' = "level"
    BY <1>1, BlockIsAtLevel DEF host
<1> HIDE DEF k
<1>6. applied' = [applied EXCEPT ![<<r, k, j>>] = 1]
    BY <1>3, <1>4 DEF Apply, Outcome
<1>7. <<r, k, j>> \in Abstract!Steps(Rows)
    <2>1. k <= j
        BY <1>3, SizeAssumption DEF Rows
    <2> QED
        BY <1>3, <2>1, SameOperators, StepsOfRows
<1>8. Abstract!EliminationStep(<<r, k, j>>)
    BY <1>1, <1>2, <1>3, <1>4, <1>5, <1>6, SameOperators
    DEF Abstract!EliminationStep, Abstract!Open, Abstract!NoReport, NoReport, plan
<1> QED
    BY <1>7, <1>8 DEF Abstract!Next

\* The first report of a diagonal is the abstract rejection.
LEMMA TestDiagonalImplements ==
    ASSUME IInv, NEW r \in Rows, TestDiagonal(r), status = NoReport
    PROVE  [Abstract!Next]_Abstract!vars
<1>1. pc[r] = "pivot" /\ UNCHANGED <<plan, applied, host>>
    BY DEF TestDiagonal
<1>2. stage = "level" /\ stage' = "level"
    BY <1>1, BlockIsAtLevel DEF host
<1>3. CASE status' = NoReport
    BY <1>1, <1>2, <1>3 DEF Abstract!vars, plan
<1>4. CASE status' # NoReport
    <2>1. r \in tiny /\ Final(factor, applied, r, r) /\ status' = r
        BY <1>4, TestDiagonalIsFine
    <2>2. Abstract!Reject
        BY <1>1, <1>2, <2>1, SameOperators
        DEF Abstract!Reject, Abstract!Open, Abstract!NoReport, NoReport, plan
    <2> QED
        BY <2>2 DEF Abstract!Next
<1> QED
    BY <1>3, <1>4

\* After the last level without a report every row is final and no pivot is bad.
LEMMA FinishLevelImplements ==
    ASSUME IInv, FinishLevel, status = NoReport
    PROVE  [Abstract!Next]_Abstract!vars
<1>1. stage = "level" /\ UNCHANGED <<plan, applied, status>>
    BY DEF FinishLevel
<1>2. CASE stage' # "done"
    BY <1>1, <1>2 DEF Abstract!vars, plan
<1>3. CASE stage' = "done"
    <2>1. level + 1 = Levels(levels)
        BY <1>3 DEF FinishLevel
    <2>2. ASSUME NEW r \in Rows PROVE pc[r] = "exited"
        <3>1. /\ levels[r] \in Nat /\ level \in Nat /\ levels[r] < level + 1
              /\ levels[r] < level => pc[r] = "exited"
            BY <2>1, SizeAssumption DEF IInv, TypeOK, PlanIsSound, BlocksFollowLevels
        <3> QED
            BY <3>1 DEF FinishLevel
    <2>3. tiny = {} /\ \A r, j \in Rows : Final(factor, applied, r, j)
        BY <2>2, ExitedIsFinal DEF IInv, TypeOK
    <2>4. Abstract!FactorFinal(factor, applied)
        BY <2>3, SameOperators DEF Abstract!FactorFinal, IInv, TypeOK
    <2>5. Abstract!Accept
        BY <1>1, <1>3, <2>3, <2>4
        DEF Abstract!Accept, Abstract!Open, Abstract!NoReport, NoReport, plan
    <2> QED
        BY <2>5 DEF Abstract!Next
<1> QED
    BY <1>2, <1>3

\* Once there is a report it stays, and nothing is accepted.
LEMMA ReportStays ==
    ASSUME IInv, Next, status # NoReport
    PROVE  Abstract!Next
<1>1. /\ UNCHANGED plan
      /\ status' = status
    <2>1. ASSUME NEW r \in Rows, Block(r) PROVE UNCHANGED plan /\ status' = status
        BY <2>1 DEF Block, Pivot, Subtract, Barrier, TestDiagonal, Report
    <2> QED
        BY <2>1 DEF Next, Launch, FinishLevel, Finished, vars
<1> QED
    BY <1>1 DEF Abstract!Next, Abstract!Unspecified, Abstract!NoReport, NoReport, plan

LEMMA StepImplements ==
    IInv /\ [Next]_vars => [Abstract!Next]_Abstract!vars
<1> SUFFICES ASSUME IInv, [Next]_vars PROVE [Abstract!Next]_Abstract!vars
    OBVIOUS
<1>1. CASE UNCHANGED vars
    BY <1>1 DEF vars, plan, host, Abstract!vars
<1>2. CASE Next /\ status # NoReport
    BY <1>2, ReportStays
<1>3. CASE Next /\ status = NoReport
    <2>1. CASE Launch
        BY <2>1 DEF Launch, plan, Abstract!vars
    <2>2. CASE FinishLevel
        BY <1>3, <2>2, FinishLevelImplements
    <2>3. ASSUME NEW r \in Rows, Barrier(r) PROVE [Abstract!Next]_Abstract!vars
        BY <2>3 DEF Barrier, plan, host, Abstract!vars
    <2>4. ASSUME NEW r \in Rows, Block(r) PROVE [Abstract!Next]_Abstract!vars
        BY <1>3, <2>3, <2>4, PivotImplements, SubtractImplements, TestDiagonalImplements
        DEF Block
    <2>5. CASE Finished
        BY <1>1, <2>5 DEF Finished
    <2> QED
        BY <1>3, <2>1, <2>2, <2>4, <2>5 DEF Next
<1> QED
    BY <1>1, <1>2, <1>3

\* The launches of numerical_lu_level_kernel implement the elimination with static
\* pivots, for every closed pattern and every set of bad pivots.
THEOREM Refinement == Spec => ImplementsElimination
<1> QED
    BY InitImplements, StepImplements, Invariance, PTL
    DEF Spec, ImplementsElimination, Abstract!Spec
=============================================================================
