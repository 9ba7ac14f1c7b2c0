----------------------------- MODULE WorkspaceLU -----------------------------
(***************************************************************************)
(* The dense-workspace factorization of backends/cuda_lu.cu: one launch of *)
(* numerical_lu_workspace_level_kernel for each level of the factor        *)
(* schedule, with at most Workers blocks.  A block strides over the rows   *)
(* of the level; for each it scatters the row into its own workspace,      *)
(* eliminates there without looking a destination up, and gathers the row  *)
(* back.  The workspace is never cleared.                                  *)
(***************************************************************************)
EXTENDS FactorPattern, LevelSchedule, FiniteSetsExt

CONSTANTS
    Dimension,  \* plan_.dimension
    Workers,    \* workspace_worker_blocks_
    Patterns,   \* the factor patterns to start from
    TinySets    \* the sets of rows with a bad pivot to start from

Rows == 0 .. Dimension - 1

ASSUME SizeAssumption ==
    /\ Dimension \in Nat \ {0}
    /\ Workers \in Nat \ {0}
    /\ \A f \in Patterns : f \in [Rows -> SUBSET Rows] /\ Closed(f)
    /\ TinySets \subseteq SUBSET Rows

NoReport == -1
NoRow    == -1

VARIABLES
    factor,     \* lu_column_indices by row
    offsets,    \* factor_schedule.level_offsets
    schedule,   \* factor_schedule.rows
    tiny,       \* rows whose final pivot fails the threshold
    applied,    \* factor_values, abstracted to the steps applied to each entry
    status,     \* first_bad_pivot
    stage,      \* the host: "launch", "level" or "done"
    level,      \* the level being launched or run
    workspace,  \* of each block: the row and the steps of the value in each column
    pc,         \* of each block: "idle", "take", "scatter", "pivot", "update", "gather"
    scheduled,  \* of each block: its position in the level
    lower,      \* of each block: lower entries it has not eliminated
    pending     \* of each block: entries its threads have not handled

plan   == <<factor, offsets, schedule, tiny>>
host   == <<stage, level>>
blocks == <<workspace, pc, scheduled, lower, pending>>
vars   == <<plan, applied, status, host, blocks>>

-----------------------------------------------------------------------------
Width == offsets[level + 1] - offsets[level]

\* workers = min(width, workspace_worker_blocks_), numbered from 0.
Grid == 0 .. (IF Width < Workers THEN Width ELSE Workers) - 1

RowOf(w)   == schedule[offsets[level] + scheduled[w]]
Holding(w) == pc[w] \in {"pivot", "update", "gather"}

\* What a row's entry holds, seen in the workspace of its block.
InWorkspace(w, s) ==
    IF workspace[w][s[3]].row = s[1] THEN workspace[w][s[3]].work[s[2]] ELSE 2

View(w) ==
    [s \in DOMAIN applied |->
        IF s[1] = RowOf(w) /\ s[3] \in factor[s[1]] THEN InWorkspace(w, s) ELSE applied[s]]

Init ==
    /\ factor \in Patterns
    /\ LET levels == RowLevels(Rows, [r \in Rows |-> Lower(factor, r)])
       IN  offsets = LevelOffsets(levels) /\ schedule = ScheduledRows(levels)
    /\ tiny \in TinySets
    /\ applied = [s \in Steps(Rows) |-> 0]
    /\ status = NoReport
    /\ stage = "launch" /\ level = 0
    /\ workspace = [w \in 0 .. Workers - 1 |->
           [c \in Rows |-> [row |-> NoRow, work |-> [k \in Rows |-> 0]]]]
    /\ pc = [w \in 0 .. Workers - 1 |-> "idle"]
    /\ scheduled = [w \in 0 .. Workers - 1 |-> 0]
    /\ lower = [w \in 0 .. Workers - 1 |-> {}]
    /\ pending = [w \in 0 .. Workers - 1 |-> {}]

-----------------------------------------------------------------------------
\* atomicCAS(first_bad_pivot, -1, value): the first report stays.
Report(value) == status' = IF status = NoReport THEN value ELSE status

\* The threshold test: of an unfinished pivot it can have either result.
PivotIsValid(values, r, valid) == Final(factor, values, r, r) => valid = (r \notin tiny)

Launch ==
    /\ stage = "launch"
    /\ stage' = "level"
    /\ pc' = [w \in DOMAIN pc |-> IF w \in Grid THEN "take" ELSE pc[w]]
    /\ scheduled' = [w \in DOMAIN pc |-> w]
    /\ UNCHANGED <<plan, applied, status, level, workspace, lower, pending>>

\* Launches of one stream run one after another.
FinishLevel ==
    /\ stage = "level"
    /\ \A w \in Grid : pc[w] = "idle"
    /\ level' = IF offsets[level + 1] = Dimension THEN level ELSE level + 1
    /\ stage' = IF offsets[level + 1] = Dimension THEN "done" ELSE "launch"
    /\ UNCHANGED <<plan, applied, status, blocks>>

\* The block's next row, or the end of its stride.
TakeRow(w) ==
    /\ pc[w] = "take"
    /\ IF scheduled[w] < Width
       THEN /\ pc' = [pc EXCEPT ![w] = "scatter"]
            /\ lower' = [lower EXCEPT ![w] = Lower(factor, RowOf(w))]
       ELSE pc' = [pc EXCEPT ![w] = "idle"] /\ UNCHANGED lower
    /\ UNCHANGED <<plan, applied, status, host, workspace, scheduled, pending>>

\* The workspace cell of an entry scattered from factor storage.
Cell(r, c) ==
    [row  |-> r,
     work |-> [k \in Rows |-> IF <<r, k, c>> \in DOMAIN applied THEN applied[<<r, k, c>>] ELSE 0]]

\* Fault: the elimination starts before all threads have copied.
FaultScatterWithoutBarrier(w) ==
    /\ pc[w] = "scatter"
    /\ \E copied \in SUBSET factor[RowOf(w)] :
           workspace' = [workspace EXCEPT ![w] = [c \in Rows |->
               IF c \in copied THEN Cell(RowOf(w), c) ELSE @[c]]]
    /\ pc' = [pc EXCEPT ![w] = "pivot"]
    /\ UNCHANGED <<plan, applied, status, host, scheduled, lower, pending>>

\* The threads copy the row, each its entries, up to a barrier.  No other block
\* touches the row or the workspace, so the copies are one action.
Scatter(w) ==
    /\ pc[w] = "scatter"
    /\ workspace' = [workspace EXCEPT ![w] = [c \in Rows |->
           IF c \in factor[RowOf(w)] THEN Cell(RowOf(w), c) ELSE @[c]]]
    /\ pc' = [pc EXCEPT ![w] = "pivot"]
    /\ UNCHANGED <<plan, applied, status, host, scheduled, lower, pending>>

\* One more step on the value in a workspace cell, whosever it is.
Worked(w, k, c) ==
    [workspace EXCEPT ![w][c].work[k] = Outcome(factor, View(w), <<RowOf(w), k, c>>)]

\* Thread 0 tests the next pivot and divides by it, or reports it; then the whole
\* block returns, with the rest of its rows.
Pivot(w) ==
    /\ pc[w] = "pivot"
    /\ lower[w] # {}
    /\ LET pivot == Min(lower[w])
       IN  \E valid \in BOOLEAN :
               /\ PivotIsValid(applied, pivot, valid)
               /\ IF valid
                  THEN /\ workspace' = Worked(w, pivot, pivot)
                       /\ pending' = [pending EXCEPT ![w] = Upper(factor, pivot)]
                       /\ pc' = [pc EXCEPT ![w] = "update"]
                       /\ UNCHANGED status
                  ELSE /\ Report(pivot)
                       /\ pc' = [pc EXCEPT ![w] = "idle"]
                       /\ UNCHANGED <<workspace, pending>>
    /\ UNCHANGED <<plan, applied, host, scheduled, lower>>

\* A thread subtracts into the column's cell, in the row's pattern or not.
Subtract(w) ==
    /\ pc[w] = "update"
    /\ \E c \in pending[w] :
           /\ workspace' = Worked(w, Min(lower[w]), c)
           /\ pending' = [pending EXCEPT ![w] = @ \ {c}]
    /\ UNCHANGED <<plan, applied, status, host, pc, scheduled, lower>>

\* __syncthreads() at the end of a pivot's updates.
Barrier(w) ==
    /\ pc[w] = "update"
    /\ pending[w] = {}
    /\ pc' = [pc EXCEPT ![w] = "pivot"]
    /\ lower' = [lower EXCEPT ![w] = @ \ {Min(@)}]
    /\ UNCHANGED <<plan, applied, status, host, workspace, scheduled, pending>>

\* The row is eliminated: its own pivot is tested before the row is gathered.
TestDiagonal(w) ==
    /\ pc[w] = "pivot"
    /\ lower[w] = {}
    /\ \E valid \in BOOLEAN :
           /\ PivotIsValid(View(w), RowOf(w), valid)
           /\ IF valid
              THEN /\ pc' = [pc EXCEPT ![w] = "gather"]
                   /\ pending' = [pending EXCEPT ![w] = factor[RowOf(w)]]
                   /\ UNCHANGED status
              ELSE /\ Report(RowOf(w))
                   /\ pc' = [pc EXCEPT ![w] = "idle"]
                   /\ UNCHANGED pending
    /\ UNCHANGED <<plan, applied, host, workspace, scheduled, lower>>

\* Fault: a block strides by one, over rows of the other blocks.
FaultStrideOne(w) ==
    /\ pc[w] = "gather"
    /\ \E c \in pending[w] :
           /\ applied' = [s \in DOMAIN applied |->
                  IF s[1] = RowOf(w) /\ s[3] = c THEN InWorkspace(w, s) ELSE applied[s]]
           /\ pending' = [pending EXCEPT ![w] = @ \ {c}]
           /\ IF pending[w] = {c}
              THEN /\ pc' = [pc EXCEPT ![w] = "take"]
                   /\ scheduled' = [scheduled EXCEPT ![w] = @ + 1]
              ELSE UNCHANGED <<pc, scheduled>>
    /\ UNCHANGED <<plan, status, host, workspace, lower>>

\* A thread copies one entry back; the next row is taken after the barrier.
Gather(w) ==
    /\ pc[w] = "gather"
    /\ \E c \in pending[w] :
           /\ applied' = [s \in DOMAIN applied |->
                  IF s[1] = RowOf(w) /\ s[3] = c THEN InWorkspace(w, s) ELSE applied[s]]
           /\ pending' = [pending EXCEPT ![w] = @ \ {c}]
           /\ IF pending[w] = {c}
              THEN /\ pc' = [pc EXCEPT ![w] = "take"]
                   /\ scheduled' = [scheduled EXCEPT ![w] = @ + Cardinality(Grid)]
              ELSE UNCHANGED <<pc, scheduled>>
    /\ UNCHANGED <<plan, status, host, workspace, lower>>

Block(w) ==
    TakeRow(w) \/ Scatter(w) \/ Pivot(w) \/ Subtract(w) \/ Barrier(w)
        \/ TestDiagonal(w) \/ Gather(w)

Finished == stage = "done" /\ UNCHANGED vars

Next ==
    \/ Launch
    \/ FinishLevel
    \/ \E w \in Grid : Block(w)
    \/ Finished

Spec == Init /\ [][Next]_vars

-----------------------------------------------------------------------------
\* The state is well typed.
TypeOK ==
    /\ factor \in [Rows -> SUBSET Rows]
    /\ offsets \in [DOMAIN offsets -> 0 .. Dimension]
    /\ schedule \in [Rows -> Rows]
    /\ tiny \subseteq Rows
    /\ applied \in [Steps(Rows) -> 0 .. 2]
    /\ status \in Rows \cup {NoReport}
    /\ stage \in {"launch", "level", "done"}
    /\ level \in Nat /\ level + 1 \in DOMAIN offsets
    /\ workspace \in [0 .. Workers - 1 ->
                          [Rows -> [row : Rows \cup {NoRow}, work : [Rows -> 0 .. 2]]]]
    /\ pc \in [0 .. Workers - 1 ->
                   {"idle", "take", "scatter", "pivot", "update", "gather"}]
    /\ scheduled \in [0 .. Workers - 1 -> 0 .. Dimension + Workers - 1]
    /\ lower \in [0 .. Workers - 1 -> SUBSET Rows]
    /\ pending \in [0 .. Workers - 1 -> SUBSET Rows]

\* What an earlier row, an abandoned row or an earlier level left in a workspace
\* is never observed, although nothing clears it: a block that eliminates works
\* on its own row's values only, and updates no column outside the row.
StaleIsNeverRead ==
    \A w \in Grid : Holding(w) =>
        /\ \A c \in factor[RowOf(w)] : workspace[w][c].row = RowOf(w)
        /\ pending[w] \subseteq factor[RowOf(w)]

\* The blocks of a launch share its rows out: no row is in two workspaces.
OneBlockPerRow ==
    \A v, w \in Grid : Holding(v) /\ Holding(w) /\ v # w => RowOf(v) # RowOf(w)

\* The entries of the factor: while a block holds a row, those in its workspace.
Entries ==
    [s \in DOMAIN applied |->
        LET holders == {w \in Grid : Holding(w) /\ RowOf(w) = s[1]}
        IN  IF holders # {} /\ s[3] \in factor[s[1]]
            THEN InWorkspace(CHOOSE w \in holders : TRUE, s) ELSE applied[s]]

\* The launches implement the abstract elimination, up to the first report; the
\* factor that check_factor_status accepts is final in every entry.
Abstract == INSTANCE Elimination WITH
    applied <- Entries,
    accepted <- stage = "done" /\ status = NoReport

ImplementsElimination == Abstract!Spec
=============================================================================
