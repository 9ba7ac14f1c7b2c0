--------------------------- MODULE RightLookingLU ---------------------------
(***************************************************************************)
(* The right-looking factorization of backends/cuda_lu.cu: the plan that   *)
(* groups the tasks L(target, pivot) into levels of independent pivots     *)
(* (build_right_looking_plan), one launch for each level with tasks, one   *)
(* block for each task, and a last launch that tests every diagonal.       *)
(*                                                                         *)
(* Blocks of one launch update the same entries with atomicAdd and are not *)
(* ordered otherwise: that each reads only finished operands rests on the  *)
(* levels, and for a pattern that is not symmetric on the double-U edges   *)
(* between pivots that share a target row.                                 *)
(***************************************************************************)
EXTENDS FactorPattern, LevelSchedule

CONSTANTS
    Dimension,  \* plan_.dimension
    TinySets    \* the sets of rows with a bad pivot to start from

Rows == 0 .. Dimension - 1

ASSUME SizeAssumption ==
    /\ Dimension \in Nat \ {0}
    /\ TinySets \subseteq SUBSET Rows

NoReport   == -1
Incomplete == -2

VARIABLES
    factor,     \* lu_column_indices by row
    boundaries, \* block_offsets as a set
    reuse,      \* reuses_analysis_factor_schedule
    levels,     \* the level of each pivot
    tiny,       \* rows whose final pivot fails the threshold
    applied,    \* factor_values, abstracted to the steps applied to each entry
    status,     \* first_bad_pivot
    stage,      \* the host: "launch", "level", "validate" or "done"
    level,      \* the level being launched or run
    pc,         \* of each task's block: "idle", "pivot", "update" or "exited"
    pending     \* columns its threads have not updated; rows not validated

plan   == <<factor, boundaries, reuse, levels, tiny>>
host   == <<stage, level>>
blocks == <<pc, pending>>
vars   == <<plan, applied, status, host, blocks>>

-----------------------------------------------------------------------------
\* Tasks <<target, pivot>>: the strictly lower entries of the factor.
Tasks == {t \in Rows \X Rows : t[2] < t[1] /\ t[2] \in factor[t[1]]}

TasksOfLevel(l) == {t \in Tasks : levels[t[2]] = l}

\* Columns k and j of strict L share a target row.
SharedTarget(f, k, j) == \E i \in Rows : {k, j} \subseteq Lower(f, i)

\* The pivots whose level has to be lower: those of L, and those of U without a
\* reciprocal entry of L that share a target row.
PivotDeps(f) ==
    [j \in Rows |-> Lower(f, j)
        \cup {k \in Rows : j \in Upper(f, k) /\ k \notin f[j] /\ SharedTarget(f, k, j)}]

\* Fault: no double-U edges.
FaultLowerEdgesOnly(f, reused) == RowLevels(Rows, [r \in Rows |-> Lower(f, r)])

\* The generic plan, or the factor schedule's levels when every block is flagged.
PivotLevels(f, reused) ==
    RowLevels(Rows, IF reused THEN [r \in Rows |-> Lower(f, r)] ELSE PivotDeps(f))

\* A block is flagged when its part of the factor mirrors, and perhaps not even then.
Mirrors(f, cuts) ==
    \A r, c \in Rows :
        (\A b \in cuts : b <= r <=> b <= c) => (c \in f[r] <=> r \in f[c])

BlockUpper(f, cuts) == \A r \in Rows : \A c \in f[r] : \A b \in cuts : b <= r => b <= c

Init ==
    /\ \E cuts \in SUBSET (1 .. Dimension - 1) : boundaries = cuts \cup {0, Dimension}
    /\ factor \in {f \in [Rows -> SUBSET Rows] : Closed(f) /\ BlockUpper(f, boundaries)}
    /\ reuse \in {FALSE, Mirrors(factor, boundaries)}
    /\ levels = PivotLevels(factor, reuse)
    /\ tiny \in TinySets
    /\ applied = [s \in Steps(Rows) |-> 0]
    /\ status = NoReport
    /\ stage = "launch" /\ level = 0
    /\ pc = [t \in Rows \X Rows |-> "idle"]
    /\ pending = [t \in Rows \X Rows |-> {}]

-----------------------------------------------------------------------------
\* atomicCAS(first_bad_pivot, -1, value): the first report stays.
Report(value) == status' = IF status = NoReport THEN value ELSE status

\* The threshold test: of an unfinished pivot it can have either result.
PivotIsValid(r, valid) == Final(factor, applied, r, r) => valid = (r \notin tiny)

\* Fault: the diagonals are not tested at the end.
FaultNoValidation ==
    /\ level' = level + 1
    /\ stage' = IF level + 1 = Levels(levels) THEN "done" ELSE "launch"

NextLevel ==
    /\ level' = level + 1
    /\ stage' = IF level + 1 = Levels(levels) THEN "validate" ELSE "launch"

\* A level with no task is skipped.
Launch ==
    /\ stage = "launch"
    /\ IF TasksOfLevel(level) = {} THEN NextLevel ELSE stage' = "level" /\ UNCHANGED level
    /\ pc' = [t \in Rows \X Rows |-> IF t \in TasksOfLevel(level) THEN "pivot" ELSE pc[t]]
    /\ UNCHANGED <<plan, applied, status, pending>>

\* Launches of one stream run one after another.
FinishLevel ==
    /\ stage = "level"
    /\ \A t \in TasksOfLevel(level) : pc[t] = "exited"
    /\ NextLevel
    /\ UNCHANGED <<plan, applied, status, blocks>>

\* Thread 0 tests the pivot and forms the multiplier, or reports and returns.
Pivot(t) ==
    /\ pc[t] = "pivot"
    /\ \E valid \in BOOLEAN :
           /\ PivotIsValid(t[2], valid)
           /\ IF valid
              THEN /\ applied' = Apply(factor, applied, <<t[1], t[2], t[2]>>)
                   /\ pending' = [pending EXCEPT ![t] = Upper(factor, t[2])]
                   /\ pc' = [pc EXCEPT ![t] = "update"]
                   /\ UNCHANGED status
              ELSE /\ Report(t[2])
                   /\ pc' = [pc EXCEPT ![t] = "exited"]
                   /\ UNCHANGED <<applied, pending>>
    /\ UNCHANGED <<plan, host>>

\* A thread looks its destination up and adds to it atomically.
AtomicAdd(t) ==
    /\ pc[t] = "update"
    /\ \E j \in pending[t] :
           /\ pending' = [pending EXCEPT ![t] = @ \ {j}]
           /\ IF j \in factor[t[1]]
              THEN applied' = Apply(factor, applied, <<t[1], t[2], j>>) /\ UNCHANGED status
              ELSE Report(Incomplete) /\ UNCHANGED applied
    /\ UNCHANGED <<plan, host, pc>>

Exit(t) ==
    /\ pc[t] = "update"
    /\ pending[t] = {}
    /\ pc' = [pc EXCEPT ![t] = "exited"]
    /\ UNCHANGED <<plan, applied, status, host, pending>>

\* validate_diagonal_kernel: rows in any order; the host goes on after the last.
\* pc[<<r, r>>] is the thread of row r, a pair no task has.
ValidateDiagonal(r) ==
    /\ stage = "validate"
    /\ pc[<<r, r>>] = "idle"
    /\ \E valid \in BOOLEAN :
           /\ PivotIsValid(r, valid)
           /\ IF valid THEN UNCHANGED status ELSE Report(r)
    /\ pc' = [pc EXCEPT ![<<r, r>>] = "exited"]
    /\ UNCHANGED <<plan, applied, host, pending>>

Finish ==
    /\ stage = "validate"
    /\ \A r \in Rows : pc[<<r, r>>] = "exited"
    /\ stage' = "done"
    /\ UNCHANGED <<plan, applied, status, level, blocks>>

Block(t) == Pivot(t) \/ AtomicAdd(t) \/ Exit(t)

Finished == stage = "done" /\ UNCHANGED vars

Next ==
    \/ Launch
    \/ FinishLevel
    \/ \E t \in Tasks : Block(t)
    \/ \E r \in Rows : ValidateDiagonal(r)
    \/ Finish
    \/ Finished

Spec == Init /\ [][Next]_vars

-----------------------------------------------------------------------------
\* The state is well typed.
TypeOK ==
    /\ factor \in [Rows -> SUBSET Rows]
    /\ boundaries \subseteq 0 .. Dimension
    /\ reuse \in BOOLEAN
    /\ levels \in [Rows -> 0 .. Dimension - 1]
    /\ tiny \subseteq Rows
    /\ applied \in [Steps(Rows) -> 0 .. 2]
    /\ status \in Rows \cup {NoReport, Incomplete}
    /\ stage \in {"launch", "level", "validate", "done"}
    /\ level \in 0 .. Dimension
    /\ pc \in [Rows \X Rows -> {"idle", "pivot", "update", "exited"}]
    /\ pending \in [Rows \X Rows -> SUBSET Rows]

\* A multiplier is formed once the updates of its entry are over: no block of the
\* same launch still adds to an entry another block divides.
NoUpdateUnderDivision ==
    \A t, u \in Tasks :
        pc[t] = "pivot" /\ pc[u] = "update" /\ t[1] = u[1] => t[2] \notin pending[u]

\* The plan and its launches implement the abstract elimination, up to the first
\* report; the factor check_factor_status accepts is final in every entry.
Abstract == INSTANCE Elimination WITH
    accepted <- stage = "done" /\ status = NoReport

ImplementsElimination == Abstract!Spec
=============================================================================
