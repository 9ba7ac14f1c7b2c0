------------------------------- MODULE LevelLU -------------------------------
(***************************************************************************)
(* The up-looking factorization of backends/cuda_lu.cu: one launch of      *)
(* numerical_lu_level_kernel for each level of the factor schedule, one    *)
(* block for each row of the level.  A block walks the lower entries of    *)
(* its row: thread 0 checks the pivot and forms the multiplier, all        *)
(* threads subtract the multiple of the pivot row, a barrier between each  *)
(* two.  A bad pivot is reported with a compare-and-swap and the block     *)
(* returns; the host looks at the report after the last level.             *)
(***************************************************************************)
EXTENDS FactorPattern, LevelSchedule, FiniteSetsExt

CONSTANTS
    Dimension,  \* plan_.dimension
    TinySets    \* the sets of rows with a bad pivot to start from

Rows == 0 .. Dimension - 1

ASSUME SizeAssumption ==
    /\ Dimension \in Nat \ {0}
    /\ TinySets \subseteq SUBSET Rows

NoReport   == -1  \* the value cudaMemset(0xff) leaves in status
Incomplete == -2

VARIABLES
    factor,   \* lu_column_indices by row
    levels,   \* the level of each row in factor_schedule
    tiny,     \* rows whose final pivot fails the threshold
    applied,  \* factor_values, abstracted to the steps applied to each entry
    status,   \* first_bad_pivot
    stage,    \* the host: "launch", "level" or "done"
    level,    \* the level being launched or run
    pc,       \* of each row's block: "idle", "pivot", "update" or "exited"
    lower,    \* lower entries of the row its block has not eliminated
    pending   \* entries of the pivot row its threads have not subtracted

plan   == <<factor, levels, tiny>>
host   == <<stage, level>>
blocks == <<pc, lower, pending>>
vars   == <<plan, applied, status, host, blocks>>

-----------------------------------------------------------------------------
Init ==
    /\ factor \in {f \in [Rows -> SUBSET Rows] : Closed(f)}
    /\ levels = RowLevels(Rows, [r \in Rows |-> Lower(factor, r)])
    /\ tiny \in TinySets
    /\ applied = [s \in Steps(Rows) |-> 0]
    /\ status = NoReport
    /\ stage = "launch" /\ level = 0
    /\ pc = [r \in Rows |-> "idle"]
    /\ lower = [r \in Rows |-> {}]
    /\ pending = [r \in Rows |-> {}]

\* Fault: a later report replaces an earlier one.
FaultLastReport(value) == status' = value

\* atomicCAS(first_bad_pivot, -1, value): the first report stays.
Report(value) == status' = IF status = NoReport THEN value ELSE status

\* The threshold test on a diagonal entry.  Only a final pivot is known to be
\* good or bad; what an unfinished one holds is anything.
PivotIsValid(r, valid) == Final(factor, applied, r, r) => valid = (r \notin tiny)

\* Fault: all rows in one launch.
FaultLaunchEverything ==
    /\ stage = "launch"
    /\ stage' = "level"
    /\ pc' = [r \in Rows |-> "pivot"]
    /\ lower' = [r \in Rows |-> Lower(factor, r)]
    /\ UNCHANGED <<plan, applied, status, level, pending>>

Launch ==
    /\ stage = "launch"
    /\ stage' = "level"
    /\ pc' = [r \in Rows |-> IF levels[r] = level THEN "pivot" ELSE pc[r]]
    /\ lower' = [r \in Rows |-> IF levels[r] = level THEN Lower(factor, r) ELSE lower[r]]
    /\ UNCHANGED <<plan, applied, status, level, pending>>

\* Launches of one stream run one after another.
FinishLevel ==
    /\ stage = "level"
    /\ \A r \in Rows : levels[r] = level => pc[r] = "exited"
    /\ level' = level + 1
    /\ stage' = IF level + 1 = Levels(levels) THEN "done" ELSE "launch"
    /\ UNCHANGED <<plan, applied, status, blocks>>

\* Thread 0 tests the next pivot and divides by it, or reports it and returns.
Pivot(r) ==
    /\ pc[r] = "pivot"
    /\ lower[r] # {}
    /\ LET pivot == Min(lower[r])
       IN  \E valid \in BOOLEAN :
               /\ PivotIsValid(pivot, valid)
               /\ IF valid
                  THEN /\ applied' = Apply(factor, applied, <<r, pivot, pivot>>)
                       /\ pending' = [pending EXCEPT ![r] = Upper(factor, pivot)]
                       /\ pc' = [pc EXCEPT ![r] = "update"]
                       /\ UNCHANGED status
                  ELSE /\ Report(pivot)
                       /\ pc' = [pc EXCEPT ![r] = "exited"]
                       /\ UNCHANGED <<applied, pending>>
    /\ UNCHANGED <<plan, host, lower>>

\* A thread looks its destination up and subtracts.
Subtract(r) ==
    /\ pc[r] = "update"
    /\ \E j \in pending[r] :
           /\ pending' = [pending EXCEPT ![r] = @ \ {j}]
           /\ IF j \in factor[r]
              THEN applied' = Apply(factor, applied, <<r, Min(lower[r]), j>>) /\ UNCHANGED status
              ELSE Report(Incomplete) /\ UNCHANGED applied
    /\ UNCHANGED <<plan, host, pc, lower>>

\* Fault: no barrier between the updates and the next pivot.
FaultNoBarrier(r) ==
    /\ pc[r] = "update"
    /\ pc' = [pc EXCEPT ![r] = "pivot"]
    /\ lower' = [lower EXCEPT ![r] = @ \ {Min(@)}]
    /\ UNCHANGED <<plan, applied, status, host, pending>>

\* __syncthreads() at the end of a pivot's updates.
Barrier(r) ==
    /\ pc[r] = "update"
    /\ pending[r] = {}
    /\ pc' = [pc EXCEPT ![r] = "pivot"]
    /\ lower' = [lower EXCEPT ![r] = @ \ {Min(@)}]
    /\ UNCHANGED <<plan, applied, status, host, pending>>

\* The row is eliminated; thread 0 tests its own pivot.
TestDiagonal(r) ==
    /\ pc[r] = "pivot"
    /\ lower[r] = {}
    /\ \E valid \in BOOLEAN :
           /\ PivotIsValid(r, valid)
           /\ IF valid THEN UNCHANGED status ELSE Report(r)
    /\ pc' = [pc EXCEPT ![r] = "exited"]
    /\ UNCHANGED <<plan, applied, host, lower, pending>>

Block(r) == Pivot(r) \/ Subtract(r) \/ Barrier(r) \/ TestDiagonal(r)

Finished == stage = "done" /\ UNCHANGED vars

Next ==
    \/ Launch
    \/ FinishLevel
    \/ \E r \in Rows : Block(r)
    \/ Finished

Spec == Init /\ [][Next]_vars

-----------------------------------------------------------------------------
\* The state is well typed; status is a row or one of its two special values.
TypeOK ==
    /\ factor \in [Rows -> SUBSET Rows]
    /\ levels \in [Rows -> 0 .. Dimension - 1]
    /\ tiny \subseteq Rows
    /\ applied \in [Steps(Rows) -> 0 .. 2]
    /\ status \in Rows \cup {NoReport, Incomplete}
    /\ stage \in {"launch", "level", "done"}
    /\ level \in 0 .. Dimension
    /\ pc \in [Rows -> {"idle", "pivot", "update", "exited"}]
    /\ lower \in [Rows -> SUBSET Rows]
    /\ pending \in [Rows -> SUBSET Rows]

\* On a pattern that is closed no update misses its destination: the error "found
\* an incomplete symbolic pattern" would mean the analysis is wrong.
NeverIncomplete == status # Incomplete

\* Blocks that returned early leave unfinished rows behind, and later levels go on
\* with them.  Whatever those compute, the report still names the row whose pivot
\* really was bad, because the first report stays.
ReportIsTrue == status \in Rows => status \in tiny

\* No row of a level reads a row of the same level, so its blocks need no
\* synchronization.
LevelIsIndependent ==
    \A r, k \in Rows :
        pc[r] \in {"pivot", "update"} /\ k \in lower[r] =>
            pc[k] \notin {"pivot", "update"}

\* The launches implement the abstract elimination, up to the first report; the
\* factor that check_factor_status accepts is final in every entry.
Abstract == INSTANCE Elimination WITH
    accepted <- stage = "done" /\ status = NoReport

ImplementsElimination == Abstract!Spec
=============================================================================
