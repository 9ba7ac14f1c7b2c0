---------------------------- MODULE LevelSchedule ----------------------------
(***************************************************************************)
(* Level schedules of src/analysis.cpp: the level of a row is one more     *)
(* than the highest level it depends on, and a schedule lists the rows     *)
(* level by level, in row order inside a level.  The same counting sort is *)
(* written twice in the code: make_schedule (analysis.cpp) and             *)
(* make_level_schedule (cuda_lu.cu).                                       *)
(***************************************************************************)
EXTENDS Integers, FiniteSets, FiniteSetsExt

\* The level of every row, from the columns it depends on.  The code computes
\* forward levels in ascending row order and backward levels in descending
\* order, so that the levels it reads are already computed.
RowLevels(rows, deps) ==
    LET level[r \in rows] == Max({0} \cup {level[d] + 1 : d \in deps[r]})
    IN  level

Levels(levels) == 1 + Max({levels[r] : r \in DOMAIN levels})

\* level_offsets: where each level starts, and the end of the last one.
LevelOffsets(levels) ==
    [l \in 0 .. Levels(levels) |->
        Cardinality({r \in DOMAIN levels : levels[r] < l})]

\* Where the counting sort writes a row: after the rows of lower levels and
\* after the earlier rows of its own level.
Place(levels, r) ==
    LevelOffsets(levels)[levels[r]] +
        Cardinality({s \in DOMAIN levels : levels[s] = levels[r] /\ s < r})

\* LevelSchedule::rows.
ScheduledRows(levels) ==
    [i \in DOMAIN levels |-> CHOOSE r \in DOMAIN levels : Place(levels, r) = i]
=============================================================================
