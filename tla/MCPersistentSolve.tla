------------------------- MODULE MCPersistentSolve -------------------------
(***************************************************************************)
(* An instance of PersistentSolve for TLC: a row with two dependencies, a  *)
(* chain, independent rows, and U not the transpose of L.                  *)
(***************************************************************************)
EXTENDS PersistentSolve, LevelSchedule, TLC

\* L: rows 0 and 1 independent, 2 needs 0 and 1, 3 needs 2.
MCLower == 0 :> {} @@ 1 :> {} @@ 2 :> {0, 1} @@ 3 :> {2}
\* U: rows 2 and 3 first, then 1, and 0 last.
MCUpper == 0 :> {1, 2, 3} @@ 1 :> {3} @@ 2 :> {} @@ 3 :> {}

\* The schedules of the plan for this pattern, written out so that TLC does not
\* compute them again in every state.
MCForwardSchedule  == 0 :> 0 @@ 1 :> 1 @@ 2 :> 2 @@ 3 :> 3
MCBackwardSchedule == 0 :> 2 @@ 1 :> 3 @@ 2 :> 1 @@ 3 :> 0

ASSUME MCScheduleAssumption ==
    /\ MCForwardSchedule = ScheduledRows(RowLevels(0 .. 3, MCLower))
    /\ MCBackwardSchedule = ScheduledRows(RowLevels(0 .. 3, MCUpper))
=============================================================================
