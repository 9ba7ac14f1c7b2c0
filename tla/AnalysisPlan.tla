---------------------------- MODULE AnalysisPlan ----------------------------
(***************************************************************************)
(* The stages of CpuSymbolicAnalyzer::analyze in src/analysis.cpp, from a  *)
(* compressed-column matrix to a validated plan, and what is done with the *)
(* plan: the candidate regions of the heterogeneous partition, and the     *)
(* system a backend assembles with it and solves.                          *)
(*                                                                         *)
(* The ordering is KLU's and external; the symbolic factorization is a     *)
(* step here and modelled in SymbolicLU, of which this module takes what   *)
(* FactorClosed says.  An entry is <<row, column>> of the input matrix,    *)
(* and stands for its value too; an array is a function from 0.            *)
(***************************************************************************)
EXTENDS FactorPattern, LevelSchedule, Partition, FiniteSetsExt

CONSTANTS
    Dimension,  \* matrix.dimension
    ZeroRows,   \* sets of rows to start from whose stored values are all zero
    Inputs      \* the matrices to start from, as sets of entries

Rows == 0 .. Dimension - 1

ASSUME InputAssumption ==
    /\ Dimension \in Nat \ {0}
    /\ ZeroRows \subseteq SUBSET Rows
    /\ Inputs \subseteq SUBSET (Rows \X Rows)

VARIABLES
    matrix,      \* entries of the CscMatrix
    zeros,       \* rows whose values are explicit zeros
    debug,       \* the build: NDEBUG is not defined
    stage,       \* the next stage, or how the analysis ended
    p, q,        \* row_permutation, column_permutation: permuted index to original
    pInverse, qInverse,
    offsets,     \* block_offsets
    columns,     \* PermutedRowPattern::columns, all rows one after another
    originals,   \* PermutedRowPattern::original_positions
    scale,       \* row_scale_factors by permuted row
    factor,      \* lu_column_indices by permuted row
    mapping,     \* matrix_to_lu
    updates,     \* factor_row_updates
    total,       \* symbolic_scalar_updates
    schedules,   \* factor_schedule, which is forward_schedule, and backward_schedule
    regions,     \* candidates of the partition
    values,      \* factor_values of the backend before it eliminates
    rhs,         \* permuted_right_hand_side
    solution     \* for each unknown, the permuted unknown it is copied from

input    == <<matrix, zeros, debug>>
ordering == <<p, q, offsets>>
inverses == <<pInverse, qInverse>>
permuted == <<columns, originals, scale>>
work     == <<updates, total, schedules>>
system   == <<values, rhs, solution>>
vars     == <<input, stage, ordering, inverses, permuted, factor, mapping, work,
              regions, system>>

-----------------------------------------------------------------------------
Nonzeros == Cardinality(matrix)
Positions == 0 .. Nonzeros - 1

\* Place of an entry in row_indices: column by column, rows ascending.
Position(e) ==
    Cardinality({f \in matrix : f[2] < e[2] \/ (f[2] = e[2] /\ f[1] < e[1])})

Magnitude(e) == IF e[1] \in zeros THEN 0 ELSE 1 + e[2]

Init ==
    /\ matrix \in Inputs /\ zeros \in ZeroRows /\ debug \in BOOLEAN
    /\ stage = "order"
    /\ p = <<>> /\ q = <<>> /\ offsets = <<>>
    /\ pInverse = <<>> /\ qInverse = <<>>
    /\ columns = <<>> /\ originals = <<>> /\ scale = <<>>
    /\ factor = <<>>
    /\ mapping = <<>>
    /\ updates = <<>> /\ total = 0 /\ schedules = <<>>
    /\ regions = <<>>
    /\ values = <<>> /\ rhs = <<>> /\ solution = <<>>

IsPermutation(f) == \A i, j \in Rows : f[i] = f[j] => i = j

OnDiagonal(rows, cols) == Cardinality({i \in Rows : <<rows[i], cols[i]>> \in matrix})

\* What KLU's BTF and AMD deliver: two permutations that put entries on as many places
\* of the diagonal as any do, fewer than all in a structurally singular matrix, and
\* no entry left of a block.
IsOrdering(rows, cols, cuts) ==
    /\ IsPermutation(rows) /\ IsPermutation(cols)
    /\ \A others \in [Rows -> Rows] :
           IsPermutation(others) => OnDiagonal(others, cols) <= OnDiagonal(rows, cols)
    /\ \A i, j \in Rows :
           <<rows[i], cols[j]>> \in matrix => \A b \in cuts : b <= i => b <= j

\* A set of boundaries as the array block_offsets.
InOrder(cuts) == [k \in 0 .. Cardinality(cuts) - 1 |->
    CHOOSE c \in cuts : Cardinality({d \in cuts : d < c}) = k]

Order ==
    /\ stage = "order"
    /\ \E rows, cols \in [Rows -> Rows], cuts \in SUBSET (1 .. Dimension - 1) :
           /\ IsOrdering(rows, cols, cuts)
           /\ p' = rows /\ q' = cols
           /\ offsets' = InOrder(cuts \cup {0, Dimension})
    /\ stage' = "invert"
    /\ UNCHANGED <<input, inverses, permuted, factor, mapping, work, regions, system>>

\* KLU has no memory, and its status is thrown.  A structurally singular matrix is no
\* error: its structural rank is recorded, and the analysis goes on.
OrderFails ==
    /\ stage = "order"
    /\ stage' = "failed"
    /\ UNCHANGED <<input, ordering, inverses, permuted, factor, mapping, work, regions,
                   system>>

\* inverse_permutation: throws at an index out of range or taken before.
InverseOf(f) == [o \in Rows |-> CHOOSE i \in Rows : f[i] = o]

Invert ==
    /\ stage = "invert"
    /\ IF IsPermutation(p) /\ IsPermutation(q)
       THEN pInverse' = InverseOf(p) /\ qInverse' = InverseOf(q) /\ stage' = "permute"
       ELSE stage' = "invalid" /\ UNCHANGED inverses
    /\ UNCHANGED <<input, ordering, permuted, factor, mapping, work, regions, system>>

-----------------------------------------------------------------------------
\* Permuted row and column of an entry.
RowOf(e)    == pInverse[e[1]]
ColumnOf(e) == qInverse[e[2]]

\* row_offsets after the partial sum.
RowOffset(r) == Cardinality({e \in matrix : RowOf(e) < r})
RowEntries(r) == RowOffset(r) .. RowOffset(r + 1) - 1

\* Fault: columns are visited in their original order.
FaultDestination(e) ==
    RowOffset(RowOf(e)) +
        Cardinality({f \in matrix : RowOf(f) = RowOf(e) /\ f[2] < e[2]})

\* Where write_positions puts an entry: columns are visited in their final order.
Destination(e) ==
    RowOffset(RowOf(e)) +
        Cardinality({f \in matrix : RowOf(f) = RowOf(e) /\ ColumnOf(f) < ColumnOf(e)})

\* A row maximum of zero becomes a scale of one.
ScaleOf(r) ==
    LET maximum == Max({0} \cup {Magnitude(e) : e \in {f \in matrix : RowOf(f) = r}})
    IN  IF maximum = 0 THEN 1 ELSE maximum

Ascending(array, from, to) == \A i, j \in from .. to : i < j => array[i] < array[j]

\* build_permuted_rows; a debug build rechecks that the rows are sorted and unique.
Permute ==
    /\ stage = "permute"
    /\ LET entryAt == [k \in Positions |-> CHOOSE e \in matrix : Destination(e) = k]
           sorted  == [k \in Positions |-> ColumnOf(entryAt[k])]
       IN  /\ columns' = sorted
           /\ originals' = [k \in Positions |-> Position(entryAt[k])]
           /\ stage' = IF debug /\ \E r \in Rows :
                             ~Ascending(sorted, RowOffset(r), RowOffset(r + 1) - 1)
                       THEN "invalid" ELSE "symbolic"
    /\ scale' = [r \in Rows |-> ScaleOf(r)]
    /\ UNCHANGED <<input, ordering, inverses, factor, mapping, work, regions, system>>

\* Columns of a permuted row.
Pattern(r) == {columns[k] : k \in RowEntries(r)}

Cuts == {offsets[b] : b \in DOMAIN offsets}

\* A pattern the symbolic factorization may build: closed, not below a block, and
\* with a slot for every input entry.
IsFactor(f) ==
    /\ Closed(f)
    /\ \A r \in Rows :
           /\ Pattern(r) \subseteq f[r]
           /\ \A c \in f[r] : \A b \in Cuts : b <= r => b <= c

Symbolic ==
    /\ stage = "symbolic"
    /\ factor' \in {f \in [Rows -> SUBSET Rows] : IsFactor(f)}
    /\ stage' = "map"
    /\ UNCHANGED <<input, ordering, inverses, permuted, mapping, work, regions, system>>

\* "symbolic LU exceeds the 32-bit factor index ABI", or no memory.
SymbolicFails ==
    /\ stage = "symbolic"
    /\ stage' = "failed"
    /\ UNCHANGED <<input, ordering, inverses, permuted, factor, mapping, work, regions,
                   system>>

-----------------------------------------------------------------------------
\* lu_row_offsets, and where the column c of a row is in lu_column_indices.
FactorOffset(r) == Cardinality({s \in Rows \X Rows : s[1] < r /\ s[2] \in factor[s[1]]})
SlotOf(r, c)    == FactorOffset(r) + Cardinality({d \in factor[r] : d < c})
RowSlots(r)     == FactorOffset(r) .. FactorOffset(r + 1) - 1
ColumnAt(r, x)  == CHOOSE c \in factor[r] : SlotOf(r, c) = x

\* The merge of map_input_row_to_factor: for each input entry the first slot, not
\* before that of the entry before it, whose column is not left of the entry's.
Stops(r) ==
    LET stop[k \in RowEntries(r)] ==
            LET from == IF k = RowOffset(r) THEN FactorOffset(r) ELSE stop[k - 1]
            IN  Min({FactorOffset(r + 1)} \cup
                    {x \in from .. FactorOffset(r + 1) - 1 : ColumnAt(r, x) >= columns[k]})
    IN  stop

\* The permuted row an element of columns belongs to.
RowAt(k) == CHOOSE r \in Rows : k \in RowEntries(r)

Present(k) ==
    LET r == RowAt(k)
        x == Stops(r)[k]
    IN  x \in RowSlots(r) /\ ColumnAt(r, x) = columns[k]

\* Fault: the mapping is indexed by the permuted position.
FaultMapped == [k \in Positions |-> Stops(RowAt(k))[k]]

\* matrix_to_lu by position in the input.
Mapped ==
    [position \in Positions |->
        LET k == CHOOSE k \in Positions : originals[k] = position
        IN  Stops(RowAt(k))[k]]

\* build_matrix_mapping: "input entry is absent from the symbolic LU pattern".
MapMatrix ==
    /\ stage = "map"
    /\ IF \A k \in Positions : Present(k)
       THEN mapping' = Mapped /\ stage' = "schedule"
       ELSE stage' = "invalid" /\ UNCHANGED mapping
    /\ UNCHANGED <<input, ordering, inverses, permuted, factor, work, regions, system>>

Schedule(levels) == [offsets |-> LevelOffsets(levels), rows |-> ScheduledRows(levels)]

ForwardDeps  == [r \in Rows |-> Lower(factor, r)]
BackwardDeps == [r \in Rows |-> Upper(factor, r)]

\* Updates made to a row: the entries right of the diagonal of each row it needs.
RowUpdates(r) ==
    Total([d \in Rows |-> Cardinality(Upper(factor, d))], Lower(factor, r))

BuildSchedules ==
    /\ stage = "schedule"
    /\ updates' = [r \in Rows |-> RowUpdates(r)]
    /\ total' = Total(updates', Rows)
    /\ schedules' = [forward  |-> Schedule(RowLevels(Rows, ForwardDeps)),
                     backward |-> Schedule(RowLevels(Rows, BackwardDeps))]
    /\ stage' = "validate"
    /\ UNCHANGED <<input, ordering, inverses, permuted, factor, mapping, regions, system>>

-----------------------------------------------------------------------------
\* validate_dimensions: what a release build looks at.
ScheduleDimensions(s) ==
    /\ s.offsets[0] = 0
    /\ s.offsets[Cardinality(DOMAIN s.offsets) - 1] = Dimension
    /\ Cardinality(DOMAIN s.rows) = Dimension

ValidDimensions ==
    LET blocks == Cardinality(DOMAIN offsets) - 1
    IN  /\ blocks >= 1 /\ offsets[0] = 0 /\ offsets[blocks] = Dimension
        /\ Cardinality(DOMAIN mapping) = Nonzeros
        /\ ScheduleDimensions(schedules.forward)
        /\ ScheduleDimensions(schedules.backward)

\* validate_schedule: every row once, and after the rows it depends on.
LevelsWith(s, r) ==
    {l \in DOMAIN s.offsets \ {Cardinality(DOMAIN s.offsets) - 1} :
        \E k \in s.offsets[l] .. s.offsets[l + 1] - 1 : s.rows[k] = r}

ValidSchedule(s, deps) ==
    /\ \A k, l \in DOMAIN s.rows : s.rows[k] = s.rows[l] => k = l
    /\ \A r \in Rows : Cardinality(LevelsWith(s, r)) = 1
    /\ \A r \in Rows : \A d \in deps[r] :
           \A k \in LevelsWith(s, d), l \in LevelsWith(s, r) : k < l

\* AnalysisPlan::validate, the rest of what a debug build tests.
Valid ==
    /\ \A i \in Rows : pInverse[p[i]] = i /\ qInverse[q[i]] = i
    /\ \A r \in Rows : scale[r] > 0
    /\ \A b \in DOMAIN offsets \ {0} : offsets[b - 1] <= offsets[b]
    /\ \A r \in Rows : ColumnAt(r, SlotOf(r, r)) = r
    /\ Total(updates, Rows) = total
    /\ \A e \in matrix :
           LET slot == mapping[Position(e)]
           IN  slot \in RowSlots(RowOf(e)) /\ ColumnAt(RowOf(e), slot) = ColumnOf(e)
    /\ ValidSchedule(schedules.forward, ForwardDeps)
    /\ ValidSchedule(schedules.backward, BackwardDeps)

Validate ==
    /\ stage = "validate"
    /\ stage' = IF ValidDimensions /\ (debug => Valid) THEN "planned" ELSE "invalid"
    /\ UNCHANGED <<input, ordering, inverses, permuted, factor, mapping, work, regions,
                   system>>

\* build_btf_candidates on a finished plan.
BuildCandidates ==
    /\ stage = "planned"
    /\ regions' = Candidates(offsets, Cardinality(DOMAIN offsets) - 1,
                             [r \in Rows |-> Cardinality(factor[r])], updates)
    /\ stage' = IF CoverIsValid(regions', Dimension) THEN "initialize" ELSE "invalid"
    /\ UNCHANGED <<input, ordering, inverses, permuted, factor, mapping, work, system>>

\* initialize_lu_values_kernel: each entry divided by the scale of its permuted row,
\* into the slot the plan gives it.  A slot is the set of what is written to it.
InitializeValues ==
    /\ stage = "initialize"
    /\ values' = [x \in 0 .. FactorOffset(Dimension) - 1 |->
           {<<e, scale[RowOf(e)]>> : e \in {f \in matrix : mapping[Position(f)] = x}}]
    /\ stage' = "rhs"
    /\ UNCHANGED <<input, ordering, inverses, permuted, factor, mapping, work, regions,
                   rhs, solution>>

\* Fault: the right-hand side is permuted with the inverse.
FaultPermuteRightHandSide ==
    /\ stage = "rhs"
    /\ rhs' = [r \in Rows |-> <<pInverse[r], scale[r]>>]
    /\ stage' = "solution"
    /\ UNCHANGED <<input, ordering, inverses, permuted, factor, mapping, work, regions,
                   values, solution>>

\* permute_and_scale_rhs_kernel: which original element, divided by what.
PermuteRightHandSide ==
    /\ stage = "rhs"
    /\ rhs' = [r \in Rows |-> <<p[r], scale[r]>>]
    /\ stage' = "solution"
    /\ UNCHANGED <<input, ordering, inverses, permuted, factor, mapping, work, regions,
                   values, solution>>

\* inverse_permute_solution_kernel: solution[column_permutation[c]] = permuted[c].
InversePermuteSolution ==
    /\ stage = "solution"
    /\ solution' = [o \in Rows |-> CHOOSE c \in Rows : q[c] = o]
    /\ stage' = "solved"
    /\ UNCHANGED <<input, ordering, inverses, permuted, factor, mapping, work, regions,
                   values, rhs>>

Ended == stage \in {"failed", "invalid", "solved"} /\ UNCHANGED vars

Next ==
    \/ Order \/ OrderFails \/ Invert \/ Permute
    \/ Symbolic \/ SymbolicFails
    \/ MapMatrix \/ BuildSchedules \/ Validate
    \/ BuildCandidates
    \/ InitializeValues \/ PermuteRightHandSide \/ InversePermuteSolution
    \/ Ended

Spec == Init /\ [][Next]_vars

-----------------------------------------------------------------------------
\* Nothing the analysis checks of its own work ever fails: not the merge, which
\* needs sorted rows and a pattern with all entries, not the debug validation, not
\* the cover of the partition.  A release build, which skips most of the
\* validation, loses nothing by it.
SelfChecksNeverFire == stage # "invalid"

\* A release build hands its kernels a plan the exhaustive validation, had it run,
\* would have accepted.
ReleasePlanIsValid ==
    stage \in {"planned", "initialize", "rhs", "solution", "solved"} => Valid

\* The system that is eliminated and solved is the one that was given: equation i is
\* row p[i] of the input, both sides divided by the same scale, no equation twice;
\* and the unknown copied to solution[o] is the one with the coefficients of
\* column o.  Two permutations, their inverses, a counting sort, a merge and the
\* scaling have to agree.
SystemIsTheInput ==
    stage = "solved" =>
        /\ \A i, j \in Rows : rhs[i][1] = rhs[j][1] => i = j
        /\ \A i, o \in Rows :
               LET e == <<rhs[i][1], o>>
                   c == solution[o]
               IN  (IF c \in factor[i] THEN values[SlotOf(i, c)] ELSE {})
                       = IF e \in matrix THEN {<<e, rhs[i][2]>>} ELSE {}

\* The regions share the plan's work among them: rows, entries and updates add up to
\* the plan's totals, and each row is in one class.
RegionsShareTheWork ==
    regions # <<>> =>
        LET Sum(f) == Total(f, DOMAIN regions)
        IN  /\ Sum([b \in DOMAIN regions |-> regions[b].work.rows]) = Dimension
            /\ Sum([b \in DOMAIN regions |-> regions[b].work.factor_nonzeros])
                   = FactorOffset(Dimension)
            /\ Sum([b \in DOMAIN regions |-> regions[b].work.scalar_updates]) = total
            /\ \A b \in DOMAIN regions :
                   Total(regions[b].work.classes, DOMAIN regions[b].work.classes)
                       = regions[b].work.rows
            /\ Max({regions[b].work.maximum : b \in DOMAIN regions})
                   = Max({updates[r] : r \in Rows})
=============================================================================
