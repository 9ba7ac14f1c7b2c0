------------------------------ MODULE Partition ------------------------------
(***************************************************************************)
(* Candidate regions of heterogeneous/partition.cpp: one for each block of *)
(* the block triangular form, with the work measured in its rows.  A       *)
(* region owns the rows from begin up to and without end.                  *)
(***************************************************************************)
EXTENDS Integers, Sequences, FiniteSets
LOCAL INSTANCE FiniteSetsExt

CONSTANT WorkClasses  \* the row classes end below these updates: <<32, 128, 4096>>

ASSUME WorkClassesAssumption ==
    /\ WorkClasses \in Seq(Nat)
    /\ \A i, j \in 1 .. Len(WorkClasses) : i < j => WorkClasses[i] < WorkClasses[j]

\* Sum of f over a set of rows.
Total(f, rows) == MapThenSumSet(LAMBDA r : f[r], rows)

\* Fault: a row at the upper end of a class is in two classes.
FaultInClass(work, c) ==
    /\ c > 1 => work >= WorkClasses[c - 1]
    /\ c <= Len(WorkClasses) => work <= WorkClasses[c]

\* The chain of tests in measure_region: class c is the first whose end is above.
InClass(work, c) ==
    /\ c > 1 => work >= WorkClasses[c - 1]
    /\ c <= Len(WorkClasses) => work < WorkClasses[c]

Measure(lengths, updates, begin, end) ==
    LET rows == begin .. end - 1
    IN  [rows            |-> end - begin,
         factor_nonzeros |-> Total(lengths, rows),
         scalar_updates  |-> Total(updates, rows),
         maximum         |-> Max({0} \cup {updates[r] : r \in rows}),
         classes         |-> [c \in 1 .. Len(WorkClasses) + 1 |->
                                 Cardinality({r \in rows : InClass(updates[r], c)})]]

\* build_btf_candidates: offsets is block_offsets, a function on 0 .. number of blocks.
Candidates(offsets, blocks, lengths, updates) ==
    [b \in 0 .. blocks - 1 |->
        [begin |-> offsets[b], end |-> offsets[b + 1],
         work |-> Measure(lengths, updates, offsets[b], offsets[b + 1])]]

\* validate_candidate_cover: nonempty, in order, without a gap, to the last row.
CoverIsValid(regions, dimension) ==
    LET blocks == Cardinality(DOMAIN regions)
    IN  /\ blocks > 0
        /\ \A b \in DOMAIN regions :
               /\ regions[b].begin = IF b = 0 THEN 0 ELSE regions[b - 1].end
               /\ regions[b].begin < regions[b].end
               /\ regions[b].end <= dimension
               /\ regions[b].work.rows = regions[b].end - regions[b].begin
        /\ regions[blocks - 1].end = dimension
=============================================================================
