---------------------------- MODULE MCMatrixInput ----------------------------
(***************************************************************************)
(* An instance of MatrixInput for TLC: files of a 2 x 2 matrix, with up to *)
(* three lines, or two that are mirrored, and headers to be rejected.      *)
(***************************************************************************)
EXTENDS MatrixInput

Header(symmetry, rows, columns, stored) ==
    [symmetry |-> symmetry, rows |-> rows, columns |-> columns, stored |-> stored]

MCHeaders ==
    {Header("general", 2, 2, stored) : stored \in -1 .. 3} \cup
    {Header(s, 2, 2, stored) : s \in {"symmetric", "skew-symmetric"}, stored \in {0, 2, 17}} \cup
    {Header("general", rows, columns, 1) : rows \in {0, 1, 34}, columns \in {1, 34}}

MCNumbers == {-3, 1, 4}
=============================================================================
