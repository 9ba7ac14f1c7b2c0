--------------------------- MODULE MCAnalysisPlan ---------------------------
(***************************************************************************)
(* An instance of AnalysisPlan for TLC: every matrix of three rows but for *)
(* the order of its rows, which the ordering chooses anew.                 *)
(***************************************************************************)
EXTENDS AnalysisPlan

MCRows == 0 .. 2

\* The columns of a row as a number, one binary digit for each.
RowNumber(m, r) == MapThenSumSet(LAMBDA c : 2^c, {c \in MCRows : <<r, c>> \in m})

MCInputs ==
    {m \in SUBSET (MCRows \X MCRows) :
        \A r \in {0, 1} : RowNumber(m, r) >= RowNumber(m, r + 1)}
MCWorkClasses == <<1, 2, 3>>
=============================================================================
