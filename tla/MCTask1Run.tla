------------------------------ MODULE MCTask1Run ------------------------------
(***************************************************************************)
(* An instance of Task1Run for TLC: one request.                           *)
(***************************************************************************)
EXTENDS Task1Run

MCFactorNonzeros == [m \in Matrices |-> 5]
=============================================================================
