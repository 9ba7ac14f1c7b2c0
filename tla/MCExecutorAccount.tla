-------------------------- MODULE MCExecutorAccount --------------------------
(***************************************************************************)
(* An instance of ExecutorAccount for TLC.  Handles and Allocation objects *)
(* are interchangeable: no definition names one.                           *)
(***************************************************************************)
EXTENDS ExecutorAccount, TLC

MCSymmetry == Permutations(Handles) \cup Permutations(Objects)
=============================================================================
