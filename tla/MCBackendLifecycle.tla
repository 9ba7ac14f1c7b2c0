-------------------------- MODULE MCBackendLifecycle --------------------------
(***************************************************************************)
(* An instance of BackendLifecycle for TLC: two matrices whose factors have *)
(* the same size, so that comparing sizes does not tell them apart.        *)
(***************************************************************************)
EXTENDS BackendLifecycle

MCFactorNonzeros == [m \in Matrices |-> 5]
=============================================================================
