---------------------------- MODULE MCWorkspaceLU ----------------------------
(***************************************************************************)
(* An instance of WorkspaceLU for TLC: every closed pattern of four rows   *)
(* whose first row reaches the last column and whose third row depends on  *)
(* the first, so that there is fill; some have three rows in one level,    *)
(* more than there are blocks.  Their number is what is reserved on a      *)
(* device with one multiprocessor and 300 bytes to spare.                  *)
(***************************************************************************)
EXTENDS WorkspaceLU, WorkspaceConfiguration

MCWorkers == WorkerBlocks(Dimension, 1, 300)

MCPatterns ==
    {f \in [0 .. 3 -> SUBSET (0 .. 3)] :
        Closed(f) /\ 3 \in f[0] /\ 0 \in f[2]}
=============================================================================
