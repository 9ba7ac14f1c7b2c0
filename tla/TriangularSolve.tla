--------------------------- MODULE TriangularSolve ---------------------------
(***************************************************************************)
(* What a triangular solve promises, whatever executes it: a request       *)
(* (a right-hand side) is answered by a forward pass over the rows of L    *)
(* and a backward pass over the rows of U, a row being written only when   *)
(* every row it depends on already holds a value of the same request.      *)
(*                                                                         *)
(* The order of the rows inside a pass is left open.  The sequential       *)
(* solve of backends/reference_lu.cpp takes them level by level; the CUDA  *)
(* kernel of PersistentSolve lets warps take them concurrently.  A vector  *)
(* cell is abstracted to the number of the request its value was computed  *)
(* from; 0 is a value that belongs to no request.                          *)
(***************************************************************************)
EXTENDS Naturals

CONSTANTS
    Rows,       \* the rows of the factored matrix
    Lower,      \* Lower[r]: columns of the strictly lower entries of row r
    Upper,      \* Upper[r]: columns of the strictly upper entries of row r
    MaxSolves   \* bound: number of right-hand sides ever submitted

VARIABLES
    request,        \* number of the right-hand side being solved, or last solved
    phase,          \* "idle", "forward" or "backward"
    intermediate,   \* the vector the forward pass writes
    solution        \* the vector the backward pass writes

vars == <<request, phase, intermediate, solution>>

Init ==
    /\ request = 0
    /\ phase = "idle"
    /\ intermediate = [r \in Rows |-> 0]
    /\ solution = [r \in Rows |-> 0]

\* A right-hand side is permuted and scaled into the solver's row order.
Begin ==
    /\ phase = "idle"
    /\ request < MaxSolves
    /\ request' = request + 1
    /\ phase' = "forward"
    /\ UNCHANGED <<intermediate, solution>>

\* A row of L y = b, once the rows of its lower entries are solved.
SolveForward(r) ==
    /\ phase = "forward"
    /\ \A d \in Lower[r] : intermediate[d] = request
    /\ intermediate' = [intermediate EXCEPT ![r] = request]
    /\ UNCHANGED <<request, phase, solution>>

Turn ==
    /\ phase = "forward"
    /\ \A r \in Rows : intermediate[r] = request
    /\ phase' = "backward"
    /\ UNCHANGED <<request, intermediate, solution>>

\* A row of U x = y, once the rows of its upper entries are solved.
SolveBackward(r) ==
    /\ phase = "backward"
    /\ intermediate[r] = request
    /\ \A d \in Upper[r] : solution[d] = request
    /\ solution' = [solution EXCEPT ![r] = request]
    /\ UNCHANGED <<request, phase, intermediate>>

\* The solution is permuted back and returned.
Return ==
    /\ phase = "backward"
    /\ \A r \in Rows : solution[r] = request
    /\ phase' = "idle"
    /\ UNCHANGED <<request, intermediate, solution>>

Next ==
    \/ Begin
    \/ \E r \in Rows : SolveForward(r) \/ SolveBackward(r)
    \/ Turn
    \/ Return

Spec == Init /\ [][Next]_vars

=============================================================================
