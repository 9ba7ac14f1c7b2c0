----------------------------- MODULE Elimination -----------------------------
(***************************************************************************)
(* What a numerical factorization with static pivots promises, whatever    *)
(* kernel runs it and however its blocks interleave: until a bad pivot is  *)
(* reported, every step is applied once, to an operand that is ready, from *)
(* operands that are final; a report names a pivot that really is bad, and *)
(* stays; and the factor is accepted only when all of it is final.  After  *)
(* a report the factor is unspecified, but it is never accepted.           *)
(*                                                                         *)
(* The sequential factorization of backends/reference_lu.cpp is one order  *)
(* of these steps; the CUDA kernels take others.                           *)
(***************************************************************************)
EXTENDS FactorPattern

CONSTANTS Rows

NoReport == -1

VARIABLES
    factor,   \* the symbolic pattern
    tiny,     \* rows whose final pivot is zero, tiny or not finite
    applied,  \* of each step: 0 not applied, 1 applied, 2 wrong
    status,   \* the row reported, NoReport while there is none
    accepted  \* the factorization has returned its factor

vars == <<factor, tiny, applied, status, accepted>>

Init ==
    /\ factor \in [Rows -> SUBSET Rows]
    /\ tiny \subseteq Rows
    /\ applied = [s \in Steps(Rows) |-> 0]
    /\ status = NoReport
    /\ accepted = FALSE

Open == status = NoReport /\ ~accepted

\* A step that has not been applied, with a good pivot and ready operands.
EliminationStep(s) ==
    /\ Open
    /\ Needed(factor, s) /\ s[3] \in factor[s[1]]
    /\ applied[s] = 0
    /\ Sound(factor, applied, s)
    /\ s[2] \notin tiny
    /\ applied' = [applied EXCEPT ![s] = 1]
    /\ UNCHANGED <<factor, tiny, status, accepted>>

\* The block that reports may drop the row it works on.
Reject ==
    /\ Open
    /\ \E k \in tiny : Final(factor, applied, k, k) /\ status' = k
    /\ UNCHANGED <<factor, tiny, accepted>>

Accept ==
    /\ Open
    /\ tiny = {}
    /\ FactorFinal(factor, applied)
    /\ accepted' = TRUE
    /\ UNCHANGED <<factor, tiny, applied, status>>

\* Blocks that have not noticed the report go on writing.
Unspecified ==
    /\ status # NoReport
    /\ UNCHANGED <<factor, tiny, status, accepted>>

Next ==
    \/ \E s \in Steps(Rows) : EliminationStep(s)
    \/ Reject
    \/ Accept
    \/ Unspecified

Spec == Init /\ [][Next]_vars
=============================================================================
