--------------------------- MODULE BackendLifecycle ---------------------------
(***************************************************************************)
(* A Task 1 backend as an object: what analyze(), factorize() and solve()  *)
(* check before they start, what they leave when they fail half way, and   *)
(* the device memory that the CUDA backends own (backends/cuda_lu.cu,      *)
(* reference_lu.cpp, cpu_klu.cpp, and the Allocation and Executor of       *)
(* src/executor.cpp).                                                      *)
(*                                                                         *)
(* An operation may throw at every step that allocates, copies, launches   *)
(* or computes.  The client is any caller: it makes the three calls in any *)
(* order, repeats them, and goes on after an exception.  backend.hpp       *)
(* promises less, one run for each object.                                 *)
(*                                                                         *)
(* factorize() may be called again without a new analyze(), as its guard   *)
(* allows.  The CUDA backends then replace the executor under the buffers  *)
(* that hold its allocations, and release those through an executor that   *)
(* is gone.  This is undefined: the freed object hears of the release, or  *)
(* a later executor at the same address does, or the process crashes.      *)
(***************************************************************************)
EXTENDS Integers, FiniteSets

CONSTANTS
    Kinds,           \* the backends to start from: "cuda", "reference", "klu"
    Matrices,        \* the matrices a client has
    NoMatrix,        \* the null pointer
    FactorNonzeros,  \* the entries of the factor that the plan of a matrix has
    Buffers,         \* number of members of DeviceBuffers
    MaybeEmpty,      \* members a kernel leaves out, or whose size may be zero
    MaxExecutors     \* bound: CUDA executors ever created

ASSUME LifecycleAssumption ==
    /\ Kinds \subseteq {"cuda", "reference", "klu"}
    /\ NoMatrix \notin Matrices
    /\ FactorNonzeros \in [Matrices -> Nat \ {0}]
    /\ Buffers \in Nat
    /\ MaybeEmpty \subseteq 1 .. Buffers
    /\ MaxExecutors \in Nat

NoExecutor == 0
Executors  == 1 .. MaxExecutors
NoFactor   == [of |-> NoMatrix, complete |-> FALSE]

VARIABLES
    kind,      \* the class of the backend
    op,        \* where the object is: "ready", inside an operation, "destroyed"
    argument,  \* the matrix the current operation was given
    matrix,    \* matrix_ or analyzed_matrix_
    plan,      \* the matrix that plan_ or symbolic_ describes
    factor,    \* the matrix the factor storage was filled from, and if completely
    next,      \* the member of buffers_ allocated next
    executor,  \* cuda_executor_
    created,   \* number of executors created
    alive,     \* the executors that exist
    live,      \* live_bytes of each executor, in allocations
    buffer,    \* of each member of buffers_: the executor of its allocation
    repeated   \* history: executors replaced, or put in place, under held buffers

device == <<next, executor, created, alive, live, buffer, repeated>>
vars   == <<kind, op, argument, matrix, plan, factor, device>>

-----------------------------------------------------------------------------
Init ==
    /\ kind \in Kinds
    /\ op = "ready"
    /\ argument = NoMatrix /\ matrix = NoMatrix /\ plan = NoMatrix
    /\ factor = NoFactor
    /\ next = 1
    /\ executor = NoExecutor /\ created = 0 /\ alive = {}
    /\ live = [e \in Executors |-> 0]
    /\ buffer = [b \in 1 .. Buffers |-> NoExecutor]
    /\ repeated = {}

Held(e) == Cardinality({b \in 1 .. Buffers : buffer[b] = e})

\* Buffers whose executor is gone.
Dangling == {b \in 1 .. Buffers : buffer[b] \notin alive \cup {NoExecutor}}

\* Where a gone executor was, the present one may be, unless it was made before the
\* other went, as its immediate successor is.
Strays(S) == {b \in S \cap Dangling : executor > buffer[b] + 1}

\* Executor::release() for each buffer in S that holds something, with the clamp at
\* zero; a stray release is told to the executor that is there now.
ReleaseHeld(S, account) ==
    \E strays \in SUBSET Strays(S) :
        LET told(e) == Cardinality({b \in S \ strays : buffer[b] = e})
                           + (IF e = executor THEN Cardinality(strays) ELSE 0)
        IN  live' = [e \in Executors |->
                        IF told(e) > account[e] THEN 0 ELSE account[e] - told(e)]

\* Fault: the executor is destroyed while the buffers still name it.
FaultReleaseNothing == UNCHANGED <<buffer, live>>

\* Fault: buffers are dropped without telling their executor.
FaultReleaseUntold ==
    /\ buffer' = [b \in 1 .. Buffers |-> NoExecutor]
    /\ UNCHANGED live

\* Allocation::reset() of every buffer tells its executor.
ReleaseBuffers ==
    /\ buffer' = [b \in 1 .. Buffers |-> NoExecutor]
    /\ ReleaseHeld(1 .. Buffers, live)

\* cuda_executor_.reset(), or the destructor of the member.
DestroyExecutor ==
    /\ alive' = alive \ {executor}
    /\ executor' = NoExecutor

-----------------------------------------------------------------------------
\* Fault: a new analysis keeps the factor, as if the reference did not clear it.
FaultAnalyzeKeepsFactor(m) ==
    /\ op = "ready"
    /\ op' = "reset"
    /\ argument' = m
    /\ matrix' = NoMatrix
    /\ factor' = IF kind = "reference" THEN factor ELSE NoFactor
    /\ plan' = IF kind = "klu" THEN NoMatrix ELSE plan
    /\ ReleaseBuffers
    /\ UNCHANGED <<kind, next, executor, created, alive, repeated>>

\* analyze() gives up what the object held before anything can fail: KLU frees
\* both its objects, the reference clears its factor, CUDA resets the device.
Analyze(m) ==
    /\ op = "ready"
    /\ op' = "reset"
    /\ argument' = m
    /\ matrix' = NoMatrix
    /\ factor' = NoFactor
    /\ plan' = IF kind = "klu" THEN NoMatrix ELSE plan
    /\ ReleaseBuffers
    /\ UNCHANGED <<kind, next, executor, created, alive, repeated>>

\* reset_device(): the buffers are gone, now the executor.
AnalyzeReset ==
    /\ op = "reset"
    /\ op' = "analyze"
    /\ DestroyExecutor
    /\ UNCHANGED <<kind, argument, matrix, plan, factor, next, created, live, buffer, repeated>>

\* The analysis throws, before or after the plan is stored, or when the statistics
\* are, which come after the matrix.
AnalyzeFails ==
    /\ op = "analyze"
    /\ op' = "ready"
    /\ \/ plan' \in {plan, argument} /\ UNCHANGED matrix
       \/ plan' = argument /\ matrix' = argument
    /\ UNCHANGED <<kind, argument, factor, device>>

AnalyzeReturns ==
    /\ op = "analyze"
    /\ op' = "ready"
    /\ plan' = argument
    /\ matrix' = argument
    /\ UNCHANGED <<kind, argument, factor, device>>

-----------------------------------------------------------------------------
\* factorize() throws for another matrix than the one analyzed.  Past that guard KLU
\* frees its numeric object; the others keep an old factor until it is replaced.
Factorize(m) ==
    /\ op = "ready"
    /\ matrix = m
    /\ \/ kind = "cuda" /\ op' = "create" /\ UNCHANGED factor
       \/ kind = "reference" /\ op' = "fill" /\ UNCHANGED factor
       \/ kind = "klu" /\ op' = "eliminate" /\ factor' = NoFactor
    /\ argument' = m
    /\ UNCHANGED <<kind, matrix, plan, device>>

\* The new executor is made, then put in the place of the one before, which goes;
\* buffers of an earlier factorize() go on naming that one.
CreateExecutor ==
    /\ op = "create"
    /\ created < MaxExecutors
    /\ op' = "allocate"
    /\ next' = 1
    /\ created' = created + 1
    /\ executor' = created + 1
    /\ alive' = (alive \ {executor}) \cup {created + 1}
    /\ repeated' = IF \A b \in 1 .. Buffers : buffer[b] = NoExecutor
                   THEN repeated
                   ELSE repeated \cup {executor, created + 1}
    /\ UNCHANGED <<kind, argument, matrix, plan, factor, live, buffer>>

\* Executor::allocate() for the next buffer, then the move assignment, which releases
\* what the buffer held.  A size of zero gives no allocation; a kernel leaves members
\* out.  A new allocation is not initialized: there is no factor any more.
Allocate ==
    /\ op = "allocate"
    /\ next <= Buffers
    /\ next' = next + 1
    /\ \/ /\ buffer' = [buffer EXCEPT ![next] = executor]
          /\ ReleaseHeld({next}, [live EXCEPT ![executor] = @ + 1])
          /\ factor' = NoFactor
       \/ /\ next \in MaybeEmpty
          /\ buffer' = [buffer EXCEPT ![next] = NoExecutor]
          /\ ReleaseHeld({next}, live)
          /\ UNCHANGED factor
       \/ next \in MaybeEmpty /\ UNCHANGED <<buffer, live, factor>>
    /\ UNCHANGED <<kind, op, argument, matrix, plan, executor, created, alive, repeated>>

\* The factor storage is filled with the matrix; on a device, after the uploads.
Initialize ==
    /\ op = "fill" \/ (op = "allocate" /\ next > Buffers)
    /\ op' = "eliminate"
    /\ factor' = [of |-> argument, complete |-> FALSE]
    /\ UNCHANGED <<kind, argument, matrix, plan, device>>

\* No executor, no memory, a failed copy or launch, or a bad pivot, for which KLU
\* frees its numeric object; or the statistics of a factor that is complete.
FactorizeFails ==
    /\ op \in {"create", "allocate", "fill", "eliminate"}
    /\ op' = "ready"
    /\ \/ UNCHANGED factor
       \/ op = "eliminate" /\ factor' = [of |-> argument, complete |-> TRUE]
    /\ UNCHANGED <<kind, argument, matrix, plan, device>>

FactorizeReturns ==
    /\ op = "eliminate"
    /\ op' = "ready"
    /\ factor' = [of |-> argument, complete |-> TRUE]
    /\ UNCHANGED <<kind, argument, matrix, plan, device>>

-----------------------------------------------------------------------------
\* factor_values_.size(), and factor_nonzeros() of the plan: zero when empty.
SizeOf(m) == IF m = NoMatrix THEN 0 ELSE FactorNonzeros[m]

\* What solve() checks: CUDA that there is an executor, the reference that its
\* factor has the size that the plan says, KLU that both its objects exist.
MaySolve ==
    \/ kind = "cuda" /\ executor # NoExecutor
    \/ kind = "reference" /\ SizeOf(factor.of) = SizeOf(plan)
    \/ kind = "klu" /\ plan # NoMatrix /\ factor.of # NoMatrix

\* A call that is refused changes nothing.
Solve ==
    /\ op = "ready"
    /\ MaySolve
    /\ op' = "solve"
    /\ UNCHANGED <<kind, argument, matrix, plan, factor, device>>

\* solve() returns, or a copy, a launch or klu_solve fails.
SolveEnds ==
    /\ op = "solve"
    /\ op' = "ready"
    /\ UNCHANGED <<kind, argument, matrix, plan, factor, device>>

\* The destructor: buffers_ is declared last, and so goes before cuda_executor_.
Destroy ==
    /\ op = "ready"
    /\ op' = "destroy"
    /\ ReleaseBuffers
    /\ factor' = NoFactor
    /\ UNCHANGED <<kind, argument, matrix, plan, next, executor, created, alive, repeated>>

DestroyEnds ==
    /\ op = "destroy"
    /\ op' = "destroyed"
    /\ DestroyExecutor
    /\ UNCHANGED <<kind, argument, matrix, plan, factor, next, created, live, buffer, repeated>>

\* A release through an executor that is gone: by analyze() and the destructor, and
\* when a member is assigned to.
Crash ==
    /\ \/ op = "ready" /\ Dangling # {}
       \/ op = "allocate" /\ next \in Dangling
    /\ op' = "crashed"
    /\ UNCHANGED <<kind, argument, matrix, plan, factor, device>>

-----------------------------------------------------------------------------
Gone == op \in {"destroyed", "crashed"} /\ UNCHANGED vars

Next ==
    \/ \E m \in Matrices : Analyze(m) \/ Factorize(m)
    \/ AnalyzeReset \/ AnalyzeFails \/ AnalyzeReturns
    \/ CreateExecutor \/ Allocate \/ Initialize \/ FactorizeFails \/ FactorizeReturns
    \/ Solve \/ SolveEnds
    \/ Destroy \/ DestroyEnds
    \/ Crash
    \/ Gone

Spec == Init /\ [][Next]_vars

-----------------------------------------------------------------------------
\* The state is well typed.
TypeOK ==
    /\ kind \in Kinds
    /\ op \in {"ready", "reset", "analyze", "create", "allocate", "fill", "eliminate",
               "solve", "destroy", "destroyed", "crashed"}
    /\ {argument, matrix, plan, factor.of} \subseteq Matrices \cup {NoMatrix}
    /\ factor.complete \in BOOLEAN
    /\ next \in 1 .. Buffers + 1
    /\ executor \in {NoExecutor} \cup alive
    /\ created \in 0 .. MaxExecutors
    /\ alive \subseteq 1 .. created
    /\ live \in [Executors -> Nat]
    /\ buffer \in [1 .. Buffers -> {NoExecutor} \cup Executors]
    /\ repeated \subseteq Executors

\* An Allocation is "ownership of memory allocated by an Executor" (executor.hpp), to
\* which it reports its release, so that it must never outlive that executor.  It
\* does when factorize() is called again, which its guard lets in: "CUDA LU requires
\* analysis of the same matrix instance", and that has been done (cuda_lu.cu).
ExecutorOutlivesBuffers ==
    \A b \in 1 .. Buffers : buffer[b] # NoExecutor => buffer[b] \in alive

\* Only a factorize() that is repeated on held buffers leaves allocations behind:
\* not one that fails between two allocations, not another analysis, with whatever
\* was repeated before it, and not the destructor.
OnlyRepeatedAreOutlived ==
    \A b \in 1 .. Buffers : buffer[b] # NoExecutor => buffer[b] \in alive \cup repeated

\* live_bytes is what is held, after any calls and failures, and an executor that is
\* gone left nothing behind on its device; except for the executors of a repeated
\* factorize(), the one it replaced and the one that may hear of stray releases.
LiveBytesAddUp == \A e \in Executors \ repeated : live[e] = Held(e)

\* A solve never runs on a factor of another matrix than the one last analyzed,
\* however the operations between failed: the reference compares sizes only, which
\* the factors of two matrices may have in common.
NeverAnotherFactor == op = "solve" => factor.of \in {NoMatrix, plan}

\* "CUDA solve requires a completed numerical factorization" (cuda_lu.cu), "KLU
\* solve requires completed analysis and factorization" (cpu_klu.cpp): a solve
\* that is let in finds a complete factor of the analyzed matrix.
SolveNeedsFactor == op = "solve" => factor = [of |-> plan, complete |-> TRUE]
=============================================================================
