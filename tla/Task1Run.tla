------------------------------- MODULE Task1Run -------------------------------
(***************************************************************************)
(* Task1Pipeline::run() (src/task1.cpp): one request, one backend object,  *)
(* three calls, and what is torn down in which order, whether the run      *)
(* returns a solution or leaves through an exception.                      *)
(*                                                                         *)
(* The backend is BackendLifecycle's: each step below is one of its        *)
(* actions, with the stage of the pipeline beside it.  A stage that throws *)
(* unwinds the scope: the backend, declared after the host executor, is    *)
(* destroyed before it.  The crash of BackendLifecycle is no step here: it  *)
(* takes an allocation that outlives its executor, and there is none       *)
(* (ExecutorOutlivesBuffers).                                              *)
(***************************************************************************)
EXTENDS BackendLifecycle

CONSTANT Request   \* the matrix of the request

ASSUME RequestAssumption == Request \in Matrices

VARIABLES
    stage,   \* the stage of run() that is next or under way
    host,    \* host_executor exists
    exists,  \* backend exists
    solved   \* the factor that the solution was computed with

run     == <<host, exists, solved>>
runVars == <<stage, run, vars>>

Stages  == {"validate", "create host", "create backend", "analyze", "factorize",
            "solve", "destroy backend", "destroy host", "unwind", "unwind host"}
Ended   == {"returned", "thrown"}

RunInit ==
    /\ Init
    /\ stage = "validate"
    /\ host = FALSE /\ exists = FALSE
    /\ solved = NoFactor

-----------------------------------------------------------------------------
\* The matrix and the right-hand side are validated; nothing exists to unwind.
Validate ==
    /\ stage = "validate"
    /\ stage' \in {"create host", "thrown"}
    /\ UNCHANGED <<run, vars>>

CreateHost ==
    /\ stage = "create host"
    /\ \/ stage' = "create backend" /\ host' = TRUE
       \/ stage' = "thrown" /\ UNCHANGED host
    /\ UNCHANGED <<exists, solved, vars>>

\* The registry knows no such backend, or it is not available, or here it is.
CreateBackend ==
    /\ stage = "create backend"
    /\ \/ stage' = "analyze" /\ exists' = TRUE
       \/ stage' = "unwind host" /\ UNCHANGED exists
    /\ UNCHANGED <<host, solved, vars>>

\* A call that has started: its steps, then the next stage or the exception.
Under(begin, steps, returns, after, fails) ==
    /\ \/ (begin \/ steps) /\ UNCHANGED stage
       \/ returns /\ stage' = after
       \/ fails /\ stage' = "unwind"
    /\ UNCHANGED run

AnalyzeStage ==
    /\ stage = "analyze"
    /\ Under(Analyze(Request), AnalyzeReset, AnalyzeReturns, "factorize", AnalyzeFails)

\* Fault: the exception of a factorization is swallowed.
FaultSolveAnyway ==
    /\ stage = "factorize"
    /\ Under(Factorize(Request), CreateExecutor \/ Allocate \/ Initialize,
             FactorizeReturns \/ FactorizeFails, "solve", FALSE)

\* Fault: a factorization that fails is tried again.
FaultRetryFactorize ==
    /\ stage = "factorize"
    /\ \/ Under(Factorize(Request), CreateExecutor \/ Allocate \/ Initialize,
                FactorizeReturns, "solve", FALSE)
       \/ FactorizeFails /\ UNCHANGED <<stage, run>>

FactorizeStage ==
    /\ stage = "factorize"
    /\ Under(Factorize(Request), CreateExecutor \/ Allocate \/ Initialize,
             FactorizeReturns, "solve", FactorizeFails)

\* solve() is let in whenever the pipeline gets here: a refusal is a deadlock.
SolveStage ==
    /\ stage = "solve"
    /\ \/ Solve /\ UNCHANGED <<stage, solved>>
       \/ SolveEnds /\ stage' = "destroy backend" /\ solved' = factor
       \/ SolveEnds /\ stage' = "unwind" /\ UNCHANGED solved
    /\ UNCHANGED <<host, exists>>

\* Fault: the host executor is destroyed first, as if declared after the backend.
FaultHostFirst(from, after) ==
    /\ stage = from
    /\ \/ Destroy /\ host' = FALSE /\ UNCHANGED <<stage, exists>>
       \/ DestroyEnds /\ stage' = after /\ exists' = FALSE /\ UNCHANGED host
    /\ UNCHANGED solved

\* backend.reset() after the statistics were read, or by unwinding.
DestroyBackend(from, after) ==
    /\ stage = from
    /\ \/ Destroy /\ UNCHANGED <<stage, exists>>
       \/ DestroyEnds /\ stage' = after /\ exists' = FALSE
    /\ UNCHANGED <<host, solved>>

DestroyHost(from, after) ==
    /\ stage = from
    /\ stage' = after
    /\ host' = FALSE
    /\ UNCHANGED <<exists, solved, vars>>

HasEnded == stage \in Ended /\ UNCHANGED runVars

Step ==
    \/ Validate \/ CreateHost \/ CreateBackend
    \/ AnalyzeStage \/ FactorizeStage \/ SolveStage
    \/ DestroyBackend("destroy backend", "destroy host")
    \/ DestroyHost("destroy host", "returned")
    \/ DestroyBackend("unwind", "unwind host")
    \/ DestroyHost("unwind host", "thrown")

RunNext == Step \/ HasEnded

RunSpec == RunInit /\ [][RunNext]_runVars

-----------------------------------------------------------------------------
\* The state is well typed.
RunTypeOK ==
    /\ TypeOK
    /\ stage \in Stages \cup Ended
    /\ host \in BOOLEAN
    /\ exists \in BOOLEAN
    /\ solved.of \in Matrices \cup {NoMatrix}
    /\ solved.complete \in BOOLEAN

\* The backend copies through the host executor, and a device executor belongs
\* to the backend, so none outlives what it needs; when run() is over nothing is
\* left, neither an executor nor a byte on a device, wherever the exception came.
TeardownInOrder ==
    /\ exists => host
    /\ op # "ready" /\ op # "destroyed" => exists
    /\ alive # {} => exists
    /\ stage \in Ended =>
           ~host /\ ~exists /\ alive = {} /\ \A e \in Executors : live[e] = 0

\* The pipeline returns a solution only from a completed factorization of the
\* matrix it was asked about (backend.hpp: "after returning one solution").
ReturnedIsSolved ==
    /\ stage = "solve" => factor = [of |-> Request, complete |-> TRUE]
    /\ stage = "returned" => solved = [of |-> Request, complete |-> TRUE]
=============================================================================
