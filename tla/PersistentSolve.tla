--------------------------- MODULE PersistentSolve ---------------------------
(***************************************************************************)
(* The persistent triangular solve of backends/cuda_lu.cu: the host resets *)
(* a task counter and the row flags, launches a grid of blocks whose warps *)
(* take rows from the counter in schedule order, spin on the flag of every *)
(* row they need, and publish their own row with a fence and a flag; once  *)
(* for L (forward) and, with the same counter and flags, once for U        *)
(* (backward).                                                             *)
(*                                                                         *)
(* Floating-point data is abstracted as in TriangularSolve: a cell of a    *)
(* vector is the number of the right-hand side it was computed from, 0 if  *)
(* it mixes or misses something.  A store is not visible to other warps    *)
(* until it leaves the storing warp's buffer.                              *)
(***************************************************************************)
EXTENDS Integers, FiniteSets

CONSTANTS
    Dimension,        \* plan_.dimension
    Lower, Upper,     \* columns of the strictly lower / upper entries of each row
    ForwardSchedule,  \* plan_.forward_schedule.rows
    BackwardSchedule, \* plan_.backward_schedule.rows
    Lanes,            \* lanes of a warp (32 on the device)
    WarpsPerBlock,    \* kWarpsPerPersistentSolveBlock
    BlockLimit,       \* multiProcessorCount * kPersistentSolveBlocksPerMultiprocessor
    Capacity,         \* blocks the device can hold at once
    MaxSolves         \* bound: number of right-hand sides ever submitted

Rows == 0 .. Dimension - 1

\* Every row has one place in a schedule, after the rows it depends on.
IsTopological(schedule, deps) ==
    /\ schedule \in [Rows -> Rows]
    /\ \A r \in Rows : \E i \in Rows : schedule[i] = r
    /\ \A i, j \in Rows : schedule[i] = schedule[j] => i = j
    /\ \A i, j \in Rows : schedule[j] \in deps[schedule[i]] => j < i

ASSUME SizeAssumption ==
    /\ Dimension \in Nat \ {0}
    /\ Lanes \in Nat \ {0}
    /\ WarpsPerBlock \in Nat \ {0}
    /\ BlockLimit \in Nat \ {0}
    /\ Capacity \in Nat \ {0}
    /\ MaxSolves \in Nat

ASSUME ScheduleAssumption ==
    /\ Lower \in [Rows -> SUBSET Rows]
    /\ Upper \in [Rows -> SUBSET Rows]
    /\ IsTopological(ForwardSchedule, Lower)
    /\ IsTopological(BackwardSchedule, Upper)

\* persistent_solve_blocks_: enough warps for the rows, within the device limit.
PersistentBlocks ==
    LET rowLimited == (Dimension + WarpsPerBlock - 1) \div WarpsPerBlock
    IN  IF rowLimited < BlockLimit THEN rowLimited ELSE BlockLimit

Blocks == 1 .. PersistentBlocks
Warps  == Blocks \X (1 .. WarpsPerBlock)

VARIABLES
    request,       \* number of the right-hand side in permuted_right_hand_side
    backward,      \* the Backward template argument of the current pass
    stage,         \* where the host is in run_forward_solve / run_backward_solve
    nextTask,      \* solve_next_task
    rowReady,      \* solve_row_ready
    intermediate,  \* output of the forward pass, input of the backward pass
    solution,      \* permuted_solution, output of the backward pass
    residency,     \* of each block of the grid: "queued", "resident" or "retired"
    pc,            \* of each warp: the point of the kernel it has reached
    task,          \* of each warp: `scheduled`
    unread,        \* of each warp: dependencies its lanes have not read yet
    partial,       \* of each warp: dependencies read with a value of this request
    buffer         \* of each warp: stores not yet visible to other warps

host   == <<request, backward, stage>>
memory == <<intermediate, solution>>
kernel == <<residency, pc, task, unread, partial, buffer>>
vars   == <<host, nextTask, rowReady, memory, kernel>>

-----------------------------------------------------------------------------
\* Fault: both launches are given the forward schedule.
FaultOneSchedule == ForwardSchedule

Schedule == IF backward THEN BackwardSchedule ELSE ForwardSchedule
Deps(r)  == IF backward THEN Upper[r] ELSE Lower[r]
Output   == IF backward THEN solution ELSE intermediate
RowOf(w) == Schedule[task[w]]

\* The backward pass reads the forward pass's output; the forward pass reads
\* the permuted right-hand side, which an earlier kernel has written.
Input(r) == IF backward THEN intermediate[r] ELSE request

\* Position of a column among the entries the warp strides over.
EntryIndex(r, d) == Cardinality({e \in Deps(r) : e < d})

\* A lane reads its entries in order, Lanes apart.
LaneReached(w, d) ==
    \A e \in unread[w] :
        EntryIndex(RowOf(w), e) % Lanes = EntryIndex(RowOf(w), d) % Lanes => d <= e

Working(w) == pc[w] \in {"gather", "fence", "publish"}

-----------------------------------------------------------------------------
Init ==
    /\ request = 0
    /\ backward = FALSE
    /\ stage = "idle"
    /\ nextTask = 0
    /\ rowReady = [r \in Rows |-> 0]
    /\ intermediate = [r \in Rows |-> 0]
    /\ solution = [r \in Rows |-> 0]
    /\ residency = [b \in Blocks |-> "retired"]
    /\ pc = [w \in Warps |-> "exited"]
    /\ task = [w \in Warps |-> 0]
    /\ unread = [w \in Warps |-> {}]
    /\ partial = [w \in Warps |-> {}]
    /\ buffer = [w \in Warps |-> {}]

\* solve(): the right-hand side is uploaded and permuted, and the forward pass begins.
UploadRightHandSide ==
    /\ stage = "idle"
    /\ request < MaxSolves
    /\ request' = request + 1
    /\ backward' = FALSE
    /\ stage' = "queue"
    /\ UNCHANGED <<nextTask, rowReady, memory, kernel>>

\* Fault: the task counter of the previous pass is kept.
FaultKeepQueue ==
    /\ stage = "queue"
    /\ stage' = "flags"
    /\ UNCHANGED <<request, backward, nextTask, rowReady, memory, kernel>>

ResetQueue ==
    /\ stage = "queue"
    /\ nextTask' = 0
    /\ stage' = "flags"
    /\ UNCHANGED <<request, backward, rowReady, memory, kernel>>

\* Fault: the flags of the previous pass are kept.
FaultKeepFlags ==
    /\ stage = "flags"
    /\ stage' = "launch"
    /\ UNCHANGED <<request, backward, nextTask, rowReady, memory, kernel>>

ResetFlags ==
    /\ stage = "flags"
    /\ rowReady' = [r \in Rows |-> 0]
    /\ stage' = "launch"
    /\ UNCHANGED <<request, backward, nextTask, memory, kernel>>

Launch ==
    /\ stage = "launch"
    /\ residency' = [b \in Blocks |-> "queued"]
    /\ pc' = [w \in Warps |-> "claim"]
    /\ stage' = "running"
    /\ UNCHANGED <<request, backward, nextTask, rowReady, memory,
                   task, unread, partial, buffer>>

\* The device starts a waiting block when it has room; it never preempts one.
Dispatch(b) ==
    /\ residency[b] = "queued"
    /\ Cardinality({c \in Blocks : residency[c] = "resident"}) < Capacity
    /\ residency' = [residency EXCEPT ![b] = "resident"]
    /\ UNCHANGED <<host, nextTask, rowReady, memory, pc, task, unread, partial, buffer>>

Retire(b) ==
    /\ residency[b] = "resident"
    /\ \A i \in 1 .. WarpsPerBlock : pc[b, i] = "exited" /\ buffer[b, i] = {}
    /\ residency' = [residency EXCEPT ![b] = "retired"]
    /\ UNCHANGED <<host, nextTask, rowReady, memory, pc, task, unread, partial, buffer>>

\* timer.finish() waits for the kernel; the host goes on to the next pass.
Synchronize ==
    /\ stage = "running"
    /\ \A b \in Blocks : residency[b] = "retired"
    /\ backward' = ~backward
    /\ stage' = IF backward THEN "idle" ELSE "queue"
    /\ UNCHANGED <<request, nextTask, rowReady, memory, kernel>>

-----------------------------------------------------------------------------
\* Fault: a warp that finds the schedule exhausted tries again.
FaultClaimForever(w) ==
    /\ pc[w] = "claim"
    /\ residency[w[1]] = "resident"
    /\ nextTask' = nextTask + 1
    /\ task' = [task EXCEPT ![w] = nextTask]
    /\ nextTask < Dimension => pc' = [pc EXCEPT ![w] = "gather"]
    /\ nextTask >= Dimension => UNCHANGED pc
    /\ unread' = [unread EXCEPT ![w] = {}]
    /\ partial' = [partial EXCEPT ![w] = {}]
    /\ UNCHANGED <<host, rowReady, memory, residency, buffer>>

\* Fault: the counter is read, not incremented.
FaultClaimWithoutAdvance(w) ==
    /\ pc[w] = "claim"
    /\ residency[w[1]] = "resident"
    /\ nextTask < Dimension
    /\ task' = [task EXCEPT ![w] = nextTask]
    /\ pc' = [pc EXCEPT ![w] = "gather"]
    /\ unread' = [unread EXCEPT ![w] = Deps(Schedule[nextTask])]
    /\ partial' = [partial EXCEPT ![w] = {}]
    /\ UNCHANGED <<host, nextTask, rowReady, memory, residency, buffer>>

\* Lane 0 takes the next task; the warp leaves when the schedule is exhausted.
Claim(w) ==
    /\ pc[w] = "claim"
    /\ residency[w[1]] = "resident"
    /\ nextTask' = nextTask + 1
    /\ task' = [task EXCEPT ![w] = nextTask]
    /\ IF nextTask >= Dimension
       THEN /\ pc' = [pc EXCEPT ![w] = "exited"]
            /\ UNCHANGED <<unread, partial>>
       ELSE /\ pc' = [pc EXCEPT ![w] = "gather"]
            /\ unread' = [unread EXCEPT ![w] = Deps(Schedule[nextTask])]
            /\ partial' = [partial EXCEPT ![w] = {}]
    /\ UNCHANGED <<host, rowReady, memory, residency, buffer>>

\* Fault: the lane does not wait for the flag.
FaultGatherWithoutFlag(w, d) ==
    /\ pc[w] = "gather"
    /\ d \in unread[w]
    /\ LaneReached(w, d)
    /\ unread' = [unread EXCEPT ![w] = @ \ {d}]
    /\ partial' = IF Output[d] = request
                  THEN [partial EXCEPT ![w] = @ \cup {d}] ELSE partial
    /\ UNCHANGED <<host, nextTask, rowReady, memory, residency, pc, task, buffer>>

\* A lane whose spin on a dependency's flag has ended reads that dependency.
Gather(w, d) ==
    /\ pc[w] = "gather"
    /\ d \in unread[w]
    /\ LaneReached(w, d)
    /\ rowReady[d] = 1
    /\ unread' = [unread EXCEPT ![w] = @ \ {d}]
    /\ partial' = IF Output[d] = request
                  THEN [partial EXCEPT ![w] = @ \cup {d}] ELSE partial
    /\ UNCHANGED <<host, nextTask, rowReady, memory, residency, pc, task, buffer>>

\* The value lane 0 stores: of this request if everything it was made from is.
RowValue(w) ==
    IF partial[w] = Deps(RowOf(w)) /\ Input(RowOf(w)) = request THEN request ELSE 0

\* The warp reduction joins the lanes; lane 0 stores the row.
Store(w) ==
    /\ pc[w] = "gather"
    /\ unread[w] = {}
    /\ buffer' = [buffer EXCEPT ![w] = @ \cup {<<RowOf(w), RowValue(w)>>}]
    /\ pc' = [pc EXCEPT ![w] = "fence"]
    /\ UNCHANGED <<host, nextTask, rowReady, memory, residency, task, unread, partial>>

\* A buffered store reaches memory.
Drain(w) ==
    \E s \in buffer[w] :
        /\ buffer' = [buffer EXCEPT ![w] = @ \ {s}]
        /\ IF backward
           THEN /\ solution' = [solution EXCEPT ![s[1]] = s[2]]
                /\ UNCHANGED intermediate
           ELSE /\ intermediate' = [intermediate EXCEPT ![s[1]] = s[2]]
                /\ UNCHANGED solution
        /\ UNCHANGED <<host, nextTask, rowReady, residency, pc, task, unread, partial>>

\* Fault: no fence between the store and the flag.
FaultNoFence(w) ==
    /\ pc[w] = "fence"
    /\ pc' = [pc EXCEPT ![w] = "publish"]
    /\ UNCHANGED <<host, nextTask, rowReady, memory, residency, task, unread, partial, buffer>>

\* __threadfence(): the warp's stores are visible before it goes on.
Fence(w) ==
    /\ pc[w] = "fence"
    /\ buffer[w] = {}
    /\ pc' = [pc EXCEPT ![w] = "publish"]
    /\ UNCHANGED <<host, nextTask, rowReady, memory, residency, task, unread, partial, buffer>>

Publish(w) ==
    /\ pc[w] = "publish"
    /\ rowReady' = [rowReady EXCEPT ![RowOf(w)] = 1]
    /\ pc' = [pc EXCEPT ![w] = "claim"]
    /\ UNCHANGED <<host, nextTask, memory, residency, task, unread, partial, buffer>>

-----------------------------------------------------------------------------
Host      == UploadRightHandSide \/ ResetQueue \/ ResetFlags \/ Launch \/ Synchronize
Device(b) == Dispatch(b) \/ Retire(b)
Warp(w)   == Claim(w) \/ (\E d \in Rows : Gather(w, d))
             \/ Store(w) \/ Drain(w) \/ Fence(w) \/ Publish(w)

Terminated == stage = "idle" /\ request = MaxSolves /\ UNCHANGED vars

Next ==
    \/ Host
    \/ \E b \in Blocks : Device(b)
    \/ \E w \in Warps : Warp(w)
    \/ Terminated

Spec == Init /\ [][Next]_vars

\* The host runs on, the device starts and retires blocks, and every warp of a
\* resident block is scheduled; a warp of a block that waits for room is not.
Fairness ==
    /\ WF_vars(Host)
    /\ \A b \in Blocks : WF_vars(Device(b))
    /\ \A w \in Warps : WF_vars(Warp(w))

FairSpec == Spec /\ Fairness

-----------------------------------------------------------------------------
\* The state is well typed, and the counter stays within one failed claim per
\* warp of the dimension, so solve_next_task cannot wrap for a dimension that
\* leaves room for the grid in SparseIndex.
TypeOK ==
    /\ request \in 0 .. MaxSolves
    /\ backward \in BOOLEAN
    /\ stage \in {"idle", "queue", "flags", "launch", "running"}
    /\ nextTask \in 0 .. Dimension + Cardinality(Warps)
    /\ rowReady \in [Rows -> {0, 1}]
    /\ intermediate \in [Rows -> 0 .. MaxSolves]
    /\ solution \in [Rows -> 0 .. MaxSolves]
    /\ residency \in [Blocks -> {"queued", "resident", "retired"}]
    /\ pc \in [Warps -> {"claim", "gather", "fence", "publish", "exited"}]
    /\ task \in [Warps -> Nat]
    /\ unread \in [Warps -> SUBSET Rows]
    /\ partial \in [Warps -> SUBSET Rows]
    /\ buffer \in [Warps -> SUBSET (Rows \X (0 .. MaxSolves))]

\* A raised flag is a promise kept: when a warp of any SM sees row_ready of a
\* row, the value of the current pass and right-hand side is in memory.  This is
\* what the fence before the flag, and the reset of the flags before each of the
\* two launches that share them, are for.
PublishedIsVisible ==
    stage = "running" =>
        \A r \in Rows : rowReady[r] = 1 => Output[r] = request

\* Each row has one writer: no two warps hold the same row, a held row is not
\* yet published, and a row that was handed out is held or published.
HeldOrPublished ==
    stage = "running" =>
        /\ \A v, w \in Warps :
               Working(v) /\ Working(w) /\ v # w => task[v] # task[w]
        /\ \A w \in Warps : Working(w) => rowReady[RowOf(w)] = 0
        /\ \A i \in Rows : i < nextTask =>
               \/ rowReady[Schedule[i]] = 1
               \/ \E w \in Warps : Working(w) /\ task[w] = i

\* The warps never all wait on each other, however few blocks are resident: the
\* warp that holds the lowest unfinished task finds every flag it spins on raised.
LowestTaskRuns ==
    stage = "running" =>
        \A w \in Warps :
            Working(w) /\ (\A v \in Warps : Working(v) => task[w] <= task[v])
                => \A d \in Deps(RowOf(w)) : rowReady[d] = 1

\* When solve() is back in its caller, every cell of the solution was computed
\* from the right-hand side of this call, none from an earlier one.
SolutionIsCurrent ==
    stage = "idle" /\ request > 0 => \A r \in Rows : solution[r] = request

\* The passes and the kernel implement the abstract triangular solve.
Abstract == INSTANCE TriangularSolve WITH
    phase <- IF stage = "idle" THEN "idle"
             ELSE IF backward THEN "backward" ELSE "forward"

ImplementsTriangularSolve == Abstract!Spec

\* Every right-hand side handed to solve() is answered, whatever the capacity.
EverySolveReturns == stage = "queue" ~> stage = "idle"

=============================================================================
