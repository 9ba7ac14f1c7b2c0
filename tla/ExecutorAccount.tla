--------------------------- MODULE ExecutorAccount ---------------------------
(***************************************************************************)
(* The executors of src/executor.cpp and backends/cuda_executor.cu over    *)
(* the profiler: memory handed out as move-only Allocation objects, the    *)
(* account each executor keeps of it, and the metrics every operation adds *)
(* to the innermost active event, if there is one.                         *)
(*                                                                         *)
(* There is one executor for each memory space.  An operation that throws  *)
(* does so before it changes anything.                                     *)
(***************************************************************************)
EXTENDS Profiler, FiniteSets, FiniteSetsExt

CONSTANTS
    Objects,  \* Allocation objects
    Sizes,    \* bytes asked for
    MaxCalls  \* bound: counted operations of both executors

ASSUME SizesAssumption == Sizes \subseteq Nat /\ MaxCalls \in Nat

Spaces   == {"host", "device"}
Blocks == 1 .. MaxCalls
Nothing  == [space |-> "none", pointer |-> 0, bytes |-> 0]

VARIABLES
    allocation,  \* of each object: executor, pointer and size, or Nothing
    memory,      \* of each executor: the pointers it has handed out and not freed
    statistics,  \* of each executor
    metrics,     \* of each record
    dropped,     \* ghost: operations that no record has, or none any more
    highest      \* ghost: the most live bytes an executor has had

objects  == <<allocation, memory>>
accounts == <<statistics, metrics, dropped, highest>>
account_vars == <<profiler_vars, objects, accounts>>

-----------------------------------------------------------------------------
NoStatistics == [live |-> 0, peak |-> 0, allocations |-> 0, frees |-> 0,
                 copies |-> 0, copied |-> 0, synchronizations |-> 0]

\* Bytes by memory space, and by the pair of them for copies; calls.
NoMetrics == [allocated |-> [s \in Spaces |-> 0], freed |-> [s \in Spaces |-> 0],
              copied |-> [d \in Spaces \X Spaces |-> 0],
              allocations |-> 0, frees |-> 0, copies |-> 0, synchronizations |-> 0]

AccountInit ==
    /\ ProfilerInit
    /\ allocation = [o \in Objects |-> Nothing]
    /\ memory = [s \in Spaces |-> {}]
    /\ statistics = [s \in Spaces |-> NoStatistics]
    /\ metrics = [r \in 1 .. MaxRecords |-> NoMetrics]
    /\ dropped = NoMetrics
    /\ highest = [s \in Spaces |-> 0]

Calls == LET Of(s) == s.allocations + s.frees + s.copies + s.synchronizations
         IN  Of(statistics["host"]) + Of(statistics["device"])

MoreCalls == Calls < MaxCalls

\* What an operation adds goes to the event on top of the stack, if any.
Charge(Added(_)) ==
    IF stack = <<>>
    THEN dropped' = Added(dropped) /\ UNCHANGED metrics
    ELSE metrics' = [metrics EXCEPT ![Owner] = Added(@)] /\ UNCHANGED dropped

ChargeAllocation(space, bytes) ==
    Charge(LAMBDA m : [m EXCEPT !.allocations = @ + 1, !.allocated[space] = @ + bytes])

ChargeFree(space, bytes) ==
    Charge(LAMBDA m : [m EXCEPT !.frees = @ + 1, !.freed[space] = @ + bytes])

ChargeCopy(source, destination, bytes) ==
    Charge(LAMBDA m : [m EXCEPT !.copies = @ + 1,
                                !.copied[<<source, destination>>] = @ + bytes])

ChargeSynchronization == Charge(LAMBDA m : [m EXCEPT !.synchronizations = @ + 1])

Larger(a, b) == IF a > b THEN a ELSE b

\* Fault: the peak is taken before the bytes are added.
FaultAfterAllocation(s, bytes) ==
    [s EXCEPT !.allocations = @ + 1, !.live = @ + bytes, !.peak = Larger(@, s.live)]

\* Executor::allocate; no bytes, no allocation.  The allocator may reuse what was freed.
AfterAllocation(s, bytes) ==
    [s EXCEPT !.allocations = @ + 1, !.live = @ + bytes, !.peak = Larger(@, s.live + bytes)]

AllocateBlock(o, space, bytes) ==
    /\ allocation[o] = Nothing
    /\ bytes > 0 /\ MoreCalls
    /\ LET pointer == Min(Blocks \ (memory["host"] \cup memory["device"]))
       IN  /\ memory' = [memory EXCEPT ![space] = @ \cup {pointer}]
           /\ allocation' = [allocation EXCEPT ![o] =
                  [space |-> space, pointer |-> pointer, bytes |-> bytes]]
    /\ statistics' = [statistics EXCEPT ![space] = AfterAllocation(@, bytes)]
    /\ highest' = [highest EXCEPT ![space] = Larger(@, statistics'[space].live)]
    /\ ChargeAllocation(space, bytes)
    /\ UNCHANGED profiler_vars

\* Executor::release, with its clamp at zero.
AfterRelease(s, bytes) ==
    [s EXCEPT !.frees = @ + 1, !.live = IF bytes > @ THEN 0 ELSE @ - bytes]

\* Fault: the profiler is not told.
FaultRelease(a) ==
    IF a = Nothing THEN UNCHANGED <<memory, accounts>>
    ELSE /\ MoreCalls
         /\ memory' = [memory EXCEPT ![a.space] = @ \ {a.pointer}]
         /\ statistics' = [statistics EXCEPT ![a.space] = AfterRelease(@, a.bytes)]
         /\ UNCHANGED <<highest, metrics, dropped>>

\* What Allocation::reset does with the memory it has.
Release(a) ==
    IF a = Nothing THEN UNCHANGED <<memory, accounts>>
    ELSE /\ MoreCalls
         /\ memory' = [memory EXCEPT ![a.space] = @ \ {a.pointer}]
         /\ statistics' = [statistics EXCEPT ![a.space] = AfterRelease(@, a.bytes)]
         /\ ChargeFree(a.space, a.bytes)
         /\ UNCHANGED highest

\* Allocation::reset and the destructor.
ResetAllocation(o) ==
    /\ allocation[o] # Nothing
    /\ Release(allocation[o])
    /\ allocation' = [allocation EXCEPT ![o] = Nothing]
    /\ UNCHANGED profiler_vars

\* The move constructor (the target is empty) and move assignment, which gives back
\* what the target holds first; moving an object to itself does nothing.
Assign(o, x) ==
    /\ o # x
    /\ allocation[x] # Nothing \/ allocation[o] # Nothing
    /\ Release(allocation[o])
    /\ allocation' = [allocation EXCEPT ![o] = allocation[x], ![x] = Nothing]
    /\ UNCHANGED profiler_vars

\* raw_copy_from of the destination, raw_copy_to of the source.  What neither takes
\* is "unsupported executor copy".
CopiesFrom(destination, source) == destination = "device" \/ source = "host"
CopiesTo(source, destination)   == source = "device" \/ destination = "host"

\* Executor::copy_from: the destination counts.
Copy(source, destination, bytes) ==
    /\ bytes > 0 /\ MoreCalls
    /\ CopiesFrom(destination, source) \/ CopiesTo(source, destination)
    /\ statistics' = [statistics EXCEPT ![destination].copies = @ + 1,
                                        ![destination].copied = @ + bytes]
    /\ ChargeCopy(source, destination, bytes)
    /\ UNCHANGED <<profiler_vars, objects, highest>>

Synchronize(space) ==
    /\ MoreCalls
    /\ statistics' = [statistics EXCEPT ![space].synchronizations = @ + 1]
    /\ ChargeSynchronization
    /\ UNCHANGED <<profiler_vars, objects, highest>>

-----------------------------------------------------------------------------
AddUp(a, b) ==
    [allocated |-> [s \in Spaces |-> a.allocated[s] + b.allocated[s]],
     freed |-> [s \in Spaces |-> a.freed[s] + b.freed[s]],
     copied |-> [d \in Spaces \X Spaces |-> a.copied[d] + b.copied[d]],
     allocations |-> a.allocations + b.allocations,
     frees |-> a.frees + b.frees,
     copies |-> a.copies + b.copies,
     synchronizations |-> a.synchronizations + b.synchronizations]

\* summarize_events over all records, into one sum.
Recorded == FoldSet(LAMBDA r, sum : AddUp(metrics[r], sum), NoMetrics, 1 .. count)

\* Profiler::reset frees the records with their metrics.
ResetRecords ==
    /\ Reset
    /\ dropped' = AddUp(dropped, Recorded)
    /\ metrics' = [r \in 1 .. MaxRecords |-> NoMetrics]
    /\ UNCHANGED <<objects, statistics, highest>>

Event ==
    /\ \E h \in Handles :
           \/ \E reallocate \in BOOLEAN : Scoped(h, reallocate)
           \/ Finish(h)
           \/ \E g \in Handles : Move(h, g) \/ MoveAssign(h, g)
    /\ UNCHANGED <<objects, accounts>>

AccountNext ==
    \/ Event
    \/ ResetRecords
    \/ \E o \in Objects :
           \/ \E space \in Spaces, bytes \in Sizes : AllocateBlock(o, space, bytes)
           \/ ResetAllocation(o)
           \/ \E x \in Objects : Assign(o, x)
    \/ \E source, destination \in Spaces, bytes \in Sizes : Copy(source, destination, bytes)
    \/ \E space \in Spaces : Synchronize(space)

AccountSpec == AccountInit /\ [][AccountNext]_account_vars

-----------------------------------------------------------------------------
Owned(space) == {o \in Objects : allocation[o].space = space}

\* Each block of memory has exactly one Allocation, through moves and assignments,
\* and is freed by the executor that handed it out; live_bytes is what the objects
\* own, so the clamp in release() hides nothing; peak_bytes is the most there was.
EveryByteHasOneOwner ==
    \A s \in Spaces :
        /\ memory[s] = {allocation[o].pointer : o \in Owned(s)}
        /\ Cardinality(memory[s]) = Cardinality(Owned(s))
        /\ statistics[s].live = MapThenSumSet(LAMBDA o : allocation[o].bytes, Owned(s))
        /\ statistics[s].peak = highest[s]

\* The events of a report and the statistics of the executors are two accounts of
\* the same operations: the first falls short only by what happened outside any
\* event or was thrown away with its records.
MetricsMatchStatistics ==
    LET all == AddUp(Recorded, dropped)
        Both(f(_)) == f(statistics["host"]) + f(statistics["device"])
    IN  /\ all.allocations = Both(LAMBDA s : s.allocations)
        /\ all.frees = Both(LAMBDA s : s.frees)
        /\ all.copies = Both(LAMBDA s : s.copies)
        /\ all.synchronizations = Both(LAMBDA s : s.synchronizations)
        /\ \A s \in Spaces :
               /\ all.allocated[s] = all.freed[s] + statistics[s].live
               /\ all.copied[<<"host", s>>] + all.copied[<<"device", s>>]
                      = statistics[s].copied

\* The record of a finished event is final: whatever is finished out of order, moved
\* or reassigned, operations are charged to an event that is still active.
FinishedEventsAreFinal ==
    [][\A r \in 1 .. MaxRecords :
           metrics'[r] # metrics[r] =>
               \/ \E h \in Handles : handle[h].record = r
               \/ count' = 0]_account_vars
=============================================================================
