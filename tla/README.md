# Verification of gpu_simulator's Task 1: sparse LU on CPU and GPU

This directory holds TLA+ models of the program's own code (not of the vendored
ngspice/KLU), the TLC configurations that check them, and TLAPS proofs about
fourteen of them. Source paths below are relative to the repository's root.

## 1. The system

Task 1 solves one sparse linear system `A x = b`. A request goes through
`Task1Pipeline::run` (`src/task1.cpp`), which validates it, creates a host
executor and a backend, and calls `analyze`, `factorize` and `solve` once each.

| component | state | operations | what is hard |
|---|---|---|---|
| pipeline (`src/task1.cpp`, `src/backend_registry.cpp`) | host executor, backend, solution | `run`, `create_task1_backend` | an exception in any stage, order of teardown |
| symbolic analysis (`src/analysis.cpp`) | `AnalysisPlan`: permutations, block offsets, factor pattern, matrix mapping, level schedules | `CpuSymbolicAnalyzer::analyze`, `AnalysisPlan::validate` | two fill algorithms that must agree; path compression; symmetrized blocks; structurally singular input |
| CUDA backends (`backends/cuda_lu.cu`) | plan, executor, 24 device buffers, statistics | `analyze`, `factorize`, `solve`, three factor kernels, one solve kernel | concurrent blocks and warps, spinning, device memory order, early returns, reused buffers |
| reference backend (`backends/reference_lu.cpp`) | plan, factor values | same three calls, sequentially | a partial factor after an exception |
| KLU backend (`backends/cpu_klu.cpp`) | KLU's symbolic and numeric objects | same three calls | objects freed on failure |
| executors (`src/executor.cpp`, `backends/cuda_executor.cu`) | live and peak bytes, counters, `Allocation` objects | `allocate`, `release`, `copy_from`, `synchronize`, moves | ownership across exceptions and moves |
| profiler (`src/profiler.cpp`) | tree of records, stack of raw pointers, handles | `scoped`, move, `finish`, `reset` | pointers into vectors that reallocate |
| matrices (`src/matrix.cpp`, `src/benchmark/task1_benchmark.cpp`) | compressed columns | `make_csc`, `validate`, readers, `make_poisson_2d`, `multiply` | sums that overflow after each summand was tested |
| heterogeneous partition (`heterogeneous/partition.cpp`) | none | region measures, candidate cover | candidates must cover the rows |
| report, rest of the benchmark, tests, vendored KLU, data | | | not modelled |

How they interact. The pipeline calls the backend; the backend calls the
analyzer, then works on the plan and on device memory it owns through its
executor; everybody opens profiler events around what they do, and executors
add their allocations and copies to the current event. Calls are synchronous on
one host thread; concurrency is on the device: the blocks of a launch, the warps
and threads of a block, and device memory between them. Launches go to one
stream, one after another, and `CudaEventTimer::finish` waits for them.

What makes each part correct:

- *solve*: a row is read only after its value of this pass and this right-hand
  side is visible; every row is computed once; the warps never wait on each
  other in a circle, however few blocks fit on the device.
- *factorization*: concurrent blocks apply each elimination step once, from
  final operands; a bad pivot is reported, names a pivot that is bad, and a
  factor is accepted only when all of it is final.
- *symbolic analysis*: the pattern has a slot for every update, and is exactly
  the fill when no block is symmetrized; flagged blocks have a symmetric factor.
- *backend object*: no allocation outlives its executor, nothing leaks, and no
  solve runs on a factor of another matrix, whatever fails and whatever the
  caller does next.
- *pipeline*: everything is torn down in order whatever throws, and a solution
  comes only from a completed factorization.
- *analysis plan*: the system that is solved is the one that was given, through
  two permutations, their inverses, a counting sort, a merge and the scaling.
- *profiler and executors*: no kept pointer dangles, events are finished once,
  each block of memory has one owner, and the events and the executors'
  statistics account for the same operations.
- *input*: the matrix is the one in the file, the right-hand side too, and what
  overflowed is rejected.

## 2. Modules

Abstract specifications say what is promised, the detailed ones implement them.

| module | what it is | code |
|---|---|---|
| `TriangularSolve` | abstract solve: two passes, a row after the rows it depends on | `reference_lu.cpp` `solve` is one order of it |
| `PersistentSolve` | host loop and persistent kernel; refines `TriangularSolve` | `cuda_lu.cu` 635-695, 776-799, 1071-1164, 1285-1312 |
| `LevelSchedule` | level computation and the sort by level | `analysis.cpp` 664-737, `cuda_lu.cu` 141-164 |
| `SymbolicLU` | symbolic factorization, generic and by elimination tree | `analysis.cpp` 142-168, 199-653 |
| `AnalysisPlan` | the stages of `analyze`, both validations, and the system assembled with the plan | `analysis.cpp` 26-140, 170-197, 655-954, 956-1155; `cuda_lu.cu` 400-414, 635-645, 697-705 |
| `Partition` | candidate regions and their cover, on the plans of `AnalysisPlan` | `heterogeneous/partition.cpp` |
| `MatrixInput` | readers, `make_csc`, the generated grid, the request's validation | `matrix.cpp`, `task1_benchmark.cpp` 182-202, `task1.cpp` 27-41 |
| `FactorPattern` | the pattern, its closure, elimination steps | `reference_lu.cpp` 117-166 |
| `Elimination` | abstract factorization with static pivots | `reference_lu.cpp` 80-170 |
| `LevelLU` | up-looking kernel, one block for a row; refines `Elimination` | `cuda_lu.cu` 416-475, 1003-1037 |
| `WorkspaceLU` | up-looking kernel with workspaces; refines `Elimination` | `cuda_lu.cu` 482-563, 1003-1036 |
| `WorkspaceConfiguration` | how many workspaces are reserved | `cuda_lu.cu` 1314-1354 |
| `RightLookingLU` | right-looking plan and kernel; refines `Elimination` | `cuda_lu.cu` 170-385, 569-633, 954-998 |
| `BackendLifecycle` | a backend as an object, with device memory | guards and resets of the three backends, `executor.cpp` |
| `Task1Run` | the pipeline composed with `BackendLifecycle` | `task1.cpp`, `backend_registry.cpp` |
| `Profiler` | event tree, stack and handles | `profiler.cpp` |
| `ExecutorAccount` | executors and `Allocation` objects composed with `Profiler` | `executor.cpp`, `cuda_executor.cu`, `profiler.cpp` 65-101, 155-195 |
| `<module>_proofs` | proofs about `PersistentSolve`, `SymbolicLU`, `LevelSchedule`, `LevelLU`, `WorkspaceLU` (with `WorkspaceConfiguration`) and `RightLookingLU`; the lemmas on counting sorts and folds are with `LevelSchedule`'s | |
| `Resources_proofs` | proofs about `BackendLifecycle`, `Task1Run`, `Profiler` and `ExecutorAccount` | |
| `LinearSystem_proofs` | proofs about `MatrixInput` and about `AnalysisPlan` with `Partition` | |
| `MC<module>` | instances for TLC where a constant needs a definition | |

How they are composed. `AnalysisPlan` extends `LevelSchedule`, `FactorPattern`
and `Partition`, and takes for its symbolic stage any pattern that `FactorFitsThePlan`,
a theorem about `SymbolicLU`, allows. `ExecutorAccount` runs its operations beside the actions of
`Profiler`, whose properties are checked, and proved, again in the composition.
`LevelLU`, `WorkspaceLU` and `RightLookingLU` extend `FactorPattern` and
`LevelSchedule`, so they run on schedules the code would build; the number of
workspaces is what `WorkspaceConfiguration` computes. `Task1Run`
conjoins each stage of `run()` with actions of `BackendLifecycle`. Definitions
named `Fault...` are not part of any specification: each is a definition of the
model with one plausible mistake, kept to show that a property notices it.

How data is abstracted:

- *Solve.* A cell of a vector is the number of the request its value was
  computed from; 0 is a value that mixes requests or misses a dependency.
- *Factorization.* A floating-point value is the record of which elimination
  steps `<<i, k, j>>` were applied to it: 0 not, 1 once and from final operands,
  2 anything else. An unfinished pivot passes or fails the threshold test
  freely; a final one is bad exactly when it is in the set `tiny`.
- *Symbolic.* A sorted row of columns is a set; block-local indices are global.
- *Memory.* A store by a warp sits in its buffer until it drains, the warp's
  fence empties the buffer, and only then may it raise the flag. Flags and the
  counter are atomic. A lane's test of a flag and its volatile read are in
  program order.
- *Plan.* An entry of the matrix stands for its value, an array is a function from
  0, so that an index into the wrong space is an index into the wrong space here.
- *Files.* A file is what its header and its lines say, one line read at a time;
  a number is an integer, one beyond `Limit` has overflowed and stays infinite.
- *Objects.* A matrix is a model value; what a buffer holds is the executor that
  allocated it; in `BackendLifecycle` sizes are counted in allocations, in
  `ExecutorAccount` memory is a set of pointers the executor has handed out.

Actions are whole steps of the code between two points where another actor can
look: one warp's claim, the read of one entry, the store of a row, the fence,
the flag; thread 0's pivot test with its compare-and-swap or division; one
thread's subtraction; one allocation; one call's guard.

## 3. Runs

| run | module | what it shows |
|---|---|---|
| `persistent_solve` | `MCPersistentSolve` | two solves on four rows, three blocks of which two fit: the counter's bound, publication, one writer per row, no circular wait, no stale cell, refinement of `TriangularSolve`, every solve returns |
| `symbolic_lu` | `SymbolicLU` | every 4 x 4 pattern and every block structure it is upper triangular in: closure, exact fill, mirrored blocks, elimination tree |
| `level_lu` | `LevelLU` | every closed 4 x 4 pattern, four sets of bad pivots |
| `workspace_lu` | `MCWorkspaceLU` | closed 4 x 4 patterns with fill, two workers: no block observes what an earlier row left, no row is held twice, refinement of `Elimination` |
| `right_looking_lu` | `RightLookingLU` | every closed block-upper 4 x 4 pattern, with the reused schedule wherever the code may reuse it |
| `analysis_plan` | `MCAnalysisPlan` | every 3 x 3 matrix up to the order of its rows, structurally singular or not, every ordering of it, every closed factor pattern, debug and release build: no self-check fires, a release plan would have passed the debug validation, the system solved is the one given, the regions share the work |
| `matrix_input` | `MCMatrixInput` | files of a 2 x 2 matrix and of a right-hand side, generated grids: what is accepted is what the file says, exactly |
| `profiler` | `MCExecutorAccount` | handles and allocations used in any order: pointers, stack, one owner of every byte, two accounts that agree, records that stay final |
| `backend_lifecycle` | `MCBackendLifecycle` | all three backends, two matrices whose factors have one size, any calls, any failure: only a repeated `factorize` leaves an allocation without its executor, the accounts of all other executors are exact, and no solve finds a factor of another matrix |
| `task1_run` | `MCTask1Run` | the pipeline on each backend, with all 24 buffers: order of teardown, no allocation without its executor, a solution only of the request |
| `cuda_refactorize` | `MCBackendLifecycle` | expected violation, see below |
| `cuda_solve_guard` | `MCBackendLifecycle` | expected violation, see below |

The findings. `cuda_solve_guard` checks what the guards' messages say, that a
solve let in finds a complete factor of the analyzed matrix. For the CUDA
backends it does not hold: `solve` only tests that the executor exists
(`cuda_lu.cu:779`), and `factorize` creates it first and keeps it when it throws
later. The pipeline never meets this (`ReturnedIsSolved` in `task1_run`): its
exception ends the run, and `backend.hpp` promises one run for each object.

`cuda_refactorize` lets the caller repeat `factorize`, which the guard accepts:
it tests that the matrix has been analyzed (`cuda_lu.cu:756`). The new executor
takes the place of the old one (`cuda_lu.cu:761`) while `buffers_` still hold the
old one's allocations, and each `Allocation` reports its release through the
pointer it keeps (`executor.cpp:38`): "ownership of memory allocated by an
Executor" (`executor.hpp:24`) has outlived the executor. It makes no difference
whether the first `factorize` returned or threw; the shortest trace is one that
throws after an allocation. `backend.hpp:27` rules the repetition out by a comment
(one run for each object), and the pipeline never repeats the call: the same
property holds in `task1_run`. `backend_lifecycle` goes on after it, with every
outcome the undefined release may have (`ReleaseHeld`, `Crash`): the freed
executor hears of it, a later one that lies at its address does, or the process
ends. The history variable `repeated` names the executors concerned, which are
the ones `OnlyRepeatedAreOutlived` and `LiveBytesAddUp` except, so that the
other executors of the same object are still held to account.

### Bounds, and why they are enough

- Four rows: the smallest size with fill that causes fill, a row with two
  dependencies, a chain, and two pivots that share a target row while neither
  is an entry of the other's column (the double-U edge). The patterns are not
  sampled: runs start from all of them, except `workspace_lu`, which keeps those
  in which the third row depends on the first and the first reaches the last
  column, so that there is fill (`MCPatterns`).
- `MinimumEnvelope = 3` stands for 256, so that both sides of the size test occur.
- `Missing = {{}, {2}}`: inputs with and without a structural diagonal entry.
- `Lanes = 2`, `WarpsPerBlock = 1`, `BlockLimit = 3`, `Capacity = 2`: a row
  with more entries than lanes, and a block that waits for a place while others
  spin. `MaxSolves = 2` is the least with a value of an earlier request.
- `MCWorkers`: what `configure_factor_kernel` reserves on one multiprocessor with 300
  bytes free, two blocks, fewer than the widest level has rows.
- `TinySets`: no bad pivot, the first, a pair in the middle, the last.
- `analysis_plan`: three rows are the least on which a permutation differs from
  its inverse. Inputs are all patterns, the empty matrix among them, but for the order of
  their rows (`MCInputs`): every row permutation is tried on them anyhow. So there are
  rows and columns without an entry, and diagonal entries that only the factor has. KLU may deliver any
  ordering that puts as many entries on the diagonal as can be put there (its
  matching searches without a limit, `maxwork = 0`) and none left of a block, and
  the analysis goes on when that is fewer than all; the factor is any closed
  pattern that holds the input. `ZeroRows = {{1}}` has a row whose
  stored values are zero, whose scale becomes one. `WorkClasses = <<1, 2, 3>>`
  stands for 32, 128 and 4096, so that rows fall on both sides of the first ends.
- `matrix_input`: `Numbers = {-3, 1, 4}` and `Limit = 5`: two summands overflow,
  and a third would bring the sum back, so that the order of summation matters.
  `IndexMax = 33`: headers on both sides of each test, also with every entry
  mirrored; grids smaller than the least allowed, and larger than the index.
- `profiler`: three handles, three records, one reallocation of each vector, two
  `Allocation` objects of one size, three counted operations. Handles and objects
  are interchangeable (`SYMMETRY`). Two objects are the least for a move, three
  operations the least for one in an event, one outside and one after it; three
  records give nesting with a sibling. What more of them could do is proved:
  the properties of the profiler and of the accounts for any number.
- `MaxExecutors = 4` in `backend_lifecycle`: a release reaches another executor only
  at the address of one that is gone, which the immediate successor, made while the
  other was still there, cannot have; so two replacements and one executor more.
  `Buffers = 4` (24 in `task1_run`) has a buffer before, at and after one that may
  be empty; `FactorNonzeros` gives both matrices factors of one size, so that the
  comparison of sizes does not tell them apart. `MaybeEmpty` in `task1_run` names
  the members that a kernel leaves out or that may have no entries.

### Fairness

`PersistentSolve` assumes weak fairness of the host, of the device's block
scheduler for each block, and of each warp *of a resident block*. CUDA promises
the last two: a block that has started runs to its end, and one starts when
there is room. It promises nothing of a block that waits, and the model does
not either: `Capacity` may be 1. That is the point of `EverySolveReturns`.
A driver call that hangs is outside the model. No other run uses fairness.

Every run checks for deadlock, with an explicit stuttering step where a
behaviour is really over (`Terminated`, `Finished`, `Gone`, `HasEnded`).

## 4. Proofs

The theorems hold for all values of the constants under the named assumptions of
the modules they extend, and no other. TLC evaluates each of them in the runs of
its module.

**PersistentSolve** (`PersistentSolve_proofs`). Assumed: `SizeAssumption` (sizes
are positive naturals) and `ScheduleAssumption` (the schedules are permutations
of the rows that respect the dependencies, which is what `validate_schedule`
tests; TLC evaluates it on schedules computed with `LevelSchedule`). The
properties are not inductive: that a flag implies a visible value needs to know
who holds which row, what his buffer contains and how far the counter is. The
invariant `IInv` adds

- `CounterBound`: the counter is below the dimension plus one for each warp that
  has left; this is what bounds an overrun of the 32-bit counter,
- `Quiescence`: outside a launch no warp is active and no store is buffered,
- `Reset`: what queue and flags hold between the memsets and the launch,
- `Ownership`: working warps belong to resident blocks, hold different tasks
  below the counter, and their rows are not published,
- `Progress`: what a warp at each point has read, and with which values; after
  the fence its buffer is empty and its row is in memory.

From it: `TypeCorrect`, `FlagsArePromises`, `OneWriterPerRow`, `NoMutualWait`,
`AnswersAreCurrent`, and `Refinement`: every step maps to a step of
`TriangularSolve` or a stutter, the step being taken when a store drains.
`NoMutualWait` is the safety core of deadlock freedom: the warp with the lowest
unfinished task never waits.

**Profiler** (`Resources_proofs`). Assumed: `BoundAssumption`. `PInv` is the
conjunction of the checked properties and `ParentsAreEarlier` (the owner of a
record was created before it). The argument for `NoDanglingPointer`: a vector
reallocates only when its owner is the top of the stack, and the stack is in
order of creation, so no record of that vector, all created later than their
owner, is on the stack; and every active handle's event is on the stack.
From it: `ProfilerTypeCorrect`, `PointersStayValid`, `OneHandlePerEvent`,
`OrderOfCreation`.

**ExecutorAccount** (`Resources_proofs`). Assumed: `SizesAssumption`,
`BoundAssumption`. A program of executors beside
event handles is a client of the profiler: `AccountRefinesProfiler` shows that
each step of it is a step of `Profiler` or leaves the profiler alone, and the
properties above follow for any number of objects and calls.
`ChargedWhileActive` is the action property `FinishedEventsAreFinal`: an operation
is charged to the record on top of the stack, and by `StackedOnce` that record
has an active handle.

Its accounts are sums: of the bytes of the objects that own memory in a space, and
of the metrics of the records. The library defines a sum as a fold that takes the
elements of the set in an order it leaves open; the proof shows for finite sets
(the smallest counterexample leads to a smaller one) that with an operation that
commutes the order does not matter, so that a sum is that of the set without one
element and then that element (`FoldWithout`). The invariant `AInv` says

- `Owns`: the memory of a space is the pointers of its owners, no pointer is owned
  twice, live bytes are the bytes owned and at most the highest so far, which is
  the peak, and the blocks owned with those freed are the blocks allocated,
- `AreAccounts`: metrics are numbers, and a record not yet created has none,
- `Matches`: the metrics of all records, with those dropped by `reset` or never
  charged, are the statistics of the executors.

An operation then changes one term of each sum, a move shifts a term to another
object, and a reset moves all terms to the dropped ones. From it:
`EachByteIsOwnedOnce`, `TwoAccountsAgree`.

**BackendLifecycle** (`Resources_proofs`). Assumed:
`LifecycleAssumption`. A caller may do anything, repeat `factorize` included. `IInv`
adds to the checked properties `OneExecutor` (at most one executor is alive, the one
the backend names; without one there are no buffers, and while a buffer names one
that is gone, the present one is in `repeated`), `BuffersFollowCalls` (where an
analysis or the destructor lets the executor go the buffers are empty, because they
were emptied just before; buffers are allocated only with an executor) and
`FactorFollowsPlan`: factor storage that is filled belongs to the plan, because
`analyze` empties it before anything can throw. The last is what the sizes the
reference compares do not show. From it: `MemoryHasItsExecutor`,
`AccountsAreExact`, `FactorIsOfThePlan`.

**Task1Run** (`Resources_proofs`). Assumed besides: `RequestAssumption`. Each step
of the pipeline is a step of its backend or leaves it alone, so the invariant of
the backend object holds here too; `RunIInv` adds in which of its operations the
backend is at each stage, and for which matrix, and `FactorizesOnce`: there is no
buffer when its one factorization makes an executor, so that `repeated` stays empty.
From it: `NothingIsLeft`, `RunKeepsExecutors`, `SolutionIsOfTheRequest`.

**LevelSchedule** (`LevelSchedule_proofs`). `RowLevels` is a recursive function
over the rows. That its equation has a solution, for every number of rows and all
dependencies on earlier rows, needs an induction; the proof takes the least number
of rows for which there is none (the order of the naturals is well founded) and
extends the solution that the rows below it have. From it:
`RowLevelsRespectDependencies`, `BackwardLevelsRespectDependencies` (the same for
dependencies on later rows, counted from the other end), and `LevelsAreCounted`. A
counting sort puts a thing at its rank by row and then by column; ranks of different
things differ, and as many different places as things leave no place empty. This is
shown once, for any finite set of things with a row and a column. From it:
`ScheduleIsAPermutation`, which also says that the rows of a level are those between
two offsets; the sorted rows and the slots of `AnalysisPlan` are two more uses.

**SymbolicLU** (`SymbolicLU_proofs`). Assumed: `DimensionAssumption`, that the
constants have their types. The invariant `IInv` follows the stages of a block:

- `Layout`: which rows have been appended, which blocks are flagged, where the
  analysis is,
- `MergedRow`: in a generic block a pivot found is merged or still to be, so that a
  row with no pivot left is closed,
- `Forest`, `Shortcuts`: parents and shortcuts lead upwards inside a block; a
  shortcut is a path of the tree, but for those the climb of the moment has moved
  to its row, and these lead to where the climb is,
- `EntriesClimb`, `ClimbedRow`: a climb ends at a root, which becomes a child of
  the row, so that the entries of a row reach it in the tree,
- `LowerRows`, `FollowedRow`: the lower part of a row is the union of the tree
  paths from its entries; the rows a column reaches are on one path, which is why
  these parts are closed,
- `OffDiagonalRows`: columns right of the block are handed on from the pivots,
- `BlocksAreDone`: finished flagged blocks mirror, and their tree is the
  elimination tree,
- `NothingExtra`: while no block was symmetrized, all of this is inside any
  pattern that holds the input, is closed, and mirrors the symmetric blocks.

The fill of the fill path theorem (`Through`, whose recursion is shown to have a
solution) is such a pattern, so the factor is inside it; and a closed pattern that
holds the input contains it. From it: `AppendedRowsAreClosed`, `FactorFitsThePlan`,
`FactorIsTheFill`,
`SymmetricBlocksMirror`, `ParentsAreFirstFill`, `ShortcutsStayInTheTree`.

**AnalysisPlan and Partition** (`LinearSystem_proofs`). Assumed: `InputAssumption`
and `WorkClassesAssumption`. The state is a function of the
matrix, the ordering and the factor, so the inductive invariant `IInv` says, stage by
stage, that each part of the plan is what its step makes of the parts before it, and
that no check has failed. What takes the work is that the checks cannot fail and the
parts fit:

- the proof takes of an ordering only that its permutations are one-to-one and that
  no entry is left of a block, and nothing of the diagonal, so that structurally
  singular matrices are covered; the permutations and their inverses undo each other, so that an entry is
  found again from its permuted row and column;
- `build_permuted_rows` is a counting sort of the entries by permuted row and then
  column, and the slots of the factor are one too, so both are one-to-one and without
  gaps, and a row's columns ascend;
- the merge of `build_matrix_mapping` finds every entry's slot, because the row's
  pattern is part of the factor's row and both ascend: the mapping is one-to-one;
- the schedules are permutations by level that respect the dependencies in both
  directions (`ScheduleIsAPermutation` and the two theorems on levels);
- the block offsets ascend from 0 to the dimension, so the blocks, and the regions
  made of them, are slices that follow one another; a sum over all rows is the sum of
  the sums over the slices, and the classes of a region count each row once.

From it: `SelfChecksPass`, `ReleasePlansAreValid`, `SystemsAreTheInput`,
`RegionsShareAll`.

**MatrixInput** (`LinearSystem_proofs`). Assumed: `NumberAssumption`. `InputInv` says
what has been read and merged at each phase:

- `ReadingAFile`, `ReadingAnArray`: a file is read into a square matrix, and the lines
  of an array name the rows in order;
- `EntriesAreTheInput`: lines and entries are inside the matrix; the entries of a file
  sum up, place by place, to what its lines say with their mirrors, those of a
  generated grid to the stencil;
- `MergingTheEntries`: the merged entries are in order, and each is the sum of the
  entries of its place that are not to be merged any more, or has overflowed. An
  overflow is absorbing (infinity or NaN), so a finite sum is exact in every order of
  the summands, though `Add` itself is not associative;
- `VectorIsTheInput`: an element of the right-hand side is the sum of its lines, or of
  its row, or has overflowed; `AcceptedWhenValid`: the last test has seen all of it.

From it: `MatricesAreTheirFiles`, `PoissonMatricesAreStencils` (two points of a grid
differ by one or by its side, and by one in one row, exactly when they are one apart)
and `RightHandSidesAreTheirFiles`. `multiply` is a recursive function over the stored
entries, whose existence is shown as for `RowLevels`.

Both components state what they promise as sums, and the library's sum is a fold whose
order is open; the lemma `FoldWithout` of `ExecutorAccount`'s accounts opens them one
term at a time.

**LevelLU** (`LevelLU_proofs`). Assumed: `SizeAssumption`. The properties are not
inductive: that a step is sound needs to know which steps were made, and so where
each block is and what it has left. `IInv` adds

- `PlanIsSound`: the pattern is closed, and levels respect the dependencies,
- `BlocksFollowLevels`: blocks of lower levels have left, those of higher levels
  have not started,
- `PivotsInOrder`: a block takes the pivots of its row in ascending order,
- `StepsFollowBlocks`: until a report, a step has been applied, once and from
  final operands, exactly when the block of its row has got there; and whoever
  left has finished, with a good pivot.

From it: `NoSlotIsMissing`, `ReportNamesABadPivot`, `LaunchesNeedNoLocks`, and
`Refinement` (`ImplementsElimination`): divisions and subtractions are elimination
steps, the first report is the rejection, and the end of the last level the
acceptance. After a report nothing is claimed of the factor.

**WorkspaceLU** (`WorkspaceLU_proofs`). Assumed: `SizeAssumption`. Block `w` of `G`
takes the positions `w`, `w + G`, ... of a level, so the remainder of a position
tells its block, and the schedule, being a permutation, lists a row at one position
only. The invariant `SInv`, which holds after a report too, consists of

- `PlanIsSound`: the pattern is closed, every row is listed once, dependencies are
  in earlier levels,
- `BlockInOrder`: the turn a block has come to, the pivots it has left in ascending
  order, and that the cells of a row it holds were all written for that row.

`IInv` adds `ValuesFollowBlocks` until a report: storage and workspaces have received
the steps the blocks have made, once, and the rows gathered have good pivots. From
it: `NoStaleCell`, `NoRowIsShared`, and `Refinement` (`ImplementsElimination`) through
`Entries`: while a block holds a row, the values of the row are in its workspace, so
that scattering and gathering are stutters.

`WorkspacesFitAQuarter` is about the number of workspaces. The comment above its
computation says "Never reserve more than one quarter of currently free memory"
(`cuda_lu.cu:1332`), and one is reserved whatever is free (`cuda_lu.cu:1337`): the
theorem has the comment's claim for every number of workspaces but one, and that
there is at least one and no more than rows, which `SizeAssumption` takes.

**RightLookingLU** (`RightLookingLU_proofs`). Assumed: `SizeAssumption`. The heart
is `LevelsSeparate`: two pivots `k < j` meet in a row `i` when both have a task
there and `k` updates column `j`; then the level of `k` is below that of `j`,
through `L(j, k)` if there is one and through the double-U edge if not. When the
schedule of L is reused there are no such edges, but then the blocks mirror, and
`k` and `j` are in one block, because the factor is block upper triangular and
`i`, below both, reaches `k`. The invariant is laid out as for `LevelLU`, by
tasks instead of rows. From it: `DivisionsAreAlone`, and `Refinement`; the last
launch, which tests the diagonals, is where the acceptance comes from.

Only model-checked: the liveness property `EverySolveReturns`. Temporal properties
under fairness, and `ENABLED`, are out of the prover's reach. What it rests on is
proved: `NoMutualWait`. The two expected violations are shown by counterexamples of TLC. Every invariant
and every action property of the passing runs is a theorem, and so is every refinement.

## 5. Not modelled

- Numerics: rounding, scaling, pivot growth, tolerance of residuals.
- The ordering itself (KLU's BTF and AMD) and the vendored numerics: their
  results are inputs, any block-upper pattern.
- The GPU's memory model beyond store buffers: see the hazard at `cuda_lu.cu:680`.
- Occupancy queries, thread counts per level and other tuning that changes no
  result; statistics, timings.
- `report.cpp`: it formats the events and statistics of a finished run and keeps
  no state. The command line, the repetitions and the output of the benchmark.
- What a process does after a release through an executor that is gone, beyond the
  outcomes `BackendLifecycle` enumerates: it is undefined.
- Failures of the driver in clean-up: `raw_free` does nothing when `cudaSetDevice`
  fails, while the account goes down (`cuda_executor.cu:39`), and a timer whose
  start cannot be recorded keeps its stop event (`cuda_lu.cu:79`).
- The residual's norm, and the fill estimates that choose between the two
  symbolic algorithms (the choice is free in `SymbolicLU`).
- The symmetry flag copied into a candidate region, which nothing reads yet.

## 6. What is left

- Composition by theorem. That the components fit is proved on both sides of an
  interface, and not across it: `FactorFitsThePlan` delivers what `IsFactor` of
  `AnalysisPlan` takes, and `ScheduleIsAPermutation` with the two theorems on levels what
  `ScheduleAssumption` of `PersistentSolve` takes, but no module holds both components.
- The three hazards without a property, each with its reason in `PROJECT.json`: the
  GPU's memory order behind a volatile read, a workspace pool above its quarter
  (`WorkspacesFitAQuarter` says when), and the reference's `solve` after a
  factorization that threw, which shows what `cuda_solve_guard` shows.
- Numbers. Values are abstracted everywhere but in `MatrixInput`, and there they are
  integers: no theorem says anything of rounding.
