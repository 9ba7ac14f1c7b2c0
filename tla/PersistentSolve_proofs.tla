------------------------ MODULE PersistentSolve_proofs ------------------------
(***************************************************************************)
(* Proofs about PersistentSolve for every pattern, schedule, grid and      *)
(* capacity: the invariants TLC checks on an instance, by an inductive     *)
(* strengthening, and the refinement of TriangularSolve.                   *)
(***************************************************************************)
EXTENDS PersistentSolve, FiniteSetTheorems, TLAPS

\* The types the argument needs; the bound on the counter is CounterBound.
Typed ==
    /\ request \in 0 .. MaxSolves
    /\ backward \in BOOLEAN
    /\ stage \in {"idle", "queue", "flags", "launch", "running"}
    /\ nextTask \in Nat
    /\ rowReady \in [Rows -> {0, 1}]
    /\ intermediate \in [Rows -> 0 .. MaxSolves]
    /\ solution \in [Rows -> 0 .. MaxSolves]
    /\ residency \in [Blocks -> {"queued", "resident", "retired"}]
    /\ pc \in [Warps -> {"claim", "gather", "fence", "publish", "exited"}]
    /\ task \in [Warps -> Nat]
    /\ unread \in [Warps -> SUBSET Rows]
    /\ partial \in [Warps -> SUBSET Rows]
    /\ buffer \in [Warps -> SUBSET (Rows \X (0 .. MaxSolves))]

Exited == {w \in Warps : pc[w] = "exited"}

\* Only a warp that leaves can have pushed the counter past the dimension.
CounterBound == nextTask <= Dimension + Cardinality(Exited)

\* Outside a launch no warp runs and no store is pending; a warp leaves only
\* when every task has been handed out, a retired block has no warp left, and
\* only a warp at its fence has a store in flight.
Quiescence ==
    /\ stage # "running" => \A w \in Warps : pc[w] = "exited"
    /\ \A b \in Blocks : residency[b] = "retired" =>
           \A i \in 1 .. WarpsPerBlock : pc[<<b, i>>] = "exited"
    /\ \A w \in Warps : pc[w] # "fence" => buffer[w] = {}
    /\ stage = "running" /\ (\E w \in Warps : pc[w] = "exited") => nextTask >= Dimension

\* The launch finds the counter at zero and every flag down.
Reset ==
    /\ stage \in {"flags", "launch"} => nextTask = 0
    /\ stage = "launch" => \A r \in Rows : rowReady[r] = 0
    /\ stage = "idle" => backward = FALSE
    /\ stage # "idle" => request > 0
    /\ backward => \A r \in Rows : intermediate[r] = request

\* Tasks below the counter are held by one warp or published, others untouched.
Ownership ==
    stage = "running" =>
        /\ \A w \in Warps : Working(w) => task[w] < nextTask /\ task[w] < Dimension
        /\ \A v, w \in Warps :
               Working(v) /\ Working(w) /\ v # w => task[v] # task[w]
        /\ \A w \in Warps : Working(w) => rowReady[RowOf(w)] = 0
        /\ \A i \in Rows : rowReady[Schedule[i]] = 1 => i < nextTask
        /\ \A i \in Rows : i < nextTask =>
               \/ rowReady[Schedule[i]] = 1
               \/ \E w \in Warps : Working(w) /\ task[w] = i

\* What a warp has read is of this request, and so is what it stores.
ProgressOf(w) ==
    /\ pc[w] = "gather" =>
           /\ unread[w] \subseteq Deps(RowOf(w))
           /\ partial[w] = Deps(RowOf(w)) \ unread[w]
           /\ \A d \in partial[w] : rowReady[d] = 1
    /\ pc[w] = "fence" =>
           /\ \A d \in Deps(RowOf(w)) : rowReady[d] = 1
           /\ buffer[w] \subseteq {<<RowOf(w), request>>}
           /\ buffer[w] = {} => Output[RowOf(w)] = request
    /\ pc[w] = "publish" => Output[RowOf(w)] = request

Progress == stage = "running" => \A w \in Warps : ProgressOf(w)

IInv ==
    /\ Typed
    /\ CounterBound
    /\ Quiescence
    /\ Reset
    /\ Ownership
    /\ Progress
    /\ PublishedIsVisible
    /\ SolutionIsCurrent

-----------------------------------------------------------------------------
\* The schedule of the current pass is topological for the dependencies of the
\* current pass.
LEMMA ScheduleFacts ==
    ASSUME backward \in BOOLEAN
    PROVE  /\ Schedule \in [Rows -> Rows]
           /\ \A r \in Rows : \E i \in Rows : Schedule[i] = r
           /\ \A i, j \in Rows : Schedule[i] = Schedule[j] => i = j
           /\ \A i, j \in Rows : Schedule[j] \in Deps(Schedule[i]) => j < i
           /\ \A r \in Rows : Deps(r) \subseteq Rows
BY ScheduleAssumption DEF IsTopological, Schedule, Deps

\* A working warp holds a row of the matrix.
LEMMA HeldRow ==
    ASSUME Typed, Ownership, stage = "running", NEW w \in Warps, Working(w)
    PROVE  task[w] \in Rows /\ RowOf(w) \in Rows
<1>1. task[w] \in Rows
  BY SizeAssumption DEF Typed, Ownership, Rows
<1>2. Schedule \in [Rows -> Rows]
  BY ScheduleFacts DEF Typed
<1>3. QED
  BY <1>1, <1>2 DEF RowOf

\* The grid has finitely many warps.
LEMMA FiniteWarps == IsFiniteSet(Warps)
<1>1. PersistentBlocks \in Int
  BY SizeAssumption DEF PersistentBlocks
<1>2. IsFiniteSet(Blocks) /\ IsFiniteSet(1 .. WarpsPerBlock)
  BY <1>1, SizeAssumption, FS_Interval DEF Blocks
<1>3. QED
  BY <1>2, FS_Product DEF Warps

\* The number of exited warps is a natural number no larger than the grid.
LEMMA ExitedCount ==
    Cardinality(Exited) \in Nat /\ Cardinality(Exited) <= Cardinality(Warps)
<1>1. Exited \subseteq Warps
  BY DEF Exited
<1>2. QED
  BY <1>1, FiniteWarps, FS_Subset, FS_CardinalityType

LEMMA InitInv == Init => IInv
<1> SUFFICES ASSUME Init PROVE IInv
  OBVIOUS
<1>1. Typed
  <2>1. request \in 0 .. MaxSolves /\ nextTask \in Nat /\ 0 \in 0 .. MaxSolves
    BY SizeAssumption DEF Init
  <2>2. /\ backward \in BOOLEAN
        /\ stage \in {"idle", "queue", "flags", "launch", "running"}
    BY DEF Init
  <2>3. QED
    BY <2>1, <2>2 DEF Init, Typed
<1>2. CounterBound
  BY ExitedCount, SizeAssumption DEF Init, CounterBound
<1>3. Quiescence /\ Reset /\ Ownership /\ Progress /\ PublishedIsVisible /\ SolutionIsCurrent
  BY DEF Init, Quiescence, Reset, Ownership, Progress, PublishedIsVisible, SolutionIsCurrent,
         Blocks, Warps
<1>4. QED
  BY <1>1, <1>2, <1>3 DEF IInv


-----------------------------------------------------------------------------
\* The steps of the host: no warp runs before or after any of them but Launch.
LEMMA UploadInv == IInv /\ UploadRightHandSide => IInv'
<1> SUFFICES ASSUME IInv, UploadRightHandSide PROVE IInv'
  OBVIOUS
<1>1. Typed'
  <2>1. request' \in 0 .. MaxSolves
    BY SizeAssumption DEF IInv, Typed, UploadRightHandSide
  <2>2. backward' \in BOOLEAN /\ stage' \in {"idle", "queue", "flags", "launch", "running"}
    BY DEF UploadRightHandSide
  <2>3. QED
    BY <2>1, <2>2 DEF IInv, Typed, UploadRightHandSide, memory, kernel
<1>2. CounterBound' /\ Quiescence' /\ Reset'
  BY DEF IInv, Typed, CounterBound, Exited, Quiescence, Reset, UploadRightHandSide,
         memory, kernel
<1>3. Ownership' /\ Progress' /\ PublishedIsVisible' /\ SolutionIsCurrent'
  BY DEF UploadRightHandSide, Ownership, Progress, PublishedIsVisible, SolutionIsCurrent
<1>4. QED
  BY <1>1, <1>2, <1>3 DEF IInv

LEMMA ResetQueueInv == IInv /\ ResetQueue => IInv'
<1> SUFFICES ASSUME IInv, ResetQueue PROVE IInv'
  OBVIOUS
<1>1. Typed'
  BY DEF IInv, Typed, ResetQueue, memory, kernel
<1>2. CounterBound'
  BY ExitedCount, SizeAssumption DEF CounterBound, Exited, ResetQueue, kernel
<1>3. Quiescence' /\ Reset'
  BY DEF IInv, Quiescence, Reset, ResetQueue, memory, kernel
<1>4. Ownership' /\ Progress' /\ PublishedIsVisible' /\ SolutionIsCurrent'
  BY DEF ResetQueue, Ownership, Progress, PublishedIsVisible, SolutionIsCurrent
<1>5. QED
  BY <1>1, <1>2, <1>3, <1>4 DEF IInv

LEMMA ResetFlagsInv == IInv /\ ResetFlags => IInv'
<1> SUFFICES ASSUME IInv, ResetFlags PROVE IInv'
  OBVIOUS
<1>1. Typed'
  BY DEF IInv, Typed, ResetFlags, memory, kernel
<1>2. CounterBound' /\ Quiescence' /\ Reset'
  BY DEF IInv, CounterBound, Exited, Quiescence, Reset, ResetFlags, memory, kernel
<1>3. Ownership' /\ Progress' /\ PublishedIsVisible' /\ SolutionIsCurrent'
  BY DEF ResetFlags, Ownership, Progress, PublishedIsVisible, SolutionIsCurrent
<1>4. QED
  BY <1>1, <1>2, <1>3 DEF IInv

\* The launch starts with every task untaken and every flag down.
LEMMA LaunchInv == IInv /\ Launch => IInv'
<1> SUFFICES ASSUME IInv, Launch PROVE IInv'
  OBVIOUS
<1>1. Typed'
  BY DEF IInv, Typed, Launch, memory
<1>2. CounterBound'
  <2>1. nextTask' = 0
    BY DEF IInv, Reset, Launch
  <2>2. Cardinality(Exited') \in Nat
    <3>1. Exited' \subseteq Warps
      BY DEF Exited
    <3>2. QED
      BY <3>1, FiniteWarps, FS_Subset, FS_CardinalityType
  <2>3. QED
    BY <2>1, <2>2, SizeAssumption DEF CounterBound
<1>3. Quiescence' /\ Reset'
  <2>1. \A w \in Warps : pc'[w] = "claim" /\ buffer'[w] = {}
    BY DEF IInv, Quiescence, Launch
  <2>2. \A b \in Blocks : residency'[b] = "queued"
    BY DEF Launch
  <2>3. QED
    BY <2>1, <2>2 DEF IInv, Quiescence, Reset, Launch, memory
<1>4. \A w \in Warps : ~(Working(w)')
  BY DEF Launch, Working
<1>5. \A r \in Rows : rowReady'[r] = 0
  BY DEF IInv, Reset, Launch
<1>6. Ownership'
  <2>1. Schedule' = Schedule /\ Schedule \in [Rows -> Rows] /\ nextTask' = 0
    BY ScheduleFacts DEF IInv, Typed, Reset, Schedule, Launch
  <2>2. \A i \in Rows : i >= 0 /\ rowReady'[Schedule'[i]] = 0
    BY <1>5, <2>1 DEF Rows
  <2>3. QED
    BY <1>4, <2>1, <2>2 DEF Ownership, Rows
<1>7. Progress'
  BY <1>4 DEF Progress, ProgressOf, Working
<1>8. PublishedIsVisible' /\ SolutionIsCurrent'
  BY <1>5 DEF PublishedIsVisible, SolutionIsCurrent, Launch
<1>9. QED
  BY <1>1, <1>2, <1>3, <1>6, <1>7, <1>8 DEF IInv

\* The kernel has ended: every row is published, hence in memory.
LEMMA KernelDone ==
    ASSUME IInv, stage = "running", \A b \in Blocks : residency[b] = "retired"
    PROVE  /\ \A w \in Warps : pc[w] = "exited"
           /\ \A r \in Rows : rowReady[r] = 1 /\ Output[r] = request
<1>1. \A w \in Warps : pc[w] = "exited"
  BY DEF IInv, Quiescence, Warps
<1>2. \E w \in Warps : TRUE
  <2>1. PersistentBlocks >= 1
    BY SizeAssumption DEF PersistentBlocks
  <2>2. PersistentBlocks \in Int
    BY SizeAssumption DEF PersistentBlocks
  <2>3. <<1, 1>> \in Warps
    BY <2>1, <2>2, SizeAssumption DEF Warps, Blocks
  <2>4. QED
    BY <2>3
<1>3. nextTask >= Dimension
  BY <1>1, <1>2 DEF IInv, Quiescence
<1>4. \A r \in Rows : rowReady[r] = 1
  <2> TAKE r \in Rows
  <2>1. PICK i \in Rows : Schedule[i] = r
    BY ScheduleFacts DEF IInv, Typed
  <2>2. i < nextTask
    BY <1>3, SizeAssumption DEF Rows, IInv, Typed
  <2>3. \A w \in Warps : ~Working(w)
    BY <1>1 DEF Working
  <2>4. QED
    BY <2>1, <2>2, <2>3 DEF IInv, Ownership
<1>5. QED
  BY <1>1, <1>4 DEF IInv, PublishedIsVisible

LEMMA SynchronizeInv == IInv /\ Synchronize => IInv'
<1> SUFFICES ASSUME IInv, Synchronize PROVE IInv'
  OBVIOUS
<1>1. /\ \A w \in Warps : pc[w] = "exited"
      /\ \A r \in Rows : Output[r] = request
  BY KernelDone DEF Synchronize
<1>2. Typed'
  BY DEF IInv, Typed, Synchronize, memory, kernel
<1>3. CounterBound'
  BY DEF IInv, CounterBound, Exited, Synchronize, kernel
<1>4. Quiescence'
  BY <1>1 DEF IInv, Quiescence, Synchronize, kernel
<1>5. Reset' /\ SolutionIsCurrent'
  BY <1>1 DEF IInv, Typed, Reset, SolutionIsCurrent, Output, Synchronize, memory
<1>6. Ownership' /\ Progress' /\ PublishedIsVisible'
  BY DEF IInv, Typed, Synchronize, Ownership, Progress, PublishedIsVisible
<1>7. QED
  BY <1>2, <1>3, <1>4, <1>5, <1>6 DEF IInv


-----------------------------------------------------------------------------
\* Starting and retiring a block moves no warp.
LEMMA DeviceInv == ASSUME NEW b \in Blocks PROVE IInv /\ Device(b) => IInv'
<1> SUFFICES ASSUME IInv, Device(b) PROVE IInv'
  OBVIOUS
<1>1. UNCHANGED <<host, nextTask, rowReady, memory, pc, task, unread, partial, buffer>>
  BY DEF Device, Dispatch, Retire
<1>2. Typed'
  <2>1. residency' \in [Blocks -> {"queued", "resident", "retired"}]
    BY DEF IInv, Typed, Device, Dispatch, Retire
  <2>2. QED
    BY <1>1, <2>1 DEF IInv, Typed, host, memory
<1>3. CounterBound' /\ Reset' /\ Ownership' /\ Progress' /\ PublishedIsVisible'
      /\ SolutionIsCurrent'
  BY <1>1 DEF IInv, CounterBound, Exited, Reset, Ownership, Progress, ProgressOf,
              PublishedIsVisible, SolutionIsCurrent, Working, RowOf, Schedule, Deps, Output,
              host, memory
<1>4. Quiescence'
  <2>1. \A c \in Blocks : residency'[c] = "retired" =>
            \A i \in 1 .. WarpsPerBlock : pc[<<c, i>>] = "exited"
    <3>1. CASE Dispatch(b)
      BY <3>1 DEF IInv, Typed, Quiescence, Dispatch
    <3>2. CASE Retire(b)
      BY <3>2 DEF IInv, Typed, Quiescence, Retire
    <3>3. QED
      BY <3>1, <3>2 DEF Device
  <2>2. QED
    BY <1>1, <2>1 DEF IInv, Quiescence, host
<1>5. QED
  BY <1>2, <1>3, <1>4 DEF IInv

\* Facts common to the steps of a warp: the pass, and with it the schedule, the
\* dependencies and the roles of the two vectors, stays what it is.
LEMMA SamePass ==
    ASSUME UNCHANGED host
    PROVE  /\ Schedule' = Schedule
           /\ \A r : Deps(r)' = Deps(r)
           /\ request' = request /\ stage' = stage /\ backward' = backward
BY DEF host, Schedule, Deps

\* A warp that is not outside the kernel runs in a launch, in a resident block.
LEMMA WarpRuns ==
    ASSUME IInv, NEW w \in Warps, pc[w] # "exited"
    PROVE  stage = "running" /\ residency[w[1]] # "retired"
BY DEF IInv, Quiescence, Warps

\* The number of exited warps grows by the warp that leaves.
LEMMA ClaimCounter == ASSUME IInv, NEW w \in Warps, Claim(w) PROVE CounterBound'
<1>1. CASE nextTask < Dimension
  <2>1. pc' = [pc EXCEPT ![w] = "gather"] /\ pc[w] = "claim"
    BY <1>1, SizeAssumption DEF Claim, IInv, Typed
  <2>2. Exited' = Exited
    BY <2>1 DEF Exited, IInv, Typed
  <2>3. nextTask' = nextTask + 1
    BY DEF Claim
  <2>4. QED
    BY <1>1, <2>2, <2>3, ExitedCount, SizeAssumption DEF CounterBound, IInv, Typed
<1>2. CASE ~(nextTask < Dimension)
  <2>1. pc' = [pc EXCEPT ![w] = "exited"] /\ pc[w] = "claim"
    BY <1>2, SizeAssumption DEF Claim, IInv, Typed
  <2>2. Exited' = Exited \cup {w} /\ w \notin Exited
    BY <2>1 DEF Exited, IInv, Typed
  <2>3. IsFiniteSet(Exited)
    BY FiniteWarps, FS_Subset DEF Exited
  <2>4. Cardinality(Exited') = Cardinality(Exited) + 1
    BY <2>2, <2>3, FS_AddElement
  <2>5. nextTask' = nextTask + 1
    BY DEF Claim
  <2>6. QED
    BY <2>4, <2>5, ExitedCount, SizeAssumption DEF CounterBound, IInv, Typed
<1>3. QED
  BY <1>1, <1>2

\* A claimed task is one nobody holds and nobody has published.
LEMMA ClaimInv == ASSUME NEW w \in Warps PROVE IInv /\ Claim(w) => IInv'
<1> SUFFICES ASSUME IInv, Claim(w) PROVE IInv'
  OBVIOUS
<1>1. /\ UNCHANGED <<host, rowReady, memory, residency, buffer>>
      /\ pc[w] = "claim" /\ stage = "running" /\ residency[w[1]] # "retired"
      /\ nextTask' = nextTask + 1 /\ nextTask \in Nat
      /\ task' = [task EXCEPT ![w] = nextTask]
  BY WarpRuns DEF Claim, IInv, Typed
<1>2. /\ Schedule' = Schedule /\ \A r : Deps(r)' = Deps(r)
      /\ request' = request /\ stage' = stage /\ backward' = backward
  BY <1>1, SamePass
<1>3. \A v \in Warps : v # w => /\ pc'[v] = pc[v] /\ task'[v] = task[v]
                                /\ unread'[v] = unread[v] /\ partial'[v] = partial[v]
  BY <1>1, SizeAssumption DEF Claim, IInv, Typed
<1>4. \A v \in Warps : v # w => (Working(v)' <=> Working(v)) /\ RowOf(v)' = RowOf(v)
  BY <1>2, <1>3 DEF Working, RowOf
<1>5. /\ Reset' /\ PublishedIsVisible' /\ SolutionIsCurrent'
  BY <1>1, <1>2 DEF IInv, Reset, PublishedIsVisible, SolutionIsCurrent, Output, memory
<1>6. Output' = Output
  BY <1>1, <1>2 DEF Output, memory
<1>7. CASE nextTask < Dimension
  <2>1. /\ pc' = [pc EXCEPT ![w] = "gather"]
        /\ unread' = [unread EXCEPT ![w] = Deps(Schedule[nextTask])]
        /\ partial' = [partial EXCEPT ![w] = {}]
        /\ nextTask \in Rows
    BY <1>1, <1>7, SizeAssumption DEF Claim, Rows
  <2>2. /\ Schedule[nextTask] \in Rows /\ Deps(Schedule[nextTask]) \subseteq Rows
    BY <2>1, ScheduleFacts DEF IInv, Typed
  <2>3. Typed'
    BY <1>1, <1>2, <2>1, <2>2 DEF IInv, Typed, host, memory
  <2>4. pc'[w] = "gather" /\ task'[w] = nextTask /\ Working(w)'
        /\ unread'[w] = Deps(Schedule[nextTask]) /\ partial'[w] = {}
    BY <1>1, <2>1 DEF IInv, Typed, Working
  <2>5. RowOf(w)' = Schedule[nextTask]
    BY <1>2, <2>4 DEF RowOf
  <2>6. Quiescence'
    BY <1>1, <1>2, <1>3, <1>7, <2>4, SizeAssumption DEF IInv, Quiescence, Warps
  <2>7. Ownership'
    <3>1. \A v \in Warps : Working(v)' => task'[v] < nextTask' /\ task'[v] < Dimension
      BY <1>1, <1>3, <1>4, <1>7, <2>4 DEF IInv, Typed, Ownership
    <3>2. \A u, v \in Warps : Working(u)' /\ Working(v)' /\ u # v => task'[u] # task'[v]
      <4> SUFFICES ASSUME NEW u \in Warps, NEW v \in Warps, Working(u)', Working(v)', u # v
                   PROVE  task'[u] # task'[v]
        OBVIOUS
      <4>1. CASE u # w /\ v # w
        BY <4>1, <1>1, <1>3, <1>4 DEF IInv, Ownership
      <4>2. CASE u = w
        BY <4>2, <1>1, <1>3, <1>4, <2>4 DEF IInv, Typed, Ownership
      <4>3. CASE v = w
        BY <4>3, <1>1, <1>3, <1>4, <2>4 DEF IInv, Typed, Ownership
      <4>4. QED
        BY <4>1, <4>2, <4>3
    <3>3. \A v \in Warps : Working(v)' => rowReady'[RowOf(v)'] = 0
      <4> SUFFICES ASSUME NEW v \in Warps, Working(v)' PROVE rowReady'[RowOf(v)'] = 0
        OBVIOUS
      <4>1. CASE v # w
        BY <4>1, <1>1, <1>4 DEF IInv, Ownership
      <4>2. CASE v = w
        <5>1. rowReady[Schedule[nextTask]] # 1
          BY <1>1, <2>1 DEF IInv, Ownership
        <5>2. rowReady[Schedule[nextTask]] = 0
          BY <5>1, <2>2 DEF IInv, Typed
        <5>3. QED
          BY <4>2, <5>2, <1>1, <2>5
      <4>3. QED
        BY <4>1, <4>2
    <3>4. \A i \in Rows : rowReady'[Schedule'[i]] = 1 => i < nextTask'
      BY <1>1, <1>2 DEF IInv, Ownership, Rows
    <3>5. \A i \in Rows : i < nextTask' =>
               rowReady'[Schedule'[i]] = 1 \/ \E v \in Warps : Working(v)' /\ task'[v] = i
      <4> SUFFICES ASSUME NEW i \in Rows, i < nextTask', rowReady'[Schedule'[i]] # 1
                   PROVE  \E v \in Warps : Working(v)' /\ task'[v] = i
        OBVIOUS
      <4>1. CASE i = nextTask
        BY <4>1, <2>4
      <4>2. CASE i < nextTask
        <5>1. PICK v \in Warps : Working(v) /\ task[v] = i
          BY <4>2, <1>1, <1>2 DEF IInv, Ownership
        <5>2. v # w
          BY <5>1, <1>1 DEF Working
        <5>3. QED
          BY <5>1, <5>2, <1>3, <1>4
      <4>3. QED
        BY <4>1, <4>2, <1>1 DEF Rows
    <3>6. QED
      BY <3>1, <3>2, <3>3, <3>4, <3>5 DEF Ownership
  <2>8. Progress'
    <3> SUFFICES ASSUME NEW v \in Warps
                 PROVE  ProgressOf(v)'
      BY DEF Progress
    <3>1. CASE v # w
      <4>1. Deps(RowOf(v))' = Deps(RowOf(v))
        BY <3>1, <1>2, <1>4 DEF Deps
      <4>2. QED
        BY <3>1, <4>1, <1>1, <1>2, <1>3, <1>4, <1>6 DEF IInv, Progress, ProgressOf
    <3>2. CASE v = w
      <4>1. Deps(RowOf(w))' = Deps(Schedule[nextTask])
        BY <2>5, <1>2 DEF Deps
      <4>2. QED
        BY <3>2, <4>1, <2>4 DEF ProgressOf
    <3>3. QED
      BY <3>1, <3>2
  <2>9. QED
    BY <1>5, <2>3, ClaimCounter, <2>6, <2>7, <2>8 DEF IInv
<1>8. CASE ~(nextTask < Dimension)
  <2>1. /\ pc' = [pc EXCEPT ![w] = "exited"] /\ unread' = unread /\ partial' = partial
        /\ nextTask >= Dimension
    BY <1>1, <1>8, SizeAssumption DEF Claim
  <2>2. Typed'
    BY <1>1, <1>2, <2>1 DEF IInv, Typed, host, memory
  <2>3. pc'[w] = "exited" /\ ~(Working(w)')
    BY <2>1 DEF IInv, Typed, Working
  <2>4. Quiescence'
    BY <1>1, <1>2, <1>3, <2>1, <2>3, SizeAssumption DEF IInv, Quiescence, Warps
  <2>5. Ownership'
    <3>1. \A v \in Warps : Working(v)' => v # w /\ Working(v) /\ task'[v] = task[v]
                                          /\ RowOf(v)' = RowOf(v)
      BY <1>3, <1>4, <2>3
    <3>2. \A v \in Warps : Working(v) => v # w
      BY <1>1 DEF Working
    <3>3. \A v \in Warps : Working(v)' => task'[v] < nextTask' /\ task'[v] < Dimension
      BY <3>1, <1>1 DEF IInv, Typed, Ownership
    <3>4. \A i \in Rows : i < nextTask' => i < nextTask
      BY <2>1, <1>1, SizeAssumption DEF Rows
    <3>5. \A i \in Rows : i < nextTask' =>
               rowReady'[Schedule'[i]] = 1 \/ \E v \in Warps : Working(v)' /\ task'[v] = i
      <4> SUFFICES ASSUME NEW i \in Rows, i < nextTask', rowReady'[Schedule'[i]] # 1
                   PROVE  \E v \in Warps : Working(v)' /\ task'[v] = i
        OBVIOUS
      <4>1. PICK v \in Warps : Working(v) /\ task[v] = i
        BY <3>4, <1>1, <1>2 DEF IInv, Ownership
      <4>2. QED
        BY <4>1, <3>2, <1>3, <1>4
    <3>6. \A i \in Rows : rowReady'[Schedule'[i]] = 1 => i < nextTask'
      BY <1>1, <1>2 DEF IInv, Ownership, Rows
    <3>7. QED
      BY <3>1, <3>3, <3>5, <3>6, <1>1 DEF IInv, Ownership
  <2>6. Progress'
    <3> SUFFICES ASSUME NEW v \in Warps, v # w
                 PROVE  ProgressOf(v)'
      BY <2>3 DEF Progress, ProgressOf
    <3>1. Deps(RowOf(v))' = Deps(RowOf(v))
      BY <1>2, <1>4 DEF Deps
    <3>2. QED
      BY <3>1, <1>1, <1>2, <1>3, <1>4, <1>6 DEF IInv, Progress, ProgressOf
  <2>7. QED
    BY <1>5, <2>2, ClaimCounter, <2>4, <2>5, <2>6 DEF IInv
<1>9. QED
  BY <1>7, <1>8


-----------------------------------------------------------------------------
\* A step of a warp that leaves the program counters, the tasks and the flags
\* alone keeps Ownership and the counter's bound.
LEMMA SameOwnership ==
    ASSUME IInv, UNCHANGED <<host, nextTask, rowReady, task, residency>>,
           \A v \in Warps : Working(v)' <=> Working(v)
    PROVE  Ownership' /\ \A v \in Warps : RowOf(v)' = RowOf(v) /\ Deps(RowOf(v))' = Deps(RowOf(v))
<1>1. /\ Schedule' = Schedule /\ \A r : Deps(r)' = Deps(r)
      /\ request' = request /\ stage' = stage /\ backward' = backward
  BY SamePass
<1>2. \A v \in Warps : RowOf(v)' = RowOf(v) /\ Deps(RowOf(v))' = Deps(RowOf(v))
  BY <1>1 DEF RowOf, Deps
<1>3. QED
  BY <1>1, <1>2 DEF IInv, Ownership

\* A raised flag vouches for the value that is read behind it.
LEMMA GatherInv == ASSUME NEW w \in Warps, NEW d \in Rows PROVE IInv /\ Gather(w, d) => IInv'
<1> SUFFICES ASSUME IInv, Gather(w, d) PROVE IInv'
  OBVIOUS
<1>1. /\ UNCHANGED <<host, nextTask, rowReady, memory, residency, pc, task, buffer>>
      /\ pc[w] = "gather" /\ stage = "running"
      /\ unread' = [unread EXCEPT ![w] = @ \ {d}] /\ d \in unread[w] /\ rowReady[d] = 1
  BY WarpRuns DEF Gather
<1>2. partial' = [partial EXCEPT ![w] = @ \cup {d}]
  BY <1>1 DEF Gather, IInv, PublishedIsVisible
<1>3. Typed'
  BY <1>1, <1>2 DEF IInv, Typed, host, memory
<1>4. /\ CounterBound' /\ Quiescence' /\ Reset' /\ PublishedIsVisible' /\ SolutionIsCurrent'
  BY <1>1 DEF IInv, CounterBound, Exited, Quiescence, Reset, PublishedIsVisible,
              SolutionIsCurrent, Output, host, memory
<1>5. \A v \in Warps : Working(v)' <=> Working(v)
  BY <1>1 DEF Working
<1>6. Ownership' /\ \A v \in Warps : RowOf(v)' = RowOf(v) /\ Deps(RowOf(v))' = Deps(RowOf(v))
  BY <1>1, <1>5, SameOwnership
<1>7. Progress'
  <2>1. \A v \in Warps : ProgressOf(v)
    BY <1>1 DEF IInv, Progress
  <2>2. Output' = Output /\ request' = request /\ stage' = stage
    BY <1>1 DEF Output, host, memory
  <2>3. \A v \in Warps : v # w => ProgressOf(v)'
    BY <1>1, <1>2, <1>6, <2>1, <2>2 DEF ProgressOf, IInv, Typed
  <2>4. ProgressOf(w)'
    <3>1. unread'[w] = unread[w] \ {d} /\ partial'[w] = partial[w] \cup {d} /\ pc'[w] = "gather"
      BY <1>1, <1>2 DEF IInv, Typed
    <3>2. QED
      BY <3>1, <1>1, <1>6, <2>1 DEF ProgressOf
  <2>5. QED
    BY <2>3, <2>4 DEF Progress
<1>8. QED
  BY <1>3, <1>4, <1>6, <1>7 DEF IInv

\* A row is stored only from values of this request.
LEMMA StoreInv == ASSUME NEW w \in Warps PROVE IInv /\ Store(w) => IInv'
<1> SUFFICES ASSUME IInv, Store(w) PROVE IInv'
  OBVIOUS
<1>1. /\ UNCHANGED <<host, nextTask, rowReady, memory, residency, task, unread, partial>>
      /\ pc[w] = "gather" /\ stage = "running" /\ unread[w] = {}
      /\ pc' = [pc EXCEPT ![w] = "fence"]
  BY WarpRuns DEF Store
<1>2. RowOf(w) \in Rows
  BY <1>1, HeldRow DEF IInv, Working
<1>3. \A v \in Warps : ProgressOf(v)
  BY <1>1 DEF IInv, Progress
<1>4. partial[w] = Deps(RowOf(w)) /\ \A d \in Deps(RowOf(w)) : rowReady[d] = 1
  BY <1>1, <1>3 DEF ProgressOf
<1>5. Input(RowOf(w)) = request
  BY <1>2 DEF Input, IInv, Reset
<1>6. RowValue(w) = request
  BY <1>4, <1>5 DEF RowValue
<1>7. buffer' = [buffer EXCEPT ![w] = {<<RowOf(w), request>>}]
  BY <1>1, <1>6 DEF Store, IInv, Quiescence, Typed
<1>8. Typed'
  <2>1. {<<RowOf(w), request>>} \in SUBSET (Rows \X (0 .. MaxSolves))
    BY <1>2 DEF IInv, Typed
  <2>2. buffer' \in [Warps -> SUBSET (Rows \X (0 .. MaxSolves))]
    BY <1>7, <2>1 DEF IInv, Typed
  <2>3. QED
    BY <1>1, <2>2 DEF IInv, Typed, host, memory
<1>9. pc'[w] = "fence" /\ \A v \in Warps : v # w => pc'[v] = pc[v] /\ buffer'[v] = buffer[v]
  BY <1>1, <1>7 DEF IInv, Typed
<1>10. CounterBound'
  <2>1. Exited' = Exited
    BY <1>1, <1>9 DEF Exited
  <2>2. QED
    BY <1>1, <2>1 DEF IInv, CounterBound
<1>11. Quiescence'
  <2>1. residency[w[1]] # "retired"
    BY <1>1, WarpRuns
  <2>2. QED
    BY <1>1, <1>9, <2>1 DEF IInv, Quiescence, host, Warps
<1>12. Reset' /\ PublishedIsVisible' /\ SolutionIsCurrent'
  BY <1>1 DEF IInv, Reset, PublishedIsVisible, SolutionIsCurrent, Output, host, memory
<1>13. \A v \in Warps : Working(v)' <=> Working(v)
  BY <1>1, <1>9 DEF Working
<1>14. Ownership' /\ \A v \in Warps : RowOf(v)' = RowOf(v) /\ Deps(RowOf(v))' = Deps(RowOf(v))
  BY <1>1, <1>13, SameOwnership
<1>15. Progress'
  <2>1. Output' = Output /\ request' = request /\ stage' = stage
    BY <1>1 DEF Output, host, memory
  <2>2. \A v \in Warps : v # w => ProgressOf(v)'
    BY <1>1, <1>3, <1>9, <1>14, <2>1 DEF ProgressOf
  <2>3. ProgressOf(w)'
    <3>1. buffer'[w] = {<<RowOf(w), request>>}
      BY <1>7 DEF IInv, Typed
    <3>2. QED
      BY <3>1, <1>1, <1>4, <1>9, <1>14, <2>1 DEF ProgressOf
  <2>4. QED
    BY <2>2, <2>3 DEF Progress
<1>16. QED
  BY <1>8, <1>10, <1>11, <1>12, <1>14, <1>15 DEF IInv


\* A store that reaches memory brings the row to this request's value and leaves
\* the other rows, and the other vector, alone.
LEMMA DrainedRow ==
    ASSUME IInv, NEW w \in Warps, Drain(w)
    PROVE  /\ UNCHANGED <<host, nextTask, rowReady, residency, pc, task, unread, partial>>
           /\ pc[w] = "fence" /\ stage = "running" /\ RowOf(w) \in Rows
           /\ buffer' = [buffer EXCEPT ![w] = {}]
           /\ IF backward
              THEN /\ solution' = [solution EXCEPT ![RowOf(w)] = request]
                   /\ intermediate' = intermediate
              ELSE /\ intermediate' = [intermediate EXCEPT ![RowOf(w)] = request]
                   /\ solution' = solution
<1>1. PICK s \in buffer[w] :
          /\ buffer' = [buffer EXCEPT ![w] = @ \ {s}]
          /\ IF backward
             THEN /\ solution' = [solution EXCEPT ![s[1]] = s[2]]
                  /\ UNCHANGED intermediate
             ELSE /\ intermediate' = [intermediate EXCEPT ![s[1]] = s[2]]
                  /\ UNCHANGED solution
          /\ UNCHANGED <<host, nextTask, rowReady, residency, pc, task, unread, partial>>
  BY DEF Drain
<1>2. pc[w] = "fence"
  BY <1>1 DEF IInv, Quiescence
<1>3. stage = "running"
  BY <1>2, WarpRuns
<1>4. RowOf(w) \in Rows
  BY <1>2, <1>3, HeldRow DEF IInv, Working
<1>5. buffer[w] \subseteq {<<RowOf(w), request>>}
  BY <1>2, <1>3 DEF IInv, Progress, ProgressOf
<1>6. s = <<RowOf(w), request>> /\ buffer[w] \ {s} = {}
  BY <1>1, <1>5
<1>7. s[1] = RowOf(w) /\ s[2] = request
  BY <1>6
<1>8. QED
  BY <1>1, <1>2, <1>3, <1>4, <1>6, <1>7

LEMMA DrainInv == ASSUME NEW w \in Warps PROVE IInv /\ Drain(w) => IInv'
<1> SUFFICES ASSUME IInv, Drain(w) PROVE IInv'
  OBVIOUS
<1>1. /\ UNCHANGED <<host, nextTask, rowReady, residency, pc, task, unread, partial>>
      /\ pc[w] = "fence" /\ stage = "running" /\ RowOf(w) \in Rows
      /\ buffer' = [buffer EXCEPT ![w] = {}]
      /\ IF backward
         THEN /\ solution' = [solution EXCEPT ![RowOf(w)] = request]
              /\ intermediate' = intermediate
         ELSE /\ intermediate' = [intermediate EXCEPT ![RowOf(w)] = request]
              /\ solution' = solution
  BY DrainedRow
<1>2. request' = request /\ backward' = backward /\ stage' = stage
  BY <1>1 DEF host
<1>3. /\ Output' = [Output EXCEPT ![RowOf(w)] = request]
      /\ Output \in [Rows -> 0 .. MaxSolves]
  BY <1>1, <1>2 DEF Output, IInv, Typed
<1>4. Typed'
  <2>1. solution' \in [Rows -> 0 .. MaxSolves] /\ intermediate' \in [Rows -> 0 .. MaxSolves]
    BY <1>1 DEF IInv, Typed
  <2>2. buffer' \in [Warps -> SUBSET (Rows \X (0 .. MaxSolves))]
    BY <1>1 DEF IInv, Typed
  <2>3. QED
    BY <1>1, <2>1, <2>2 DEF IInv, Typed, host
<1>5. CounterBound' /\ Quiescence'
  BY <1>1 DEF IInv, Typed, CounterBound, Exited, Quiescence, host
<1>6. Reset'
  BY <1>1, <1>2 DEF IInv, Typed, Reset
<1>7. PublishedIsVisible'
  BY <1>1, <1>2, <1>3 DEF IInv, PublishedIsVisible
<1>8. SolutionIsCurrent'
  BY <1>1, <1>2 DEF SolutionIsCurrent
<1>9. \A v \in Warps : Working(v)' <=> Working(v)
  BY <1>1 DEF Working
<1>10. Ownership' /\ \A v \in Warps : RowOf(v)' = RowOf(v) /\ Deps(RowOf(v))' = Deps(RowOf(v))
  BY <1>1, <1>9, SameOwnership
<1>11. Progress'
  <2>1. \A v \in Warps : ProgressOf(v)
    BY <1>1 DEF IInv, Progress
  <2>2. \A r \in Rows : Output[r] = request => Output'[r] = request
    BY <1>3
  <2>3. \A v \in Warps : v # w => ProgressOf(v)'
    <3> SUFFICES ASSUME NEW v \in Warps, v # w PROVE ProgressOf(v)'
      OBVIOUS
    <3>1. Working(v) => RowOf(v) \in Rows
      BY <1>1, HeldRow DEF IInv
    <3>2. buffer'[v] = buffer[v]
      BY <1>1 DEF IInv, Typed
    <3>3. QED
      BY <3>1, <3>2, <1>1, <1>2, <1>10, <2>1, <2>2 DEF ProgressOf, Working
  <2>4. ProgressOf(w)'
    <3>1. buffer'[w] = {} /\ Output'[RowOf(w)] = request
      BY <1>1, <1>3 DEF IInv, Typed
    <3>2. QED
      BY <3>1, <1>1, <1>2, <1>10, <2>1 DEF ProgressOf
  <2>5. QED
    BY <2>3, <2>4 DEF Progress
<1>12. QED
  BY <1>4, <1>5, <1>6, <1>7, <1>8, <1>10, <1>11 DEF IInv

\* Past the fence the row is in memory.
LEMMA FenceInv == ASSUME NEW w \in Warps PROVE IInv /\ Fence(w) => IInv'
<1> SUFFICES ASSUME IInv, Fence(w) PROVE IInv'
  OBVIOUS
<1>1. /\ UNCHANGED <<host, nextTask, rowReady, memory, residency, task, unread, partial, buffer>>
      /\ pc[w] = "fence" /\ stage = "running" /\ residency[w[1]] # "retired"
      /\ buffer[w] = {} /\ pc' = [pc EXCEPT ![w] = "publish"]
  BY WarpRuns DEF Fence
<1>2. pc'[w] = "publish" /\ \A v \in Warps : v # w => pc'[v] = pc[v]
  BY <1>1 DEF IInv, Typed
<1>3. Typed'
  BY <1>1 DEF IInv, Typed, host, memory
<1>4. CounterBound'
  <2>1. Exited' = Exited
    BY <1>1, <1>2 DEF Exited
  <2>2. QED
    BY <1>1, <2>1 DEF IInv, CounterBound
<1>5. Quiescence'
  BY <1>1, <1>2 DEF IInv, Quiescence, host, Warps
<1>6. Reset' /\ PublishedIsVisible' /\ SolutionIsCurrent'
  BY <1>1 DEF IInv, Reset, PublishedIsVisible, SolutionIsCurrent, Output, host, memory
<1>7. \A v \in Warps : Working(v)' <=> Working(v)
  BY <1>1, <1>2 DEF Working
<1>8. Ownership' /\ \A v \in Warps : RowOf(v)' = RowOf(v) /\ Deps(RowOf(v))' = Deps(RowOf(v))
  BY <1>1, <1>7, SameOwnership
<1>9. Progress'
  <2>1. Output' = Output /\ request' = request
    BY <1>1 DEF Output, host, memory
  <2>2. \A v \in Warps : ProgressOf(v)'
    BY <1>1, <1>2, <1>8, <2>1 DEF IInv, Progress, ProgressOf
  <2>3. QED
    BY <2>2 DEF Progress
<1>10. QED
  BY <1>3, <1>4, <1>5, <1>6, <1>8, <1>9 DEF IInv

\* The flag goes up on a row that is in memory.
LEMMA PublishInv == ASSUME NEW w \in Warps PROVE IInv /\ Publish(w) => IInv'
<1> SUFFICES ASSUME IInv, Publish(w) PROVE IInv'
  OBVIOUS
<1>1. /\ UNCHANGED <<host, nextTask, memory, residency, task, unread, partial, buffer>>
      /\ pc[w] = "publish" /\ stage = "running" /\ residency[w[1]] # "retired"
      /\ rowReady' = [rowReady EXCEPT ![RowOf(w)] = 1]
      /\ pc' = [pc EXCEPT ![w] = "claim"]
  BY WarpRuns DEF Publish
<1>2. pc'[w] = "claim" /\ \A v \in Warps : v # w => pc'[v] = pc[v]
  BY <1>1 DEF IInv, Typed
<1>3. /\ Schedule' = Schedule /\ \A r : Deps(r)' = Deps(r)
      /\ request' = request /\ stage' = stage /\ backward' = backward
  BY <1>1, SamePass
<1>4. task[w] \in Rows /\ RowOf(w) \in Rows /\ Working(w) /\ task[w] < nextTask
  BY <1>1, HeldRow DEF IInv, Working, Ownership
<1>5. rowReady'[RowOf(w)] = 1 /\ \A r \in Rows : r # RowOf(w) => rowReady'[r] = rowReady[r]
  BY <1>1, <1>4 DEF IInv, Typed
<1>6. \A v \in Warps : RowOf(v)' = RowOf(v) /\ Deps(RowOf(v))' = Deps(RowOf(v))
  BY <1>1, <1>3 DEF RowOf, Deps
<1>7. Typed'
  BY <1>1 DEF IInv, Typed, host, memory
<1>8. CounterBound'
  <2>1. Exited' = Exited
    BY <1>1, <1>2 DEF Exited
  <2>2. QED
    BY <1>1, <2>1 DEF IInv, CounterBound
<1>9. Quiescence'
  BY <1>1, <1>2 DEF IInv, Quiescence, host, Warps
<1>10. Reset' /\ SolutionIsCurrent'
  BY <1>1 DEF IInv, Reset, SolutionIsCurrent, host, memory
<1>11. Output' = Output /\ Output[RowOf(w)] = request
  BY <1>1 DEF IInv, Progress, ProgressOf, Output, host, memory
<1>12. PublishedIsVisible'
  BY <1>1, <1>3, <1>4, <1>5, <1>11 DEF IInv, PublishedIsVisible
<1>13. \A v \in Warps : Working(v)' <=> Working(v) /\ v # w
  BY <1>1, <1>2 DEF Working
<1>14. Ownership'
  <2>1. Schedule \in [Rows -> Rows] /\ \A i, j \in Rows : Schedule[i] = Schedule[j] => i = j
    BY ScheduleFacts DEF IInv, Typed
  <2>2. \A v \in Warps : Working(v)' => task'[v] < nextTask' /\ task'[v] < Dimension
    BY <1>1, <1>13 DEF IInv, Ownership
  <2>3. \A u, v \in Warps : Working(u)' /\ Working(v)' /\ u # v => task'[u] # task'[v]
    BY <1>1, <1>13 DEF IInv, Ownership
  <2>4. \A v \in Warps : Working(v)' => rowReady'[RowOf(v)'] = 0
    <3> SUFFICES ASSUME NEW v \in Warps, Working(v)' PROVE rowReady'[RowOf(v)'] = 0
      OBVIOUS
    <3>1. Working(v) /\ v # w
      BY <1>13
    <3>2. task[v] \in Rows /\ RowOf(v) \in Rows
      BY <3>1, <1>1, HeldRow DEF IInv
    <3>3. task[v] # task[w]
      BY <3>1, <1>1, <1>4 DEF IInv, Ownership
    <3>4. RowOf(v) # RowOf(w)
      BY <3>2, <3>3, <1>4, <2>1 DEF RowOf
    <3>5. rowReady[RowOf(v)] = 0
      BY <3>1, <1>1 DEF IInv, Ownership
    <3>6. QED
      BY <3>2, <3>4, <3>5, <1>5, <1>6
  <2>5. \A i \in Rows : rowReady'[Schedule'[i]] = 1 => i < nextTask'
    <3> SUFFICES ASSUME NEW i \in Rows, rowReady'[Schedule'[i]] = 1 PROVE i < nextTask'
      OBVIOUS
    <3>1. CASE Schedule[i] = RowOf(w)
      BY <3>1, <1>1, <1>4, <2>1 DEF RowOf
    <3>2. CASE Schedule[i] # RowOf(w)
      BY <3>2, <1>1, <1>3, <1>5, <2>1 DEF IInv, Ownership
    <3>3. QED
      BY <3>1, <3>2
  <2>6. \A i \in Rows : i < nextTask' =>
             rowReady'[Schedule'[i]] = 1 \/ \E v \in Warps : Working(v)' /\ task'[v] = i
    <3> SUFFICES ASSUME NEW i \in Rows, i < nextTask', rowReady'[Schedule'[i]] # 1
                 PROVE  \E v \in Warps : Working(v)' /\ task'[v] = i
      OBVIOUS
    <3>1. Schedule[i] # RowOf(w) /\ rowReady[Schedule[i]] # 1
      BY <1>3, <1>5, <2>1
    <3>2. PICK v \in Warps : Working(v) /\ task[v] = i
      BY <3>1, <1>1 DEF IInv, Ownership
    <3>3. v # w
      BY <3>1, <3>2 DEF RowOf
    <3>4. QED
      BY <3>2, <3>3, <1>1, <1>13
  <2>7. QED
    BY <2>2, <2>3, <2>4, <2>5, <2>6 DEF Ownership
<1>15. Progress'
  <2>1. \A r \in Rows : rowReady[r] = 1 => rowReady'[r] = 1
    BY <1>5
  <2>2. \A v \in Warps : v # w => ProgressOf(v)'
    <3> SUFFICES ASSUME NEW v \in Warps, v # w PROVE ProgressOf(v)'
      OBVIOUS
    <3>1. ProgressOf(v)
      BY <1>1 DEF IInv, Progress
    <3>2. Working(v) => Deps(RowOf(v)) \subseteq Rows
      BY <1>1, HeldRow, ScheduleFacts DEF IInv, Typed
    <3>3. partial[v] \subseteq Rows
      BY DEF IInv, Typed
    <3>4. QED
      BY <3>1, <3>2, <3>3, <2>1, <1>1, <1>2, <1>3, <1>6, <1>11 DEF ProgressOf, Working
  <2>3. ProgressOf(w)'
    BY <1>2 DEF ProgressOf
  <2>4. QED
    BY <2>2, <2>3 DEF Progress
<1>16. QED
  BY <1>7, <1>8, <1>9, <1>10, <1>12, <1>14, <1>15 DEF IInv


-----------------------------------------------------------------------------
LEMMA StutterInv == IInv /\ UNCHANGED vars => IInv'
BY DEF vars, host, memory, kernel, IInv, Typed, CounterBound, Exited, Quiescence, Reset,
       Ownership, Progress, ProgressOf, PublishedIsVisible, SolutionIsCurrent, Working,
       RowOf, Schedule, Deps, Output

\* IInv is inductive and holds initially: every step of the host, the device
\* and the warps preserves it.
THEOREM Invariance == Spec => []IInv
<1>1. IInv /\ [Next]_vars => IInv'
  <2> SUFFICES ASSUME IInv, [Next]_vars PROVE IInv'
    OBVIOUS
  <2>1. CASE Host
    BY <2>1, UploadInv, ResetQueueInv, ResetFlagsInv, LaunchInv, SynchronizeInv DEF Host
  <2>2. ASSUME NEW b \in Blocks, Device(b) PROVE IInv'
    BY <2>2, DeviceInv
  <2>3. ASSUME NEW w \in Warps, Warp(w) PROVE IInv'
    BY <2>3, ClaimInv, GatherInv, StoreInv, DrainInv, FenceInv, PublishInv DEF Warp
  <2>4. CASE Terminated \/ UNCHANGED vars
    BY <2>4, StutterInv DEF Terminated
  <2>5. QED
    BY <2>1, <2>2, <2>3, <2>4 DEF Next
<1>2. QED
  BY InitInv, <1>1, PTL DEF Spec

\* The state is well typed and solve_next_task never exceeds the dimension by
\* more than the number of warps in the grid.
THEOREM TypeCorrect == Spec => []TypeOK
<1>1. IInv => TypeOK
  <2> SUFFICES ASSUME IInv PROVE TypeOK
    OBVIOUS
  <2>1. nextTask <= Dimension + Cardinality(Warps)
    BY ExitedCount, FiniteWarps, FS_CardinalityType, SizeAssumption
       DEF IInv, CounterBound, Typed
  <2>2. nextTask \in 0 .. Dimension + Cardinality(Warps)
    BY <2>1, FiniteWarps, FS_CardinalityType, SizeAssumption DEF IInv, Typed
  <2>3. QED
    BY <2>2 DEF IInv, Typed, TypeOK
<1>2. QED
  BY <1>1, Invariance, PTL

\* For every pattern, schedule and grid, a raised row_ready flag means that the
\* row's value of this pass and request is in memory.
THEOREM FlagsArePromises == Spec => []PublishedIsVisible
<1>1. IInv => PublishedIsVisible
  BY DEF IInv
<1>2. QED
  BY <1>1, Invariance, PTL

\* For every pattern, schedule and grid, a row that was handed out has exactly
\* one holder until it is published.
THEOREM OneWriterPerRow == Spec => []HeldOrPublished
<1>1. IInv => HeldOrPublished
  BY DEF IInv, Ownership, HeldOrPublished
<1>2. QED
  BY <1>1, Invariance, PTL

\* For every capacity, the holder of the lowest unfinished task finds all its
\* flags raised, so the spin loops of the kernel cannot deadlock.
THEOREM NoMutualWait == Spec => []LowestTaskRuns
<1>1. IInv => LowestTaskRuns
  <2> SUFFICES ASSUME IInv, stage = "running", NEW w \in Warps, Working(w),
                      \A v \in Warps : Working(v) => task[w] <= task[v],
                      NEW d \in Deps(RowOf(w))
               PROVE  rowReady[d] = 1
    BY DEF LowestTaskRuns
  <2>1. task[w] \in Rows /\ RowOf(w) \in Rows /\ task[w] < nextTask
    BY HeldRow DEF IInv, Ownership
  <2>2. d \in Rows
    BY <2>1, ScheduleFacts DEF IInv, Typed
  <2>3. PICK j \in Rows : Schedule[j] = d
    BY <2>2, ScheduleFacts DEF IInv, Typed
  <2>4. j < task[w]
    BY <2>1, <2>3, ScheduleFacts DEF IInv, Typed, RowOf
  <2>5. j < nextTask
    BY <2>1, <2>4 DEF IInv, Typed, Rows
  <2>6. ~ \E v \in Warps : Working(v) /\ task[v] = j
    BY <2>1, <2>4 DEF Rows
  <2>7. QED
    BY <2>3, <2>5, <2>6 DEF IInv, Ownership
<1>2. QED
  BY <1>1, Invariance, PTL

\* solve() never returns a vector with a cell of an earlier request.
THEOREM AnswersAreCurrent == Spec => []SolutionIsCurrent
<1>1. IInv => SolutionIsCurrent
  BY DEF IInv
<1>2. QED
  BY <1>1, Invariance, PTL

-----------------------------------------------------------------------------
\* A store that reaches memory is a row solved in the abstract: the rows it
\* depends on hold this request's values already.
LEMMA DrainRefines ==
    ASSUME NEW w \in Warps PROVE IInv /\ Drain(w) => Abstract!Next \/ UNCHANGED Abstract!vars
<1> SUFFICES ASSUME IInv, Drain(w) PROVE Abstract!Next
  OBVIOUS
<1>1. /\ UNCHANGED <<host, nextTask, rowReady, residency, pc, task, unread, partial>>
      /\ pc[w] = "fence" /\ stage = "running" /\ RowOf(w) \in Rows
      /\ IF backward
         THEN /\ solution' = [solution EXCEPT ![RowOf(w)] = request]
              /\ intermediate' = intermediate
         ELSE /\ intermediate' = [intermediate EXCEPT ![RowOf(w)] = request]
              /\ solution' = solution
  BY DrainedRow
<1>2. request' = request /\ backward' = backward /\ stage' = stage
  BY <1>1 DEF host
<1>3. \A d \in Deps(RowOf(w)) : rowReady[d] = 1
  BY <1>1 DEF IInv, Progress, ProgressOf
<1>4. \A d \in Deps(RowOf(w)) : Output[d] = request
  BY <1>1, <1>3, ScheduleFacts DEF IInv, Typed, PublishedIsVisible
<1>5. CASE backward
  <2>1. intermediate[RowOf(w)] = request
    BY <1>1, <1>5 DEF IInv, Reset
  <2>2. Abstract!SolveBackward(RowOf(w))
    BY <1>1, <1>2, <1>4, <1>5, <2>1 DEF Abstract!SolveBackward, Deps, Output
  <2>3. QED
    BY <1>1, <2>2 DEF Abstract!Next
<1>6. CASE ~backward
  <2>1. Abstract!SolveForward(RowOf(w))
    BY <1>1, <1>2, <1>4, <1>6 DEF Abstract!SolveForward, Deps, Output
  <2>2. QED
    BY <1>1, <2>1 DEF Abstract!Next
<1>7. QED
  BY <1>5, <1>6

\* The kernel, its launches and its resets implement the abstract solve: every
\* step solves one row, begins, turns or returns, or leaves the abstract state.
THEOREM Refinement == Spec => ImplementsTriangularSolve
<1>1. Init => Abstract!Init
  BY DEF Init, Abstract!Init
<1>2. IInv /\ [Next]_vars => [Abstract!Next]_Abstract!vars
  <2> SUFFICES ASSUME IInv, [Next]_vars PROVE Abstract!Next \/ UNCHANGED Abstract!vars
    OBVIOUS
  <2>1. CASE UploadRightHandSide
    BY <2>1 DEF UploadRightHandSide, memory, Abstract!Next, Abstract!Begin
  <2>2. CASE ResetQueue \/ ResetFlags \/ Launch
    BY <2>2 DEF ResetQueue, ResetFlags, Launch, memory, Abstract!vars
  <2>3. CASE Synchronize
    <3>1. /\ \A r \in Rows : Output[r] = request
          /\ stage = "running" /\ request' = request /\ backward' = ~backward
          /\ stage' = (IF backward THEN "idle" ELSE "queue")
          /\ intermediate' = intermediate /\ solution' = solution
      BY <2>3, KernelDone DEF Synchronize, memory
    <3>2. CASE backward
      BY <3>1, <3>2 DEF Output, Abstract!Next, Abstract!Return
    <3>3. CASE ~backward
      BY <3>1, <3>3 DEF Output, Abstract!Next, Abstract!Turn
    <3>4. QED
      BY <3>2, <3>3
  <2>4. ASSUME NEW b \in Blocks, Device(b) PROVE UNCHANGED Abstract!vars
    <3>1. UNCHANGED <<host, memory>>
      BY <2>4 DEF Device, Dispatch, Retire
    <3>2. QED
      BY <3>1 DEF host, memory, Abstract!vars
  <2>5. ASSUME NEW w \in Warps, Warp(w) PROVE Abstract!Next \/ UNCHANGED Abstract!vars
    <3>1. CASE Drain(w)
      BY <3>1, DrainRefines
    <3>2. CASE Claim(w) \/ (\E d \in Rows : Gather(w, d)) \/ Store(w) \/ Fence(w) \/ Publish(w)
      BY <3>2 DEF Claim, Gather, Store, Fence, Publish, host, memory, Abstract!vars
    <3>3. QED
      BY <2>5, <3>1, <3>2 DEF Warp
  <2>6. CASE Terminated \/ UNCHANGED vars
    BY <2>6 DEF Terminated, vars, host, memory, Abstract!vars
  <2>7. QED
    BY <2>1, <2>2, <2>3, <2>4, <2>5, <2>6 DEF Next, Host
<1>3. QED
  BY <1>1, <1>2, Invariance, PTL DEF Spec, ImplementsTriangularSolve, Abstract!Spec

=============================================================================
