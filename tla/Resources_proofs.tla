------------------------------ MODULE Resources_proofs ----------------------
(***************************************************************************)
(* Proofs about BackendLifecycle and Task1Run.                             *)
(*                                                                         *)
(* Whatever sequence of calls a client makes and wherever each of them     *)
(* fails, device memory is accounted for and outlives its executor only    *)
(* when factorize() is repeated, and a solve finds no factor of another    *)
(* matrix.  For any number of buffers, executors and matrices.  There is   *)
(* at most one executor alive, the one that cuda_executor_ names.  The     *)
(* others that buffers may name are ones it replaced, and they and it are  *)
(* in the history of repeated calls; the rest hear of the releases of      *)
(* their own buffers and of no others.  Whenever an executor is destroyed  *)
(* the buffers are empty, for the analysis and the destructor empty them.  *)
(*                                                                         *)
(* However a run of the pipeline ends, it leaves nothing behind, and a     *)
(* solution is returned only from a completed factorization of the matrix  *)
(* of the request.  Each step of the pipeline is a step of its backend or  *)
(* leaves it alone, so the invariant of the backend object holds there;    *)
(* what is added says in which of its operations the backend is at each    *)
(* stage, and that its factorization finds no buffers: no call is repeated, *)
(* and there no allocation outlives its executor.                          *)
(*                                                                         *)
(* Proofs about Profiler and ExecutorAccount.                              *)
(*                                                                         *)
(* No pointer the profiler keeps ever dangles, and the stack and the       *)
(* handles agree, for every number of handles and records.  The stack is in *)
(* order of creation, and a record is attached to one created before it.   *)
(* So the active record whose vector grows, the top of the stack, is the   *)
(* latest on the stack, and no record of that vector, all of them later, is *)
(* active: the ones that move are those no pointer is kept to.             *)
(*                                                                         *)
(* Executors use the profiler without disturbing it, so that what is proved *)
(* of its pointers holds beside them, and they charge their operations to  *)
(* events that are still active.                                           *)
(*                                                                         *)
(* The second half is about the accounts.  Live bytes and the metrics of a *)
(* report are sums over a set, folds whose order the library leaves open:  *)
(* when the order does not matter, the fold of a set is that of the set    *)
(* without one element, and then that element (FoldWithout).  What moves   *)
(* from one object to another, is charged to one record, or is dropped     *)
(* with all of them, then shifts between parts of a sum that stays what the *)
(* executors count.                                                        *)
(***************************************************************************)
EXTENDS Task1Run, ExecutorAccount, LevelSchedule_proofs, SequenceTheorems

NoBuffers == \A b \in 1 .. Buffers : buffer[b] = NoExecutor

\* The one executor alive is the one the backend names, without it there are no
\* buffers, and while some name an executor that is gone, this one replaced it.
OneExecutor ==
    /\ alive = {executor} \ {NoExecutor}
    /\ executor = NoExecutor => NoBuffers
    /\ Dangling # {} => executor \in repeated

\* Where the executor is destroyed there are no buffers, where they are allocated there
\* is one.
BuffersFollowCalls ==
    /\ op \in {"reset", "analyze", "destroy", "destroyed"} => NoBuffers
    /\ op = "allocate" => executor # NoExecutor

\* A stored matrix is the one the plan describes, an analysis under way has given up
\* matrix and factor, and a factorization works on the analyzed matrix.
FactorFollowsPlan ==
    /\ matrix # NoMatrix => matrix = plan
    /\ op \in {"reset", "analyze"} => matrix = NoMatrix /\ factor.of = NoMatrix
    /\ op \in {"create", "allocate", "fill", "eliminate"} => argument = plan
    /\ factor.of \in {NoMatrix, plan}

IInv ==
    /\ TypeOK
    /\ LiveBytesAddUp
    /\ OnlyRepeatedAreOutlived
    /\ OneExecutor
    /\ BuffersFollowCalls
    /\ FactorFollowsPlan

-----------------------------------------------------------------------------
\* The buffers that hold an executor's allocations are finitely many.
LEMMA BuffersAreFinite ==
    ASSUME NEW S \in SUBSET (1 .. Buffers)
    PROVE  IsFiniteSet(S) /\ Cardinality(S) \in Nat
<1>1. IsFiniteSet(1 .. Buffers)
    BY LifecycleAssumption, FS_Interval
<1>2. IsFiniteSet(S)
    BY <1>1, FS_Subset
<1> QED
    BY <1>2, FS_CardinalityType

\* An executor that no factorize() was repeated on hears of the releases of its own
\* buffers and of no stray ones.
LEMMA OwnReleases ==
    ASSUME IInv, NEW S \in SUBSET (1 .. Buffers), NEW account \in [Executors -> Nat],
           ReleaseHeld(S, account)
    PROVE  /\ live' \in [Executors -> Nat]
           /\ \A e \in Executors \ repeated :
                  LET own == Cardinality({b \in S : buffer[b] = e})
                  IN  live'[e] = IF own > account[e] THEN 0 ELSE account[e] - own
<1> PICK strays \in SUBSET Strays(S) :
        live' = [e \in Executors |->
            LET told == Cardinality({b \in S \ strays : buffer[b] = e})
                            + (IF e = executor THEN Cardinality(strays) ELSE 0)
            IN  IF told > account[e] THEN 0 ELSE account[e] - told]
    BY DEF ReleaseHeld
<1>1. strays \subseteq S /\ strays \subseteq Dangling
    BY DEF Strays
<1>2. Cardinality(strays) \in Nat
    BY <1>1, BuffersAreFinite
<1>3. \A e : Cardinality({b \in S \ strays : buffer[b] = e}) \in Nat
    <2>1. \A e : {b \in S \ strays : buffer[b] = e} \in SUBSET (1 .. Buffers)
        OBVIOUS
    <2> QED
        BY <2>1, BuffersAreFinite
<1>4. live' \in [Executors -> Nat]
    <2>1. ASSUME NEW e \in Executors
          PROVE  LET told == Cardinality({b \in S \ strays : buffer[b] = e})
                                 + (IF e = executor THEN Cardinality(strays) ELSE 0)
                 IN  (IF told > account[e] THEN 0 ELSE account[e] - told) \in Nat
        <3>1. Cardinality({b \in S \ strays : buffer[b] = e}) \in Nat
            BY <1>3
        <3>2. account[e] \in Nat
            OBVIOUS
        <3> QED
            BY <1>2, <3>1, <3>2
    <2> QED
        BY <2>1
<1>5. ASSUME NEW e \in Executors \ repeated
      PROVE  LET own == Cardinality({b \in S : buffer[b] = e})
             IN  live'[e] = IF own > account[e] THEN 0 ELSE account[e] - own
    <2>1. {b \in S \ strays : buffer[b] = e} = {b \in S : buffer[b] = e}
        <3>1. \A b \in strays : buffer[b] \in repeated
            BY <1>1 DEF IInv, OnlyRepeatedAreOutlived, Dangling
        <3> QED
            BY <3>1
    <2>2. e = executor => Cardinality(strays) = 0
        <3>1. e = executor => strays = {}
            BY <1>1 DEF IInv, OneExecutor
        <3> QED
            BY <3>1, FS_EmptySet
    <2>3. Cardinality({b \in S : buffer[b] = e}) \in Nat
        BY <1>3, <2>1
    <2> QED
        BY <2>1, <2>2, <2>3
<1> QED
    BY <1>4, <1>5

\* Releasing every buffer empties the accounts that add up.
LEMMA ReleasedAll ==
    ASSUME IInv, ReleaseBuffers, repeated' = repeated
    PROVE  /\ buffer' = [b \in 1 .. Buffers |-> NoExecutor]
           /\ live' \in [Executors -> Nat]
           /\ LiveBytesAddUp'
           /\ NoBuffers'
<1>1. buffer' = [b \in 1 .. Buffers |-> NoExecutor] /\ ReleaseHeld(1 .. Buffers, live)
    BY DEF ReleaseBuffers
<1>2. live \in [Executors -> Nat]
    BY DEF IInv, TypeOK
<1>3. /\ live' \in [Executors -> Nat]
      /\ \A e \in Executors \ repeated :
             LET own == Cardinality({b \in 1 .. Buffers : buffer[b] = e})
             IN  live'[e] = IF own > live[e] THEN 0 ELSE live[e] - own
    BY <1>1, <1>2, OwnReleases
<1>4. ASSUME NEW e \in Executors \ repeated PROVE live'[e] = Held(e)'
    <2>1. live[e] = Held(e) /\ live[e] \in Nat
        BY <1>2 DEF IInv, LiveBytesAddUp
    <2>2. {b \in 1 .. Buffers : buffer'[b] = e} = {}
        BY <1>1 DEF Executors, NoExecutor
    <2>3. Held(e)' = 0
        BY <2>2, FS_EmptySet DEF Held
    <2> QED
        BY <1>3, <2>1, <2>3 DEF Held
<1> QED
    BY <1>1, <1>3, <1>4 DEF LiveBytesAddUp, NoBuffers

\* A step that leaves the buffers and the accounts alone.
LEMMA SameAccounts ==
    ASSUME LiveBytesAddUp, UNCHANGED <<live, buffer>>, repeated \subseteq repeated'
    PROVE  LiveBytesAddUp'
    BY DEF LiveBytesAddUp, Held

\* Without buffers nothing dangles.
LEMMA NothingDangles ==
    ASSUME NoBuffers
    PROVE  Dangling = {} /\ OnlyRepeatedAreOutlived
    BY DEF NoBuffers, Dangling, OnlyRepeatedAreOutlived, NoExecutor

-----------------------------------------------------------------------------
LEMMA InitIsFine == Init => IInv
<1> SUFFICES ASSUME Init PROVE IInv
    OBVIOUS
<1> USE LifecycleAssumption
<1>1. TypeOK
    <2>1. {argument, matrix, plan, factor.of} \subseteq Matrices \cup {NoMatrix}
        BY DEF Init, NoFactor
    <2>2. factor.complete \in BOOLEAN
        BY DEF Init, NoFactor
    <2>3. /\ kind \in Kinds /\ op = "ready"
          /\ next \in 1 .. Buffers + 1
          /\ alive \subseteq 1 .. created /\ repeated \subseteq Executors
        BY DEF Init
    <2>4. live \in [Executors -> Nat]
        BY DEF Init
    <2>5. buffer \in [1 .. Buffers -> {NoExecutor} \cup Executors]
        BY DEF Init
    <2>6. executor \in {NoExecutor} \cup alive /\ created \in 0 .. MaxExecutors
        BY DEF Init
    <2> QED
        BY <2>1, <2>2, <2>3, <2>4, <2>5, <2>6 DEF TypeOK
<1>2. LiveBytesAddUp
    <2>1. ASSUME NEW e \in Executors PROVE live[e] = Held(e)
        <3>1. {b \in 1 .. Buffers : buffer[b] = e} = {}
            BY DEF Init, Executors, NoExecutor
        <3> QED
            BY <3>1, FS_EmptySet DEF Init, Held
    <2> QED
        BY <2>1 DEF LiveBytesAddUp
<1>3. NoBuffers
    BY DEF Init, NoBuffers
<1>4. OneExecutor /\ OnlyRepeatedAreOutlived
    BY <1>3, NothingDangles DEF Init, OneExecutor, NoExecutor
<1>5. BuffersFollowCalls
    BY <1>3 DEF Init, BuffersFollowCalls
<1>6. FactorFollowsPlan
    BY DEF Init, FactorFollowsPlan, NoFactor
<1> QED
    BY <1>1, <1>2, <1>4, <1>5, <1>6 DEF IInv

\* analyze() and the destructor give up the buffers first, and what was repeated
\* before is forgotten with them.
LEMMA AnalyzeIsFine == ASSUME NEW m \in Matrices, IInv, Analyze(m) PROVE IInv'
<1>1. repeated' = repeated
    BY DEF Analyze
<1>2. /\ buffer' = [b \in 1 .. Buffers |-> NoExecutor]
      /\ live' \in [Executors -> Nat]
      /\ LiveBytesAddUp' /\ NoBuffers'
    BY <1>1, ReleasedAll DEF Analyze
<1>3. TypeOK'
    BY <1>2, LifecycleAssumption DEF IInv, TypeOK, Analyze, NoFactor
<1>4. Dangling' = {} /\ OnlyRepeatedAreOutlived'
    BY <1>2 DEF NoBuffers, Dangling, OnlyRepeatedAreOutlived
<1>5. OneExecutor' /\ BuffersFollowCalls'
    BY <1>2, <1>4 DEF IInv, OneExecutor, BuffersFollowCalls, Analyze
<1>6. FactorFollowsPlan'
    BY DEF FactorFollowsPlan, Analyze, NoFactor
<1> QED
    BY <1>2, <1>3, <1>4, <1>5, <1>6 DEF IInv

LEMMA DestroyIsFine == ASSUME IInv, Destroy PROVE IInv'
<1>1. repeated' = repeated
    BY DEF Destroy
<1>2. /\ buffer' = [b \in 1 .. Buffers |-> NoExecutor]
      /\ live' \in [Executors -> Nat]
      /\ LiveBytesAddUp' /\ NoBuffers'
    BY <1>1, ReleasedAll DEF Destroy
<1>3. TypeOK'
    BY <1>2, LifecycleAssumption DEF IInv, TypeOK, Destroy, NoFactor
<1>4. Dangling' = {} /\ OnlyRepeatedAreOutlived'
    BY <1>2 DEF NoBuffers, Dangling, OnlyRepeatedAreOutlived
<1>5. OneExecutor' /\ BuffersFollowCalls'
    BY <1>2, <1>4 DEF IInv, OneExecutor, BuffersFollowCalls, Destroy
<1>6. FactorFollowsPlan'
    BY DEF IInv, FactorFollowsPlan, Destroy, NoFactor
<1> QED
    BY <1>2, <1>3, <1>4, <1>5, <1>6 DEF IInv

\* The executor goes when there are no buffers left.
LEMMA DestroyExecutorIsFine ==
    ASSUME IInv, AnalyzeReset \/ DestroyEnds
    PROVE  IInv'
<1>1. NoBuffers /\ DestroyExecutor /\ UNCHANGED <<live, buffer, repeated>>
    BY DEF IInv, BuffersFollowCalls, AnalyzeReset, DestroyEnds
<1>2. TypeOK'
    BY <1>1 DEF IInv, TypeOK, AnalyzeReset, DestroyEnds, DestroyExecutor
<1>3. NoBuffers' /\ Dangling' = {} /\ OnlyRepeatedAreOutlived'
    BY <1>1 DEF NoBuffers, Dangling, OnlyRepeatedAreOutlived
<1>4. OneExecutor'
    BY <1>1, <1>3 DEF IInv, OneExecutor, DestroyExecutor
<1>5. BuffersFollowCalls'
    BY <1>3 DEF BuffersFollowCalls, AnalyzeReset, DestroyEnds
<1>6. FactorFollowsPlan'
    BY DEF IInv, FactorFollowsPlan, AnalyzeReset, DestroyEnds
<1> QED
    BY <1>1, <1>2, <1>3, <1>4, <1>5, <1>6, SameAccounts DEF IInv

\* The new executor becomes the only one alive; where it finds buffers, both it and
\* the one it replaces are among the repeated.
LEMMA CreateIsFine == ASSUME IInv, CreateExecutor PROVE IInv'
<1>1. /\ created \in Nat /\ created + 1 \in Executors /\ created + 1 # NoExecutor
      /\ alive \subseteq 1 .. created
    BY LifecycleAssumption DEF IInv, TypeOK, CreateExecutor, Executors, NoExecutor
<1>2. repeated \subseteq repeated' /\ UNCHANGED <<live, buffer>>
    BY DEF CreateExecutor
<1>3. executor = NoExecutor => NoBuffers
    BY DEF IInv, OneExecutor
<1>4. TypeOK'
    <2>1. created' \in 0 .. MaxExecutors /\ executor' \in {NoExecutor} \cup alive'
        BY LifecycleAssumption DEF IInv, TypeOK, CreateExecutor
    <2>2. alive' \subseteq 1 .. created'
        <3>1. ASSUME NEW e \in alive' PROVE e \in 1 .. created + 1
            <4>1. e \in alive \/ e = created + 1
                BY <3>1 DEF CreateExecutor
            <4>2. CASE e \in alive
                <5>1. e \in 1 .. created
                    BY <1>1, <4>2
                <5> QED
                    BY <1>1, <5>1
            <4>3. CASE e = created + 1
                BY <1>1, <4>3
            <4> QED
                BY <4>1, <4>2, <4>3
        <3> QED
            BY <3>1 DEF CreateExecutor
    <2>3. next' \in 1 .. Buffers + 1
        BY LifecycleAssumption DEF CreateExecutor
    <2>4. /\ kind' \in Kinds /\ op' = "allocate"
          /\ {argument', matrix', plan', factor'.of} \subseteq Matrices \cup {NoMatrix}
        BY DEF IInv, TypeOK, CreateExecutor
    <2>5. factor'.complete \in BOOLEAN
        BY DEF IInv, TypeOK, CreateExecutor
    <2>6. /\ live' \in [Executors -> Nat]
          /\ buffer' \in [1 .. Buffers -> {NoExecutor} \cup Executors]
        BY <1>2 DEF IInv, TypeOK
    <2>7. repeated' \subseteq Executors
        <3>1. repeated \subseteq Executors /\ (executor # NoExecutor => executor \in alive)
            BY DEF IInv, TypeOK
        <3>2. \A e \in alive : e \in 1 .. created
            BY <1>1
        <3>3. created + 1 <= MaxExecutors /\ MaxExecutors \in Nat
            BY <1>1, LifecycleAssumption DEF Executors
        <3>4. alive \subseteq Executors
            BY <1>1, <3>2, <3>3 DEF Executors
        <3> QED
            BY <1>1, <1>3, <3>1, <3>4 DEF CreateExecutor, NoBuffers
    <2> QED
        BY <2>1, <2>2, <2>3, <2>4, <2>5, <2>6, <2>7 DEF TypeOK
<1>5. OnlyRepeatedAreOutlived'
    <2>1. ASSUME NEW b \in 1 .. Buffers, buffer[b] # NoExecutor
          PROVE  buffer[b] \in alive' \cup repeated'
        <3>1. executor \in repeated'
            BY <2>1 DEF CreateExecutor
        <3>2. buffer[b] \in {executor} \cup repeated
            BY <2>1 DEF IInv, OnlyRepeatedAreOutlived, OneExecutor
        <3> QED
            BY <1>2, <3>1, <3>2
    <2> QED
        BY <1>2, <2>1 DEF OnlyRepeatedAreOutlived
<1>6. OneExecutor'
    <2>1. alive' = {executor'} \ {NoExecutor} /\ executor' # NoExecutor
        BY <1>1 DEF IInv, OneExecutor, CreateExecutor
    <2>2. CASE NoBuffers
        <3>1. Dangling' = {}
            BY <1>2, <2>2 DEF NoBuffers, Dangling
        <3> QED
            BY <2>1, <3>1 DEF OneExecutor
    <2>3. CASE ~NoBuffers
        <3>1. executor' \in repeated'
            BY <2>3 DEF CreateExecutor, NoBuffers
        <3> QED
            BY <2>1, <3>1 DEF OneExecutor
    <2> QED
        BY <2>2, <2>3
<1>7. BuffersFollowCalls'
    BY <1>1 DEF BuffersFollowCalls, CreateExecutor
<1>8. FactorFollowsPlan'
    BY DEF IInv, FactorFollowsPlan, CreateExecutor
<1>9. LiveBytesAddUp'
    BY <1>2, SameAccounts DEF IInv
<1> QED
    BY <1>4, <1>5, <1>6, <1>7, <1>8, <1>9 DEF IInv

-----------------------------------------------------------------------------
\* The buffers that name an executor.
Naming(buffers, e) == {b \in 1 .. Buffers : buffers[b] = e}

\* One buffer is given to another executor.
Given(f, g, n, to) == \A b \in 1 .. Buffers : g[b] = IF b = n THEN to ELSE f[b]

\* How many name an executor then.
LEMMA NamingAfterAssignment ==
    ASSUME NEW f, NEW g, NEW n \in 1 .. Buffers, NEW to, NEW e, Given(f, g, n, to)
    PROVE  LET own    == IF f[n] = e THEN 1 ELSE 0
               before == Cardinality(Naming(f, e))
           IN  /\ before \in Nat /\ own <= before
               /\ Cardinality(Naming(g, e)) = before - own + (IF e = to THEN 1 ELSE 0)
<1> DEFINE rest == Naming(f, e) \ {n}
<1>1. IsFiniteSet(rest) /\ Cardinality(rest) \in Nat
    BY BuffersAreFinite DEF Naming
<1> PICK r \in Nat : r = Cardinality(rest)
    BY <1>1
<1>2. Cardinality(rest \cup {n}) = r + 1
    BY <1>1, FS_AddElement
<1>3. Cardinality(Naming(f, e)) = IF f[n] = e THEN r + 1 ELSE r
    <2>1. Naming(f, e) = IF f[n] = e THEN rest \cup {n} ELSE rest
        BY DEF Naming
    <2> HIDE DEF rest
    <2> QED
        BY <1>2, <2>1
<1>4. Cardinality(Naming(g, e)) = IF e = to THEN r + 1 ELSE r
    <2>1. Naming(g, e) = IF e = to THEN rest \cup {n} ELSE rest
        BY DEF Naming, Given
    <2> HIDE DEF rest
    <2> QED
        BY <1>2, <2>1
<1> HIDE DEF rest
<1>5. CASE f[n] = e
    BY <1>3, <1>4, <1>5
<1>6. CASE f[n] # e
    BY <1>3, <1>4, <1>6
<1> QED
    BY <1>5, <1>6

\* What a step that assigns to the next buffer leaves, whatever it held.
LEMMA AssignmentIsFine ==
    ASSUME IInv, Allocate, NEW to \in {NoExecutor, executor},
           buffer' = [buffer EXCEPT ![next] = to]
    PROVE  /\ next \in 1 .. Buffers /\ executor \in Executors
           /\ OneExecutor' /\ OnlyRepeatedAreOutlived' /\ BuffersFollowCalls'
           /\ buffer' \in [1 .. Buffers -> {NoExecutor} \cup Executors]
<1>1. /\ executor # NoExecutor /\ executor \in alive /\ executor \in Executors
      /\ next \in 1 .. Buffers
      /\ buffer \in [1 .. Buffers -> {NoExecutor} \cup Executors]
    <2>1. executor # NoExecutor /\ executor \in alive
        BY DEF IInv, TypeOK, BuffersFollowCalls, Allocate
    <2>2. created \in 0 .. MaxExecutors /\ alive \subseteq 1 .. created
        BY DEF IInv, TypeOK
    <2>3. executor \in Executors
        BY <2>1, <2>2, LifecycleAssumption DEF Executors
    <2>4. next \in 1 .. Buffers
        BY LifecycleAssumption DEF IInv, TypeOK, Allocate
    <2> QED
        BY <2>1, <2>3, <2>4 DEF IInv, TypeOK
<1>2. UNCHANGED <<executor, alive, repeated>> /\ op = "allocate" /\ op' = op
    BY DEF Allocate
<1>3. buffer' \in [1 .. Buffers -> {NoExecutor} \cup Executors]
    BY <1>1
<1>4. \A b \in 1 .. Buffers : buffer'[b] \in {NoExecutor, executor, buffer[b]}
    BY <1>1
<1>5. OnlyRepeatedAreOutlived'
    BY <1>1, <1>2, <1>4 DEF IInv, OnlyRepeatedAreOutlived
<1>6. Dangling' \subseteq Dangling
    BY <1>1, <1>2, <1>4 DEF Dangling
<1>7. OneExecutor'
    BY <1>1, <1>2, <1>6 DEF IInv, OneExecutor
<1>8. BuffersFollowCalls'
    BY <1>1, <1>2 DEF BuffersFollowCalls
<1> QED
    BY <1>1, <1>3, <1>5, <1>7, <1>8

\* One more allocation of the executor, and a release of what the buffer held.
LEMMA AllocateIsFine == ASSUME IInv, Allocate PROVE IInv'
<1> USE LifecycleAssumption
<1>1. /\ live \in [Executors -> Nat] /\ UNCHANGED <<executor, repeated>>
      /\ buffer \in [1 .. Buffers -> {NoExecutor} \cup Executors]
    BY DEF IInv, TypeOK, Allocate
<1>2. FactorFollowsPlan'
    BY DEF IInv, FactorFollowsPlan, Allocate, NoFactor
<1>3. factor'.of \in Matrices \cup {NoMatrix} /\ factor'.complete \in BOOLEAN
    <2>1. factor.of \in Matrices \cup {NoMatrix} /\ factor.complete \in BOOLEAN
        BY DEF IInv, TypeOK
    <2>2. CASE factor' = factor
        BY <2>1, <2>2
    <2>3. CASE factor' = NoFactor
        BY <2>3 DEF NoFactor
    <2> QED
        BY <2>2, <2>3 DEF Allocate
<1>4. CASE UNCHANGED <<buffer, live>>
    <2>1. TypeOK'
        BY <1>3, <1>4 DEF IInv, TypeOK, Allocate
    <2>2. OneExecutor' /\ OnlyRepeatedAreOutlived' /\ BuffersFollowCalls'
        BY <1>4 DEF IInv, OneExecutor, OnlyRepeatedAreOutlived, BuffersFollowCalls,
                    Dangling, NoBuffers, Allocate
    <2> QED
        BY <1>1, <1>2, <1>4, <2>1, <2>2, SameAccounts DEF IInv
<1>5. ASSUME NEW to \in {NoExecutor, executor},
             buffer' = [buffer EXCEPT ![next] = to],
             NEW account \in [Executors -> Nat],
             \A e \in Executors : account[e] = live[e] + (IF e = to THEN 1 ELSE 0),
             ReleaseHeld({next}, account)
      PROVE  IInv'
    <2>1. /\ next \in 1 .. Buffers /\ executor \in Executors
          /\ OneExecutor' /\ OnlyRepeatedAreOutlived' /\ BuffersFollowCalls'
          /\ buffer' \in [1 .. Buffers -> {NoExecutor} \cup Executors]
        BY <1>5, AssignmentIsFine
    <2>2. {next} \in SUBSET (1 .. Buffers)
        BY <2>1
    <2>3. /\ live' \in [Executors -> Nat]
          /\ \A e \in Executors \ repeated :
                 LET own == Cardinality({b \in {next} : buffer[b] = e})
                 IN  live'[e] = IF own > account[e] THEN 0 ELSE account[e] - own
        BY <1>5, <2>2, OwnReleases
    <2>4. ASSUME NEW e \in Executors \ repeated PROVE live'[e] = Held(e)'
        <3>1. live[e] = Held(e)
            BY DEF IInv, LiveBytesAddUp
        <3> PICK own : own = Cardinality({b \in {next} : buffer[b] = e})
            OBVIOUS
        <3>2. own = IF buffer[next] = e THEN 1 ELSE 0
            <4>1. CASE buffer[next] = e
                <5>1. {b \in {next} : buffer[b] = e} = {next}
                    BY <4>1
                <5> QED
                    BY <4>1, <5>1, FS_Singleton
            <4>2. CASE buffer[next] # e
                <5>1. {b \in {next} : buffer[b] = e} = {}
                    BY <4>2
                <5> QED
                    BY <4>2, <5>1, FS_EmptySet
            <4> QED
                BY <4>1, <4>2
        <3>4. Held(e) = Cardinality(Naming(buffer, e))
            BY DEF Held, Naming
        <3>5. Held(e)' = Cardinality(Naming(buffer', e))
            BY DEF Held, Naming
        <3>6. Given(buffer, buffer', next, to)
            BY <1>1, <1>5, <2>1 DEF Given
        <3>7. /\ Held(e) \in Nat /\ own <= Held(e)
              /\ Held(e)' = Held(e) - own + (IF e = to THEN 1 ELSE 0)
            BY <2>1, <3>2, <3>4, <3>5, <3>6, NamingAfterAssignment
        <3>3. account[e] = live[e] + (IF e = to THEN 1 ELSE 0)
            BY <1>5
        <3> QED
            BY <2>3, <3>1, <3>2, <3>3, <3>7
    <2>5. LiveBytesAddUp'
        BY <1>1, <2>4 DEF LiveBytesAddUp
    <2>6. TypeOK'
        BY <1>3, <2>1, <2>3 DEF IInv, TypeOK, Allocate
    <2> QED
        BY <1>2, <2>1, <2>5, <2>6 DEF IInv
<1>6. CASE /\ buffer' = [buffer EXCEPT ![next] = executor]
           /\ ReleaseHeld({next}, [live EXCEPT ![executor] = @ + 1])
    <2> DEFINE account == [live EXCEPT ![executor] = @ + 1]
    <2>1. executor \in Executors
        BY <1>6, AssignmentIsFine
    <2>2. /\ account \in [Executors -> Nat]
          /\ \A e \in Executors : account[e] = live[e] + (IF e = executor THEN 1 ELSE 0)
        BY <1>1, <2>1
    <2> HIDE DEF account
    <2>3. ReleaseHeld({next}, account)
        BY <1>6 DEF account
    <2> QED
        BY <1>5, <1>6, <2>2, <2>3
<1>7. CASE /\ buffer' = [buffer EXCEPT ![next] = NoExecutor]
           /\ ReleaseHeld({next}, live)
    <2>1. \A e \in Executors : live[e] = live[e] + (IF e = NoExecutor THEN 1 ELSE 0)
        BY <1>1 DEF Executors, NoExecutor
    <2> QED
        BY <1>1, <1>5, <1>7, <2>1
<1> QED
    BY <1>4, <1>6, <1>7 DEF Allocate

-----------------------------------------------------------------------------
\* Steps that leave the device alone.
LEMMA HostStepIsFine ==
    ASSUME IInv,
           \/ AnalyzeFails \/ AnalyzeReturns
           \/ \E m \in Matrices : Factorize(m)
           \/ Initialize \/ FactorizeFails \/ FactorizeReturns
           \/ Solve \/ SolveEnds \/ Crash
           \/ UNCHANGED vars
    PROVE  IInv'
<1> USE DEF AnalyzeFails, AnalyzeReturns, Factorize, Initialize, FactorizeFails,
            FactorizeReturns, Solve, SolveEnds, Crash, vars
<1>1. UNCHANGED device
    OBVIOUS
<1>2. LiveBytesAddUp' /\ OneExecutor' /\ OnlyRepeatedAreOutlived'
    BY <1>1, SameAccounts
    DEF IInv, OneExecutor, OnlyRepeatedAreOutlived, Dangling, NoBuffers, device
<1>3. TypeOK'
    <2>1. /\ kind' \in Kinds
          /\ op' \in {"ready", "reset", "analyze", "create", "allocate", "fill", "eliminate",
                      "solve", "destroy", "destroyed", "crashed"}
          /\ {argument', matrix', plan'} \subseteq Matrices \cup {NoMatrix}
        BY DEF IInv, TypeOK
    <2>2. factor'.of \in Matrices \cup {NoMatrix}
        BY DEF IInv, TypeOK, NoFactor
    <2>3. factor'.complete \in BOOLEAN
        <3>1. factor.complete \in BOOLEAN
            BY DEF IInv, TypeOK
        <3>2. \/ factor'.complete = factor.complete
              \/ factor'.complete = FALSE \/ factor'.complete = TRUE
            BY DEF NoFactor
        <3> QED
            BY <3>1, <3>2, Zenon
    <2>4. {argument', matrix', plan', factor'.of} \subseteq Matrices \cup {NoMatrix}
        BY <2>1, <2>2
    <2>5. /\ next' \in 1 .. Buffers + 1
          /\ executor' \in {NoExecutor} \cup alive'
          /\ created' \in 0 .. MaxExecutors
          /\ alive' \subseteq 1 .. created'
          /\ live' \in [Executors -> Nat]
          /\ buffer' \in [1 .. Buffers -> {NoExecutor} \cup Executors]
          /\ repeated' \subseteq Executors
        BY <1>1 DEF IInv, TypeOK, device
    <2> QED
        BY <2>1, <2>3, <2>4, <2>5 DEF TypeOK
<1>4. BuffersFollowCalls'
    BY <1>1 DEF IInv, BuffersFollowCalls, NoBuffers, device
<1>5. FactorFollowsPlan'
    BY LifecycleAssumption DEF IInv, TypeOK, FactorFollowsPlan, NoFactor
<1> QED
    BY <1>2, <1>3, <1>4, <1>5 DEF IInv

LEMMA NextIsFine == IInv /\ [Next]_vars => IInv'
<1> SUFFICES ASSUME IInv, [Next]_vars PROVE IInv'
    OBVIOUS
<1> QED
    BY AnalyzeIsFine, DestroyIsFine, DestroyExecutorIsFine, CreateIsFine, AllocateIsFine,
       HostStepIsFine DEF Next, Gone

\* The inductive invariant holds of every reachable state of a backend object, whatever
\* calls its client makes, a repeated factorize() among them.
THEOREM Invariance == Spec => []IInv
<1> QED
    BY InitIsFine, NextIsFine, PTL DEF Spec

\* Every state is well typed, for any number of buffers and executors.
THEOREM TypeCorrect == Spec => []TypeOK
<1>1. IInv => TypeOK
    BY DEF IInv
<1> QED
    BY Invariance, <1>1, PTL

\* An allocation that outlives the executor it reports its release to is left by a
\* repeated factorize(), and by nothing else, whatever fails.
THEOREM MemoryHasItsExecutor == Spec => []OnlyRepeatedAreOutlived
<1>1. IInv => OnlyRepeatedAreOutlived
    BY DEF IInv
<1> QED
    BY Invariance, <1>1, PTL

\* The account of every executor that no factorize() was repeated on is what is held
\* of it, though releases that another never hears of may be under way beside it.
THEOREM AccountsAreExact == Spec => []LiveBytesAddUp
<1>1. IInv => LiveBytesAddUp
    BY DEF IInv
<1> QED
    BY Invariance, <1>1, PTL

\* No solve runs on a factor of another matrix than the one last analyzed, not even
\* where the sizes of two factors agree.
THEOREM FactorIsOfThePlan == Spec => []NeverAnotherFactor
<1>1. IInv => NeverAnotherFactor
    BY DEF IInv, FactorFollowsPlan, NeverAnotherFactor
<1> QED
    BY Invariance, <1>1, PTL

-----------------------------------------------------------------------------
\* Stages at which the two objects of run() exist.
WithBackend == {"analyze", "factorize", "solve", "destroy backend", "unwind"}
WithHost    == WithBackend \cup {"create backend", "destroy host", "unwind host"}

LocalsFollowStage ==
    /\ stage \in Stages \cup Ended
    /\ exists => stage \in WithBackend
    /\ host => stage \in WithHost
    /\ stage \in WithHost => host

\* Where the backend is at each stage.
BackendFollowsStage ==
    /\ stage = "analyze"   => op \in {"ready", "reset", "analyze"}
    /\ stage = "factorize" => op \in {"ready", "create", "allocate", "fill", "eliminate"}
    /\ stage = "solve"     => op \in {"ready", "solve"}
    /\ stage \in {"destroy backend", "unwind"} => op \in {"ready", "destroy"}
    /\ stage \notin WithBackend => op \in {"ready", "destroyed"} /\ alive = {}
    /\ stage \in {"validate", "create host", "create backend"} => op = "ready"
    /\ stage \in WithBackend => exists

\* The matrix that the calls are about, and the factor they leave.
RequestIsServed ==
    /\ stage = "analyze" /\ op # "ready" => argument = Request
    /\ stage = "factorize" => IF op = "ready" THEN matrix = Request ELSE argument = Request
    /\ stage = "solve" => factor = [of |-> Request, complete |-> TRUE]
    /\ stage \in {"destroy backend", "destroy host", "returned"} =>
           solved = [of |-> Request, complete |-> TRUE]

\* The only factorization finds no buffers, so that none is ever repeated.
FactorizesOnce ==
    /\ repeated = {}
    /\ stage = "factorize" /\ op \in {"ready", "create"} => NoBuffers

RunIInv ==
    /\ IInv
    /\ FactorizesOnce
    /\ LocalsFollowStage
    /\ BackendFollowsStage
    /\ RequestIsServed

-----------------------------------------------------------------------------
\* What the pipeline does to its backend is what any client may do.
LEMMA RunIsAClient == [RunNext]_runVars => [Next]_vars
<1> SUFFICES ASSUME [RunNext]_runVars PROVE [Next]_vars
    OBVIOUS
<1> USE RequestAssumption
<1>1. CASE AnalyzeStage
    BY <1>1 DEF AnalyzeStage, Under, Next
<1>2. CASE FactorizeStage
    BY <1>2 DEF FactorizeStage, Under, Next
<1>3. CASE SolveStage
    BY <1>3 DEF SolveStage, Next
<1>4. ASSUME NEW from, NEW after, DestroyBackend(from, after)
      PROVE  [Next]_vars
    BY <1>4 DEF DestroyBackend, Next
<1>5. CASE Validate \/ CreateHost \/ CreateBackend \/ HasEnded \/ UNCHANGED runVars
    BY <1>5 DEF Validate, CreateHost, CreateBackend, HasEnded, runVars
<1>6. ASSUME NEW from, NEW after, DestroyHost(from, after)
      PROVE  [Next]_vars
    BY <1>6 DEF DestroyHost
<1> QED
    BY <1>1, <1>2, <1>3, <1>4, <1>5, <1>6 DEF RunNext, Step

LEMMA BackendIsFine == IInv /\ [RunNext]_runVars => IInv'
    BY RunIsAClient, NextIsFine

LEMMA RunInitIsFine == RunInit => RunIInv
<1> SUFFICES ASSUME RunInit PROVE RunIInv
    OBVIOUS
<1>1. IInv
    BY InitIsFine DEF RunInit
<1>2. LocalsFollowStage
    BY DEF RunInit, LocalsFollowStage, WithBackend, WithHost, Stages
<1>3. BackendFollowsStage
    BY DEF RunInit, Init, BackendFollowsStage, WithBackend
<1>4. RequestIsServed
    BY DEF RunInit, RequestIsServed
<1>5. FactorizesOnce
    BY DEF RunInit, Init, FactorizesOnce
<1> QED
    BY <1>1, <1>2, <1>3, <1>4, <1>5 DEF RunIInv

-----------------------------------------------------------------------------
\* Before the backend exists.
LEMMA SetupIsFine ==
    ASSUME RunIInv, Validate \/ CreateHost \/ CreateBackend
    PROVE  LocalsFollowStage' /\ BackendFollowsStage' /\ RequestIsServed'
<1> USE DEF RunIInv, WithBackend, WithHost
<1>1. UNCHANGED vars
    BY DEF Validate, CreateHost, CreateBackend
<1>2. LocalsFollowStage'
    <2>1. CASE Validate
        BY <2>1 DEF Validate, LocalsFollowStage, Stages, Ended, run
    <2>2. CASE CreateHost
        <3>1. ~exists /\ ~exists'
            BY <2>2 DEF CreateHost, LocalsFollowStage
        <3>2. stage = "create host"
            BY <2>2 DEF CreateHost
        <3>3. CASE stage' = "create backend" /\ host' = TRUE
            BY <3>1, <3>3 DEF LocalsFollowStage, Stages, Ended
        <3>4. CASE stage' = "thrown" /\ host' = host
            BY <3>1, <3>2, <3>4 DEF LocalsFollowStage, Stages, Ended
        <3> QED
            BY <2>2, <3>3, <3>4 DEF CreateHost
    <2>3. CASE CreateBackend
        <3>1. host /\ host'
            BY <2>3 DEF CreateBackend, LocalsFollowStage
        <3>2. ~exists
            BY <2>3 DEF CreateBackend, LocalsFollowStage
        <3>3. CASE stage' = "analyze" /\ exists' = TRUE
            BY <3>1, <3>3 DEF LocalsFollowStage, Stages, Ended
        <3>4. CASE stage' = "unwind host" /\ exists' = exists
            BY <3>1, <3>2, <3>4 DEF LocalsFollowStage, Stages, Ended
        <3> QED
            BY <2>3, <3>3, <3>4 DEF CreateBackend
    <2> QED
        BY <2>1, <2>2, <2>3
<1>3. stage \in {"validate", "create host", "create backend"}
    BY DEF Validate, CreateHost, CreateBackend
<1>4. op = "ready" /\ op' = "ready" /\ alive' = {}
    BY <1>1, <1>3 DEF BackendFollowsStage, vars, device
<1>5. BackendFollowsStage'
    BY <1>4 DEF BackendFollowsStage, Validate, CreateHost, CreateBackend, run
<1>6. RequestIsServed'
    BY <1>4 DEF RequestIsServed, Validate, CreateHost, CreateBackend
<1> QED
    BY <1>2, <1>5, <1>6

LEMMA AnalyzeStageIsFine ==
    ASSUME RunIInv, AnalyzeStage
    PROVE  LocalsFollowStage' /\ BackendFollowsStage' /\ RequestIsServed'
<1> USE DEF RunIInv, WithBackend, WithHost, AnalyzeStage, Under, run
<1>1. LocalsFollowStage'
    BY DEF LocalsFollowStage, Stages, Ended
<1>2. BackendFollowsStage'
    BY DEF BackendFollowsStage, Analyze, AnalyzeReset, AnalyzeReturns, AnalyzeFails
<1>3. RequestIsServed'
    BY DEF RequestIsServed, Analyze, AnalyzeReset, AnalyzeReturns, AnalyzeFails
<1> QED
    BY <1>1, <1>2, <1>3

LEMMA FactorizeStageIsFine ==
    ASSUME RunIInv, FactorizeStage
    PROVE  LocalsFollowStage' /\ BackendFollowsStage' /\ RequestIsServed'
<1> USE DEF RunIInv, WithBackend, WithHost, FactorizeStage, Under, run
<1>1. LocalsFollowStage'
    BY DEF LocalsFollowStage, Stages, Ended
<1>2. BackendFollowsStage'
    BY DEF BackendFollowsStage, Factorize, CreateExecutor, Allocate, Initialize,
           FactorizeReturns, FactorizeFails
<1>3. RequestIsServed'
    BY DEF RequestIsServed, Factorize, CreateExecutor, Allocate, Initialize,
           FactorizeReturns, FactorizeFails
<1> QED
    BY <1>1, <1>2, <1>3

LEMMA SolveStageIsFine ==
    ASSUME RunIInv, SolveStage
    PROVE  LocalsFollowStage' /\ BackendFollowsStage' /\ RequestIsServed'
<1> USE DEF RunIInv, WithBackend, WithHost, SolveStage
<1>1. LocalsFollowStage'
    BY DEF LocalsFollowStage, Stages, Ended
<1>2. BackendFollowsStage'
    BY DEF BackendFollowsStage, Solve, SolveEnds
<1>3. RequestIsServed'
    BY DEF RequestIsServed, Solve, SolveEnds
<1> QED
    BY <1>1, <1>2, <1>3

-----------------------------------------------------------------------------
\* The backend goes, and its executor with it, whether the run succeeded or not.
LEMMA TeardownIsFine ==
    ASSUME RunIInv,
           NEW from, NEW after,
           \/ from = "destroy backend" /\ after = "destroy host"
           \/ from = "unwind" /\ after = "unwind host",
           DestroyBackend(from, after)
    PROVE  LocalsFollowStage' /\ BackendFollowsStage' /\ RequestIsServed'
<1> USE DEF RunIInv, WithBackend, WithHost
<1>1. CASE Destroy /\ UNCHANGED <<stage, exists>>
    BY <1>1 DEF DestroyBackend, LocalsFollowStage, BackendFollowsStage, RequestIsServed, Destroy
<1>2. CASE DestroyEnds /\ stage' = after /\ exists' = FALSE
    <2>1. alive' = {}
        BY <1>2 DEF IInv, OneExecutor, DestroyEnds, DestroyExecutor
    <2>2. LocalsFollowStage'
        BY <1>2 DEF DestroyBackend, LocalsFollowStage, Stages, Ended
    <2>3. BackendFollowsStage'
        BY <1>2, <2>1 DEF BackendFollowsStage, DestroyEnds
    <2>4. RequestIsServed'
        BY <1>2 DEF DestroyBackend, RequestIsServed, DestroyEnds
    <2> QED
        BY <2>2, <2>3, <2>4
<1> QED
    BY <1>1, <1>2 DEF DestroyBackend

\* The host executor goes last.
LEMMA HostGoesLast ==
    ASSUME RunIInv,
           NEW from, NEW after,
           \/ from = "destroy host" /\ after = "returned"
           \/ from = "unwind host" /\ after = "thrown",
           DestroyHost(from, after)
    PROVE  LocalsFollowStage' /\ BackendFollowsStage' /\ RequestIsServed'
<1> USE DEF RunIInv, WithBackend, WithHost
<1>1. LocalsFollowStage'
    BY DEF DestroyHost, LocalsFollowStage, Stages, Ended
<1>2. BackendFollowsStage'
    BY DEF DestroyHost, BackendFollowsStage, vars, device
<1>3. RequestIsServed'
    BY DEF DestroyHost, RequestIsServed
<1> QED
    BY <1>1, <1>2, <1>3

\* The analysis before a factorization left no buffers, and a factorization that
\* fails is not repeated.
LEMMA OnceIsFine == ASSUME RunIInv, [RunNext]_runVars PROVE FactorizesOnce'
<1> USE DEF RunIInv, FactorizesOnce
<1>1. CASE UNCHANGED vars /\ stage' # "factorize"
    BY <1>1 DEF vars, device
<1>2. CASE UNCHANGED runVars
    BY <1>2 DEF runVars, vars, device, NoBuffers
<1>3. CASE AnalyzeStage
    <2>1. repeated' = repeated
        BY <1>3 DEF AnalyzeStage, Under, Analyze, AnalyzeReset, AnalyzeReturns, AnalyzeFails,
                    device
    <2>2. stage' = "factorize" => NoBuffers'
        BY <1>3 DEF AnalyzeStage, Under, AnalyzeReturns, IInv, BuffersFollowCalls, NoBuffers,
                    device
    <2> QED
        BY <2>1, <2>2
<1>4. CASE FactorizeStage
    <2>1. CASE Factorize(Request)
        BY <1>4, <2>1 DEF FactorizeStage, Under, Factorize, NoBuffers, device
    <2>2. CASE CreateExecutor
        BY <1>4, <2>2 DEF FactorizeStage, CreateExecutor, NoBuffers
    <2>3. CASE Allocate \/ Initialize
        BY <1>4, <2>3 DEF FactorizeStage, Allocate, Initialize, device
    <2>4. CASE (FactorizeReturns \/ FactorizeFails) /\ stage' # "factorize"
        BY <2>4 DEF FactorizeReturns, FactorizeFails, device
    <2> QED
        BY <1>4, <2>1, <2>2, <2>3, <2>4 DEF FactorizeStage, Under
<1>5. CASE SolveStage
    BY <1>5 DEF SolveStage, Solve, SolveEnds, device
<1>6. ASSUME NEW from \in {"destroy backend", "unwind"},
             NEW after \in {"destroy host", "unwind host"}, DestroyBackend(from, after)
      PROVE  FactorizesOnce'
    BY <1>6 DEF DestroyBackend, Destroy, DestroyEnds
<1>7. CASE Validate \/ CreateHost \/ CreateBackend
    BY <1>1, <1>7 DEF Validate, CreateHost, CreateBackend
<1>8. ASSUME NEW from, NEW after \in Ended, DestroyHost(from, after)
      PROVE  FactorizesOnce'
    BY <1>1, <1>8 DEF DestroyHost, Ended
<1> QED
    BY <1>2, <1>3, <1>4, <1>5, <1>6, <1>7, <1>8 DEF RunNext, Step, HasEnded, Ended

LEMMA RunNextIsFine == RunIInv /\ [RunNext]_runVars => RunIInv'
<1> SUFFICES ASSUME RunIInv, [RunNext]_runVars PROVE RunIInv'
    OBVIOUS
<1>1. IInv' /\ FactorizesOnce'
    BY BackendIsFine, OnceIsFine DEF RunIInv
<1>2. CASE UNCHANGED runVars
    BY <1>1, <1>2 DEF RunIInv, LocalsFollowStage, BackendFollowsStage, RequestIsServed,
                      runVars, run, vars, device
<1>3. CASE Step
    <2>1. LocalsFollowStage' /\ BackendFollowsStage' /\ RequestIsServed'
        BY <1>3, SetupIsFine, AnalyzeStageIsFine, FactorizeStageIsFine, SolveStageIsFine,
           TeardownIsFine, HostGoesLast DEF Step
    <2> QED
        BY <1>1, <2>1 DEF RunIInv
<1> QED
    BY <1>2, <1>3 DEF RunNext, HasEnded

-----------------------------------------------------------------------------
\* The invariant of the pipeline, which contains that of the backend object.
THEOREM RunInvariance == RunSpec => []RunIInv
<1> QED
    BY RunInitIsFine, RunNextIsFine, PTL DEF RunSpec

\* Teardown is in order on every path, and an ended run holds no memory anywhere.
THEOREM NothingIsLeft == RunSpec => []TeardownInOrder
<1>1. RunIInv => TeardownInOrder
    <2> SUFFICES ASSUME RunIInv PROVE TeardownInOrder
        OBVIOUS
    <2> USE DEF RunIInv, WithBackend, WithHost
    <2>1. exists => host
        BY DEF LocalsFollowStage
    <2>2. op # "ready" /\ op # "destroyed" => exists
        BY DEF BackendFollowsStage
    <2>3. alive # {} => exists
        BY DEF BackendFollowsStage
    <2>4. ASSUME stage \in Ended
          PROVE  ~host /\ ~exists /\ alive = {} /\ \A e \in Executors : live[e] = 0
        <3>1. ~host /\ ~exists /\ alive = {}
            BY <2>4 DEF LocalsFollowStage, BackendFollowsStage, Ended
        <3>2. NoBuffers /\ repeated = {}
            BY <3>1 DEF IInv, OneExecutor, FactorizesOnce
        <3>3. ASSUME NEW e \in Executors PROVE live[e] = 0
            <4>1. {b \in 1 .. Buffers : buffer[b] = e} = {}
                BY <3>2 DEF NoBuffers, Executors, NoExecutor
            <4>2. Held(e) = 0
                BY <4>1, FS_EmptySet DEF Held
            <4> QED
                BY <3>2, <4>2 DEF IInv, LiveBytesAddUp
        <3> QED
            BY <3>1, <3>3
    <2> QED
        BY <2>1, <2>2, <2>3, <2>4 DEF TeardownInOrder
<1> QED
    BY RunInvariance, <1>1, PTL

\* In the pipeline no allocation ever outlives its executor: it never repeats the
\* factorize() that would leave one behind.
THEOREM RunKeepsExecutors == RunSpec => []ExecutorOutlivesBuffers
<1>1. RunIInv => ExecutorOutlivesBuffers
    BY DEF RunIInv, FactorizesOnce, IInv, OnlyRepeatedAreOutlived, ExecutorOutlivesBuffers
<1> QED
    BY RunInvariance, <1>1, PTL

\* A returned solution was computed with the complete factor of the request's matrix.
THEOREM SolutionIsOfTheRequest == RunSpec => []ReturnedIsSolved
<1>1. RunIInv => ReturnedIsSolved
    BY DEF RunIInv, RequestIsServed, ReturnedIsSolved
<1> QED
    BY RunInvariance, <1>1, PTL

-----------------------------------------------------------------------------
\* Each record is attached to the roots or to a record created before it.
ParentsAreEarlier == \A r \in 1 .. count : parent[r] < r

PInv ==
    /\ ProfilerTypeOK
    /\ NoDanglingPointer
    /\ StackedOnce
    /\ StackInOrder
    /\ ParentsAreEarlier

-----------------------------------------------------------------------------
\* A function on 1 .. n is a sequence of length n.
LEMMA FunctionIsSeq ==
    ASSUME NEW S, NEW n \in Nat, NEW f \in [1 .. n -> S]
    PROVE  /\ f \in Seq(S)
           /\ Len(f) = n
<1>1. f \in Seq(S)
    BY SeqDef
<1>2. Len(f) \in Nat /\ DOMAIN f = 1 .. Len(f)
    BY <1>1, LenProperties
<1>3. DOMAIN f = 1 .. n
    OBVIOUS
<1> QED
    BY <1>1, <1>2, <1>3

\* Taking a pointer off a stack in order: the other entries stay, in order.
LEMMA WithoutPointer ==
    ASSUME stack \in Seq(Pointers), StackInOrder, NEW p, MaxRecords \in Nat
    PROVE  /\ Without(p) \in Seq(Pointers)
           /\ \A i \in 1 .. Len(Without(p)) :
                  \E j \in 1 .. Len(stack) : Without(p)[i] = stack[j] /\ stack[j] # p
           /\ \A j \in 1 .. Len(stack) : stack[j] # p =>
                  \E i \in 1 .. Len(Without(p)) : Without(p)[i] = stack[j]
           /\ \A i, j \in 1 .. Len(Without(p)) : i < j =>
                  Without(p)[i].record < Without(p)[j].record
<1> DEFINE n == Len(stack)
<1>1. n \in Nat /\ stack \in [1 .. n -> Pointers]
    BY LenProperties
<1>2. CASE Found(p) = {}
    <2>1. Without(p) = stack
        BY <1>2 DEF Without
    <2>2. \A j \in 1 .. n : stack[j] # p
        BY <1>2 DEF Found
    <2> QED
        BY <2>1, <2>2 DEF StackInOrder
<1>3. CASE Found(p) # {}
    <2> DEFINE at == CHOOSE i \in Found(p) : stack[Len(stack)] = p => i = Len(stack)
               s  == [i \in 1 .. n - 1 |-> IF i < at THEN stack[i] ELSE stack[i + 1]]
    <2>1. \E i \in Found(p) : stack[Len(stack)] = p => i = Len(stack)
        <3>1. PICK k \in 1 .. n : k \in Found(p)
            BY <1>3 DEF Found
        <3>2. CASE stack[n] = p
            <4>1. n \in Found(p)
                BY <1>1, <3>1, <3>2 DEF Found
            <4> QED
                BY <4>1
        <3>3. CASE stack[n] # p
            BY <3>1, <3>3
        <3> QED
            BY <3>2, <3>3
    <2>2. at \in 1 .. n /\ stack[at] = p
        BY <2>1 DEF Found
    <2>3. Without(p) = s
        BY <1>3 DEF Without
    <2>4. n - 1 \in Nat
        BY <1>1, <2>2
    <2>5. s \in [1 .. n - 1 -> Pointers]
        BY <1>1, <2>2
    <2>6. s \in Seq(Pointers) /\ Len(s) = n - 1
        BY <2>4, <2>5, FunctionIsSeq
    <2> HIDE DEF at
    <2>7. ASSUME NEW j \in 1 .. n, j # at
          PROVE  stack[j] # p
        <3>1. j < at \/ at < j
            BY <1>1, <2>2, <2>7
        <3>2. stack[j].record \in Nat /\ stack[at].record \in Nat
            <4>1. stack[j] \in Pointers /\ stack[at] \in Pointers
                BY <1>1, <2>2, <2>7
            <4> QED
                BY <4>1 DEF Pointers
        <3>3. stack[j].record # stack[at].record
            BY <1>1, <2>2, <3>1, <3>2 DEF StackInOrder
        <3> QED
            BY <2>2, <3>3
    <2>8. \A i \in 1 .. n - 1 : \E j \in 1 .. n : s[i] = stack[j] /\ stack[j] # p
        <3> SUFFICES ASSUME NEW i \in 1 .. n - 1
                     PROVE  \E j \in 1 .. n : s[i] = stack[j] /\ stack[j] # p
            OBVIOUS
        <3>1. CASE i < at
            <4>1. i \in 1 .. n /\ i # at /\ s[i] = stack[i]
                BY <1>1, <2>2, <3>1
            <4> QED
                BY <2>7, <4>1
        <3>2. CASE ~(i < at)
            <4>1. i + 1 \in 1 .. n /\ i + 1 # at /\ s[i] = stack[i + 1]
                BY <1>1, <2>2, <3>2
            <4> QED
                BY <2>7, <4>1
        <3> QED
            BY <3>1, <3>2
    <2>9. \A j \in 1 .. n : stack[j] # p => \E i \in 1 .. n - 1 : s[i] = stack[j]
        <3> SUFFICES ASSUME NEW j \in 1 .. n, stack[j] # p
                     PROVE  \E i \in 1 .. n - 1 : s[i] = stack[j]
            OBVIOUS
        <3>1. j # at
            BY <2>2
        <3>2. CASE j < at
            <4>1. j \in 1 .. n - 1 /\ s[j] = stack[j]
                BY <1>1, <2>2, <3>2
            <4> QED
                BY <4>1
        <3>3. CASE at < j
            <4>1. j - 1 \in 1 .. n - 1 /\ ~(j - 1 < at) /\ (j - 1) + 1 = j
                BY <1>1, <2>2, <3>3
            <4>2. s[j - 1] = stack[j]
                BY <4>1
            <4> QED
                BY <4>1, <4>2
        <3> QED
            BY <1>1, <2>2, <3>1, <3>2, <3>3
    <2>10. \A i, j \in 1 .. n - 1 : i < j => s[i].record < s[j].record
        <3> SUFFICES ASSUME NEW i \in 1 .. n - 1, NEW j \in 1 .. n - 1, i < j
                     PROVE  s[i].record < s[j].record
            OBVIOUS
        <3> DEFINE a == IF i < at THEN i ELSE i + 1
                   b == IF j < at THEN j ELSE j + 1
        <3>1. a \in 1 .. n /\ b \in 1 .. n /\ a < b
            BY <1>1, <2>2
        <3>2. s[i] = stack[a] /\ s[j] = stack[b]
            OBVIOUS
        <3> QED
            BY <3>1, <3>2 DEF StackInOrder
    <2> HIDE DEF s
    <2>11. Len(Without(p)) = n - 1
        BY <2>3, <2>6
    <2> QED
        BY <2>3, <2>6, <2>8, <2>9, <2>10, <2>11
<1> QED
    BY <1>2, <1>3

-----------------------------------------------------------------------------
\* No event is open at first.
LEMMA ProfilerInitIsFine == ProfilerInit => PInv
<1> SUFFICES ASSUME ProfilerInit PROVE PInv
    OBVIOUS
<1> USE BoundAssumption DEF ProfilerInit
<1>1. Len(stack) = 0 /\ stack \in Seq(Pointers)
    BY EmptySeq
<1>2. ProfilerTypeOK
    BY <1>1 DEF ProfilerTypeOK, Root
<1>3. NoDanglingPointer /\ StackedOnce /\ StackInOrder
    BY <1>1 DEF NoDanglingPointer, StackedOnce, StackInOrder, Active
<1>4. ParentsAreEarlier
    BY DEF ParentsAreEarlier
<1> QED
    BY <1>2, <1>3, <1>4 DEF PInv

-----------------------------------------------------------------------------
\* The record whose vector grows is no earlier than any active record.
LEMMA OwnerIsLatest ==
    ASSUME PInv
    PROVE  /\ Owner \in 0 .. count
           /\ \A i \in 1 .. Len(stack) : stack[i].record <= Owner
<1>1. stack \in Seq(Pointers) /\ Len(stack) \in Nat /\ count \in Nat
    BY LenProperties, BoundAssumption DEF PInv, ProfilerTypeOK
<1>2. CASE stack = <<>>
    BY <1>1, <1>2, EmptySeq DEF Owner, Root
<1>3. CASE stack # <<>>
    <2>1. Len(stack) \in 1 .. Len(stack)
        BY <1>1, <1>3, EmptySeq
    <2>2. Owner = stack[Len(stack)].record
        BY <1>3 DEF Owner
    <2>3. Valid(stack[Len(stack)])
        BY <2>1 DEF PInv, NoDanglingPointer
    <2>4. Owner \in 1 .. count
        BY <2>2, <2>3 DEF Valid
    <2>5. ASSUME NEW i \in 1 .. Len(stack)
          PROVE  stack[i].record <= Owner
        <3>1. CASE i = Len(stack)
            BY <1>1, <2>2, <2>4, <3>1
        <3>2. CASE i < Len(stack)
            <4>1. stack[i].record < stack[Len(stack)].record
                BY <2>1, <2>5, <3>2 DEF PInv, StackInOrder
            <4>2. Valid(stack[i])
                BY <2>5 DEF PInv, NoDanglingPointer
            <4>3. stack[i].record \in 1 .. count
                BY <4>2 DEF Valid
            <4> QED
                BY <1>1, <2>2, <2>4, <4>1, <4>3
        <3> QED
            BY <1>1, <2>5, <3>1, <3>2
    <2> QED
        BY <1>1, <2>4, <2>5
<1> QED
    BY <1>2, <1>3

\* The pointer is valid after the step.
ValidAfter(p) == p.record \in 1 .. count' /\ p.address = address'[p.record]

\* A pointer to an active record stays valid when an event is opened.
LEMMA ScopedKeepsPointers ==
    ASSUME PInv, NEW h \in Handles, NEW reallocate \in BOOLEAN, Scoped(h, reallocate)
    PROVE  \A p : Valid(p) /\ p.record <= Owner => ValidAfter(p)
<1> SUFFICES ASSUME NEW p, Valid(p), p.record <= Owner
             PROVE  ValidAfter(p)
    OBVIOUS
<1>1. Owner \in 0 .. count /\ count \in 0 .. MaxRecords /\ count < MaxRecords
    BY OwnerIsLatest DEF PInv, ProfilerTypeOK, Scoped
<1>2. p.record \in 1 .. count /\ p.address = address[p.record]
    BY DEF Valid
<1>3. p.record \notin Siblings(Owner)
    BY <1>1, <1>2 DEF Siblings, PInv, ParentsAreEarlier
<1>4. address'[p.record] = address[p.record]
    BY <1>1, <1>2, <1>3, BoundAssumption DEF Scoped
<1>5. count' = count + 1
    BY DEF Scoped
<1> QED
    BY <1>1, <1>2, <1>4, <1>5, BoundAssumption DEF ValidAfter

\* scoped() preserves the invariant: its new record is later than every active one.
LEMMA ScopedIsFine ==
    ASSUME PInv, NEW h \in Handles, NEW reallocate \in BOOLEAN, Scoped(h, reallocate)
    PROVE  PInv'
<1> DEFINE r == count + 1
<1>1. /\ count \in Nat /\ MaxRecords \in Nat /\ MaxMoves \in Nat /\ r \in 1 .. MaxRecords
      /\ count' = r
    BY BoundAssumption DEF PInv, ProfilerTypeOK, Scoped
<1>2. Owner \in 0 .. count
    BY OwnerIsLatest
<1>3. stack \in Seq(Pointers) /\ Len(stack) \in Nat
    BY LenProperties DEF PInv, ProfilerTypeOK
<1>4. /\ address \in [1 .. MaxRecords -> 0 .. MaxMoves]
      /\ parent \in [1 .. MaxRecords -> 0 .. MaxRecords]
      /\ handle \in [Handles -> Pointers \cup {None}]
    BY DEF PInv, ProfilerTypeOK
<1>5. /\ parent' = [parent EXCEPT ![r] = Owner]
      /\ stack' = Append(stack, Pointer(r))
      /\ handle' = [handle EXCEPT ![h] = Pointer(r)]
      /\ handle[h] = None
    BY DEF Scoped, Active
<1>6. r \notin Siblings(Owner) /\ address'[r] = address[r]
    BY <1>1 DEF Siblings, Scoped
<1>7. Pointer(r) \in Pointers
    BY <1>1, <1>4 DEF Pointer, Pointers
<1>8. /\ stack' \in Seq(Pointers)
      /\ Len(stack') = Len(stack) + 1
      /\ \A i \in 1 .. Len(stack) : stack'[i] = stack[i]
      /\ stack'[Len(stack) + 1] = Pointer(r)
    BY <1>3, <1>5, <1>7, AppendProperties
<1>9. address' \in [1 .. MaxRecords -> 0 .. MaxMoves]
    <2>1. address' = [q \in 1 .. MaxRecords |->
              IF reallocate /\ q \in Siblings(Owner) THEN address[q] + 1 ELSE address[q]]
        BY DEF Scoped
    <2>2. reallocate => \A q \in Siblings(Owner) : address[q] < MaxMoves
        BY DEF Scoped
    <2>3. ASSUME NEW q \in 1 .. MaxRecords
          PROVE  address'[q] \in 0 .. MaxMoves
        <3>1. address[q] \in 0 .. MaxMoves
            BY <1>4
        <3>2. CASE reallocate /\ q \in Siblings(Owner)
            <4>1. address'[q] = address[q] + 1 /\ address[q] < MaxMoves
                BY <2>1, <2>2, <3>2
            <4> QED
                BY <1>1, <3>1, <4>1
        <3>3. CASE ~(reallocate /\ q \in Siblings(Owner))
            BY <2>1, <3>1, <3>3
        <3> QED
            BY <3>2, <3>3
    <2> QED
        BY <2>1, <2>3
<1>10. Pointer(r).record = r /\ Pointer(r).address = address[r]
    BY DEF Pointer
<1>11. ValidAfter(Pointer(r))
    BY <1>1, <1>6, <1>10 DEF ValidAfter
<1>12. ProfilerTypeOK'
    <2>1. count' \in 0 .. MaxRecords
        BY <1>1
    <2>2. parent' \in [1 .. MaxRecords -> 0 .. MaxRecords]
        BY <1>1, <1>2, <1>4, <1>5
    <2>3. handle' \in [Handles -> Pointers \cup {None}]
        BY <1>4, <1>5, <1>7
    <2> QED
        BY <1>8, <1>9, <2>1, <2>2, <2>3 DEF ProfilerTypeOK, Pointers
<1>13. \A i \in 1 .. Len(stack) : Valid(stack[i]) /\ stack[i].record <= Owner
    BY OwnerIsLatest DEF PInv, NoDanglingPointer
<1>14. \A i \in 1 .. Len(stack) : ValidAfter(stack[i])
    BY <1>13, ScopedKeepsPointers
<1>15. Pointer(r) # None /\ \A i \in 1 .. Len(stack) : stack[i] # Pointer(r)
    <2>1. Pointer(r).record # None.record
        BY <1>1, <1>10 DEF None
    <2>2. \A i \in 1 .. Len(stack) : stack[i].record # Pointer(r).record
        BY <1>1, <1>2, <1>10, <1>13 DEF Valid
    <2> QED
        BY <2>1, <2>2
<1>16. \A g \in Handles : Active(g) =>
           \E i \in 1 .. Len(stack) : stack[i] = handle[g]
    BY DEF PInv, StackedOnce
<1>17. \A g \in Handles : handle'[g] = IF g = h THEN Pointer(r) ELSE handle[g]
    BY <1>4, <1>5
<1>18. NoDanglingPointer'
    <2>1. ASSUME NEW i \in 1 .. Len(stack')
          PROVE  ValidAfter(stack'[i])
        <3>1. i \in 1 .. Len(stack) \/ i = Len(stack) + 1
            BY <1>3, <1>8
        <3> QED
            BY <1>8, <1>11, <1>14, <3>1
    <2>2. ASSUME NEW g \in Handles, handle'[g] # None
          PROVE  ValidAfter(handle'[g])
        <3>1. CASE g = h
            BY <1>11, <1>17, <3>1
        <3>2. CASE g # h
            <4>1. handle'[g] = handle[g] /\ Active(g)
                BY <1>17, <2>2, <3>2 DEF Active
            <4> QED
                BY <1>14, <1>16, <4>1
        <3> QED
            BY <3>1, <3>2
    <2> QED
        BY <2>1, <2>2 DEF NoDanglingPointer, Valid, ValidAfter, Active
<1>19. StackedOnce'
    <2>1. ASSUME NEW i \in 1 .. Len(stack')
          PROVE  \E g \in Handles : handle'[g] = stack'[i]
        <3>1. CASE i = Len(stack) + 1
            BY <1>8, <1>17, <3>1
        <3>2. CASE i \in 1 .. Len(stack)
            <4>1. PICK g \in Handles : handle[g] = stack[i]
                BY <3>2 DEF PInv, StackedOnce
            <4>2. stack[i] # None
                <5>1. stack[i].record # None.record
                    BY <1>13, <3>2 DEF Valid, None
                <5> QED
                    BY <5>1
            <4>3. g # h
                BY <1>5, <4>1, <4>2
            <4> QED
                BY <1>8, <1>17, <3>2, <4>1, <4>3
        <3> QED
            BY <1>3, <1>8, <3>1, <3>2
    <2>2. ASSUME NEW g \in Handles, handle'[g] # None
          PROVE  \E i \in 1 .. Len(stack') : stack'[i] = handle'[g]
        <3>1. CASE g = h
            <4>1. Len(stack) + 1 \in 1 .. Len(stack')
                BY <1>3, <1>8
            <4> QED
                BY <1>8, <1>17, <3>1, <4>1
        <3>2. CASE g # h
            <4>1. handle'[g] = handle[g] /\ Active(g)
                BY <1>17, <2>2, <3>2 DEF Active
            <4>2. PICK i \in 1 .. Len(stack) : stack[i] = handle[g]
                BY <1>16, <4>1
            <4>3. i \in 1 .. Len(stack') /\ stack'[i] = handle'[g]
                BY <1>3, <1>8, <4>1, <4>2
            <4> QED
                BY <4>3
        <3> QED
            BY <3>1, <3>2
    <2>3. ASSUME NEW f \in Handles, NEW g \in Handles,
                 handle'[f] # None, handle'[f] = handle'[g]
          PROVE  f = g
        <3>1. \A k \in Handles : k # h /\ handle'[k] # None => handle'[k] # Pointer(r)
            BY <1>15, <1>16, <1>17 DEF Active
        <3>2. f # h /\ g # h => handle[f] # None /\ handle[f] = handle[g]
            BY <1>17, <2>3
        <3>3. handle'[h] = Pointer(r)
            BY <1>17
        <3>4. \A k, m \in Handles : handle[k] # None /\ handle[k] = handle[m] => k = m
            BY DEF PInv, StackedOnce, Active
        <3> QED
            BY <2>3, <3>1, <3>2, <3>3, <3>4
    <2> QED
        BY <2>1, <2>2, <2>3 DEF StackedOnce, Active
<1>20. StackInOrder'
    <2> SUFFICES ASSUME NEW i \in 1 .. Len(stack'), NEW j \in 1 .. Len(stack'), i < j
                 PROVE  stack'[i].record < stack'[j].record
        BY DEF StackInOrder
    <2>1. CASE j \in 1 .. Len(stack)
        <3>1. i \in 1 .. Len(stack)
            BY <1>3, <1>8, <2>1
        <3> QED
            BY <1>8, <2>1, <3>1 DEF PInv, StackInOrder
    <2>2. CASE j = Len(stack) + 1
        <3>1. i \in 1 .. Len(stack)
            BY <1>3, <1>8, <2>2
        <3>2. stack[i].record \in 1 .. count
            BY <1>13, <3>1 DEF Valid
        <3>3. stack'[i] = stack[i] /\ stack'[j].record = r
            BY <1>8, <1>10, <2>2, <3>1
        <3> QED
            BY <1>1, <3>2, <3>3
    <2> QED
        BY <1>3, <1>8, <2>1, <2>2
<1>21. ParentsAreEarlier'
    <2>1. \A q \in 1 .. count : parent'[q] = parent[q] /\ parent[q] < q
        BY <1>1, <1>4, <1>5 DEF PInv, ParentsAreEarlier
    <2>2. parent'[r] = Owner
        BY <1>1, <1>4, <1>5
    <2> QED
        BY <1>1, <1>2, <2>1, <2>2 DEF ParentsAreEarlier
<1> QED
    BY <1>12, <1>18, <1>19, <1>20, <1>21 DEF PInv

-----------------------------------------------------------------------------
\* Taking the event of h off the stack, h then receiving what g holds: nothing for
\* finish() (g is h), the pointer of the source for a move assignment.
LEMMA LeavingIsFine ==
    ASSUME PInv, NEW h \in Handles, NEW g \in Handles, Active(h),
           stack' = Without(handle[h]),
           UNCHANGED <<count, parent, address>>,
           handle' \in [Handles -> Pointers \cup {None}],
           \A k \in Handles :
               handle'[k] = IF k = g THEN None ELSE IF k = h THEN handle[g] ELSE handle[k]
    PROVE  PInv'
<1> DEFINE p == handle[h]
<1>1. stack \in Seq(Pointers) /\ StackInOrder /\ MaxRecords \in Nat
    BY BoundAssumption DEF PInv, ProfilerTypeOK
<1>2. /\ stack' \in Seq(Pointers)
      /\ \A i \in 1 .. Len(stack') :
             \E j \in 1 .. Len(stack) : stack'[i] = stack[j] /\ stack[j] # p
      /\ \A j \in 1 .. Len(stack) : stack[j] # p =>
             \E i \in 1 .. Len(stack') : stack'[i] = stack[j]
      /\ \A i, j \in 1 .. Len(stack') : i < j => stack'[i].record < stack'[j].record
    <2> DEFINE t == Without(p)
    <2>1. /\ t \in Seq(Pointers)
          /\ \A i \in 1 .. Len(t) :
                 \E j \in 1 .. Len(stack) : t[i] = stack[j] /\ stack[j] # p
          /\ \A j \in 1 .. Len(stack) : stack[j] # p =>
                 \E i \in 1 .. Len(t) : t[i] = stack[j]
          /\ \A i, j \in 1 .. Len(t) : i < j => t[i].record < t[j].record
        BY <1>1, WithoutPointer
    <2>2. stack' = t
        OBVIOUS
    <2> HIDE DEF t
    <2> QED
        BY <2>1, <2>2
<1>3. \A i \in 1 .. Len(stack) : Valid(stack[i])
    BY DEF PInv, NoDanglingPointer
<1>4. \A k \in Handles : handle[k] # None =>
          \E i \in 1 .. Len(stack) : stack[i] = handle[k]
    BY DEF PInv, StackedOnce, Active
<1>5. \A i \in 1 .. Len(stack) : \E k \in Handles : handle[k] = stack[i]
    BY DEF PInv, StackedOnce
<1>6. \A k, m \in Handles : handle[k] # None /\ handle[k] = handle[m] => k = m
    BY DEF PInv, StackedOnce, Active
<1>7. p # None
    BY DEF Active
<1>8. ProfilerTypeOK'
    BY <1>2 DEF PInv, ProfilerTypeOK, Pointers
<1>9. \A q : Valid(q) => q.record \in 1 .. count' /\ q.address = address'[q.record]
    BY DEF Valid
<1>10. \A i \in 1 .. Len(stack') : stack'[i] # None
    <2> SUFFICES ASSUME NEW i \in 1 .. Len(stack')
                 PROVE  stack'[i] # None
        OBVIOUS
    <2>1. Valid(stack'[i])
        <3>1. PICK j \in 1 .. Len(stack) : stack'[i] = stack[j]
            BY <1>2
        <3> QED
            BY <1>3, <3>1
    <2>2. stack'[i].record # 0
        BY <2>1 DEF Valid
    <2> QED
        BY <2>2 DEF None
<1>11. \A k \in Handles : handle'[k] # None =>
           \E m \in Handles : m # h /\ handle[m] = handle'[k]
    <2> SUFFICES ASSUME NEW k \in Handles, handle'[k] # None
                 PROVE  \E m \in Handles : m # h /\ handle[m] = handle'[k]
        OBVIOUS
    <2>1. k # g
        OBVIOUS
    <2>2. CASE k = h
        BY <2>1, <2>2
    <2>3. CASE k # h
        BY <2>1, <2>3
    <2> QED
        BY <2>2, <2>3
<1>12. \A k \in Handles : handle'[k] # None =>
           \E i \in 1 .. Len(stack') : stack'[i] = handle'[k]
    <2> SUFFICES ASSUME NEW k \in Handles, handle'[k] # None
                 PROVE  \E i \in 1 .. Len(stack') : stack'[i] = handle'[k]
        OBVIOUS
    <2>1. PICK m \in Handles : m # h /\ handle[m] = handle'[k]
        BY <1>11
    <2>2. PICK j \in 1 .. Len(stack) : stack[j] = handle[m]
        BY <1>4, <2>1
    <2>3. stack[j] # p
        BY <1>6, <1>7, <2>1, <2>2
    <2>4. \A x \in 1 .. Len(stack) : stack[x] # p =>
              \E i \in 1 .. Len(stack') : stack'[i] = stack[x]
        BY <1>2
    <2>5. \E i \in 1 .. Len(stack') : stack'[i] = stack[j]
        BY <2>2, <2>3, <2>4, Zenon
    <2> QED
        BY <2>1, <2>2, <2>5, Zenon
<1>13. NoDanglingPointer'
    <2>1. \A i \in 1 .. Len(stack') :
              stack'[i].record \in 1 .. count' /\ stack'[i].address = address'[stack'[i].record]
        <3> SUFFICES ASSUME NEW i \in 1 .. Len(stack')
                     PROVE  /\ stack'[i].record \in 1 .. count'
                            /\ stack'[i].address = address'[stack'[i].record]
            OBVIOUS
        <3>1. PICK j \in 1 .. Len(stack) : stack'[i] = stack[j]
            BY <1>2
        <3> QED
            BY <1>3, <1>9, <3>1
    <2>2. \A k \in Handles : handle'[k] # None =>
              handle'[k].record \in 1 .. count' /\ handle'[k].address = address'[handle'[k].record]
        BY <1>12, <2>1
    <2> QED
        BY <2>1, <2>2 DEF NoDanglingPointer, Valid, Active
<1>14. StackedOnce'
    <2>1. \A i \in 1 .. Len(stack') : \E k \in Handles : handle'[k] = stack'[i]
        <3> SUFFICES ASSUME NEW i \in 1 .. Len(stack')
                     PROVE  \E k \in Handles : handle'[k] = stack'[i]
            OBVIOUS
        <3>1. PICK j \in 1 .. Len(stack) : stack'[i] = stack[j] /\ stack[j] # p
            BY <1>2
        <3>2. PICK m \in Handles : handle[m] = stack[j]
            BY <1>5
        <3>3. m # h
            BY <3>1, <3>2
        <3>4. CASE m = g
            <4>1. h # g
                BY <3>3, <3>4
            <4>2. handle'[h] = handle[g]
                BY <4>1
            <4> QED
                BY <3>1, <3>2, <3>4, <4>2
        <3>5. CASE m # g
            <4>1. handle'[m] = handle[m]
                BY <3>3, <3>5
            <4> QED
                BY <3>1, <3>2, <4>1
        <3> QED
            BY <3>4, <3>5
    <2>2. ASSUME NEW k \in Handles, NEW m \in Handles,
                 handle'[k] # None, handle'[k] = handle'[m]
          PROVE  k = m
        <3>1. k # g /\ m # g
            BY <2>2
        <3>2. handle'[k] = IF k = h THEN handle[g] ELSE handle[k]
            BY <3>1
        <3>3. handle'[m] = IF m = h THEN handle[g] ELSE handle[m]
            BY <3>1
        <3>4. CASE k = h
            BY <1>6, <2>2, <3>1, <3>2, <3>3, <3>4
        <3>5. CASE k # h /\ m = h
            BY <1>6, <2>2, <3>1, <3>2, <3>3, <3>5
        <3>6. CASE k # h /\ m # h
            BY <1>6, <2>2, <3>2, <3>3, <3>6
        <3> QED
            BY <3>4, <3>5, <3>6
    <2> QED
        BY <1>12, <2>1, <2>2 DEF StackedOnce, Active
<1>15. StackInOrder'
    BY <1>2 DEF StackInOrder
<1>16. ParentsAreEarlier'
    BY DEF PInv, ParentsAreEarlier
<1> QED
    BY <1>8, <1>13, <1>14, <1>15, <1>16 DEF PInv

\* Moving a handle keeps the stack, and each pointer keeps exactly one handle.
LEMMA MoveIsFine ==
    ASSUME PInv, NEW h \in Handles, NEW g \in Handles, Move(h, g)
    PROVE  PInv'
<1>1. /\ handle \in [Handles -> Pointers \cup {None}]
      /\ handle[h] = None /\ handle[g] # None
      /\ handle' = [handle EXCEPT ![h] = handle[g], ![g] = None]
      /\ UNCHANGED <<count, parent, address, stack>>
    BY DEF PInv, ProfilerTypeOK, Move, Active
<1>2. /\ handle' \in [Handles -> Pointers \cup {None}]
      /\ \A k \in Handles :
             handle'[k] = IF k = g THEN None ELSE IF k = h THEN handle[g] ELSE handle[k]
    BY <1>1
<1>3. \A k, m \in Handles : handle[k] # None /\ handle[k] = handle[m] => k = m
    BY DEF PInv, StackedOnce, Active
<1>4. ProfilerTypeOK'
    BY <1>1, <1>2 DEF PInv, ProfilerTypeOK, Pointers
<1>5. \A k \in Handles : handle'[k] # None => \E m \in Handles : handle[m] = handle'[k]
    BY <1>2
<1>6. NoDanglingPointer'
    <2>1. \A k \in Handles : handle[k] # None =>
              handle[k].record \in 1 .. count /\ handle[k].address = address[handle[k].record]
        BY DEF PInv, NoDanglingPointer, Valid, Active
    <2>2. \A k \in Handles : handle'[k] # None =>
              handle'[k].record \in 1 .. count /\ handle'[k].address = address[handle'[k].record]
        BY <1>5, <2>1
    <2> QED
        BY <1>1, <2>2 DEF PInv, NoDanglingPointer, Valid, Active
<1>7. StackedOnce'
    <2>1. ASSUME NEW i \in 1 .. Len(stack)
          PROVE  \E k \in Handles : handle'[k] = stack[i]
        <3>1. PICK m \in Handles : handle[m] = stack[i]
            BY DEF PInv, StackedOnce
        <3>2. stack[i] # None
            <4>1. stack[i].record # 0
                BY DEF PInv, NoDanglingPointer, Valid
            <4> QED
                BY <4>1 DEF None
        <3>3. m # h
            BY <1>1, <3>1, <3>2
        <3>4. CASE m = g
            BY <1>1, <1>2, <3>1, <3>4
        <3>5. CASE m # g
            BY <1>2, <3>1, <3>3, <3>5
        <3> QED
            BY <3>4, <3>5
    <2>2. \A k \in Handles : handle'[k] # None => \E i \in 1 .. Len(stack) : stack[i] = handle'[k]
        BY <1>5 DEF PInv, StackedOnce, Active
    <2>3. ASSUME NEW k \in Handles, NEW m \in Handles,
                 handle'[k] # None, handle'[k] = handle'[m]
          PROVE  k = m
        <3>1. k # g /\ m # g
            BY <1>2, <2>3
        <3>2. CASE k = h
            BY <1>2, <1>3, <2>3, <3>1, <3>2
        <3>3. CASE k # h /\ m = h
            BY <1>2, <1>3, <2>3, <3>1, <3>3
        <3>4. CASE k # h /\ m # h
            BY <1>2, <1>3, <2>3, <3>1, <3>4
        <3> QED
            BY <3>2, <3>3, <3>4
    <2> QED
        BY <1>1, <2>1, <2>2, <2>3 DEF StackedOnce, Active
<1>8. StackInOrder' /\ ParentsAreEarlier'
    BY <1>1 DEF PInv, StackInOrder, ParentsAreEarlier
<1> QED
    BY <1>4, <1>6, <1>7, <1>8 DEF PInv

\* reset() runs with an empty stack, so no handle is active either.
LEMMA ResetIsFine ==
    ASSUME PInv, Reset
    PROVE  PInv'
<1>1. Len(stack) = 0 /\ stack' = stack /\ handle' = handle /\ count' = 0
    BY EmptySeq DEF Reset
<1>2. \A k \in Handles : handle[k] = None
    BY <1>1 DEF PInv, StackedOnce, Active
<1>3. ProfilerTypeOK'
    BY <1>1, BoundAssumption DEF PInv, ProfilerTypeOK, Reset, Root, Pointers
<1>4. NoDanglingPointer' /\ StackedOnce' /\ StackInOrder'
    BY <1>1, <1>2 DEF NoDanglingPointer, StackedOnce, StackInOrder, Active
<1>5. ParentsAreEarlier'
    BY <1>1 DEF ParentsAreEarlier
<1> QED
    BY <1>3, <1>4, <1>5 DEF PInv

\* Every step preserves the invariant.
LEMMA ProfilerNextIsFine == PInv /\ [ProfilerNext]_profiler_vars => PInv'
<1> SUFFICES ASSUME PInv, [ProfilerNext]_profiler_vars PROVE PInv'
    OBVIOUS
<1>1. ASSUME NEW h \in Handles, NEW reallocate \in BOOLEAN, Scoped(h, reallocate)
      PROVE  PInv'
    BY <1>1, ScopedIsFine
<1>2. ASSUME NEW h \in Handles, Finish(h)
      PROVE  PInv'
    <2>1. handle \in [Handles -> Pointers \cup {None}]
        BY DEF PInv, ProfilerTypeOK
    <2>2. Active(h) /\ stack' = Without(handle[h]) /\ UNCHANGED <<count, parent, address>>
        BY <1>2 DEF Finish
    <2>3. handle' = [handle EXCEPT ![h] = None]
        BY <1>2 DEF Finish
    <2>4. handle' \in [Handles -> Pointers \cup {None}]
        BY <2>1, <2>3
    <2>5. \A k \in Handles :
              handle'[k] = IF k = h THEN None ELSE IF k = h THEN handle[h] ELSE handle[k]
        BY <2>1, <2>3
    <2> QED
        BY <2>2, <2>4, <2>5, LeavingIsFine
<1>3. ASSUME NEW h \in Handles, NEW g \in Handles, Move(h, g)
      PROVE  PInv'
    BY <1>3, MoveIsFine
<1>4. ASSUME NEW h \in Handles, NEW g \in Handles, MoveAssign(h, g)
      PROVE  PInv'
    <2>1. handle \in [Handles -> Pointers \cup {None}]
        BY DEF PInv, ProfilerTypeOK
    <2>2. Active(h) /\ stack' = Without(handle[h]) /\ UNCHANGED <<count, parent, address>>
        BY <1>4 DEF MoveAssign
    <2>3. h # g /\ handle' = [handle EXCEPT ![h] = handle[g], ![g] = None]
        BY <1>4 DEF MoveAssign
    <2>4. handle' \in [Handles -> Pointers \cup {None}]
        BY <2>1, <2>3
    <2>5. \A k \in Handles :
              handle'[k] = IF k = g THEN None ELSE IF k = h THEN handle[g] ELSE handle[k]
        BY <2>1, <2>3
    <2> QED
        BY <2>2, <2>4, <2>5, LeavingIsFine
<1>5. CASE Reset
    BY <1>5, ResetIsFine
<1>6. CASE UNCHANGED profiler_vars
    BY <1>6 DEF profiler_vars, PInv, ProfilerTypeOK, NoDanglingPointer, StackedOnce, StackInOrder,
                ParentsAreEarlier, Valid, Active
<1> QED
    BY <1>1, <1>2, <1>3, <1>4, <1>5, <1>6 DEF ProfilerNext

\* The invariant holds of every reachable state of the profiler.
THEOREM ProfilerInvariance == ProfilerSpec => []PInv
<1> QED
    BY ProfilerInitIsFine, ProfilerNextIsFine, PTL DEF ProfilerSpec

\* The stack of active events and every handle stay well typed.
THEOREM ProfilerTypeCorrect == ProfilerSpec => []ProfilerTypeOK
<1>1. PInv => ProfilerTypeOK
    BY DEF PInv
<1> QED
    BY ProfilerInvariance, <1>1, PTL

\* append() never moves a record that the stack or a ScopedEvent points to.
THEOREM PointersStayValid == ProfilerSpec => []NoDanglingPointer
<1>1. PInv => NoDanglingPointer
    BY DEF PInv
<1> QED
    BY ProfilerInvariance, <1>1, PTL

\* Each active event has one handle to finish it, whatever is moved or reassigned.
THEOREM OneHandlePerEvent == ProfilerSpec => []StackedOnce
<1>1. PInv => StackedOnce
    BY DEF PInv
<1> QED
    BY ProfilerInvariance, <1>1, PTL

\* The stack stays in order of creation though events finish in any order.
THEOREM OrderOfCreation == ProfilerSpec => []StackInOrder
<1>1. PInv => StackInOrder
    BY DEF PInv
<1> QED
    BY ProfilerInvariance, <1>1, PTL

-----------------------------------------------------------------------------
\* An operation of an executor, or an event with it, is at most a step of the profiler.
LEMMA AccountIsAClient == [AccountNext]_account_vars => [ProfilerNext]_profiler_vars
<1> SUFFICES ASSUME [AccountNext]_account_vars PROVE [ProfilerNext]_profiler_vars
    OBVIOUS
<1>1. CASE Event
    BY <1>1 DEF Event, ProfilerNext
<1>2. CASE ResetRecords
    BY <1>2 DEF ResetRecords, ProfilerNext
<1>3. ASSUME NEW o \in Objects, NEW space \in Spaces, NEW bytes \in Sizes,
             AllocateBlock(o, space, bytes)
      PROVE  UNCHANGED profiler_vars
    BY <1>3 DEF AllocateBlock
<1>4. ASSUME NEW o \in Objects, ResetAllocation(o)
      PROVE  UNCHANGED profiler_vars
    BY <1>4 DEF ResetAllocation
<1>5. ASSUME NEW o \in Objects, NEW x \in Objects, Assign(o, x)
      PROVE  UNCHANGED profiler_vars
    BY <1>5 DEF Assign
<1>6. ASSUME NEW source \in Spaces, NEW destination \in Spaces, NEW bytes \in Sizes,
             Copy(source, destination, bytes)
      PROVE  UNCHANGED profiler_vars
    BY <1>6 DEF Copy
<1>7. ASSUME NEW space \in Spaces, Synchronize(space)
      PROVE  UNCHANGED profiler_vars
    BY <1>7 DEF Synchronize
<1>8. CASE UNCHANGED account_vars
    BY <1>8 DEF account_vars
<1> QED
    BY <1>1, <1>2, <1>3, <1>4, <1>5, <1>6, <1>7, <1>8 DEF AccountNext

\* The profiler runs as Profiler says, whatever the executors record in its events.
THEOREM AccountRefinesProfiler == AccountSpec => ProfilerSpec
<1>1. AccountInit => ProfilerInit
    BY DEF AccountInit
<1> QED
    BY <1>1, AccountIsAClient, PTL DEF AccountSpec, ProfilerSpec

\* No pointer dangles while executors account for their operations.
THEOREM PointersStayValidBesideExecutors == AccountSpec => []NoDanglingPointer
    BY AccountRefinesProfiler, PointersStayValid, PTL

\* Each active event has one handle, and each handle its event, beside executors.
THEOREM OneHandlePerEventBesideExecutors == AccountSpec => []StackedOnce
    BY AccountRefinesProfiler, OneHandlePerEvent, PTL

\* The stack stays in order of creation beside executors.
THEOREM OrderOfCreationBesideExecutors == AccountSpec => []StackInOrder
    BY AccountRefinesProfiler, OrderOfCreation, PTL

-----------------------------------------------------------------------------
\* There are metrics for every record there may be.
RecordsHaveMetrics == metrics = [r \in 1 .. MaxRecords |-> metrics[r]]

\* What Charge may change: the metrics of the event on top of the stack.
OnlyTheTop ==
    /\ RecordsHaveMetrics'
    /\ \A r \in 1 .. MaxRecords :
           metrics'[r] # metrics[r] => stack # <<>> /\ r = stack[Len(stack)].record

LEMMA AllocationIsCharged ==
    ASSUME RecordsHaveMetrics, NEW space, NEW bytes, ChargeAllocation(space, bytes)
    PROVE  OnlyTheTop
    BY DEF ChargeAllocation, Charge, OnlyTheTop, RecordsHaveMetrics, Owner

LEMMA FreeIsCharged ==
    ASSUME RecordsHaveMetrics, NEW space, NEW bytes, ChargeFree(space, bytes)
    PROVE  OnlyTheTop
    BY DEF ChargeFree, Charge, OnlyTheTop, RecordsHaveMetrics, Owner

LEMMA CopyIsCharged ==
    ASSUME RecordsHaveMetrics, NEW source, NEW destination, NEW bytes,
           ChargeCopy(source, destination, bytes)
    PROVE  OnlyTheTop
    BY DEF ChargeCopy, Charge, OnlyTheTop, RecordsHaveMetrics, Owner

LEMMA SynchronizationIsCharged ==
    ASSUME RecordsHaveMetrics, ChargeSynchronization
    PROVE  OnlyTheTop
    BY DEF ChargeSynchronization, Charge, OnlyTheTop, RecordsHaveMetrics, Owner

LEMMA ReleaseIsCharged ==
    ASSUME RecordsHaveMetrics, NEW a, Release(a)
    PROVE  OnlyTheTop
    BY FreeIsCharged DEF Release, OnlyTheTop, RecordsHaveMetrics, accounts

\* The top of the stack has a handle that has not finished it.
LEMMA TopIsActive ==
    ASSUME PInv, OnlyTheTop
    PROVE  \A r \in 1 .. MaxRecords :
               metrics'[r] # metrics[r] => \E h \in Handles : handle[h].record = r
<1> SUFFICES ASSUME stack # <<>>
             PROVE  \E h \in Handles : handle[h].record = stack[Len(stack)].record
    BY DEF OnlyTheTop
<1>1. Len(stack) \in 1 .. Len(stack)
    BY DEF PInv, ProfilerTypeOK
<1> QED
    BY <1>1 DEF PInv, StackedOnce

LEMMA ChargesAreFinal ==
    ASSUME PInv, RecordsHaveMetrics, [AccountNext]_account_vars
    PROVE  /\ RecordsHaveMetrics'
           /\ \A r \in 1 .. MaxRecords :
                  metrics'[r] # metrics[r] =>
                      \/ \E h \in Handles : handle[h].record = r
                      \/ count' = 0
<1>1. CASE Event \/ UNCHANGED account_vars
    BY <1>1 DEF Event, accounts, account_vars, RecordsHaveMetrics
<1>2. CASE ResetRecords
    BY <1>2 DEF ResetRecords, Reset, RecordsHaveMetrics
<1>3. ASSUME NEW o \in Objects, NEW space \in Spaces, NEW bytes \in Sizes,
             AllocateBlock(o, space, bytes)
      PROVE  OnlyTheTop
    BY <1>3, AllocationIsCharged DEF AllocateBlock
<1>4. ASSUME NEW o \in Objects, ResetAllocation(o)
      PROVE  OnlyTheTop
    BY <1>4, ReleaseIsCharged DEF ResetAllocation
<1>5. ASSUME NEW o \in Objects, NEW x \in Objects, Assign(o, x)
      PROVE  OnlyTheTop
    BY <1>5, ReleaseIsCharged DEF Assign
<1>6. ASSUME NEW source \in Spaces, NEW destination \in Spaces, NEW bytes \in Sizes,
             Copy(source, destination, bytes)
      PROVE  OnlyTheTop
    BY <1>6, CopyIsCharged DEF Copy
<1>7. ASSUME NEW space \in Spaces, Synchronize(space)
      PROVE  OnlyTheTop
    BY <1>7, SynchronizationIsCharged DEF Synchronize
<1> QED
    BY <1>1, <1>2, <1>3, <1>4, <1>5, <1>6, <1>7, TopIsActive DEF AccountNext, OnlyTheTop

\* Operations are charged to the innermost event that is still active: the record
\* of a finished event stays as it is until reset() discards it.
THEOREM ChargedWhileActive == AccountSpec => FinishedEventsAreFinal
<1>1. AccountInit => RecordsHaveMetrics
    BY DEF AccountInit, RecordsHaveMetrics
<1>2. PInv /\ RecordsHaveMetrics /\ [AccountNext]_account_vars => RecordsHaveMetrics'
    BY ChargesAreFinal
<1>3. PInv /\ RecordsHaveMetrics /\ [AccountNext]_account_vars =>
          [\A r \in 1 .. MaxRecords :
               metrics'[r] # metrics[r] =>
                   \/ \E h \in Handles : handle[h].record = r
                   \/ count' = 0]_account_vars
    BY ChargesAreFinal
<1> QED
    BY <1>1, <1>2, <1>3, AccountRefinesProfiler, ProfilerInvariance, PTL
    DEF AccountSpec, FinishedEventsAreFinal
-----------------------------------------------------------------------------
\* The bytes of the allocations of some objects.
Bytes(a, S) == MapThenSumSet(LAMBDA o : a[o].bytes, S)

Adding(a, U) == [p \in U \X Nat |-> a[p[1]].bytes + p[2]]

LEMMA AddingAdds ==
    ASSUME NEW a, NEW U, \A o \in U : a[o].bytes \in Nat
    PROVE  Adds(Adding(a, U), U, 0, Nat) /\ Commutes(Adding(a, U), U, Nat)
<1>1. \A x \in U : \A v \in Nat : Adding(a, U)[<<x, v>>] = a[x].bytes + v
    BY DEF Adding
<1>2. Adds(Adding(a, U), U, 0, Nat)
    BY <1>1 DEF Adds
<1>3. ASSUME NEW x \in U, NEW y \in U, NEW v \in Nat
      PROVE  Adding(a, U)[<<x, Adding(a, U)[<<y, v>>]>>]
                 = Adding(a, U)[<<y, Adding(a, U)[<<x, v>>]>>]
    <2>1. a[x].bytes \in Nat /\ a[y].bytes \in Nat
        OBVIOUS
    <2>2. a[x].bytes + v \in Nat /\ a[y].bytes + v \in Nat
        BY <2>1
    <2>3. a[x].bytes + (a[y].bytes + v) = a[y].bytes + (a[x].bytes + v)
        BY <2>1
    <2> QED
        BY <1>1, <2>2, <2>3
<1> QED
    BY <1>2, <1>3 DEF Commutes

LEMMA BytesFold ==
    ASSUME NEW a, NEW b, NEW W, NEW U \in SUBSET W, IsFiniteSet(U),
           \A o \in W : a[o].bytes \in Nat, \A o \in U : b[o].bytes = a[o].bytes
    PROVE  \E h : FoldsOver(h, U, Adding(a, W), 0, Nat) /\ Bytes(b, U) = h[U]
<1> DEFINE F == Adding(a, W)
           Solves(h) == h = [s \in SUBSET U |->
                                IF s = {} THEN 0
                                ELSE b[CHOOSE x \in s : TRUE].bytes
                                         + h[s \ {CHOOSE x \in s : TRUE}]]
           iter == CHOOSE h : Solves(h)
<1>1. \A x \in W : \A v \in Nat : F[<<x, v>>] = a[x].bytes + v
    BY DEF Adding
<1>2. Adds(F, W, 0, Nat)
    BY AddingAdds
<1> HIDE DEF F
<1>3. Adds(F, U, 0, Nat)
    BY <1>2 DEF Adds
<1>4. PICK f : FoldsOver(f, U, F, 0, Nat)
    BY <1>3, FoldExists
<1>5. Agree(f, f, U, Nat)
    BY <1>2, <1>4, FoldIsUnique
<1>6. \A s \in SUBSET U : s # {} => First(s) \in U /\ Rest(s) \in SUBSET U
    BY FirstAndRest
<1>7. \E h : Solves(h)
    <2> PICK h : h = [s \in SUBSET U |-> f[s]]
        OBVIOUS
    <2>1. ASSUME NEW s \in SUBSET U, s # {}
          PROVE  h[s] = b[First(s)].bytes + h[Rest(s)]
        BY <1>1, <1>4, <1>5, <1>6, <2>1 DEF FoldsOver, Agree
    <2>2. h[{}] = 0
        BY <1>4 DEF FoldsOver
    <2>3. Solves(h)
        BY <2>1, <2>2 DEF First, Rest
    <2> HIDE DEF Solves
    <2> QED
        BY <2>3
<1>8. Solves(iter)
    BY <1>7
<1>9. Bytes(b, U) = iter[U]
    BY DEF Bytes, MapThenSumSet, MapThenFoldSet
<1> HIDE DEF iter
<1>10. FoldsOver(iter, U, F, 0, Nat)
    <2>1. \A s \in SUBSET U : s # {} => iter[s] = b[First(s)].bytes + iter[Rest(s)]
        BY <1>8 DEF First, Rest
    <2>2. iter[{}] = 0 /\ DOMAIN iter = SUBSET U
        BY <1>8
    <2> QED
        BY <1>1, <1>6, <2>1, <2>2 DEF FoldsOver
<1> QED
    BY <1>9, <1>10 DEF F

\* The bytes of objects, one of them apart.
Sized(a, U) == \A o \in U : a[o].bytes \in Nat
BytesSplit(a, x, T, U) ==
    Bytes(a, T) \in Nat /\ a[x].bytes \in Nat /\ Bytes(a, U) = a[x].bytes + Bytes(a, T)

LEMMA BytesWithout ==
    ASSUME NEW a, NEW U, NEW T, NEW x, Apart(x, T, U), IsFiniteSet(U), Sized(a, U)
    PROVE  BytesSplit(a, x, T, U)
<1>1. /\ x \in U /\ T \in SUBSET U /\ IsFiniteSet(T) /\ U \in SUBSET U
      /\ \A o \in U : a[o].bytes \in Nat
    BY FS_Subset DEF Apart, Sized
<1> PICK F : F = Adding(a, U)
    OBVIOUS
<1>2. PICK h : FoldsOver(h, U, F, 0, Nat) /\ Bytes(a, U) = h[U]
    BY <1>1, BytesFold
<1>3. PICK g : FoldsOver(g, T, F, 0, Nat) /\ Bytes(a, T) = g[T]
    BY <1>1, BytesFold
<1>4. Adds(F, U, 0, Nat) /\ Commutes(F, U, Nat)
    BY <1>1, AddingAdds
<1>5. FoldsOver(h, U, F, 0, Nat) /\ FoldsOver(g, T, F, 0, Nat)
    BY <1>2, <1>3
<1>6. LastStep(h, U, x, g, T, F, Nat)
    BY <1>1, <1>4, <1>5, FoldWithout
<1> QED
    BY <1>1, <1>2, <1>3, <1>6 DEF Adding, LastStep, BytesSplit

\* The bytes of objects with the same allocations.
LEMMA BytesOfTheSame ==
    ASSUME NEW a, NEW b, NEW U, IsFiniteSet(U),
           \A o \in U : a[o].bytes \in Nat /\ b[o].bytes = a[o].bytes
    PROVE  Bytes(a, U) \in Nat /\ Bytes(b, U) = Bytes(a, U)
<1> PICK W \in SUBSET U : W = U
    OBVIOUS
<1>1. PICK h : FoldsOver(h, U, Adding(a, W), 0, Nat) /\ Bytes(a, U) = h[U]
    BY BytesFold
<1>2. PICK g : FoldsOver(g, U, Adding(a, W), 0, Nat) /\ Bytes(b, U) = g[U]
    BY BytesFold
<1>3. Adds(Adding(a, W), W, 0, Nat)
    BY AddingAdds
<1>4. Agree(g, h, U, Nat)
    BY <1>1, <1>2, <1>3, FoldIsUnique
<1> QED
    BY <1>1, <1>2, <1>4 DEF Agree

LEMMA BytesOfNone ==
    ASSUME NEW a
    PROVE  Bytes(a, {}) = 0
<1>1. IsFiniteSet({})
    BY FS_EmptySet
<1>2. PICK h : FoldsOver(h, {}, Adding(a, {}), 0, Nat) /\ Bytes(a, {}) = h[{}]
    <2> PICK E \in SUBSET {} : E = {}
        OBVIOUS
    <2> QED
        BY <1>1, BytesFold
<1> QED
    BY <1>2 DEF FoldsOver

-----------------------------------------------------------------------------
\* Sums of metrics.
Metrics ==
    [allocated : [Spaces -> Nat], freed : [Spaces -> Nat], copied : [Spaces \X Spaces -> Nat],
     allocations : Nat, frees : Nat, copies : Nat, synchronizations : Nat]

LEMMA NothingIsMetrics == NoMetrics \in Metrics
    BY DEF NoMetrics, Metrics

LEMMA SumIsMetrics ==
    ASSUME NEW a \in Metrics, NEW b \in Metrics
    PROVE  AddUp(a, b) \in Metrics
    BY DEF AddUp, Metrics

\* Metrics are told apart by their fields.
LEMMA SameMetrics ==
    ASSUME NEW a \in Metrics, NEW b \in Metrics,
           \A s \in Spaces : a.allocated[s] = b.allocated[s] /\ a.freed[s] = b.freed[s],
           \A d \in Spaces \X Spaces : a.copied[d] = b.copied[d],
           a.allocations = b.allocations, a.frees = b.frees, a.copies = b.copies,
           a.synchronizations = b.synchronizations
    PROVE  a = b
<1>1. a.allocated = b.allocated /\ a.freed = b.freed /\ a.copied = b.copied
    BY DEF Metrics
<1> QED
    BY <1>1 DEF Metrics

\* The fields of a sum.
LEMMA FieldsOfSum ==
    ASSUME NEW a, NEW b
    PROVE  /\ \A s \in Spaces : /\ AddUp(a, b).allocated[s] = a.allocated[s] + b.allocated[s]
                                /\ AddUp(a, b).freed[s] = a.freed[s] + b.freed[s]
           /\ \A d \in Spaces \X Spaces : AddUp(a, b).copied[d] = a.copied[d] + b.copied[d]
           /\ AddUp(a, b).allocations = a.allocations + b.allocations
           /\ AddUp(a, b).frees = a.frees + b.frees
           /\ AddUp(a, b).copies = a.copies + b.copies
           /\ AddUp(a, b).synchronizations = a.synchronizations + b.synchronizations
    BY DEF AddUp

LEMMA FieldsAreNumbers ==
    ASSUME NEW a \in Metrics
    PROVE  /\ \A s \in Spaces : a.allocated[s] \in Nat /\ a.freed[s] \in Nat
           /\ \A d \in Spaces \X Spaces : a.copied[d] \in Nat
           /\ a.allocations \in Nat /\ a.frees \in Nat /\ a.copies \in Nat
           /\ a.synchronizations \in Nat
    BY DEF Metrics

\* Sums may be taken in any order.
LEMMA SumsCommute ==
    ASSUME NEW a \in Metrics, NEW b \in Metrics
    PROVE  AddUp(a, b) = AddUp(b, a)
<1>1. AddUp(a, b) \in Metrics /\ AddUp(b, a) \in Metrics
    BY SumIsMetrics
<1> QED
    BY <1>1, FieldsAreNumbers, FieldsOfSum, SameMetrics

LEMMA SumsAssociate ==
    ASSUME NEW a \in Metrics, NEW b \in Metrics, NEW c \in Metrics
    PROVE  AddUp(a, AddUp(b, c)) = AddUp(AddUp(a, b), c)
<1> PICK bc \in Metrics, ab \in Metrics : bc = AddUp(b, c) /\ ab = AddUp(a, b)
    BY SumIsMetrics
<1>1. AddUp(a, bc) \in Metrics /\ AddUp(ab, c) \in Metrics
    BY SumIsMetrics
<1>2. \A s \in Spaces : /\ AddUp(a, bc).allocated[s] = AddUp(ab, c).allocated[s]
                        /\ AddUp(a, bc).freed[s] = AddUp(ab, c).freed[s]
    BY FieldsAreNumbers, FieldsOfSum
<1>3. \A d \in Spaces \X Spaces : AddUp(a, bc).copied[d] = AddUp(ab, c).copied[d]
    BY FieldsAreNumbers, FieldsOfSum
<1>4. /\ AddUp(a, bc).allocations = AddUp(ab, c).allocations
      /\ AddUp(a, bc).frees = AddUp(ab, c).frees
      /\ AddUp(a, bc).copies = AddUp(ab, c).copies
      /\ AddUp(a, bc).synchronizations = AddUp(ab, c).synchronizations
    BY FieldsAreNumbers, FieldsOfSum
<1> QED
    BY <1>1, <1>2, <1>3, <1>4, SameMetrics

LEMMA NothingIsAdded ==
    ASSUME NEW a \in Metrics
    PROVE  AddUp(NoMetrics, a) = a /\ AddUp(a, NoMetrics) = a
<1>1. AddUp(NoMetrics, a) \in Metrics
    BY SumIsMetrics, NothingIsMetrics
<1>2. /\ \A s \in Spaces : NoMetrics.allocated[s] = 0 /\ NoMetrics.freed[s] = 0
      /\ \A d \in Spaces \X Spaces : NoMetrics.copied[d] = 0
      /\ NoMetrics.allocations = 0 /\ NoMetrics.frees = 0 /\ NoMetrics.copies = 0
      /\ NoMetrics.synchronizations = 0
    BY DEF NoMetrics
<1> PICK n \in Metrics : n = NoMetrics
    BY NothingIsMetrics
<1>3. AddUp(n, a) = a
    BY <1>1, <1>2, FieldsAreNumbers, FieldsOfSum, SameMetrics
<1> QED
    BY <1>3, SumsCommute, NothingIsMetrics

LEMMA SumsExchange ==
    ASSUME NEW a \in Metrics, NEW b \in Metrics, NEW c \in Metrics
    PROVE  AddUp(a, AddUp(b, c)) = AddUp(b, AddUp(a, c))
    BY SumsAssociate, SumsCommute

-----------------------------------------------------------------------------
\* The metrics of some records together.
Together(m, S) == FoldSet(LAMBDA r, sum : AddUp(m[r], sum), NoMetrics, S)

AddingMetrics(m, U) == [p \in U \X Metrics |-> AddUp(m[p[1]], p[2])]

LEMMA MetricsAdd ==
    ASSUME NEW m, NEW U, \A r \in U : m[r] \in Metrics
    PROVE  /\ Adds(AddingMetrics(m, U), U, NoMetrics, Metrics)
           /\ Commutes(AddingMetrics(m, U), U, Metrics)
<1>1. \A x \in U : \A v \in Metrics : AddingMetrics(m, U)[<<x, v>>] = AddUp(m[x], v)
    BY DEF AddingMetrics
<1>2. Adds(AddingMetrics(m, U), U, NoMetrics, Metrics)
    BY <1>1, NothingIsMetrics, SumIsMetrics DEF Adds
<1>3. ASSUME NEW x \in U, NEW y \in U, NEW v \in Metrics
      PROVE  AddingMetrics(m, U)[<<x, AddingMetrics(m, U)[<<y, v>>]>>]
                 = AddingMetrics(m, U)[<<y, AddingMetrics(m, U)[<<x, v>>]>>]
    <2>1. AddUp(m[x], v) \in Metrics /\ AddUp(m[y], v) \in Metrics
        BY SumIsMetrics
    <2>2. AddUp(m[x], AddUp(m[y], v)) = AddUp(m[y], AddUp(m[x], v))
        BY SumsExchange
    <2> QED
        BY <1>1, <2>1, <2>2
<1> QED
    BY <1>2, <1>3 DEF Commutes

LEMMA TogetherFolds ==
    ASSUME NEW a, NEW b, NEW W, NEW U \in SUBSET W, IsFiniteSet(U),
           \A r \in W : a[r] \in Metrics, \A r \in U : b[r] = a[r]
    PROVE  \E h : FoldsOver(h, U, AddingMetrics(a, W), NoMetrics, Metrics)
                      /\ Together(b, U) = h[U]
<1> DEFINE F == AddingMetrics(a, W)
           Solves(h) == h = [s \in SUBSET U |->
                                IF s = {} THEN NoMetrics
                                ELSE AddUp(b[CHOOSE x \in s : TRUE],
                                           h[s \ {CHOOSE x \in s : TRUE}])]
           iter == CHOOSE h : Solves(h)
<1>1. \A x \in W : \A v \in Metrics : F[<<x, v>>] = AddUp(a[x], v)
    BY DEF AddingMetrics
<1>2. Adds(F, W, NoMetrics, Metrics)
    BY MetricsAdd
<1> HIDE DEF F
<1>3. Adds(F, U, NoMetrics, Metrics)
    BY <1>2 DEF Adds
<1>4. PICK f : FoldsOver(f, U, F, NoMetrics, Metrics)
    BY <1>3, FoldExists
<1>5. Agree(f, f, U, Metrics)
    BY <1>2, <1>4, FoldIsUnique
<1>6. \A s \in SUBSET U : s # {} => First(s) \in U /\ Rest(s) \in SUBSET U
    BY FirstAndRest
<1>7. \E h : Solves(h)
    <2> PICK h : h = [s \in SUBSET U |-> f[s]]
        OBVIOUS
    <2>1. ASSUME NEW s \in SUBSET U, s # {}
          PROVE  h[s] = AddUp(b[First(s)], h[Rest(s)])
        BY <1>1, <1>4, <1>5, <1>6, <2>1 DEF FoldsOver, Agree
    <2>2. h[{}] = NoMetrics
        BY <1>4 DEF FoldsOver
    <2>3. Solves(h)
        BY <2>1, <2>2 DEF First, Rest
    <2> HIDE DEF Solves
    <2> QED
        BY <2>3
<1>8. Solves(iter)
    BY <1>7
<1>9. Together(b, U) = iter[U]
    BY DEF Together, FoldSet, MapThenFoldSet
<1> HIDE DEF iter
<1>10. FoldsOver(iter, U, F, NoMetrics, Metrics)
    <2>1. \A s \in SUBSET U : s # {} => iter[s] = AddUp(b[First(s)], iter[Rest(s)])
        BY <1>8 DEF First, Rest
    <2>2. iter[{}] = NoMetrics /\ DOMAIN iter = SUBSET U
        BY <1>8
    <2> QED
        BY <1>1, <1>6, <2>1, <2>2 DEF FoldsOver
<1> QED
    BY <1>9, <1>10 DEF F

\* The metrics of records, one of them apart.
AreMetrics(m, U) == \A r \in U : m[r] \in Metrics
MetricsSplit(m, x, T, U) ==
    /\ Together(m, T) \in Metrics /\ m[x] \in Metrics
    /\ Together(m, U) = AddUp(m[x], Together(m, T))

LEMMA TogetherWithout ==
    ASSUME NEW m, NEW U, NEW T, NEW x, Apart(x, T, U), IsFiniteSet(U), AreMetrics(m, U)
    PROVE  MetricsSplit(m, x, T, U)
<1>1. /\ x \in U /\ T \in SUBSET U /\ IsFiniteSet(T) /\ U \in SUBSET U
      /\ \A r \in U : m[r] \in Metrics
    BY FS_Subset DEF Apart, AreMetrics
<1> PICK F : F = AddingMetrics(m, U)
    OBVIOUS
<1>2. PICK h : FoldsOver(h, U, F, NoMetrics, Metrics) /\ Together(m, U) = h[U]
    BY <1>1, TogetherFolds
<1>3. PICK g : FoldsOver(g, T, F, NoMetrics, Metrics) /\ Together(m, T) = g[T]
    BY <1>1, TogetherFolds
<1>4. Adds(F, U, NoMetrics, Metrics) /\ Commutes(F, U, Metrics)
    BY <1>1, MetricsAdd
<1>5. FoldsOver(h, U, F, NoMetrics, Metrics) /\ FoldsOver(g, T, F, NoMetrics, Metrics)
    BY <1>2, <1>3
<1>6. LastStep(h, U, x, g, T, F, Metrics)
    BY <1>1, <1>4, <1>5, FoldWithout
<1> QED
    BY <1>1, <1>2, <1>3, <1>6 DEF AddingMetrics, LastStep, MetricsSplit

\* The metrics of records that do not change.
AreTheSame(a, b, U) == \A r \in U : a[r] \in Metrics /\ b[r] = a[r]

LEMMA TogetherOfTheSame ==
    ASSUME NEW a, NEW b, NEW U, IsFiniteSet(U), AreTheSame(a, b, U)
    PROVE  Together(a, U) \in Metrics /\ Together(b, U) = Together(a, U)
<1> PICK W \in SUBSET U : W = U
    OBVIOUS
<1>0. \A r \in U : a[r] \in Metrics /\ b[r] = a[r]
    BY DEF AreTheSame
<1>1. PICK h : FoldsOver(h, U, AddingMetrics(a, W), NoMetrics, Metrics) /\ Together(a, U) = h[U]
    BY <1>0, TogetherFolds
<1>2. PICK g : FoldsOver(g, U, AddingMetrics(a, W), NoMetrics, Metrics) /\ Together(b, U) = g[U]
    BY <1>0, TogetherFolds
<1>3. Adds(AddingMetrics(a, W), W, NoMetrics, Metrics)
    BY <1>0, MetricsAdd
<1>4. Agree(g, h, U, Metrics)
    BY <1>1, <1>2, <1>3, FoldIsUnique
<1> QED
    BY <1>1, <1>2, <1>4 DEF Agree

LEMMA TogetherOfNone ==
    ASSUME NEW m
    PROVE  Together(m, {}) = NoMetrics
<1> PICK E \in SUBSET {} : E = {}
    OBVIOUS
<1>1. IsFiniteSet({})
    BY FS_EmptySet
<1>2. PICK h : FoldsOver(h, E, AddingMetrics(m, E), NoMetrics, Metrics) /\ Together(m, E) = h[E]
    BY <1>1, TogetherFolds
<1> QED
    BY <1>2 DEF FoldsOver

-----------------------------------------------------------------------------
\* Who owns what, of any allocations, memory and statistics.
Allocations == [space : Spaces, pointer : Blocks, bytes : Nat]
Statistics ==
    [live : Nat, peak : Nat, allocations : Nat, frees : Nat, copies : Nat, copied : Nat,
     synchronizations : Nat]

Owners(a, s) == {o \in Objects : a[o].space = s}

OwnersAreTyped(a, mem, st, hi) ==
    /\ a \in [Objects -> {Nothing} \cup Allocations]
    /\ mem \in [Spaces -> SUBSET Blocks]
    /\ st \in [Spaces -> Statistics]
    /\ hi \in [Spaces -> Nat]

\* No two objects have one pointer, and executors hand out what they have not handed out.
PointersAreOwned(a, mem) ==
    /\ \A s \in Spaces : mem[s] = {a[o].pointer : o \in Owners(a, s)}
    /\ \A o, x \in Objects : a[o] # Nothing /\ a[o].pointer = a[x].pointer => o = x

\* The live bytes are those owned, and the blocks live those not freed.
BytesAreOwned(a, mem, st, hi) ==
    \A s \in Spaces :
        /\ st[s].live = Bytes(a, Owners(a, s))
        /\ st[s].live <= hi[s] /\ st[s].peak = hi[s]
        /\ Cardinality(mem[s]) + st[s].frees = st[s].allocations

Owns(a, mem, st, hi) ==
    OwnersAreTyped(a, mem, st, hi) /\ PointersAreOwned(a, mem) /\ BytesAreOwned(a, mem, st, hi)

SameSize(a, b, U) == \A o \in U : a[o].bytes \in Nat /\ b[o].bytes = a[o].bytes

LEMMA SameBytes ==
    ASSUME NEW a, NEW b, NEW U, IsFiniteSet(U), SameSize(a, b, U)
    PROVE  Bytes(a, U) \in Nat /\ Bytes(b, U) = Bytes(a, U)
<1>1. \A o \in U : a[o].bytes \in Nat /\ b[o].bytes = a[o].bytes
    BY DEF SameSize
<1> QED
    BY <1>1, BytesOfTheSame

LEMMA ReleasedStatistics ==
    ASSUME NEW s \in Statistics, NEW n \in Nat, NEW left \in Nat, s.live = n + left
    PROVE  /\ AfterRelease(s, n) \in Statistics /\ AfterRelease(s, n).live = left
           /\ AfterRelease(s, n).peak = s.peak /\ AfterRelease(s, n).frees = s.frees + 1
           /\ AfterRelease(s, n).allocations = s.allocations
           /\ AfterRelease(s, n).copies = s.copies /\ AfterRelease(s, n).copied = s.copied
           /\ AfterRelease(s, n).synchronizations = s.synchronizations
<1>1. /\ s.live \in Nat /\ s.peak \in Nat /\ s.allocations \in Nat /\ s.frees \in Nat
      /\ s.copies \in Nat /\ s.copied \in Nat /\ s.synchronizations \in Nat
      /\ s = [live |-> s.live, peak |-> s.peak, allocations |-> s.allocations,
              frees |-> s.frees, copies |-> s.copies, copied |-> s.copied,
              synchronizations |-> s.synchronizations]
    BY DEF Statistics
<1>2. (IF n > s.live THEN 0 ELSE s.live - n) = left
    BY <1>1
<1>3. AfterRelease(s, n)
          = [live |-> left, peak |-> s.peak, allocations |-> s.allocations,
             frees |-> s.frees + 1, copies |-> s.copies, copied |-> s.copied,
             synchronizations |-> s.synchronizations]
    <2>1. AfterRelease(s, n) = [s EXCEPT !.frees = s.frees + 1, !.live = left]
        BY <1>2 DEF AfterRelease, Statistics
    <2> QED
        BY <1>1, <2>1
<1> HIDE DEF AfterRelease
<1> QED
    BY <1>1, <1>3 DEF Statistics

LEMMA BlocksAreFinite ==
    /\ IsFiniteSet(Blocks) /\ Cardinality(Blocks) = MaxCalls /\ Blocks \in SUBSET Nat
    /\ \A T \in SUBSET Blocks : IsFiniteSet(T) /\ Cardinality(T) \in Nat
<1>1. IsFiniteSet(Blocks) /\ Cardinality(Blocks) = MaxCalls
    BY SizesAssumption, FS_Interval DEF Blocks
<1>2. \A T \in SUBSET Blocks : IsFiniteSet(T) /\ Cardinality(T) \in Nat
    BY <1>1, FS_Subset, FS_CardinalityType
<1> QED
    BY <1>1, <1>2 DEF Blocks

\* An object with an allocation is an owner in one space; its fields.
LEMMA OwnerFields ==
    ASSUME NEW a \in [Objects -> {Nothing} \cup Allocations], NEW o \in Objects
    PROVE  /\ a[o] # Nothing <=> a[o].space \in Spaces
           /\ a[o] # Nothing => a[o].pointer \in Blocks /\ a[o].bytes \in Nat
           /\ a[o] = Nothing => a[o].space = "none" /\ a[o].pointer = 0
           /\ 0 \notin Blocks
    BY DEF Allocations, Nothing, Spaces, Blocks

\* The owners of a space are as many as its blocks.
LEMMA OwnersAreCounted ==
    ASSUME NEW a \in [Objects -> {Nothing} \cup Allocations], NEW mem \in [Spaces -> SUBSET Blocks],
           PointersAreOwned(a, mem), NEW s \in Spaces
    PROVE  /\ IsFiniteSet(Owners(a, s)) /\ Cardinality(mem[s]) = Cardinality(Owners(a, s))
           /\ \A o \in Owners(a, s) : a[o].bytes \in Nat /\ a[o] # Nothing
<1> PICK S, T : S = Owners(a, s) /\ T = mem[s]
    OBVIOUS
<1>1. \A o \in S : o \in Objects /\ a[o] # Nothing /\ a[o].pointer \in T /\ a[o].bytes \in Nat
    BY OwnerFields DEF Owners, PointersAreOwned
<1>2. T \in SUBSET Blocks /\ IsFiniteSet(T)
    BY BlocksAreFinite
<1> PICK f : f = [o \in S |-> a[o].pointer]
    OBVIOUS
<1>3. f \in [S -> T]
    BY <1>1
<1>4. f \in Injection(S, T)
    BY <1>1, <1>3 DEF Injection, IsInjective, PointersAreOwned
<1>5. f \in Surjection(S, T)
    <2>1. T = {a[o].pointer : o \in S}
        BY DEF PointersAreOwned
    <2>2. \A t \in T : \E o \in S : f[o] = t
        BY <2>1
    <2> QED
        BY <1>3, <2>2 DEF Surjection
<1>6. IsFiniteSet(S)
    BY <1>2, <1>4, FS_Injection
<1>7. Cardinality(T) = Cardinality(S)
    BY <1>4, <1>5, <1>6, FS_Surjection
<1> QED
    BY <1>1, <1>6, <1>7

\* An object gives back its allocation.
Released(a, mem, st, o, space, b, left, after) ==
    /\ a[o] # Nothing /\ space = a[o].space
    /\ b = [a EXCEPT ![o] = Nothing]
    /\ left = [mem EXCEPT ![space] = mem[space] \ {a[o].pointer}]
    /\ after = [st EXCEPT ![space] = AfterRelease(st[space], a[o].bytes)]

LEMMA OwnsAfterRelease ==
    ASSUME NEW a, NEW mem, NEW st, NEW hi, Owns(a, mem, st, hi),
           NEW o \in Objects, NEW space, NEW b, NEW left, NEW after,
           Released(a, mem, st, o, space, b, left, after)
    PROVE  /\ Owns(b, left, after, hi)
           /\ space \in Spaces /\ a[o].bytes \in Nat
           /\ after[space].live + a[o].bytes = st[space].live
<1> USE DEF Released
<1>1. /\ a \in [Objects -> {Nothing} \cup Allocations] /\ mem \in [Spaces -> SUBSET Blocks]
      /\ st \in [Spaces -> Statistics] /\ hi \in [Spaces -> Nat]
      /\ PointersAreOwned(a, mem) /\ BytesAreOwned(a, mem, st, hi)
    BY DEF Owns, OwnersAreTyped
<1>2. space \in Spaces /\ a[o].bytes \in Nat /\ a[o].pointer \in Blocks
    BY <1>1, OwnerFields
<1>3. /\ b \in [Objects -> {Nothing} \cup Allocations] /\ b[o] = Nothing
      /\ \A x \in Objects : x # o => b[x] = a[x]
    BY <1>1
<1>4. /\ left \in [Spaces -> SUBSET Blocks] /\ left[space] = mem[space] \ {a[o].pointer}
      /\ \A s \in Spaces : s # space => left[s] = mem[s]
    BY <1>1, <1>2
<1>5. /\ Owners(b, space) = Owners(a, space) \ {o} /\ o \in Owners(a, space)
      /\ \A s \in Spaces : s # space => Owners(b, s) = Owners(a, s) /\ o \notin Owners(a, s)
    BY <1>1, <1>2, <1>3, OwnerFields DEF Owners
<1>6. \A s \in Spaces : /\ IsFiniteSet(Owners(a, s))
                        /\ \A x \in Owners(a, s) : a[x].bytes \in Nat /\ a[x] # Nothing
    BY <1>1, OwnersAreCounted
<1> PICK all, others : all = Owners(a, space) /\ others = Owners(b, space)
    OBVIOUS
<1>7. others = all \ {o} /\ o \in all /\ IsFiniteSet(all) /\ IsFiniteSet(others)
    BY <1>2, <1>5, <1>6, FS_RemoveElement
<1>8. Bytes(a, others) \in Nat /\ Bytes(a, all) = a[o].bytes + Bytes(a, others)
    <2>1. Sized(a, all) /\ Apart(o, others, all)
        BY <1>2, <1>6, <1>7 DEF Sized, Apart
    <2>2. IsFiniteSet(all)
        BY <1>7
    <2>3. BytesSplit(a, o, others, all)
        BY <2>1, <2>2, BytesWithout
    <2> QED
        BY <2>3 DEF BytesSplit
<1>9. Bytes(b, others) = Bytes(a, others)
    <2>1. \A x \in others : x \in Objects /\ x # o /\ x \in all
        BY <1>7 DEF Owners
    <2>2. SameSize(a, b, others)
        BY <1>2, <1>3, <1>6, <2>1 DEF SameSize
    <2> QED
        BY <1>7, <2>2, SameBytes
<1>10. st[space].live = a[o].bytes + Bytes(a, others)
    BY <1>1, <1>2, <1>8 DEF BytesAreOwned
<1>11. /\ after \in [Spaces -> Statistics]
       /\ after[space].live = Bytes(a, others) /\ after[space].peak = st[space].peak
       /\ after[space].frees = st[space].frees + 1
       /\ after[space].allocations = st[space].allocations
       /\ \A s \in Spaces : s # space => after[s] = st[s]
    <2>1. st[space] \in Statistics
        BY <1>1, <1>2
    <2>2. st[space].live = a[o].bytes + Bytes(a, others)
        BY <1>10
    <2>4. /\ AfterRelease(st[space], a[o].bytes) \in Statistics
          /\ AfterRelease(st[space], a[o].bytes).live = Bytes(a, others)
          /\ AfterRelease(st[space], a[o].bytes).peak = st[space].peak
          /\ AfterRelease(st[space], a[o].bytes).frees = st[space].frees + 1
          /\ AfterRelease(st[space], a[o].bytes).allocations = st[space].allocations
        BY <1>2, <1>8, <2>1, <2>2, ReleasedStatistics
    <2> QED
        BY <1>1, <1>2, <2>4
<1>12. OwnersAreTyped(b, left, after, hi)
    BY <1>1, <1>3, <1>4, <1>11 DEF OwnersAreTyped
<1>13. PointersAreOwned(b, left)
    <2>1. ASSUME NEW x \in Objects, NEW y \in Objects, b[x] # Nothing,
                 b[x].pointer = b[y].pointer
          PROVE  x = y
        <3>1. x # o /\ b[x] = a[x]
            BY <1>3, <2>1
        <3>2. a[x].pointer \in Blocks /\ 0 \notin Blocks
            BY <1>1, <2>1, <3>1, OwnerFields
        <3>3. y # o
            BY <1>3, <2>1, <3>1, <3>2 DEF Nothing
        <3> QED
            BY <1>1, <1>3, <2>1, <3>1, <3>3 DEF PointersAreOwned
    <2>2. ASSUME NEW s \in Spaces PROVE left[s] = {b[x].pointer : x \in Owners(b, s)}
        <3>1. CASE s # space
            <4>1. left[s] = {a[x].pointer : x \in Owners(a, s)}
                BY <1>1, <1>4, <3>1 DEF PointersAreOwned
            <4>2. Owners(b, s) = Owners(a, s) /\ \A x \in Owners(a, s) : b[x] = a[x]
                BY <1>3, <1>5, <3>1 DEF Owners
            <4> QED
                BY <4>1, <4>2
        <3>2. CASE s = space
            <4>1. mem[s] = {a[x].pointer : x \in all}
                BY <1>1, <1>2, <3>2 DEF PointersAreOwned
            <4>2. \A x \in others : b[x] = a[x] /\ x \in Objects /\ x # o
                BY <1>3, <1>7 DEF Owners
            <4>3. \A x \in others : a[x].pointer # a[o].pointer
                BY <1>1, <4>2 DEF PointersAreOwned
            <4>4. left[s] = {a[x].pointer : x \in others}
                <5>1. left[s] = mem[s] \ {a[o].pointer}
                    BY <1>4, <3>2
                <5>2. \A p : p \in left[s] <=> \E x \in all : p = a[x].pointer /\ p # a[o].pointer
                    BY <4>1, <5>1
                <5>3. \A p : p \in left[s] <=> \E x \in others : p = a[x].pointer
                    BY <1>7, <4>3, <5>2
                <5>4. left[s] \subseteq {a[x].pointer : x \in others}
                    BY <5>3
                <5>5. {a[x].pointer : x \in others} \subseteq left[s]
                    BY <5>3
                <5> QED
                    BY <5>4, <5>5
            <4>5. Owners(b, s) = others
                BY <3>2
            <4>6. {a[x].pointer : x \in others} = {b[x].pointer : x \in others}
                BY <4>2
            <4> QED
                BY <4>4, <4>5, <4>6
        <3> QED
            BY <3>1, <3>2
    <2> QED
        BY <2>1, <2>2 DEF PointersAreOwned
<1>14. ASSUME NEW s \in Spaces
       PROVE  /\ after[s].live = Bytes(b, Owners(b, s))
              /\ after[s].live <= hi[s] /\ after[s].peak = hi[s]
              /\ Cardinality(left[s]) + after[s].frees = after[s].allocations
    <2>1. CASE s # space
        <3>1. \A x \in Owners(a, s) : a[x].bytes \in Nat /\ b[x].bytes = a[x].bytes
            BY <1>3, <1>5, <1>6, <2>1 DEF Owners
        <3>2. Bytes(b, Owners(a, s)) = Bytes(a, Owners(a, s))
            BY <1>6, <3>1, SameBytes DEF SameSize
        <3> QED
            BY <1>1, <1>4, <1>5, <1>11, <2>1, <3>2 DEF BytesAreOwned
    <2>2. CASE s = space
        <3>1. a[o].pointer \in mem[s]
            BY <1>1, <1>5, <2>2 DEF PointersAreOwned
        <3>2. /\ Cardinality(left[s]) = Cardinality(mem[s]) - 1
              /\ Cardinality(mem[s]) \in Nat
            BY <1>1, <1>4, <2>2, <3>1, BlocksAreFinite, FS_RemoveElement
        <3>3. /\ st[s].live <= hi[s] /\ st[s].peak = hi[s]
              /\ Cardinality(mem[s]) + st[s].frees = st[s].allocations
              /\ hi[s] \in Nat /\ st[s].frees \in Nat /\ st[s].allocations \in Nat
            BY <1>1 DEF BytesAreOwned, Statistics
        <3>4. Bytes(a, others) <= hi[s]
            BY <1>2, <1>8, <1>10, <2>2, <3>3
        <3>5. Cardinality(left[s]) + (st[s].frees + 1) = st[s].allocations
            BY <3>2, <3>3
        <3> QED
            BY <1>9, <1>11, <2>2, <3>3, <3>4, <3>5
    <2> QED
        BY <2>1, <2>2
<1>15. after[space].live + a[o].bytes = st[space].live
    BY <1>2, <1>8, <1>10, <1>11
<1> QED
    BY <1>2, <1>12, <1>13, <1>14, <1>15 DEF Owns, BytesAreOwned


\* An object takes over the allocation of another, or the lack of one.
Moved(a, o, x, b) == b = [a EXCEPT ![o] = a[x], ![x] = Nothing]

LEMMA OwnsAfterMove ==
    ASSUME NEW a, NEW mem, NEW st, NEW hi, Owns(a, mem, st, hi),
           NEW o \in Objects, NEW x \in Objects, o # x, a[o] = Nothing,
           NEW b, Moved(a, o, x, b)
    PROVE  Owns(b, mem, st, hi)
<1>1. /\ a \in [Objects -> {Nothing} \cup Allocations] /\ mem \in [Spaces -> SUBSET Blocks]
      /\ st \in [Spaces -> Statistics] /\ hi \in [Spaces -> Nat]
      /\ PointersAreOwned(a, mem) /\ BytesAreOwned(a, mem, st, hi)
    BY DEF Owns, OwnersAreTyped
<1>2. /\ b \in [Objects -> {Nothing} \cup Allocations] /\ b[o] = a[x] /\ b[x] = Nothing
      /\ \A y \in Objects : y # o /\ y # x => b[y] = a[y]
    BY <1>1 DEF Moved
<1>3. \A y \in Objects : /\ a[y].space \notin Spaces <=> a[y] = Nothing
                         /\ a[y] # Nothing => a[y].pointer \in Blocks /\ a[y].bytes \in Nat
    BY <1>1, OwnerFields
<1>4. Nothing.space \notin Spaces /\ Nothing.pointer = 0 /\ 0 \notin Blocks
    BY DEF Nothing, Spaces, Blocks
<1>5. ASSUME NEW s \in Spaces
      PROVE  /\ mem[s] = {b[y].pointer : y \in Owners(b, s)}
             /\ Bytes(b, Owners(b, s)) = Bytes(a, Owners(a, s))
    <2> PICK before, now : before = Owners(a, s) /\ now = Owners(b, s)
        OBVIOUS
    <2>1. /\ \A y : y \in before <=> y \in Objects /\ a[y].space = s
          /\ \A y : y \in now <=> y \in Objects /\ b[y].space = s
          /\ mem[s] = {a[y].pointer : y \in before}
        BY <1>1 DEF Owners, PointersAreOwned
    <2>2. o \notin before /\ x \notin now
        BY <1>2, <1>4, <2>1
    <2>3. IsFiniteSet(before) /\ \A y \in before : a[y].bytes \in Nat /\ a[y] # Nothing
        BY <1>1, OwnersAreCounted
    <2>4. CASE x \notin before
        <3>1. now = before
            <4>1. \A y : y \in now <=> y \in before
                BY <1>2, <2>1, <2>2, <2>4
            <4> QED
                BY <4>1
        <3>2. \A y \in before : b[y] = a[y]
            BY <1>2, <2>1, <2>2, <2>4
        <3>3. SameSize(a, b, before)
            BY <2>3, <3>2 DEF SameSize
        <3>4. Bytes(b, before) = Bytes(a, before)
            BY <2>3, <3>3, SameBytes
        <3>5. mem[s] = {b[y].pointer : y \in before}
            <4>1. {a[y].pointer : y \in before} = {b[y].pointer : y \in before}
                BY <3>2
            <4> QED
                BY <2>1, <4>1
        <3> QED
            BY <3>1, <3>4, <3>5
    <2>5. CASE x \in before
        <3> PICK rest : rest = before \ {x}
            OBVIOUS
        <3>1. /\ o \in now /\ now \ {o} = rest /\ o \notin rest /\ now = rest \cup {o}
              /\ IsFiniteSet(rest) /\ IsFiniteSet(now)
            <4>1. o \in now /\ o \notin rest
                BY <1>2, <2>1, <2>2, <2>5
            <4>2. now = rest \cup {o}
                <5>1. \A y : y \in now <=> y \in rest \/ y = o
                    BY <1>2, <2>1, <2>2, <2>5, <4>1
                <5> QED
                    BY <5>1
            <4>3. IsFiniteSet(rest)
                BY <2>3, FS_RemoveElement
            <4>4. IsFiniteSet(rest \cup {o})
                BY <4>3, FS_AddElement
            <4>5. now \ {o} = rest
                BY <4>1, <4>2
            <4> QED
                BY <4>1, <4>2, <4>3, <4>4, <4>5
        <3>2. \A y \in rest : b[y] = a[y] /\ y \in before
            BY <1>2, <2>1, <2>2
        <3>3. Sized(a, before) /\ Apart(x, rest, before)
            BY <2>3, <2>5 DEF Sized, Apart
        <3>4. Sized(b, now) /\ Apart(o, rest, now)
            BY <1>2, <2>3, <2>5, <3>1, <3>2 DEF Sized, Apart
        <3>5. SameSize(a, b, rest)
            BY <2>3, <3>2 DEF SameSize
        <3>6. BytesSplit(a, x, rest, before)
            BY <2>3, <3>3, BytesWithout
        <3>7. IsFiniteSet(now)
            BY <3>1
        <3>8. BytesSplit(b, o, rest, now)
            BY <3>4, <3>7, BytesWithout
        <3>9. IsFiniteSet(rest)
            BY <3>1
        <3>10. Bytes(b, rest) = Bytes(a, rest)
            BY <3>5, <3>9, SameBytes
        <3>11. Bytes(b, now) = Bytes(a, before)
            BY <1>2, <3>6, <3>8, <3>10 DEF BytesSplit
        <3>12. mem[s] \subseteq {b[y].pointer : y \in now}
            <4>1. ASSUME NEW p \in mem[s] PROVE \E y \in now : p = b[y].pointer
                <5>1. PICK y \in before : p = a[y].pointer
                    BY <2>1
                <5>2. CASE y = x
                    BY <1>2, <3>1, <5>1, <5>2
                <5>3. CASE y # x
                    BY <3>1, <3>2, <5>1, <5>3
                <5> QED
                    BY <5>2, <5>3
            <4> QED
                BY <4>1
        <3>13. {b[y].pointer : y \in now} \subseteq mem[s]
            <4>1. ASSUME NEW y \in now PROVE \E z \in before : b[y].pointer = a[z].pointer
                <5>1. y = o \/ y \in rest
                    BY <3>1
                <5> QED
                    BY <1>2, <2>5, <3>2, <5>1
            <4>2. \A z \in before : a[z].pointer \in mem[s]
                BY <2>1
            <4>3. \A y \in now : b[y].pointer \in mem[s]
                BY <4>1, <4>2
            <4> QED
                BY <4>3
        <3> QED
            BY <3>11, <3>12, <3>13
    <2> QED
        BY <2>4, <2>5
<1>6. ASSUME NEW y \in Objects, NEW z \in Objects, b[y] # Nothing, b[y].pointer = b[z].pointer
      PROVE  y = z
    <2> DEFINE Was(u) == IF u = o THEN x ELSE u
    <2>1. y # x /\ z # x
        BY <1>1, <1>2, <1>3, <1>4, <1>6
    <2>2. b[y] = a[Was(y)] /\ b[z] = a[Was(z)] /\ Was(y) \in Objects /\ Was(z) \in Objects
        BY <1>2, <2>1
    <2>3. Was(y) = Was(z)
        BY <1>1, <1>6, <2>2 DEF PointersAreOwned
    <2> QED
        BY <2>1, <2>3
<1>7. PointersAreOwned(b, mem)
    BY <1>5, <1>6 DEF PointersAreOwned
<1>8. BytesAreOwned(b, mem, st, hi)
    BY <1>1, <1>5 DEF BytesAreOwned
<1>9. OwnersAreTyped(b, mem, st, hi)
    BY <1>1, <1>2 DEF OwnersAreTyped
<1> QED
    BY <1>7, <1>8, <1>9 DEF Owns

LEMMA AllocatedStatistics ==
    ASSUME NEW s \in Statistics, NEW n \in Nat
    PROVE  /\ AfterAllocation(s, n) \in Statistics /\ AfterAllocation(s, n).live = s.live + n
           /\ AfterAllocation(s, n).peak = Larger(s.peak, s.live + n)
           /\ AfterAllocation(s, n).allocations = s.allocations + 1
           /\ AfterAllocation(s, n).frees = s.frees /\ AfterAllocation(s, n).copies = s.copies
           /\ AfterAllocation(s, n).copied = s.copied
           /\ AfterAllocation(s, n).synchronizations = s.synchronizations
<1>1. /\ s.live \in Nat /\ s.peak \in Nat /\ s.allocations \in Nat /\ s.frees \in Nat
      /\ s.copies \in Nat /\ s.copied \in Nat /\ s.synchronizations \in Nat
      /\ s = [live |-> s.live, peak |-> s.peak, allocations |-> s.allocations,
              frees |-> s.frees, copies |-> s.copies, copied |-> s.copied,
              synchronizations |-> s.synchronizations]
    BY DEF Statistics
<1> PICK top \in Nat : top = Larger(s.peak, s.live + n)
    BY <1>1 DEF Larger
<1>2. AfterAllocation(s, n)
          = [live |-> s.live + n, peak |-> top, allocations |-> s.allocations + 1,
             frees |-> s.frees, copies |-> s.copies, copied |-> s.copied,
             synchronizations |-> s.synchronizations]
    <2>1. AfterAllocation(s, n)
              = [s EXCEPT !.allocations = s.allocations + 1, !.live = s.live + n, !.peak = top]
        BY DEF AfterAllocation, Statistics
    <2> QED
        BY <1>1, <2>1
<1> QED
    BY <1>1, <1>2 DEF Statistics

\* An object gets a pointer that its executor has not handed out.
LEMMA OwnsAfterAllocation ==
    ASSUME NEW a, NEW mem, NEW st, NEW hi, Owns(a, mem, st, hi),
           NEW o \in Objects, a[o] = Nothing, NEW space \in Spaces, NEW bytes \in Nat,
           NEW p \in Blocks, \A s \in Spaces : p \notin mem[s],
           NEW b, b = [a EXCEPT ![o] = [space |-> space, pointer |-> p, bytes |-> bytes]],
           NEW more, more = [mem EXCEPT ![space] = mem[space] \cup {p}],
           NEW after, after = [st EXCEPT ![space] = AfterAllocation(st[space], bytes)],
           NEW top, top = [hi EXCEPT ![space] = Larger(hi[space], after[space].live)]
    PROVE  Owns(b, more, after, top)
<1>1. /\ a \in [Objects -> {Nothing} \cup Allocations] /\ mem \in [Spaces -> SUBSET Blocks]
      /\ st \in [Spaces -> Statistics] /\ hi \in [Spaces -> Nat]
      /\ PointersAreOwned(a, mem) /\ BytesAreOwned(a, mem, st, hi)
    BY DEF Owns, OwnersAreTyped
<1> PICK new : new = [space |-> space, pointer |-> p, bytes |-> bytes]
    OBVIOUS
<1>0. new \in Allocations /\ new.space = space /\ new.pointer = p /\ new.bytes = bytes
    BY DEF Allocations
<1>2. /\ b \in [Objects -> {Nothing} \cup Allocations] /\ b[o] = new
      /\ b[o].space = space /\ b[o].pointer = p /\ b[o].bytes = bytes
      /\ \A x \in Objects : x # o => b[x] = a[x]
    BY <1>0, <1>1
<1>3. /\ more \in [Spaces -> SUBSET Blocks] /\ more[space] = mem[space] \cup {p}
      /\ \A s \in Spaces : s # space => more[s] = mem[s]
    BY <1>1
<1>4. st[space] \in Statistics /\ st[space].live \in Nat /\ hi[space] \in Nat
      /\ st[space].live <= hi[space] /\ st[space].peak = hi[space]
      /\ st[space].allocations \in Nat /\ st[space].frees \in Nat
      /\ st[space].live = Bytes(a, Owners(a, space))
      /\ Cardinality(mem[space]) + st[space].frees = st[space].allocations
    BY <1>1 DEF BytesAreOwned, Statistics
<1>5. /\ after \in [Spaces -> Statistics]
      /\ after[space].live = st[space].live + bytes
      /\ after[space].peak = Larger(st[space].peak, st[space].live + bytes)
      /\ after[space].frees = st[space].frees
      /\ after[space].allocations = st[space].allocations + 1
      /\ \A s \in Spaces : s # space => after[s] = st[s]
    <2>1. after[space] = AfterAllocation(st[space], bytes)
        BY <1>1
    <2>2. /\ AfterAllocation(st[space], bytes) \in Statistics
          /\ AfterAllocation(st[space], bytes).live = st[space].live + bytes
          /\ AfterAllocation(st[space], bytes).peak
                 = Larger(st[space].peak, st[space].live + bytes)
          /\ AfterAllocation(st[space], bytes).allocations = st[space].allocations + 1
          /\ AfterAllocation(st[space], bytes).frees = st[space].frees
        BY <1>4, AllocatedStatistics
    <2>3. after \in [Spaces -> Statistics] /\ \A s \in Spaces : s # space => after[s] = st[s]
        BY <1>1, <2>2
    <2> QED
        BY <2>1, <2>2, <2>3
<1>6. /\ top \in [Spaces -> Nat] /\ \A s \in Spaces : s # space => top[s] = hi[s]
      /\ top[space] = Larger(hi[space], st[space].live + bytes)
      /\ st[space].live + bytes <= top[space]
    BY <1>1, <1>4, <1>5 DEF Larger
<1>7. OwnersAreTyped(b, more, after, top)
    BY <1>2, <1>3, <1>5, <1>6 DEF OwnersAreTyped
<1>8. Nothing.space \notin Spaces /\ Nothing.pointer = 0 /\ 0 \notin Blocks
    BY DEF Nothing, Spaces, Blocks
<1>9. \A x \in Objects : a[x].pointer # p
    <2>1. ASSUME NEW x \in Objects, a[x].pointer = p PROVE FALSE
        <3>1. a[x] # Nothing
            BY <1>8, <2>1
        <3>2. a[x].space \in Spaces
            BY <1>1, <3>1, OwnerFields
        <3>3. x \in Owners(a, a[x].space)
            BY DEF Owners
        <3>4. a[x].pointer \in mem[a[x].space]
            BY <1>1, <3>2, <3>3 DEF PointersAreOwned
        <3> QED
            BY <2>1, <3>2, <3>4
    <2> QED
        BY <2>1
<1> PICK before, now : before = Owners(a, space) /\ now = Owners(b, space)
    OBVIOUS
<1>10. /\ \A s \in Spaces : s # space => Owners(b, s) = Owners(a, s) /\ o \notin Owners(a, s)
       /\ o \notin before /\ now = before \cup {o}
    <2>1. \A s \in Spaces, x \in Objects :
              x \in Owners(b, s) <=> x \in Owners(a, s) \/ (x = o /\ s = space)
        BY <1>2, <1>8 DEF Owners
    <2>2. \A s \in Spaces : o \notin Owners(a, s)
        BY <1>8 DEF Owners
    <2>3. \A s \in Spaces : Owners(b, s) \subseteq Objects /\ Owners(a, s) \subseteq Objects
        BY DEF Owners
    <2>4. ASSUME NEW s \in Spaces, s # space PROVE Owners(b, s) = Owners(a, s)
        <3>1. \A x : x \in Owners(b, s) <=> x \in Owners(a, s)
            BY <2>1, <2>3, <2>4
        <3> QED
            BY <3>1
    <2>5. now = before \cup {o}
        <3>1. \A x : x \in now <=> x \in before \cup {o}
            BY <2>1, <2>3
        <3> QED
            BY <3>1
    <2> QED
        BY <2>2, <2>4, <2>5
<1>11. \A s \in Spaces : /\ IsFiniteSet(Owners(a, s))
                         /\ \A x \in Owners(a, s) : x \in Objects /\ a[x].bytes \in Nat
    BY <1>1, OwnersAreCounted DEF Owners
<1>12. PointersAreOwned(b, more)
    <2>1. ASSUME NEW x \in Objects, NEW y \in Objects, b[x] # Nothing,
                 b[x].pointer = b[y].pointer
          PROVE  x = y
        <3>1. x = o <=> b[x].pointer = p
            BY <1>0, <1>2, <1>9
        <3>2. y = o <=> b[y].pointer = p
            BY <1>0, <1>2, <1>9
        <3> QED
            BY <1>1, <1>2, <2>1, <3>1, <3>2 DEF PointersAreOwned
    <2>2. ASSUME NEW s \in Spaces PROVE more[s] = {b[x].pointer : x \in Owners(b, s)}
        <3>1. mem[s] = {a[x].pointer : x \in Owners(a, s)}
            BY <1>1 DEF PointersAreOwned
        <3>2. {a[x].pointer : x \in Owners(a, s)} = {b[x].pointer : x \in Owners(a, s)}
            <4>1. \A x \in Owners(a, s) : b[x] = a[x]
                BY <1>2, <1>10, <1>11
            <4> QED
                BY <4>1
        <3>3. CASE s # space
            BY <1>3, <1>10, <3>1, <3>2, <3>3
        <3>4. CASE s = space
            <4>1. mem[s] = {b[x].pointer : x \in before}
                BY <3>1, <3>2, <3>4
            <4>2. more[s] = {b[x].pointer : x \in before} \cup {p}
                BY <1>3, <3>4, <4>1
            <4>3. {b[x].pointer : x \in before} \cup {p} = {b[x].pointer : x \in now}
                <5>1. \A q : (\E x \in now : q = b[x].pointer)
                                 <=> (\E x \in before : q = b[x].pointer) \/ q = p
                    BY <1>2, <1>10
                <5>2. {b[x].pointer : x \in before} \cup {p} \subseteq {b[x].pointer : x \in now}
                    BY <5>1
                <5>3. {b[x].pointer : x \in now} \subseteq {b[x].pointer : x \in before} \cup {p}
                    BY <5>1
                <5> QED
                    BY <5>2, <5>3
            <4> QED
                BY <3>4, <4>2, <4>3
        <3> QED
            BY <3>3, <3>4
    <2> QED
        BY <2>1, <2>2 DEF PointersAreOwned
<1>13. ASSUME NEW s \in Spaces
       PROVE  /\ after[s].live = Bytes(b, Owners(b, s))
              /\ after[s].live <= top[s] /\ after[s].peak = top[s]
              /\ Cardinality(more[s]) + after[s].frees = after[s].allocations
    <2>1. SameSize(a, b, Owners(a, s))
        BY <1>2, <1>10, <1>11 DEF SameSize
    <2>2. IsFiniteSet(Owners(a, s))
        BY <1>11
    <2>3. Bytes(b, Owners(a, s)) = Bytes(a, Owners(a, s)) /\ Bytes(a, Owners(a, s)) \in Nat
        BY <2>1, <2>2, SameBytes
    <2>4. CASE s # space
        BY <1>1, <1>3, <1>5, <1>6, <1>10, <2>3, <2>4 DEF BytesAreOwned
    <2>5. CASE s = space
        <3>1. IsFiniteSet(now)
            <4>1. IsFiniteSet(before)
                BY <2>2, <2>5
            <4>2. IsFiniteSet(before \cup {o})
                BY <4>1, FS_AddElement
            <4> QED
                BY <1>10, <4>2
        <3>2. Sized(b, now) /\ Apart(o, before, now)
            <4>1. \A x \in now : x = o \/ (x # o /\ x \in before)
                BY <1>10
            <4>2. \A x \in before : b[x].bytes \in Nat
                BY <1>2, <1>10, <1>11
            <4>3. before = now \ {o} /\ o \in now
                BY <1>10
            <4> QED
                BY <1>2, <4>1, <4>2, <4>3 DEF Sized, Apart
        <3>3. BytesSplit(b, o, before, now)
            BY <3>1, <3>2, BytesWithout
        <3>4. Bytes(b, now) = bytes + st[space].live
            BY <1>2, <1>4, <2>3, <2>5, <3>3 DEF BytesSplit
        <3>5. /\ Cardinality(more[s]) = Cardinality(mem[s]) + 1
              /\ Cardinality(mem[s]) \in Nat
            <4>1. mem[s] \in SUBSET Blocks /\ p \notin mem[s]
                BY <1>1
            <4>2. IsFiniteSet(mem[s]) /\ Cardinality(mem[s]) \in Nat
                BY <4>1, BlocksAreFinite
            <4>3. Cardinality(mem[s] \cup {p}) = Cardinality(mem[s]) + 1
                BY <4>1, <4>2, FS_AddElement
            <4> QED
                BY <1>3, <2>5, <4>2, <4>3
        <3>6. Cardinality(more[s]) + after[s].frees = after[s].allocations
            BY <1>4, <1>5, <2>5, <3>5
        <3>7. after[s].live = Bytes(b, Owners(b, s))
            BY <1>4, <1>5, <2>5, <3>4
        <3> QED
            BY <1>4, <1>5, <1>6, <2>5, <3>6, <3>7
    <2> QED
        BY <2>4, <2>5
<1>14. BytesAreOwned(b, more, after, top)
    BY <1>13 DEF BytesAreOwned
<1> QED
    BY <1>7, <1>12, <1>14 DEF Owns

\* There is a block left to hand out as long as there are calls left.
LEMMA BlockIsFree ==
    ASSUME NEW a, NEW mem, NEW st, NEW hi, Owns(a, mem, st, hi),
           st["host"].allocations + st["device"].allocations < MaxCalls
    PROVE  /\ Min(Blocks \ (mem["host"] \cup mem["device"])) \in Blocks
           /\ \A s \in Spaces : Min(Blocks \ (mem["host"] \cup mem["device"])) \notin mem[s]
<1> PICK h, d : h = mem["host"] /\ d = mem["device"]
    OBVIOUS
<1>1. /\ "host" \in Spaces /\ "device" \in Spaces
      /\ h \in SUBSET Blocks /\ d \in SUBSET Blocks
      /\ \A s \in Spaces : mem[s] = h \/ mem[s] = d
      /\ st["host"] \in Statistics /\ st["device"] \in Statistics
      /\ Cardinality(h) + st["host"].frees = st["host"].allocations
      /\ Cardinality(d) + st["device"].frees = st["device"].allocations
    BY DEF Owns, OwnersAreTyped, BytesAreOwned, Spaces
<1>2. IsFiniteSet(h) /\ IsFiniteSet(d) /\ Cardinality(h) \in Nat /\ Cardinality(d) \in Nat
    BY <1>1, BlocksAreFinite
<1>3. Cardinality(h) + Cardinality(d) < MaxCalls
    <2>1. /\ st["host"].frees \in Nat /\ st["device"].frees \in Nat
          /\ st["host"].allocations \in Nat /\ st["device"].allocations \in Nat
        BY <1>1 DEF Statistics
    <2> QED
        BY <1>1, <1>2, <2>1, SizesAssumption
<1>4. Blocks # h \cup d
    <2>1. Cardinality(h \cup d) <= Cardinality(h) + Cardinality(d)
              /\ Cardinality(h \cup d) \in Nat
        <3>1. IsFiniteSet(h \cup d) /\ IsFiniteSet(h \cap d)
            BY <1>2, FS_Union, FS_Intersection
        <3>2. Cardinality(h \cup d) = Cardinality(h) + Cardinality(d) - Cardinality(h \cap d)
            BY <1>2, FS_Union
        <3>3. Cardinality(h \cup d) \in Nat /\ Cardinality(h \cap d) \in Nat
            BY <3>1, FS_CardinalityType
        <3> QED
            BY <1>2, <3>2, <3>3
    <2>2. Cardinality(Blocks) = MaxCalls /\ MaxCalls \in Nat
        BY BlocksAreFinite, SizesAssumption
    <2>3. Cardinality(Blocks) # Cardinality(h \cup d)
        BY <1>2, <1>3, <2>1, <2>2
    <2> QED
        BY <2>3
<1> PICK T : T = Blocks \ (h \cup d)
    OBVIOUS
<1>5. T # {} /\ T \in SUBSET Nat
    BY <1>1, <1>4 DEF Blocks
<1>6. PICK n \in T : \A m \in T : n <= m
    BY <1>5, LeastNatural
<1>7. Min(T) \in T
    BY <1>6 DEF Min
<1> QED
    BY <1>1, <1>7
-----------------------------------------------------------------------------
\* What an operation adds to the metrics.
OneAllocation(space, n) ==
    [NoMetrics EXCEPT !.allocations = 1,
         !.allocated = [s \in Spaces |-> IF s = space THEN n ELSE 0]]
OneFree(space, n) ==
    [NoMetrics EXCEPT !.frees = 1, !.freed = [s \in Spaces |-> IF s = space THEN n ELSE 0]]
OneCopy(source, destination, n) ==
    [NoMetrics EXCEPT !.copies = 1,
         !.copied = [d \in Spaces \X Spaces |-> IF d = <<source, destination>> THEN n ELSE 0]]
OneSynchronization == [NoMetrics EXCEPT !.synchronizations = 1]

WithAllocation(m, space, n) ==
    [m EXCEPT !.allocations = @ + 1, !.allocated[space] = @ + n]
WithFree(m, space, n) == [m EXCEPT !.frees = @ + 1, !.freed[space] = @ + n]
WithCopy(m, source, destination, n) ==
    [m EXCEPT !.copies = @ + 1, !.copied[<<source, destination>>] = @ + n]
WithSynchronization(m) == [m EXCEPT !.synchronizations = @ + 1]

\* Metrics are the record of their fields.
LEMMA MetricsAreRecords ==
    ASSUME NEW m \in Metrics
    PROVE  /\ m.allocated \in [Spaces -> Nat] /\ m.freed \in [Spaces -> Nat]
           /\ m.copied \in [Spaces \X Spaces -> Nat]
           /\ m.allocations \in Nat /\ m.frees \in Nat /\ m.copies \in Nat
           /\ m.synchronizations \in Nat
           /\ m = [allocated |-> m.allocated, freed |-> m.freed, copied |-> m.copied,
                   allocations |-> m.allocations, frees |-> m.frees, copies |-> m.copies,
                   synchronizations |-> m.synchronizations]
    BY DEF Metrics

LEMMA AllocationIsAdded ==
    ASSUME NEW m \in Metrics, NEW space \in Spaces, NEW n \in Nat
    PROVE  /\ OneAllocation(space, n) \in Metrics
           /\ WithAllocation(m, space, n) = AddUp(m, OneAllocation(space, n))
<1> PICK d : d = OneAllocation(space, n)
    OBVIOUS
<1>1. /\ d \in Metrics
      /\ \A s \in Spaces : d.allocated[s] = (IF s = space THEN n ELSE 0) /\ d.freed[s] = 0
      /\ \A p \in Spaces \X Spaces : d.copied[p] = 0
      /\ d.allocations = 1 /\ d.frees = 0 /\ d.copies = 0 /\ d.synchronizations = 0
    BY DEF OneAllocation, NoMetrics, Metrics
<1> PICK b : b = WithAllocation(m, space, n)
    OBVIOUS
<1> PICK f : f = [m.allocated EXCEPT ![space] = m.allocated[space] + n]
    OBVIOUS
<1>2. b = [allocated |-> f, freed |-> m.freed, copied |-> m.copied,
           allocations |-> m.allocations + 1, frees |-> m.frees, copies |-> m.copies,
           synchronizations |-> m.synchronizations]
    <2>1. b = [m EXCEPT !.allocations = m.allocations + 1, !.allocated = f]
        BY DEF Metrics, WithAllocation
    <2> QED
        BY <2>1 DEF Metrics
<1>3. AddUp(m, d) = b
    <2>1. f = [s \in Spaces |-> m.allocated[s] + d.allocated[s]]
        BY <1>1, MetricsAreRecords
    <2>2. m.freed = [s \in Spaces |-> m.freed[s] + d.freed[s]]
        BY <1>1, MetricsAreRecords
    <2>3. m.copied = [p \in Spaces \X Spaces |-> m.copied[p] + d.copied[p]]
        BY <1>1, MetricsAreRecords
    <2>4. /\ m.allocations + d.allocations = m.allocations + 1
          /\ m.frees + d.frees = m.frees /\ m.copies + d.copies = m.copies
          /\ m.synchronizations + d.synchronizations = m.synchronizations
        BY <1>1, MetricsAreRecords
    <2> QED
        BY <1>2, <2>1, <2>2, <2>3, <2>4 DEF AddUp
<1> QED
    BY <1>1, <1>3

LEMMA FreeIsAdded ==
    ASSUME NEW m \in Metrics, NEW space \in Spaces, NEW n \in Nat
    PROVE  /\ OneFree(space, n) \in Metrics
           /\ WithFree(m, space, n) = AddUp(m, OneFree(space, n))
<1> PICK d : d = OneFree(space, n)
    OBVIOUS
<1>1. /\ d \in Metrics
      /\ \A s \in Spaces : d.allocated[s] = 0
      /\ \A s \in Spaces : d.freed[s] = (IF s = space THEN n ELSE 0)
      /\ \A p \in Spaces \X Spaces : d.copied[p] = 0
      /\ d.allocations = 0 /\ d.frees = 1 /\ d.copies = 0 /\ d.synchronizations = 0
    BY DEF OneFree, NoMetrics, Metrics
<1> PICK b : b = WithFree(m, space, n)
    OBVIOUS
<1> PICK f : f = [m.freed EXCEPT ![space] = m.freed[space] + n]
    OBVIOUS
<1>2. b = [allocated |-> m.allocated, freed |-> f, copied |-> m.copied,
           allocations |-> m.allocations, frees |-> m.frees + 1, copies |-> m.copies,
           synchronizations |-> m.synchronizations]
    <2>1. b = [m EXCEPT !.frees = m.frees + 1, !.freed = f]
        BY DEF Metrics, WithFree
    <2> QED
        BY <2>1 DEF Metrics
<1>3. AddUp(m, d) = b
    <2>1. m.allocated = [s \in Spaces |-> m.allocated[s] + d.allocated[s]]
        BY <1>1, MetricsAreRecords
    <2>2. f = [s \in Spaces |-> m.freed[s] + d.freed[s]]
        BY <1>1, MetricsAreRecords
    <2>3. m.copied = [p \in Spaces \X Spaces |-> m.copied[p] + d.copied[p]]
        BY <1>1, MetricsAreRecords
    <2>4. /\ m.allocations + d.allocations = m.allocations /\ m.frees + d.frees = m.frees + 1
          /\ m.copies + d.copies = m.copies
          /\ m.synchronizations + d.synchronizations = m.synchronizations
        BY <1>1, MetricsAreRecords
    <2> QED
        BY <1>2, <2>1, <2>2, <2>3, <2>4 DEF AddUp
<1> QED
    BY <1>1, <1>3

LEMMA CopyIsAdded ==
    ASSUME NEW m \in Metrics, NEW source \in Spaces, NEW destination \in Spaces,
           NEW n \in Nat
    PROVE  /\ OneCopy(source, destination, n) \in Metrics
           /\ WithCopy(m, source, destination, n) = AddUp(m, OneCopy(source, destination, n))
<1> PICK d : d = OneCopy(source, destination, n)
    OBVIOUS
<1>1. /\ d \in Metrics
      /\ \A s \in Spaces : d.allocated[s] = 0
      /\ \A s \in Spaces : d.freed[s] = 0
      /\ \A p \in Spaces \X Spaces : d.copied[p] = (IF p = <<source, destination>> THEN n ELSE 0)
      /\ d.allocations = 0 /\ d.frees = 0 /\ d.copies = 1 /\ d.synchronizations = 0
    BY DEF OneCopy, NoMetrics, Metrics
<1> PICK b : b = WithCopy(m, source, destination, n)
    OBVIOUS
<1> PICK q \in Spaces \X Spaces : q = <<source, destination>>
    OBVIOUS
<1> PICK f : f = [m.copied EXCEPT ![q] = m.copied[q] + n]
    OBVIOUS
<1>2. b = [allocated |-> m.allocated, freed |-> m.freed, copied |-> f,
           allocations |-> m.allocations, frees |-> m.frees, copies |-> m.copies + 1,
           synchronizations |-> m.synchronizations]
    <2>1. b = [m EXCEPT !.copies = m.copies + 1, !.copied = f]
        BY DEF Metrics, WithCopy
    <2> QED
        BY <2>1 DEF Metrics
<1>3. AddUp(m, d) = b
    <2>1. m.allocated = [s \in Spaces |-> m.allocated[s] + d.allocated[s]]
        BY <1>1, MetricsAreRecords
    <2>2. m.freed = [s \in Spaces |-> m.freed[s] + d.freed[s]]
        BY <1>1, MetricsAreRecords
    <2>3. f = [p \in Spaces \X Spaces |-> m.copied[p] + d.copied[p]]
        <3>1. \A p \in Spaces \X Spaces : d.copied[p] = IF p = q THEN n ELSE 0
            BY <1>1
        <3>2. m.copied \in [Spaces \X Spaces -> Nat]
            BY MetricsAreRecords
        <3>3. \A p \in Spaces \X Spaces : f[p] = m.copied[p] + d.copied[p]
            BY <3>1, <3>2
        <3>4. f = [p \in Spaces \X Spaces |-> f[p]]
            BY <3>2
        <3> QED
            BY <3>3, <3>4
    <2>4. /\ m.allocations + d.allocations = m.allocations /\ m.frees + d.frees = m.frees
          /\ m.copies + d.copies = m.copies + 1
          /\ m.synchronizations + d.synchronizations = m.synchronizations
        BY <1>1, MetricsAreRecords
    <2> QED
        BY <1>2, <2>1, <2>2, <2>3, <2>4 DEF AddUp
<1> QED
    BY <1>1, <1>3

LEMMA SynchronizationIsAdded ==
    ASSUME NEW m \in Metrics
    PROVE  /\ OneSynchronization \in Metrics
           /\ WithSynchronization(m) = AddUp(m, OneSynchronization)
<1> PICK d : d = OneSynchronization
    OBVIOUS
<1>1. /\ d \in Metrics
      /\ \A s \in Spaces : d.allocated[s] = 0
      /\ \A s \in Spaces : d.freed[s] = 0
      /\ \A p \in Spaces \X Spaces : d.copied[p] = 0
      /\ d.allocations = 0 /\ d.frees = 0 /\ d.copies = 0 /\ d.synchronizations = 1
    BY DEF OneSynchronization, NoMetrics, Metrics
<1> PICK b : b = WithSynchronization(m)
    OBVIOUS
<1>2. b = [allocated |-> m.allocated, freed |-> m.freed, copied |-> m.copied,
           allocations |-> m.allocations, frees |-> m.frees, copies |-> m.copies,
           synchronizations |-> m.synchronizations + 1]
    BY DEF Metrics, WithSynchronization
<1>3. AddUp(m, d) = b
    <2>1. m.allocated = [s \in Spaces |-> m.allocated[s] + d.allocated[s]]
        BY <1>1, MetricsAreRecords
    <2>2. m.freed = [s \in Spaces |-> m.freed[s] + d.freed[s]]
        BY <1>1, MetricsAreRecords
    <2>3. m.copied = [p \in Spaces \X Spaces |-> m.copied[p] + d.copied[p]]
        BY <1>1, MetricsAreRecords
    <2>4. /\ m.allocations + d.allocations = m.allocations /\ m.frees + d.frees = m.frees
          /\ m.copies + d.copies = m.copies
          /\ m.synchronizations + d.synchronizations = m.synchronizations + 1
        BY <1>1, MetricsAreRecords
    <2> QED
        BY <1>2, <2>1, <2>2, <2>3, <2>4 DEF AddUp
<1> QED
    BY <1>1, <1>3

-----------------------------------------------------------------------------
\* The metrics of a record and the metrics of all of them.
Raised(m, k, d, b) == b = [m EXCEPT ![k] = AddUp(m[k], d)]

LEMMA AddedToOne ==
    ASSUME NEW m \in [1 .. MaxRecords -> Metrics], NEW n \in 0 .. MaxRecords,
           NEW k \in 1 .. n, NEW d \in Metrics, NEW b, Raised(m, k, d, b)
    PROVE  /\ Together(m, 1 .. n) \in Metrics
           /\ Together(b, 1 .. n) = AddUp(Together(m, 1 .. n), d)
<1> PICK U, T : U = 1 .. n /\ T = U \ {k}
    OBVIOUS
<1>1. /\ U \subseteq 1 .. MaxRecords /\ k \in U /\ k \notin T /\ T \subseteq U
      /\ IsFiniteSet(U) /\ IsFiniteSet(T)
    <2>1. n \in Nat /\ n <= MaxRecords
        BY BoundAssumption
    <2>2. IsFiniteSet(U)
        BY <2>1, FS_Interval
    <2>3. IsFiniteSet(T)
        BY <2>2, FS_Subset
    <2>4. U \subseteq 1 .. MaxRecords
        BY <2>1, BoundAssumption
    <2> QED
        BY <2>2, <2>3, <2>4
<1>2. AddUp(m[k], d) \in Metrics /\ m[k] \in Metrics
    BY <1>1, SumIsMetrics
<1>3. /\ b \in [1 .. MaxRecords -> Metrics] /\ b[k] = AddUp(m[k], d)
      /\ \A r \in T : b[r] = m[r]
    BY <1>1, <1>2 DEF Raised
<1>4. /\ AreMetrics(m, U) /\ AreMetrics(b, U) /\ Apart(k, T, U) /\ AreTheSame(m, b, T)
    BY <1>1, <1>3 DEF AreMetrics, Apart, AreTheSame
<1>5. MetricsSplit(m, k, T, U) /\ MetricsSplit(b, k, T, U)
    BY <1>1, <1>4, TogetherWithout
<1> PICK rest : rest = Together(m, T)
    OBVIOUS
<1>6. rest \in Metrics /\ Together(b, T) = rest
    BY <1>1, <1>4, TogetherOfTheSame
<1>7. Together(m, U) = AddUp(m[k], rest) /\ Together(b, U) = AddUp(AddUp(m[k], d), rest)
    BY <1>3, <1>5, <1>6 DEF MetricsSplit
<1>8. AddUp(AddUp(m[k], d), rest) = AddUp(AddUp(m[k], rest), d)
    <2>1. AddUp(AddUp(m[k], d), rest) = AddUp(m[k], AddUp(d, rest))
        BY <1>2, <1>6, SumsAssociate
    <2>2. AddUp(d, rest) = AddUp(rest, d)
        BY <1>6, SumsCommute
    <2>3. AddUp(m[k], AddUp(rest, d)) = AddUp(AddUp(m[k], rest), d)
        BY <1>2, <1>6, SumsAssociate
    <2> QED
        BY <2>1, <2>2, <2>3
<1> QED
    BY <1>2, <1>6, <1>7, <1>8, SumIsMetrics

\* A new record has no metrics, and adds nothing.
LEMMA OneMoreRecord ==
    ASSUME NEW m \in [1 .. MaxRecords -> Metrics], NEW n \in 0 .. MaxRecords,
           n < MaxRecords, m[n + 1] = NoMetrics
    PROVE  Together(m, 1 .. n + 1) = Together(m, 1 .. n) /\ Together(m, 1 .. n) \in Metrics
<1> PICK U, T, k : U = 1 .. n + 1 /\ T = 1 .. n /\ k = n + 1
    OBVIOUS
<1>1. /\ U \subseteq 1 .. MaxRecords /\ T = U \ {k} /\ k \in U
      /\ IsFiniteSet(U)
    <2>1. n \in Nat /\ n + 1 \in Nat /\ n + 1 <= MaxRecords
        BY BoundAssumption
    <2>2. IsFiniteSet(U)
        BY <2>1, FS_Interval
    <2>3. U \subseteq 1 .. MaxRecords /\ T = U \ {k} /\ k \in U
        BY <2>1, BoundAssumption
    <2> QED
        BY <2>2, <2>3
<1>2. AreMetrics(m, U) /\ Apart(k, T, U)
    BY <1>1 DEF AreMetrics, Apart
<1>3. MetricsSplit(m, k, T, U)
    BY <1>1, <1>2, TogetherWithout
<1> QED
    BY <1>3, NothingIsAdded DEF MetricsSplit

\* All metrics: of the records, and of what is on none of them.
AllMetrics(m, n, d) == AddUp(Together(m, 1 .. n), d)

AreAccounts(m, n, d) ==
    /\ m \in [1 .. MaxRecords -> Metrics] /\ d \in Metrics
    /\ \A r \in 1 .. MaxRecords : r > n => m[r] = NoMetrics

LEMMA AllAreMetrics ==
    ASSUME NEW m, NEW n \in 0 .. MaxRecords, NEW d, AreAccounts(m, n, d)
    PROVE  Together(m, 1 .. n) \in Metrics /\ AllMetrics(m, n, d) \in Metrics
<1> PICK U : U = 1 .. n
    OBVIOUS
<1>1. IsFiniteSet(U) /\ U \subseteq 1 .. MaxRecords
    BY FS_Interval, BoundAssumption
<1>2. AreTheSame(m, m, U)
    BY <1>1 DEF AreTheSame, AreAccounts
<1>3. Together(m, U) \in Metrics
    BY <1>1, <1>2, TogetherOfTheSame
<1> QED
    BY <1>3, SumIsMetrics DEF AllMetrics, AreAccounts

\* What Charge does: what an operation adds goes to one record, or is dropped.
Charges(m, n, d, k, new, m2, d2) ==
    \/ k = 0 /\ d2 = AddUp(d, new) /\ m2 = m
    \/ k \in 1 .. n /\ Raised(m, k, new, m2) /\ d2 = d

LEMMA ChargesAreAdded ==
    ASSUME NEW m, NEW n \in 0 .. MaxRecords, NEW d, AreAccounts(m, n, d), NEW new \in Metrics,
           NEW k, NEW m2, NEW d2, Charges(m, n, d, k, new, m2, d2)
    PROVE  /\ AreAccounts(m2, n, d2)
           /\ AllMetrics(m2, n, d2) = AddUp(AllMetrics(m, n, d), new)
<1> PICK sum : sum = Together(m, 1 .. n)
    OBVIOUS
<1>1. sum \in Metrics /\ d \in Metrics /\ m \in [1 .. MaxRecords -> Metrics]
    BY AllAreMetrics DEF AreAccounts
<1>2. CASE k = 0 /\ d2 = AddUp(d, new) /\ m2 = m
    <2>1. AddUp(sum, AddUp(d, new)) = AddUp(AddUp(sum, d), new)
        BY <1>1, SumsAssociate
    <2>2. AddUp(d, new) \in Metrics
        BY <1>1, SumIsMetrics
    <2> QED
        BY <1>2, <2>1, <2>2 DEF AreAccounts, AllMetrics
<1>3. CASE k \in 1 .. n /\ Raised(m, k, new, m2) /\ d2 = d
    <2>1. Together(m2, 1 .. n) = AddUp(sum, new)
        BY <1>1, <1>3, AddedToOne
    <2>2. AddUp(AddUp(sum, new), d) = AddUp(AddUp(sum, d), new)
        <3>1. AddUp(AddUp(sum, new), d) = AddUp(sum, AddUp(new, d))
            BY <1>1, SumsAssociate
        <3>2. AddUp(new, d) = AddUp(d, new)
            BY <1>1, SumsCommute
        <3>3. AddUp(sum, AddUp(d, new)) = AddUp(AddUp(sum, d), new)
            BY <1>1, SumsAssociate
        <3> QED
            BY <3>1, <3>2, <3>3
    <2>3. k \in 1 .. MaxRecords /\ ~(k > n) /\ AddUp(m[k], new) \in Metrics
        BY <1>1, <1>3, BoundAssumption, SumIsMetrics
    <2>4. m2 \in [1 .. MaxRecords -> Metrics] /\ \A r \in 1 .. MaxRecords : r # k => m2[r] = m[r]
        BY <1>1, <1>3, <2>3 DEF Raised
    <2>5. AreAccounts(m2, n, d2)
        BY <1>1, <1>3, <2>3, <2>4 DEF AreAccounts
    <2> QED
        BY <1>3, <2>1, <2>2, <2>5 DEF AllMetrics
<1> QED
    BY <1>2, <1>3 DEF Charges

\* reset() drops what the records have.
LEMMA DroppedMetrics ==
    ASSUME NEW m, NEW n \in 0 .. MaxRecords, NEW d, AreAccounts(m, n, d),
           NEW m2, m2 = [r \in 1 .. MaxRecords |-> NoMetrics],
           NEW d2, d2 = AddUp(d, Together(m, 1 .. n))
    PROVE  AreAccounts(m2, 0, d2) /\ AllMetrics(m2, 0, d2) = AllMetrics(m, n, d)
<1> PICK sum : sum = Together(m, 1 .. n)
    OBVIOUS
<1>1. sum \in Metrics /\ d \in Metrics
    BY AllAreMetrics DEF AreAccounts
<1>2. d2 \in Metrics /\ d2 = AddUp(sum, d)
    BY <1>1, SumIsMetrics, SumsCommute
<1>3. Together(m2, 1 .. 0) = NoMetrics
    <2>1. 1 .. 0 = {}
        OBVIOUS
    <2> QED
        BY <2>1, TogetherOfNone
<1>4. AddUp(NoMetrics, d2) = d2
    BY <1>2, NothingIsAdded
<1> QED
    BY <1>2, <1>3, <1>4, NothingIsMetrics DEF AreAccounts, AllMetrics

-----------------------------------------------------------------------------
\* Metrics match statistics.
Matches(all, st) ==
    /\ all.allocations = st["host"].allocations + st["device"].allocations
    /\ all.frees = st["host"].frees + st["device"].frees
    /\ all.copies = st["host"].copies + st["device"].copies
    /\ all.synchronizations = st["host"].synchronizations + st["device"].synchronizations
    /\ \A s \in Spaces :
           /\ all.allocated[s] = all.freed[s] + st[s].live
           /\ all.copied[<<"host", s>>] + all.copied[<<"device", s>>] = st[s].copied

LEMMA StatisticsAreNumbers ==
    ASSUME NEW st \in [Spaces -> Statistics]
    PROVE  \A s \in Spaces :
               /\ st[s] \in Statistics /\ st[s].live \in Nat
               /\ st[s].allocations \in Nat /\ st[s].frees \in Nat /\ st[s].copies \in Nat
               /\ st[s].copied \in Nat /\ st[s].synchronizations \in Nat
    BY DEF Statistics

\* The executor of one space counts what is added to the metrics.
Counted(new, space, st, after) ==
    /\ \A s \in Spaces : s # space =>
           /\ after[s] = st[s]
           /\ new.allocated[s] = 0 /\ new.freed[s] = 0
           /\ new.copied[<<"host", s>>] = 0 /\ new.copied[<<"device", s>>] = 0
    /\ after[space].live + new.freed[space] = st[space].live + new.allocated[space]
    /\ after[space].copied = st[space].copied + (new.copied[<<"host", space>>]
                                                  + new.copied[<<"device", space>>])
    /\ after[space].allocations = st[space].allocations + new.allocations
    /\ after[space].frees = st[space].frees + new.frees
    /\ after[space].copies = st[space].copies + new.copies
    /\ after[space].synchronizations = st[space].synchronizations + new.synchronizations

LEMMA CountsMatch ==
    ASSUME NEW all \in Metrics, NEW st \in [Spaces -> Statistics], Matches(all, st),
           NEW space \in Spaces, NEW new \in Metrics, NEW after \in [Spaces -> Statistics],
           Counted(new, space, st, after)
    PROVE  Matches(AddUp(all, new), after)
<1>1. "host" \in Spaces /\ "device" \in Spaces /\ (space = "host" \/ space = "device")
    BY DEF Spaces
<1> PICK sum : sum = AddUp(all, new)
    OBVIOUS
<1>2. /\ \A s \in Spaces : /\ sum.allocated[s] = all.allocated[s] + new.allocated[s]
                           /\ sum.freed[s] = all.freed[s] + new.freed[s]
      /\ \A p \in Spaces \X Spaces : sum.copied[p] = all.copied[p] + new.copied[p]
      /\ sum.allocations = all.allocations + new.allocations
      /\ sum.frees = all.frees + new.frees /\ sum.copies = all.copies + new.copies
      /\ sum.synchronizations = all.synchronizations + new.synchronizations
    BY FieldsOfSum
<1>3. ASSUME NEW s \in Spaces
      PROVE  /\ sum.allocated[s] = sum.freed[s] + after[s].live
             /\ sum.copied[<<"host", s>>] + sum.copied[<<"device", s>>] = after[s].copied
    <2> PICK p \in Spaces \X Spaces, q \in Spaces \X Spaces :
            p = <<"host", s>> /\ q = <<"device", s>>
        BY <1>1
    <2>1. /\ all.allocated[s] = all.freed[s] + st[s].live
          /\ all.copied[p] + all.copied[q] = st[s].copied
        BY DEF Matches
    <2>2. /\ after[s].live + new.freed[s] = st[s].live + new.allocated[s]
          /\ after[s].copied = st[s].copied + (new.copied[p] + new.copied[q])
        <3>1. CASE s = space
            BY <3>1 DEF Counted
        <3>2. CASE s # space
            <4>1. /\ after[s] = st[s] /\ new.allocated[s] = 0 /\ new.freed[s] = 0
                  /\ new.copied[p] = 0 /\ new.copied[q] = 0
                BY <3>2 DEF Counted
            <4> QED
                BY <4>1, StatisticsAreNumbers
        <3> QED
            BY <3>1, <3>2
    <2>3. /\ all.allocated[s] \in Nat /\ all.freed[s] \in Nat
          /\ all.copied[p] \in Nat /\ all.copied[q] \in Nat
          /\ new.allocated[s] \in Nat /\ new.freed[s] \in Nat
          /\ new.copied[p] \in Nat /\ new.copied[q] \in Nat
          /\ st[s].live \in Nat /\ st[s].copied \in Nat
          /\ after[s].live \in Nat /\ after[s].copied \in Nat
        BY FieldsAreNumbers, StatisticsAreNumbers
    <2>4. /\ sum.allocated[s] = all.allocated[s] + new.allocated[s]
          /\ sum.freed[s] = all.freed[s] + new.freed[s]
          /\ sum.copied[p] = all.copied[p] + new.copied[p]
          /\ sum.copied[q] = all.copied[q] + new.copied[q]
        BY <1>2
    <2>5. sum.copied[p] + sum.copied[q] = after[s].copied
        BY <2>1, <2>2, <2>3, <2>4
    <2>6. sum.allocated[s] = sum.freed[s] + after[s].live
        BY <2>1, <2>2, <2>3, <2>4
    <2> QED
        BY <2>5, <2>6
<1>4. /\ sum.allocations = after["host"].allocations + after["device"].allocations
      /\ sum.frees = after["host"].frees + after["device"].frees
      /\ sum.copies = after["host"].copies + after["device"].copies
      /\ sum.synchronizations
             = after["host"].synchronizations + after["device"].synchronizations
    <2>1. /\ all.allocations = st["host"].allocations + st["device"].allocations
          /\ all.frees = st["host"].frees + st["device"].frees
          /\ all.copies = st["host"].copies + st["device"].copies
          /\ all.synchronizations = st["host"].synchronizations + st["device"].synchronizations
        BY DEF Matches
    <2>2. /\ after[space].allocations = st[space].allocations + new.allocations
          /\ after[space].frees = st[space].frees + new.frees
          /\ after[space].copies = st[space].copies + new.copies
          /\ after[space].synchronizations = st[space].synchronizations + new.synchronizations
        BY DEF Counted
    <2>3. \A s \in Spaces : s # space => after[s] = st[s]
        BY DEF Counted
    <2>4. /\ new.allocations \in Nat /\ new.frees \in Nat /\ new.copies \in Nat
          /\ new.synchronizations \in Nat
        BY FieldsAreNumbers
    <2>5. \A s \in Spaces : /\ st[s].allocations \in Nat /\ st[s].frees \in Nat
                           /\ st[s].copies \in Nat /\ st[s].synchronizations \in Nat
        BY StatisticsAreNumbers
    <2>6. CASE space = "host"
        <3>1. after["device"] = st["device"]
            BY <1>1, <2>3, <2>6
        <3> QED
            BY <1>1, <1>2, <2>1, <2>2, <2>4, <2>5, <2>6, <3>1
    <2>7. CASE space = "device"
        <3>1. after["host"] = st["host"]
            BY <1>1, <2>3, <2>7
        <3> QED
            BY <1>1, <1>2, <2>1, <2>2, <2>4, <2>5, <2>7, <3>1
    <2> QED
        BY <1>1, <2>6, <2>7
<1> QED
    BY <1>3, <1>4 DEF Matches

LEMMA AllocationIsCounted ==
    ASSUME NEW st \in [Spaces -> Statistics], NEW space \in Spaces, NEW n \in Nat,
           NEW after, after = [st EXCEPT ![space] = AfterAllocation(st[space], n)]
    PROVE  /\ after \in [Spaces -> Statistics]
           /\ Counted(OneAllocation(space, n), space, st, after)
<1> PICK d : d = OneAllocation(space, n)
    OBVIOUS
<1>1. /\ \A s \in Spaces : d.allocated[s] = (IF s = space THEN n ELSE 0) /\ d.freed[s] = 0
      /\ \A s \in Spaces : d.copied[<<"host", s>>] = 0 /\ d.copied[<<"device", s>>] = 0
      /\ d.allocations = 1 /\ d.frees = 0 /\ d.copies = 0 /\ d.synchronizations = 0
    BY DEF OneAllocation, NoMetrics, Spaces
<1> PICK t : t = AfterAllocation(st[space], n)
    OBVIOUS
<1>2. /\ t \in Statistics
      /\ t.live = st[space].live + n /\ t.allocations = st[space].allocations + 1
      /\ t.frees = st[space].frees /\ t.copies = st[space].copies
      /\ t.copied = st[space].copied /\ t.synchronizations = st[space].synchronizations
    BY AllocatedStatistics
<1>3. /\ after \in [Spaces -> Statistics] /\ after[space] = t
      /\ \A s \in Spaces : s # space => after[s] = st[s]
    BY <1>2
<1> QED
    BY <1>1, <1>2, <1>3, StatisticsAreNumbers DEF Counted

LEMMA ReleaseIsCounted ==
    ASSUME NEW st \in [Spaces -> Statistics], NEW space \in Spaces, NEW n \in Nat,
           NEW left \in Nat, st[space].live = n + left,
           NEW after, after = [st EXCEPT ![space] = AfterRelease(st[space], n)]
    PROVE  /\ after \in [Spaces -> Statistics]
           /\ Counted(OneFree(space, n), space, st, after)
<1> PICK d : d = OneFree(space, n)
    OBVIOUS
<1>1. /\ \A s \in Spaces : d.freed[s] = (IF s = space THEN n ELSE 0) /\ d.allocated[s] = 0
      /\ \A s \in Spaces : d.copied[<<"host", s>>] = 0 /\ d.copied[<<"device", s>>] = 0
      /\ d.allocations = 0 /\ d.frees = 1 /\ d.copies = 0 /\ d.synchronizations = 0
    BY DEF OneFree, NoMetrics, Spaces
<1> PICK t : t = AfterRelease(st[space], n)
    OBVIOUS
<1>2. /\ t \in Statistics
      /\ t.live = left /\ t.allocations = st[space].allocations
      /\ t.frees = st[space].frees + 1 /\ t.copies = st[space].copies
      /\ t.copied = st[space].copied /\ t.synchronizations = st[space].synchronizations
    BY ReleasedStatistics
<1>3. /\ after \in [Spaces -> Statistics] /\ after[space] = t
      /\ \A s \in Spaces : s # space => after[s] = st[s]
    BY <1>2
<1> QED
    BY <1>1, <1>2, <1>3, StatisticsAreNumbers DEF Counted

AfterCopy(st, space, n) == [st EXCEPT ![space].copies = @ + 1, ![space].copied = @ + n]
AfterSynchronization(st, space) == [st EXCEPT ![space].synchronizations = @ + 1]

LEMMA CopyIsCounted ==
    ASSUME NEW st \in [Spaces -> Statistics], NEW source \in Spaces, NEW space \in Spaces,
           NEW n \in Nat,
           NEW after, after = AfterCopy(st, space, n)
    PROVE  /\ after \in [Spaces -> Statistics]
           /\ Counted(OneCopy(source, space, n), space, st, after)
           /\ \A s \in Spaces : /\ after[s].live = st[s].live /\ after[s].peak = st[s].peak
                                /\ after[s].allocations = st[s].allocations
                                /\ after[s].frees = st[s].frees
<1> PICK d : d = OneCopy(source, space, n)
    OBVIOUS
<1>1. /\ \A s \in Spaces : d.freed[s] = 0 /\ d.allocated[s] = 0
      /\ d.allocations = 0 /\ d.frees = 0 /\ d.copies = 1 /\ d.synchronizations = 0
    BY DEF OneCopy, NoMetrics
<1>2. /\ \A s \in Spaces : s # space =>
             d.copied[<<"host", s>>] = 0 /\ d.copied[<<"device", s>>] = 0
      /\ d.copied[<<"host", space>>] + d.copied[<<"device", space>>] = n
    BY DEF OneCopy, NoMetrics, Spaces
<1> PICK t : t = [st[space] EXCEPT !.copies = st[space].copies + 1,
                                   !.copied = st[space].copied + n]
    OBVIOUS
<1>3. /\ t \in Statistics
      /\ t.live = st[space].live /\ t.allocations = st[space].allocations
      /\ t.peak = st[space].peak
      /\ t.frees = st[space].frees /\ t.copies = st[space].copies + 1
      /\ t.copied = st[space].copied + n
      /\ t.synchronizations = st[space].synchronizations
    <2>1. st[space] \in Statistics
        OBVIOUS
    <2>2. st[space].copies + 1 \in Nat /\ st[space].copied + n \in Nat
        BY StatisticsAreNumbers
    <2> PICK u : u = st[space]
        OBVIOUS
    <2> PICK v \in Nat, w \in Nat : v = st[space].copies + 1 /\ w = st[space].copied + n
        BY <2>2
    <2>3. t = [u EXCEPT !.copies = v, !.copied = w] /\ u \in Statistics
        BY <2>1
    <2>4. /\ t \in Statistics
          /\ t.live = u.live /\ t.allocations = u.allocations /\ t.peak = u.peak
          /\ t.frees = u.frees /\ t.copies = v /\ t.copied = w
          /\ t.synchronizations = u.synchronizations
        BY <2>3 DEF Statistics
    <2> QED
        BY <2>4
<1>4. after = [st EXCEPT ![space] = t]
    BY DEF AfterCopy, Statistics
<1>5. /\ after \in [Spaces -> Statistics] /\ after[space] = t
      /\ \A s \in Spaces : s # space => after[s] = st[s]
    BY <1>3, <1>4
<1>6. Counted(d, space, st, after)
    BY <1>1, <1>2, <1>3, <1>5, StatisticsAreNumbers DEF Counted
<1> QED
    BY <1>3, <1>5, <1>6

LEMMA SynchronizationIsCounted ==
    ASSUME NEW st \in [Spaces -> Statistics], NEW space \in Spaces,
           NEW after, after = AfterSynchronization(st, space)
    PROVE  /\ after \in [Spaces -> Statistics]
           /\ Counted(OneSynchronization, space, st, after)
           /\ \A s \in Spaces : /\ after[s].live = st[s].live /\ after[s].peak = st[s].peak
                                /\ after[s].allocations = st[s].allocations
                                /\ after[s].frees = st[s].frees
<1> PICK d : d = OneSynchronization
    OBVIOUS
<1>1. /\ \A s \in Spaces : d.freed[s] = 0 /\ d.allocated[s] = 0
      /\ \A s \in Spaces : d.copied[<<"host", s>>] = 0 /\ d.copied[<<"device", s>>] = 0
      /\ d.allocations = 0 /\ d.frees = 0 /\ d.copies = 0 /\ d.synchronizations = 1
    BY DEF OneSynchronization, NoMetrics, Spaces
<1> PICK t : t = [st[space] EXCEPT !.synchronizations = st[space].synchronizations + 1]
    OBVIOUS
<1>2. /\ t \in Statistics
      /\ t.live = st[space].live /\ t.allocations = st[space].allocations
      /\ t.peak = st[space].peak
      /\ t.frees = st[space].frees /\ t.copies = st[space].copies
      /\ t.copied = st[space].copied
      /\ t.synchronizations = st[space].synchronizations + 1
    BY DEF Statistics
<1>3. after = [st EXCEPT ![space] = t]
    BY DEF AfterSynchronization, Statistics
<1>4. /\ after \in [Spaces -> Statistics] /\ after[space] = t
      /\ \A s \in Spaces : s # space => after[s] = st[s]
    BY <1>2, <1>3
<1>5. Counted(d, space, st, after)
    BY <1>1, <1>2, <1>4, StatisticsAreNumbers DEF Counted
<1> QED
    BY <1>2, <1>4, <1>5

-----------------------------------------------------------------------------
\* What there is in the accounts: allocations are owned, new records have no metrics,
\* and metrics match statistics.
AInv ==
    /\ Owns(allocation, memory, statistics, highest)
    /\ AreAccounts(metrics, count, dropped)
    /\ Matches(AllMetrics(metrics, count, dropped), statistics)

LEMMA InitIsAccounted == AccountInit => AInv
<1> SUFFICES ASSUME AccountInit PROVE AInv
    OBVIOUS
<1>1. /\ allocation = [o \in Objects |-> Nothing] /\ memory = [s \in Spaces |-> {}]
      /\ statistics = [s \in Spaces |-> NoStatistics] /\ highest = [s \in Spaces |-> 0]
      /\ metrics = [r \in 1 .. MaxRecords |-> NoMetrics] /\ dropped = NoMetrics /\ count = 0
    BY DEF AccountInit, ProfilerInit
<1>2. /\ NoStatistics \in Statistics /\ NoStatistics.live = 0 /\ NoStatistics.peak = 0
      /\ NoStatistics.allocations = 0 /\ NoStatistics.frees = 0 /\ NoStatistics.copies = 0
      /\ NoStatistics.copied = 0 /\ NoStatistics.synchronizations = 0
    BY DEF NoStatistics, Statistics
<1>3. OwnersAreTyped(allocation, memory, statistics, highest)
    BY <1>1, <1>2 DEF OwnersAreTyped
<1>4. \A s \in Spaces : Owners(allocation, s) = {}
    BY <1>1 DEF Owners, Nothing, Spaces
<1>5. PointersAreOwned(allocation, memory)
    BY <1>1, <1>4 DEF PointersAreOwned
<1>6. BytesAreOwned(allocation, memory, statistics, highest)
    <2>1. Bytes(allocation, {}) = 0 /\ Cardinality({}) = 0
        BY BytesOfNone, FS_EmptySet
    <2>2. ASSUME NEW s \in Spaces
          PROVE  /\ Bytes(allocation, Owners(allocation, s)) = 0 /\ Cardinality(memory[s]) = 0
                 /\ statistics[s] = NoStatistics /\ highest[s] = 0
        BY <1>1, <1>4, <2>1
    <2> QED
        BY <1>2, <2>2 DEF BytesAreOwned
<1>7. AreAccounts(metrics, 0, NoMetrics)
    BY <1>1, NothingIsMetrics DEF AreAccounts
<1>8. AllMetrics(metrics, 0, NoMetrics) = NoMetrics
    <2>1. 1 .. 0 = {} /\ Together(metrics, {}) = NoMetrics
        BY TogetherOfNone
    <2> QED
        BY <2>1, NothingIsAdded, NothingIsMetrics DEF AllMetrics
<1>9. Matches(NoMetrics, statistics)
    <2>1. /\ \A s \in Spaces : NoMetrics.allocated[s] = 0 /\ NoMetrics.freed[s] = 0
          /\ \A p \in Spaces \X Spaces : NoMetrics.copied[p] = 0
          /\ NoMetrics.allocations = 0 /\ NoMetrics.frees = 0 /\ NoMetrics.copies = 0
          /\ NoMetrics.synchronizations = 0
        BY DEF NoMetrics
    <2>2. "host" \in Spaces /\ "device" \in Spaces
        BY DEF Spaces
    <2> QED
        BY <1>1, <1>2, <2>1, <2>2 DEF Matches
<1> QED
    BY <1>1, <1>3, <1>5, <1>6, <1>7, <1>8, <1>9 DEF AInv, Owns

\* What is charged goes to a record, or is dropped when no event is active.
LEMMA TopIsRecorded ==
    ASSUME PInv
    PROVE  /\ count \in 0 .. MaxRecords
           /\ stack = <<>> => Owner = 0
           /\ stack # <<>> => Owner \in 1 .. count
<1>1. stack \in Seq(Pointers) /\ Len(stack) \in Nat /\ count \in 0 .. MaxRecords
    BY LenProperties DEF PInv, ProfilerTypeOK
<1>2. ASSUME stack # <<>> PROVE Owner \in 1 .. count
    <2>1. Len(stack) \in 1 .. Len(stack)
        BY <1>1, <1>2, EmptySeq
    <2>2. Valid(stack[Len(stack)])
        BY <2>1 DEF PInv, NoDanglingPointer
    <2> QED
        BY <1>2, <2>2 DEF Valid, Owner
<1> QED
    BY <1>1, <1>2 DEF Owner, Root

LEMMA AllocationIsRecorded ==
    ASSUME PInv, AreAccounts(metrics, count, dropped),
           NEW space \in Spaces, NEW n \in Nat, ChargeAllocation(space, n)
    PROVE  /\ OneAllocation(space, n) \in Metrics
           /\ Charges(metrics, count, dropped, Owner, OneAllocation(space, n), metrics', dropped')
<1> PICK new : new = OneAllocation(space, n)
    OBVIOUS
<1>1. metrics \in [1 .. MaxRecords -> Metrics] /\ dropped \in Metrics
    BY DEF AreAccounts
<1>2. /\ new \in Metrics
      /\ WithAllocation(dropped, space, n) = AddUp(dropped, new)
    BY <1>1, AllocationIsAdded
<1>3. CASE stack = <<>>
    <2>1. /\ dropped' = WithAllocation(dropped, space, n)
          /\ metrics' = metrics
        BY <1>3 DEF ChargeAllocation, Charge, WithAllocation
    <2> QED
        BY <1>1, <1>2, <1>3, <2>1, TopIsRecorded DEF Charges
<1>4. CASE stack # <<>>
    <2>1. Owner \in 1 .. count /\ Owner \in 1 .. MaxRecords
        BY <1>4, TopIsRecorded, BoundAssumption
    <2> PICK k, r : k \in 1 .. MaxRecords /\ k = Owner /\ r = metrics[k]
        BY <2>1
    <2>2. /\ metrics' = [metrics EXCEPT ![k] = WithAllocation(r, space, n)]
          /\ dropped' = dropped
        BY <1>1, <1>4 DEF ChargeAllocation, Charge, WithAllocation
    <2>3. WithAllocation(r, space, n) = AddUp(r, new)
        BY <1>1, AllocationIsAdded
    <2> QED
        BY <1>2, <2>1, <2>2, <2>3 DEF Charges, Raised
<1> QED
    BY <1>2, <1>3, <1>4

LEMMA FreeIsRecorded ==
    ASSUME PInv, AreAccounts(metrics, count, dropped),
           NEW space \in Spaces, NEW n \in Nat, ChargeFree(space, n)
    PROVE  /\ OneFree(space, n) \in Metrics
           /\ Charges(metrics, count, dropped, Owner, OneFree(space, n), metrics', dropped')
<1> PICK new : new = OneFree(space, n)
    OBVIOUS
<1>1. metrics \in [1 .. MaxRecords -> Metrics] /\ dropped \in Metrics
    BY DEF AreAccounts
<1>2. /\ new \in Metrics
      /\ WithFree(dropped, space, n) = AddUp(dropped, new)
    BY <1>1, FreeIsAdded
<1>3. CASE stack = <<>>
    <2>1. /\ dropped' = WithFree(dropped, space, n)
          /\ metrics' = metrics
        BY <1>3 DEF ChargeFree, Charge, WithFree
    <2> QED
        BY <1>1, <1>2, <1>3, <2>1, TopIsRecorded DEF Charges
<1>4. CASE stack # <<>>
    <2>1. Owner \in 1 .. count /\ Owner \in 1 .. MaxRecords
        BY <1>4, TopIsRecorded, BoundAssumption
    <2> PICK k, r : k \in 1 .. MaxRecords /\ k = Owner /\ r = metrics[k]
        BY <2>1
    <2>2. /\ metrics' = [metrics EXCEPT ![k] = WithFree(r, space, n)]
          /\ dropped' = dropped
        BY <1>1, <1>4 DEF ChargeFree, Charge, WithFree
    <2>3. WithFree(r, space, n) = AddUp(r, new)
        BY <1>1, FreeIsAdded
    <2> QED
        BY <1>2, <2>1, <2>2, <2>3 DEF Charges, Raised
<1> QED
    BY <1>2, <1>3, <1>4

LEMMA CopyIsRecorded ==
    ASSUME PInv, AreAccounts(metrics, count, dropped),
           NEW source \in Spaces, NEW space \in Spaces, NEW n \in Nat,
           ChargeCopy(source, space, n)
    PROVE  /\ OneCopy(source, space, n) \in Metrics
           /\ Charges(metrics, count, dropped, Owner, OneCopy(source, space, n), metrics', dropped')
<1> PICK new : new = OneCopy(source, space, n)
    OBVIOUS
<1>1. metrics \in [1 .. MaxRecords -> Metrics] /\ dropped \in Metrics
    BY DEF AreAccounts
<1>2. /\ new \in Metrics
      /\ WithCopy(dropped, source, space, n) = AddUp(dropped, new)
    BY <1>1, CopyIsAdded
<1>3. CASE stack = <<>>
    <2>1. /\ dropped' = WithCopy(dropped, source, space, n)
          /\ metrics' = metrics
        BY <1>3 DEF ChargeCopy, Charge, WithCopy
    <2> QED
        BY <1>1, <1>2, <1>3, <2>1, TopIsRecorded DEF Charges
<1>4. CASE stack # <<>>
    <2>1. Owner \in 1 .. count /\ Owner \in 1 .. MaxRecords
        BY <1>4, TopIsRecorded, BoundAssumption
    <2> PICK k, r : k \in 1 .. MaxRecords /\ k = Owner /\ r = metrics[k]
        BY <2>1
    <2>2. /\ metrics' = [metrics EXCEPT ![k] = WithCopy(r, source, space, n)]
          /\ dropped' = dropped
        BY <1>1, <1>4 DEF ChargeCopy, Charge, WithCopy
    <2>3. WithCopy(r, source, space, n) = AddUp(r, new)
        BY <1>1, CopyIsAdded
    <2> QED
        BY <1>2, <2>1, <2>2, <2>3 DEF Charges, Raised
<1> QED
    BY <1>2, <1>3, <1>4

LEMMA SynchronizationIsRecorded ==
    ASSUME PInv, AreAccounts(metrics, count, dropped),
           ChargeSynchronization
    PROVE  /\ OneSynchronization \in Metrics
           /\ Charges(metrics, count, dropped, Owner, OneSynchronization, metrics', dropped')
<1> PICK new : new = OneSynchronization
    OBVIOUS
<1>1. metrics \in [1 .. MaxRecords -> Metrics] /\ dropped \in Metrics
    BY DEF AreAccounts
<1>2. /\ new \in Metrics
      /\ WithSynchronization(dropped) = AddUp(dropped, new)
    BY <1>1, SynchronizationIsAdded
<1>3. CASE stack = <<>>
    <2>1. /\ dropped' = WithSynchronization(dropped)
          /\ metrics' = metrics
        BY <1>3 DEF ChargeSynchronization, Charge, WithSynchronization
    <2> QED
        BY <1>1, <1>2, <1>3, <2>1, TopIsRecorded DEF Charges
<1>4. CASE stack # <<>>
    <2>1. Owner \in 1 .. count /\ Owner \in 1 .. MaxRecords
        BY <1>4, TopIsRecorded, BoundAssumption
    <2> PICK k, r : k \in 1 .. MaxRecords /\ k = Owner /\ r = metrics[k]
        BY <2>1
    <2>2. /\ metrics' = [metrics EXCEPT ![k] = WithSynchronization(r)]
          /\ dropped' = dropped
        BY <1>1, <1>4 DEF ChargeSynchronization, Charge, WithSynchronization
    <2>3. WithSynchronization(r) = AddUp(r, new)
        BY <1>1, SynchronizationIsAdded
    <2> QED
        BY <1>2, <2>1, <2>2, <2>3 DEF Charges, Raised
<1> QED
    BY <1>2, <1>3, <1>4

\* An operation that is counted and recorded keeps the accounts.
LEMMA AccountsAfter ==
    ASSUME PInv, AInv, NEW space \in Spaces, NEW new \in Metrics, count' = count,
           Charges(metrics, count, dropped, Owner, new, metrics', dropped'),
           statistics' \in [Spaces -> Statistics], Counted(new, space, statistics, statistics')
    PROVE  /\ AreAccounts(metrics', count', dropped')
           /\ Matches(AllMetrics(metrics', count', dropped'), statistics')
<1> PICK n, k : n \in 0 .. MaxRecords /\ n = count /\ k = Owner
    BY TopIsRecorded
<1> PICK m, d, st : m = metrics /\ d = dropped /\ st = statistics
    OBVIOUS
<1> PICK m2, d2, st2 : m2 = metrics' /\ d2 = dropped' /\ st2 = statistics'
    OBVIOUS
<1>1. /\ AreAccounts(m, n, d) /\ Matches(AllMetrics(m, n, d), st)
      /\ st \in [Spaces -> Statistics] /\ st2 \in [Spaces -> Statistics]
      /\ Counted(new, space, st, st2) /\ Charges(m, n, d, k, new, m2, d2)
    BY DEF AInv, Owns, OwnersAreTyped
<1> PICK all : all = AllMetrics(m, n, d)
    OBVIOUS
<1>2. all \in Metrics
    BY <1>1, AllAreMetrics
<1>3. AreAccounts(m2, n, d2) /\ AllMetrics(m2, n, d2) = AddUp(all, new)
    BY <1>1, ChargesAreAdded
<1>4. Matches(AddUp(all, new), st2)
    BY <1>1, <1>2, CountsMatch
<1> QED
    BY <1>3, <1>4

\* Statistics that count something else than memory.
SameAccount(st, after) ==
    \A s \in Spaces : /\ after[s].live = st[s].live /\ after[s].peak = st[s].peak
                      /\ after[s].allocations = st[s].allocations
                      /\ after[s].frees = st[s].frees

LEMMA OwnsAfterCount ==
    ASSUME NEW a, NEW mem, NEW st, NEW hi, Owns(a, mem, st, hi),
           NEW after \in [Spaces -> Statistics], SameAccount(st, after)
    PROVE  Owns(a, mem, after, hi)
<1>1. BytesAreOwned(a, mem, after, hi)
    BY DEF BytesAreOwned, Owns, SameAccount
<1> QED
    BY <1>1 DEF Owns, OwnersAreTyped

LEMMA CallsAreCounted ==
    ASSUME AInv, MoreCalls
    PROVE  statistics["host"].allocations + statistics["device"].allocations < MaxCalls
<1>1. /\ statistics \in [Spaces -> Statistics]
      /\ "host" \in Spaces /\ "device" \in Spaces
    BY DEF AInv, Owns, OwnersAreTyped, Spaces
<1> PICK h, d : h = statistics["host"] /\ d = statistics["device"]
    OBVIOUS
<1>2. /\ h.allocations \in Nat /\ h.frees \in Nat /\ h.copies \in Nat
      /\ h.synchronizations \in Nat
      /\ d.allocations \in Nat /\ d.frees \in Nat /\ d.copies \in Nat
      /\ d.synchronizations \in Nat
    BY <1>1, StatisticsAreNumbers
<1>3. (h.allocations + h.frees + h.copies + h.synchronizations)
          + (d.allocations + d.frees + d.copies + d.synchronizations) < MaxCalls
    BY DEF MoreCalls, Calls
<1> QED
    BY <1>2, <1>3, SizesAssumption

LEMMA AllocateIsAccounted ==
    ASSUME PInv, AInv, NEW o \in Objects, NEW space \in Spaces, NEW bytes \in Sizes,
           AllocateBlock(o, space, bytes)
    PROVE  AInv'
<1>1. bytes \in Nat
    BY SizesAssumption
<1> PICK p : p = Min(Blocks \ (memory["host"] \cup memory["device"]))
    OBVIOUS
<1>2. /\ allocation[o] = Nothing
      /\ memory' = [memory EXCEPT ![space] = memory[space] \cup {p}]
      /\ allocation' = [allocation EXCEPT ![o] =
             [space |-> space, pointer |-> p, bytes |-> bytes]]
      /\ statistics' = [statistics EXCEPT ![space] = AfterAllocation(statistics[space], bytes)]
      /\ highest' = [highest EXCEPT ![space] = Larger(highest[space], statistics'[space].live)]
      /\ ChargeAllocation(space, bytes) /\ count' = count
    BY DEF AllocateBlock, profiler_vars
<1> PICK a, mem, st, hi : a = allocation /\ mem = memory /\ st = statistics /\ hi = highest
    OBVIOUS
<1> PICK b, more, after, top :
        b = allocation' /\ more = memory' /\ after = statistics' /\ top = highest'
    OBVIOUS
<1>3. Owns(a, mem, st, hi)
    BY DEF AInv
<1>4. p \in Blocks /\ \A s \in Spaces : p \notin mem[s]
    <2>1. MoreCalls
        BY DEF AllocateBlock
    <2>2. st["host"].allocations + st["device"].allocations < MaxCalls
        BY <2>1, CallsAreCounted
    <2> QED
        BY <1>3, <2>2, BlockIsFree
<1>5. Owns(b, more, after, top)
    BY <1>1, <1>2, <1>3, <1>4, OwnsAfterAllocation
<1>6. st \in [Spaces -> Statistics]
    BY <1>3 DEF Owns, OwnersAreTyped
<1>7. /\ after \in [Spaces -> Statistics]
      /\ Counted(OneAllocation(space, bytes), space, st, after)
    BY <1>1, <1>2, <1>6, AllocationIsCounted
<1>8. /\ OneAllocation(space, bytes) \in Metrics
      /\ Charges(metrics, count, dropped, Owner, OneAllocation(space, bytes), metrics', dropped')
    BY <1>1, <1>2, AllocationIsRecorded DEF AInv
<1>9. /\ AreAccounts(metrics', count', dropped')
      /\ Matches(AllMetrics(metrics', count', dropped'), statistics')
    BY <1>2, <1>7, <1>8, AccountsAfter
<1> QED
    BY <1>5, <1>9 DEF AInv

\* Giving back what an object holds keeps the accounts, without the object.
LEMMA ReleaseIsAccounted ==
    ASSUME PInv, AInv, NEW o \in Objects, allocation[o] # Nothing, Release(allocation[o]),
           count' = count, NEW b, b = [allocation EXCEPT ![o] = Nothing]
    PROVE  /\ Owns(b, memory', statistics', highest')
           /\ AreAccounts(metrics', count', dropped')
           /\ Matches(AllMetrics(metrics', count', dropped'), statistics')
<1> PICK a, mem, st, hi : a = allocation /\ mem = memory /\ st = statistics /\ hi = highest
    OBVIOUS
<1> PICK left, after : left = memory' /\ after = statistics'
    OBVIOUS
<1> PICK space, n : space = a[o].space /\ n = a[o].bytes
    OBVIOUS
<1>1. /\ left = [mem EXCEPT ![space] = mem[space] \ {a[o].pointer}]
      /\ after = [st EXCEPT ![space] = AfterRelease(st[space], n)]
      /\ highest' = hi /\ ChargeFree(space, n)
    BY DEF Release
<1>2. Owns(a, mem, st, hi) /\ Released(a, mem, st, o, space, b, left, after)
    BY <1>1 DEF AInv, Released
<1>3. /\ Owns(b, left, after, hi)
      /\ space \in Spaces /\ n \in Nat /\ after[space].live + n = st[space].live
    <2>1. /\ Owns(b, left, after, hi)
          /\ space \in Spaces /\ a[o].bytes \in Nat
          /\ after[space].live + a[o].bytes = st[space].live
        BY <1>2, OwnsAfterRelease
    <2> QED
        BY <2>1
<1>4. st \in [Spaces -> Statistics] /\ after \in [Spaces -> Statistics]
    BY <1>2, <1>3 DEF Owns, OwnersAreTyped
<1>5. after[space].live \in Nat /\ st[space].live = n + after[space].live
    BY <1>3, <1>4, StatisticsAreNumbers
<1>6. Counted(OneFree(space, n), space, st, after)
    BY <1>1, <1>3, <1>4, <1>5, ReleaseIsCounted
<1>7. /\ OneFree(space, n) \in Metrics
      /\ Charges(metrics, count, dropped, Owner, OneFree(space, n), metrics', dropped')
    BY <1>1, <1>3, FreeIsRecorded DEF AInv
<1>8. /\ AreAccounts(metrics', count', dropped')
      /\ Matches(AllMetrics(metrics', count', dropped'), statistics')
    BY <1>3, <1>4, <1>6, <1>7, AccountsAfter
<1> QED
    BY <1>1, <1>3, <1>8

LEMMA ResetAllocationIsAccounted ==
    ASSUME PInv, AInv, NEW o \in Objects, ResetAllocation(o)
    PROVE  AInv'
<1>1. /\ allocation[o] # Nothing /\ Release(allocation[o]) /\ count' = count
      /\ allocation' = [allocation EXCEPT ![o] = Nothing]
    BY DEF ResetAllocation, profiler_vars
<1> PICK b : b = allocation'
    OBVIOUS
<1>2. /\ Owns(b, memory', statistics', highest')
      /\ AreAccounts(metrics', count', dropped')
      /\ Matches(AllMetrics(metrics', count', dropped'), statistics')
    BY <1>1, ReleaseIsAccounted
<1> QED
    BY <1>2 DEF AInv

LEMMA AssignIsAccounted ==
    ASSUME PInv, AInv, NEW o \in Objects, NEW x \in Objects, Assign(o, x)
    PROVE  AInv'
<1>1. /\ o # x /\ Release(allocation[o]) /\ count' = count
      /\ allocation' = [allocation EXCEPT ![o] = allocation[x], ![x] = Nothing]
    BY DEF Assign, profiler_vars
<1> PICK a, b : a = allocation /\ b = allocation'
    OBVIOUS
<1> PICK left, after, hi : left = memory' /\ after = statistics' /\ hi = highest'
    OBVIOUS
<1>2. a \in [Objects -> {Nothing} \cup Allocations]
    BY DEF AInv, Owns, OwnersAreTyped
<1>3. CASE a[o] = Nothing
    <2>1. UNCHANGED <<memory, statistics, metrics, dropped, highest>>
        BY <1>1, <1>3 DEF Release, accounts
    <2>2. Owns(a, left, after, hi)
        BY <2>1 DEF AInv
    <2>3. Owns(b, left, after, hi)
        BY <1>1, <1>3, <2>2, OwnsAfterMove DEF Moved
    <2>4. /\ AreAccounts(metrics', count', dropped')
          /\ Matches(AllMetrics(metrics', count', dropped'), statistics')
        BY <1>1, <2>1 DEF AInv
    <2> QED
        BY <2>3, <2>4 DEF AInv
<1>4. CASE a[o] # Nothing
    <2> PICK c : c = [a EXCEPT ![o] = Nothing]
        OBVIOUS
    <2>1. /\ Owns(c, left, after, hi)
          /\ AreAccounts(metrics', count', dropped')
          /\ Matches(AllMetrics(metrics', count', dropped'), statistics')
        BY <1>1, <1>4, ReleaseIsAccounted
    <2>2. c[o] = Nothing /\ Moved(c, o, x, b)
        BY <1>1, <1>2 DEF Moved
    <2>3. Owns(b, left, after, hi)
        BY <1>1, <2>1, <2>2, OwnsAfterMove
    <2> QED
        BY <2>1, <2>3 DEF AInv
<1> QED
    BY <1>3, <1>4

LEMMA CopyIsAccounted ==
    ASSUME PInv, AInv, NEW source \in Spaces, NEW space \in Spaces, NEW bytes \in Sizes,
           Copy(source, space, bytes)
    PROVE  AInv'
<1>1. /\ bytes \in Nat /\ ChargeCopy(source, space, bytes) /\ count' = count
      /\ statistics' = AfterCopy(statistics, space, bytes)
      /\ allocation' = allocation /\ memory' = memory /\ highest' = highest
    BY SizesAssumption DEF Copy, profiler_vars, objects, AfterCopy
<1> PICK st, after : st = statistics /\ after = statistics'
    OBVIOUS
<1>2. Owns(allocation, memory, st, highest) /\ st \in [Spaces -> Statistics]
    BY DEF AInv, Owns, OwnersAreTyped
<1>3. /\ after \in [Spaces -> Statistics]
      /\ Counted(OneCopy(source, space, bytes), space, st, after)
      /\ SameAccount(st, after)
    BY <1>1, <1>2, CopyIsCounted DEF SameAccount
<1>4. Owns(allocation, memory, after, highest)
    BY <1>2, <1>3, OwnsAfterCount
<1>5. /\ OneCopy(source, space, bytes) \in Metrics
      /\ Charges(metrics, count, dropped, Owner, OneCopy(source, space, bytes),
                 metrics', dropped')
    BY <1>1, CopyIsRecorded DEF AInv
<1>6. /\ AreAccounts(metrics', count', dropped')
      /\ Matches(AllMetrics(metrics', count', dropped'), statistics')
    BY <1>1, <1>3, <1>5, AccountsAfter
<1> QED
    BY <1>1, <1>4, <1>6 DEF AInv

LEMMA SynchronizeIsAccounted ==
    ASSUME PInv, AInv, NEW space \in Spaces, Synchronize(space)
    PROVE  AInv'
<1>1. /\ ChargeSynchronization /\ count' = count
      /\ statistics' = AfterSynchronization(statistics, space)
      /\ allocation' = allocation /\ memory' = memory /\ highest' = highest
    BY DEF Synchronize, profiler_vars, objects, AfterSynchronization
<1> PICK st, after : st = statistics /\ after = statistics'
    OBVIOUS
<1>2. Owns(allocation, memory, st, highest) /\ st \in [Spaces -> Statistics]
    BY DEF AInv, Owns, OwnersAreTyped
<1>3. /\ after \in [Spaces -> Statistics]
      /\ Counted(OneSynchronization, space, st, after)
      /\ SameAccount(st, after)
    BY <1>1, <1>2, SynchronizationIsCounted DEF SameAccount
<1>4. Owns(allocation, memory, after, highest)
    BY <1>2, <1>3, OwnsAfterCount
<1>5. /\ OneSynchronization \in Metrics
      /\ Charges(metrics, count, dropped, Owner, OneSynchronization, metrics', dropped')
    BY <1>1, SynchronizationIsRecorded DEF AInv
<1>6. /\ AreAccounts(metrics', count', dropped')
      /\ Matches(AllMetrics(metrics', count', dropped'), statistics')
    BY <1>1, <1>3, <1>5, AccountsAfter
<1> QED
    BY <1>1, <1>4, <1>6 DEF AInv

\* An event that opens has no metrics yet; finishing or moving one changes none.
LEMMA EventIsAccounted ==
    ASSUME PInv, AInv, Event
    PROVE  AInv'
<1>1. /\ allocation' = allocation /\ memory' = memory /\ statistics' = statistics
      /\ metrics' = metrics /\ dropped' = dropped /\ highest' = highest
    BY DEF Event, objects, accounts
<1>2. count' = count \/ (count' = count + 1 /\ count < MaxRecords)
    BY DEF Event, Scoped, Finish, Move, MoveAssign
<1> PICK n, m, d : n \in 0 .. MaxRecords /\ n = count /\ m = metrics /\ d = dropped
    BY TopIsRecorded
<1>3. AreAccounts(m, n, d) /\ Matches(AllMetrics(m, n, d), statistics)
    BY DEF AInv
<1>4. CASE count' = count
    BY <1>1, <1>4 DEF AInv
<1>5. CASE count' = count + 1 /\ count < MaxRecords
    <2>1. m \in [1 .. MaxRecords -> Metrics] /\ n < MaxRecords /\ m[n + 1] = NoMetrics
        BY <1>3, <1>5, BoundAssumption DEF AreAccounts
    <2>2. Together(m, 1 .. n + 1) = Together(m, 1 .. n)
        BY <2>1, OneMoreRecord
    <2>3. AllMetrics(m, n + 1, d) = AllMetrics(m, n, d)
        BY <2>2 DEF AllMetrics
    <2>4. AreAccounts(m, n + 1, d)
        BY <1>3, BoundAssumption DEF AreAccounts
    <2> QED
        BY <1>1, <1>3, <1>5, <2>3, <2>4 DEF AInv
<1> QED
    BY <1>2, <1>4, <1>5

LEMMA ResetIsAccounted ==
    ASSUME PInv, AInv, ResetRecords
    PROVE  AInv'
<1>1. Recorded = Together(metrics, 1 .. count)
    BY DEF Recorded, Together
<1>2. /\ allocation' = allocation /\ memory' = memory /\ statistics' = statistics
      /\ highest' = highest /\ count' = 0
      /\ metrics' = [r \in 1 .. MaxRecords |-> NoMetrics]
      /\ dropped' = AddUp(dropped, Together(metrics, 1 .. count))
    BY <1>1 DEF ResetRecords, Reset, objects
<1> PICK n, m, d : n \in 0 .. MaxRecords /\ n = count /\ m = metrics /\ d = dropped
    BY TopIsRecorded
<1> PICK m2, d2 : m2 = metrics' /\ d2 = dropped'
    OBVIOUS
<1>3. AreAccounts(m, n, d) /\ Matches(AllMetrics(m, n, d), statistics)
    BY DEF AInv
<1>4. AreAccounts(m2, 0, d2) /\ AllMetrics(m2, 0, d2) = AllMetrics(m, n, d)
    BY <1>2, <1>3, DroppedMetrics
<1> QED
    BY <1>2, <1>3, <1>4 DEF AInv

\* Every step keeps the accounts.
LEMMA AccountsAreKept == PInv /\ AInv /\ [AccountNext]_account_vars => AInv'
<1> SUFFICES ASSUME PInv, AInv, [AccountNext]_account_vars PROVE AInv'
    OBVIOUS
<1>1. CASE UNCHANGED account_vars
    BY <1>1 DEF account_vars, profiler_vars, objects, accounts, AInv
<1> QED
    BY <1>1, EventIsAccounted, ResetIsAccounted, AllocateIsAccounted, AssignIsAccounted,
       ResetAllocationIsAccounted, CopyIsAccounted, SynchronizeIsAccounted DEF AccountNext

-----------------------------------------------------------------------------
LEMMA AccountsImplyOwners == AInv => EveryByteHasOneOwner
<1> SUFFICES ASSUME AInv, NEW s \in Spaces
             PROVE  /\ memory[s] = {allocation[o].pointer : o \in Owned(s)}
                    /\ Cardinality(memory[s]) = Cardinality(Owned(s))
                    /\ statistics[s].live
                           = MapThenSumSet(LAMBDA o : allocation[o].bytes, Owned(s))
                    /\ statistics[s].peak = highest[s]
    BY DEF EveryByteHasOneOwner
<1> PICK a, mem, st, hi : a = allocation /\ mem = memory /\ st = statistics /\ hi = highest
    OBVIOUS
<1>1. Owned(s) = Owners(a, s)
    BY DEF Owned, Owners
<1>2. Owns(a, mem, st, hi)
    BY DEF AInv
<1>3. /\ a \in [Objects -> {Nothing} \cup Allocations] /\ mem \in [Spaces -> SUBSET Blocks]
      /\ PointersAreOwned(a, mem) /\ BytesAreOwned(a, mem, st, hi)
    BY <1>2 DEF Owns, OwnersAreTyped
<1>4. Cardinality(mem[s]) = Cardinality(Owners(a, s))
    BY <1>3, OwnersAreCounted
<1>5. mem[s] = {a[o].pointer : o \in Owners(a, s)}
    BY <1>3 DEF PointersAreOwned
<1>6. st[s].live = Bytes(a, Owners(a, s)) /\ st[s].peak = hi[s]
    BY <1>3 DEF BytesAreOwned
<1> QED
    BY <1>1, <1>4, <1>5, <1>6 DEF Bytes

LEMMA AccountsImplyMatch == AInv => MetricsMatchStatistics
<1> SUFFICES ASSUME AInv PROVE MetricsMatchStatistics
    OBVIOUS
<1>1. AddUp(Recorded, dropped) = AllMetrics(metrics, count, dropped)
    BY DEF AllMetrics, Recorded, Together
<1>2. Matches(AddUp(Recorded, dropped), statistics)
    BY <1>1 DEF AInv
<1> QED
    BY <1>2 DEF Matches, MetricsMatchStatistics

\* Every step of the executors keeps the pointers of the profiler and the accounts.
LEMMA AccountInvariance == AccountSpec => [](PInv /\ AInv)
    BY InitIsAccounted, AccountsAreKept, AccountRefinesProfiler, ProfilerInvariance, PTL
    DEF AccountSpec

\* Through moves and assignments, each block of memory has exactly one Allocation;
\* the live bytes of an executor are what the objects own, so that the clamp of
\* release() never hides a second free, and its peak is the most there was.
THEOREM EachByteIsOwnedOnce == AccountSpec => []EveryByteHasOneOwner
    BY AccountInvariance, AccountsImplyOwners, PTL

\* The metrics of all records and the statistics of the executors are two accounts of
\* the same operations, which differ only by what no event had when it happened or
\* what reset() discarded.
THEOREM TwoAccountsAgree == AccountSpec => []MetricsMatchStatistics
    BY AccountInvariance, AccountsImplyMatch, PTL
=============================================================================
