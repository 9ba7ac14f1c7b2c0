------------------------------ MODULE Profiler ------------------------------
(***************************************************************************)
(* The hierarchical profiler of src/profiler.cpp.  Records live by value   *)
(* in vectors (the roots, and the children of every record), and both the  *)
(* stack of active events and the move-only ScopedEvent handles hold raw   *)
(* pointers to them.  A push_back that reallocates moves the records of    *)
(* its vector: every pointer to one of them then dangles.                  *)
(*                                                                         *)
(* Handles may be finished in any order, finished twice, moved, and        *)
(* reassigned.  Metrics are left out: adding one dereferences the top of   *)
(* the stack.  A record is its number in order of creation; its address is *)
(* how often it has been moved.                                            *)
(***************************************************************************)
EXTENDS Integers, Sequences

CONSTANTS
    Handles,    \* ScopedEvent objects
    MaxRecords, \* bound: records between two resets
    MaxMoves    \* bound: reallocations of one vector

ASSUME BoundAssumption == MaxRecords \in Nat /\ MaxMoves \in Nat

Root == 0  \* the owner of roots_
None == [record |-> 0, address |-> 0]

VARIABLES
    count,    \* records created since the last reset
    parent,   \* of each record: the record, or Root, that owns its vector
    address,  \* of each record: where it lives now
    stack,    \* stack_
    handle    \* of each handle: its record pointer, None when empty

profiler_vars == <<count, parent, address, stack, handle>>

Pointer(r) == [record |-> r, address |-> address[r]]
Active(h)  == handle[h] # None

\* The record that owns the vector append() pushes to.
Owner == IF stack = <<>> THEN Root ELSE stack[Len(stack)].record

ProfilerInit ==
    /\ count = 0
    /\ parent = [r \in 1 .. MaxRecords |-> Root]
    /\ address = [r \in 1 .. MaxRecords |-> 0]
    /\ stack = <<>>
    /\ handle = [h \in Handles |-> None]

\* Records of one vector, which a reallocation moves together.
Siblings(owner) == {r \in 1 .. count : parent[r] = owner}

\* Fault: an event becomes a sibling of the active event.
FaultScopedSibling(h, reallocate) ==
    /\ ~Active(h)
    /\ count < MaxRecords
    /\ LET owner == IF Owner = Root THEN Root ELSE parent[Owner]
       IN  /\ reallocate => \A r \in Siblings(owner) : address[r] < MaxMoves
           /\ parent' = [parent EXCEPT ![count + 1] = owner]
           /\ address' = [r \in 1 .. MaxRecords |->
                  IF reallocate /\ r \in Siblings(owner) THEN address[r] + 1 ELSE address[r]]
    /\ count' = count + 1
    /\ stack' = Append(stack, Pointer(count + 1))
    /\ handle' = [handle EXCEPT ![h] = Pointer(count + 1)]

\* scoped(): the record is pushed to the children of the active event, or to the
\* roots; then a pointer to it to the stack, and another into the handle.
Scoped(h, reallocate) ==
    /\ ~Active(h)
    /\ count < MaxRecords
    /\ reallocate => \A r \in Siblings(Owner) : address[r] < MaxMoves
    /\ parent' = [parent EXCEPT ![count + 1] = Owner]
    /\ address' = [r \in 1 .. MaxRecords |->
           IF reallocate /\ r \in Siblings(Owner) THEN address[r] + 1 ELSE address[r]]
    /\ count' = count + 1
    /\ stack' = Append(stack, Pointer(count + 1))
    /\ handle' = [handle EXCEPT ![h] = Pointer(count + 1)]

\* Where std::find finds a pointer.
Found(p) == {i \in 1 .. Len(stack) : stack[i] = p}

\* Fault: the top of the stack goes, whoever finishes.
FaultPopTop(p) == IF stack = <<>> THEN stack ELSE [i \in 1 .. Len(stack) - 1 |-> stack[i]]

\* Profiler::finish: the pointer leaves the stack, from the top or from below it;
\* a pointer that is not found changes nothing.
Without(p) ==
    IF Found(p) = {} THEN stack
    ELSE LET at == CHOOSE i \in Found(p) : stack[Len(stack)] = p => i = Len(stack)
         IN  [i \in 1 .. Len(stack) - 1 |-> IF i < at THEN stack[i] ELSE stack[i + 1]]

Finish(h) ==
    /\ Active(h)
    /\ stack' = Without(handle[h])
    /\ handle' = [handle EXCEPT ![h] = None]
    /\ UNCHANGED <<count, parent, address>>

\* The move constructor: into a handle that did not exist.
Move(h, g) ==
    /\ ~Active(h) /\ Active(g)
    /\ handle' = [handle EXCEPT ![h] = handle[g], ![g] = None]
    /\ UNCHANGED <<count, parent, address, stack>>

\* Fault: the source of a move keeps its pointer.
FaultMoveKeepsSource(h, g) ==
    /\ h # g /\ Active(h)
    /\ stack' = Without(handle[h])
    /\ handle' = [handle EXCEPT ![h] = handle[g]]
    /\ UNCHANGED <<count, parent, address>>

\* Move assignment to an active handle finishes its event first: when the source
\* was opened under it, the outer event leaves the stack before the inner one.
MoveAssign(h, g) ==
    /\ h # g /\ Active(h)
    /\ stack' = Without(handle[h])
    /\ handle' = [handle EXCEPT ![h] = handle[g], ![g] = None]
    /\ UNCHANGED <<count, parent, address>>

\* Fault: an active profiler can be reset.
FaultResetActive ==
    /\ count > 0
    /\ count' = 0
    /\ parent' = [r \in 1 .. MaxRecords |-> Root]
    /\ address' = [r \in 1 .. MaxRecords |-> 0]
    /\ UNCHANGED <<stack, handle>>

\* reset() throws while an event is active.
Reset ==
    /\ stack = <<>>
    /\ count > 0
    /\ count' = 0
    /\ parent' = [r \in 1 .. MaxRecords |-> Root]
    /\ address' = [r \in 1 .. MaxRecords |-> 0]
    /\ UNCHANGED <<stack, handle>>

ProfilerNext ==
    \/ \E h \in Handles :
           \/ \E reallocate \in BOOLEAN : Scoped(h, reallocate)
           \/ Finish(h)
           \/ \E g \in Handles : Move(h, g) \/ MoveAssign(h, g)
    \/ Reset

ProfilerSpec == ProfilerInit /\ [][ProfilerNext]_profiler_vars

-----------------------------------------------------------------------------
Pointers == [record : 1 .. MaxRecords, address : 0 .. MaxMoves]

\* The state is well typed; the stack holds no null pointer.
ProfilerTypeOK ==
    /\ count \in 0 .. MaxRecords
    /\ parent \in [1 .. MaxRecords -> 0 .. MaxRecords]
    /\ address \in [1 .. MaxRecords -> 0 .. MaxMoves]
    /\ stack \in Seq(Pointers)
    /\ handle \in [Handles -> Pointers \cup {None}]

\* A pointer that is kept refers to a record that exists and has not moved.
Valid(p) == p.record \in 1 .. count /\ p.address = address[p.record]

\* No pointer dangles, in whatever order events are opened, moved and finished:
\* append() never reallocates a vector that holds an active record.
NoDanglingPointer ==
    /\ \A i \in 1 .. Len(stack) : Valid(stack[i])
    /\ \A h \in Handles : Active(h) => Valid(handle[h])

\* The stack and the handles agree: each event on the stack has one handle, which
\* will take it off, and each active handle has its event on the stack.  So an
\* event is finished once, and reset() cannot pull a record from under a handle.
StackedOnce ==
    /\ \A i \in 1 .. Len(stack) : \E h \in Handles : handle[h] = stack[i]
    /\ \A h \in Handles : Active(h) => \E i \in 1 .. Len(stack) : stack[i] = handle[h]
    /\ \A h, g \in Handles : Active(h) /\ handle[h] = handle[g] => h = g

\* Events finish in any order, yet the stack stays in order of creation: a new
\* event is a child of the latest one that is still active.
StackInOrder ==
    \A i, j \in 1 .. Len(stack) : i < j => stack[i].record < stack[j].record
=============================================================================
