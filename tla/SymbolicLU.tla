------------------------------ MODULE SymbolicLU ------------------------------
(***************************************************************************)
(* The symbolic factorization of src/analysis.cpp (append_symbolic_pattern *)
(* and what it calls): from the pattern of the permuted matrix, block by   *)
(* block of its block triangular form, to the pattern of L and U.          *)
(*                                                                         *)
(* A block that is structurally symmetric, or that the ordering declares   *)
(* near enough to symmetric to be treated as A union A^T, is factored      *)
(* through its elimination tree; any other block row by row, merging the   *)
(* U part of every row it eliminates with.  A sorted row of columns is a   *)
(* set here.                                                               *)
(***************************************************************************)
EXTENDS Integers, FiniteSets

CONSTANTS
    Dimension,       \* plan.dimension
    MinimumEnvelope, \* kSymmetrizedEnvelopeMinimumBlockSize (256)
    Missing          \* the sets of rows without an input diagonal entry to start from

Rows == 0 .. Dimension - 1
NoRow == -1

ASSUME DimensionAssumption ==
    /\ Dimension \in Nat \ {0}
    /\ MinimumEnvelope \in Nat
    /\ Missing \subseteq SUBSET Rows

VARIABLES
    boundaries, \* block_offsets as a set: 0, the start of every block, Dimension
    pattern,    \* the permuted rows: the columns of each
    factor,     \* lu_column_indices, row by row; {} until a row is appended
    symmetric,  \* starts of the blocks flagged in structurally_symmetric_blocks
    enveloped,  \* starts of the blocks whose input was symmetrized
    stage,      \* the phase of the analysis
    begin,      \* block_begin of the current block
    row,        \* the row being processed
    todo,       \* entries of the row still to be followed (a heap or a position)
    node,       \* the node a path has reached, NoRow when there is none
    reached,    \* the columns found for the row so far
    parent,     \* elimination tree
    ancestor,   \* path-compressed shortcuts of the tree's construction
    lower,      \* lower_columns of the current block, row by row
    offDiagonal \* off_diagonal_columns of the current block, row by row

input == <<boundaries, pattern>>
kinds == <<symmetric, enveloped>>
tree  == <<parent, ancestor>>
block == <<lower, offDiagonal>>
vars  == <<input, factor, kinds, stage, begin, row, todo, node, reached, tree, block>>

-----------------------------------------------------------------------------
SetMin(S) == CHOOSE x \in S : \A y \in S : x <= y

BlockStart(r) == CHOOSE b \in boundaries : b <= r /\ \A c \in boundaries : c <= r => c <= b
BlockEnd(b)   == SetMin({c \in boundaries : c > b})
BlockRows(b)  == b .. BlockEnd(b) - 1
Starts        == boundaries \ {Dimension}

LowerPart(r) == {c \in factor[r] : c < r}
UpperPart(r) == {c \in factor[r] : c > r}

\* block_is_structurally_symmetric: within the block, an entry has its mirror.
IsSymmetric(b) ==
    \A r \in BlockRows(b) : \A c \in pattern[r] \cap BlockRows(b) : r \in pattern[c]

\* The entries of a row the elimination tree follows: its lower entries, or the
\* symmetrized ones of build_symmetrized_lower_pattern.
TreeEntries(r) ==
    IF begin \in enveloped
    THEN {c \in BlockRows(begin) : c < r /\ (c \in pattern[r] \/ r \in pattern[c])}
    ELSE {c \in pattern[r] : c < r}

-----------------------------------------------------------------------------
\* Block triangular form: no entry left of a row's block.
BlockUpper(p, cuts) ==
    \A r \in Rows : \A c \in p[r] : \A b \in cuts : b <= r => b <= c

Init ==
    /\ \E cuts \in SUBSET (1 .. Dimension - 1) : boundaries = cuts \cup {0, Dimension}
    /\ \E off \in [Rows -> SUBSET Rows], gaps \in Missing :
           /\ \A r \in Rows : r \notin off[r]
           /\ pattern = [r \in Rows |-> IF r \in gaps THEN off[r] ELSE off[r] \cup {r}]
    /\ BlockUpper(pattern, boundaries)
    /\ factor = [r \in Rows |-> {}]
    /\ symmetric = {} /\ enveloped = {}
    /\ stage = "classify"
    /\ begin = 0 /\ row = 0
    /\ todo = {} /\ node = NoRow /\ reached = {}
    /\ parent = [r \in Rows |-> NoRow]
    /\ ancestor = [r \in Rows |-> NoRow]
    /\ lower = [r \in Rows |-> {}]
    /\ offDiagonal = [r \in Rows |-> {}]

\* The ordering's symmetry and fill estimates decide whether a large nonsymmetric
\* block is enveloped: whether they do is the ordering's choice.
ClassifyBlock ==
    /\ stage = "classify"
    /\ row = begin
    /\ \E envelope \in BOOLEAN :
           /\ envelope => /\ ~IsSymmetric(begin)
                          /\ BlockEnd(begin) - begin >= MinimumEnvelope
           /\ symmetric' = IF IsSymmetric(begin) \/ envelope
                           THEN symmetric \cup {begin} ELSE symmetric
           /\ enveloped' = IF envelope THEN enveloped \cup {begin} ELSE enveloped
           /\ stage' = IF IsSymmetric(begin) \/ envelope THEN "tree" ELSE "generic"
    /\ UNCHANGED <<input, factor, begin, row, todo, node, reached, tree, block>>

EndOfRow == row + 1 = BlockEnd(begin)

\* The block is done: the next one, or the end.
LeaveBlock ==
    /\ begin' = BlockEnd(begin)
    /\ row' = BlockEnd(begin)
    /\ stage' = IF BlockEnd(begin) = Dimension THEN "done" ELSE "classify"

-----------------------------------------------------------------------------
\* append_generic_symbolic_block.  A row starts from its input columns, with a
\* diagonal slot added when the input has none.
GenericRow ==
    /\ stage = "generic"
    /\ reached' = pattern[row] \cup {row}
    /\ todo' = {c \in pattern[row] : c < row}
    /\ stage' = "merge"
    /\ UNCHANGED <<input, factor, kinds, begin, row, node, tree, block>>

\* Fault: fill below the diagonal is not queued for merging.
FaultMergeInputOnly ==
    /\ stage = "merge"
    /\ todo # {}
    /\ reached' = reached \cup UpperPart(SetMin(todo))
    /\ todo' = todo \ {SetMin(todo)}
    /\ UNCHANGED <<input, factor, kinds, stage, begin, row, node, tree, block>>

\* The lowest pending pivot row contributes its U part; what it adds below the
\* diagonal becomes a pivot to merge as well.
MergePivot ==
    /\ stage = "merge"
    /\ todo # {}
    /\ LET pivot == SetMin(todo)
           fill  == UpperPart(pivot) \ reached
       IN  /\ reached' = reached \cup fill
           /\ todo' = (todo \ {pivot}) \cup {c \in fill : c < row}
    /\ UNCHANGED <<input, factor, kinds, stage, begin, row, node, tree, block>>

AppendGenericRow ==
    /\ stage = "merge"
    /\ todo = {}
    /\ factor' = [factor EXCEPT ![row] = reached]
    /\ IF EndOfRow THEN LeaveBlock
       ELSE row' = row + 1 /\ stage' = "generic" /\ begin' = begin
    /\ UNCHANGED <<input, kinds, todo, node, reached, tree, block>>

-----------------------------------------------------------------------------
\* append_symmetric_symbolic_block.  Tree construction: every lower entry starts
\* a climb along the ancestors found so far, which all become the current row.
TreeRow ==
    /\ stage = "tree"
    /\ todo' = TreeEntries(row)
    /\ stage' = "climb"
    /\ UNCHANGED <<input, factor, kinds, begin, row, node, reached, tree, block>>

TreeEntry ==
    /\ stage = "climb"
    /\ node = NoRow
    /\ todo # {}
    /\ node' = SetMin(todo)
    /\ todo' = todo \ {SetMin(todo)}
    /\ UNCHANGED <<input, factor, kinds, stage, begin, row, reached, tree, block>>

\* Fault: the parent is set whether or not the node has one.
FaultClimbOverwrites ==
    /\ stage = "climb"
    /\ node # NoRow
    /\ IF node < row
       THEN /\ ancestor' = [ancestor EXCEPT ![node] = row]
            /\ parent' = [parent EXCEPT ![node] = row]
            /\ node' = ancestor[node]
       ELSE node' = NoRow /\ UNCHANGED tree
    /\ UNCHANGED <<input, factor, kinds, stage, begin, row, todo, reached, block>>

\* Fault: the climb stops at the entry, with its shortcut already moved.
FaultClimbStops ==
    /\ stage = "climb"
    /\ node # NoRow
    /\ ancestor' = [ancestor EXCEPT ![node] = row]
    /\ parent' = IF ancestor[node] = NoRow THEN [parent EXCEPT ![node] = row] ELSE parent
    /\ node' = NoRow
    /\ UNCHANGED <<input, factor, kinds, stage, begin, row, todo, reached, block>>

ClimbAncestor ==
    /\ stage = "climb"
    /\ node # NoRow
    /\ IF node < row
       THEN /\ ancestor' = [ancestor EXCEPT ![node] = row]
            /\ parent' = IF ancestor[node] = NoRow
                         THEN [parent EXCEPT ![node] = row] ELSE parent
            /\ node' = ancestor[node]
       ELSE node' = NoRow /\ UNCHANGED tree
    /\ UNCHANGED <<input, factor, kinds, stage, begin, row, todo, reached, block>>

NextTreeRow ==
    /\ stage = "climb"
    /\ node = NoRow
    /\ todo = {}
    /\ IF EndOfRow THEN row' = begin /\ stage' = "reach"
       ELSE row' = row + 1 /\ stage' = "tree"
    /\ UNCHANGED <<input, factor, kinds, begin, todo, node, reached, tree, block>>

\* Lower reach: every lower entry climbs the tree until the row or a node that
\* another entry of the row has passed.
ReachRow ==
    /\ stage = "reach"
    /\ todo' = TreeEntries(row)
    /\ reached' = {}
    /\ stage' = "follow"
    /\ UNCHANGED <<input, factor, kinds, begin, row, node, tree, block>>

ReachEntry ==
    /\ stage = "follow"
    /\ node = NoRow
    /\ todo # {}
    /\ node' = SetMin(todo)
    /\ todo' = todo \ {SetMin(todo)}
    /\ UNCHANGED <<input, factor, kinds, stage, begin, row, reached, tree, block>>

\* Fault: the path is followed to the root, past the row.
FaultFollowToRoot ==
    /\ stage = "follow"
    /\ node # NoRow
    /\ IF node \notin reached
       THEN reached' = reached \cup {node} /\ node' = parent[node]
       ELSE node' = NoRow /\ UNCHANGED reached
    /\ UNCHANGED <<input, factor, kinds, stage, begin, row, todo, tree, block>>

FollowParent ==
    /\ stage = "follow"
    /\ node # NoRow
    /\ IF node < row /\ node \notin reached
       THEN reached' = reached \cup {node} /\ node' = parent[node]
       ELSE node' = NoRow /\ UNCHANGED reached
    /\ UNCHANGED <<input, factor, kinds, stage, begin, row, todo, tree, block>>

NextReachRow ==
    /\ stage = "follow"
    /\ node = NoRow
    /\ todo = {}
    /\ lower' = [lower EXCEPT ![row] = reached]
    /\ IF EndOfRow THEN row' = begin /\ stage' = "propagate"
       ELSE row' = row + 1 /\ stage' = "reach"
    /\ UNCHANGED <<input, factor, kinds, begin, todo, node, reached, tree, offDiagonal>>

\* Columns right of the block: the row's own and those of its pivots.
PropagateOffDiagonal ==
    /\ stage = "propagate"
    /\ offDiagonal' = [offDiagonal EXCEPT ![row] =
           {c \in pattern[row] : c >= BlockEnd(begin)}
               \cup UNION {offDiagonal[p] : p \in lower[row]}]
    /\ IF EndOfRow THEN row' = begin /\ stage' = "assemble"
       ELSE row' = row + 1 /\ UNCHANGED stage
    /\ UNCHANGED <<input, factor, kinds, begin, todo, node, reached, tree, lower>>

\* Fault: the upper part is taken from the input instead of the lower part.
FaultAssembleInputUpper ==
    /\ stage = "assemble"
    /\ factor' = [r \in Rows |->
           IF r \in BlockRows(begin)
           THEN lower[r] \cup {r} \cup {c \in BlockRows(begin) : c > r /\ c \in pattern[r]}
                    \cup offDiagonal[r]
           ELSE factor[r]]
    /\ LeaveBlock
    /\ UNCHANGED <<input, kinds, todo, node, reached, tree, block>>

\* A row of the factor: its lower columns, the diagonal, the transpose of the
\* lower part, and the columns right of the block.
AssembleBlock ==
    /\ stage = "assemble"
    /\ factor' = [r \in Rows |->
           IF r \in BlockRows(begin)
           THEN lower[r] \cup {r} \cup {c \in BlockRows(begin) : r \in lower[c]}
                    \cup offDiagonal[r]
           ELSE factor[r]]
    /\ LeaveBlock
    /\ UNCHANGED <<input, kinds, todo, node, reached, tree, block>>

Finished == stage = "done" /\ UNCHANGED vars

Next ==
    \/ ClassifyBlock
    \/ GenericRow \/ MergePivot \/ AppendGenericRow
    \/ TreeRow \/ TreeEntry \/ ClimbAncestor \/ NextTreeRow
    \/ ReachRow \/ ReachEntry \/ FollowParent \/ NextReachRow
    \/ PropagateOffDiagonal \/ AssembleBlock
    \/ Finished

Spec == Init /\ [][Next]_vars /\ WF_vars(Next)

-----------------------------------------------------------------------------
\* The state is well typed.
TypeOK ==
    /\ boundaries \subseteq 0 .. Dimension
    /\ {0, Dimension} \subseteq boundaries
    /\ pattern \in [Rows -> SUBSET Rows]
    /\ factor \in [Rows -> SUBSET Rows]
    /\ symmetric \subseteq boundaries /\ enveloped \subseteq symmetric
    /\ stage \in {"classify", "generic", "merge", "tree", "climb", "reach", "follow",
                  "propagate", "assemble", "done"}
    /\ begin \in boundaries
    /\ row \in 0 .. Dimension
    /\ todo \subseteq Rows /\ reached \subseteq Rows
    /\ node \in Rows \cup {NoRow}
    /\ parent \in [Rows -> Rows \cup {NoRow}]
    /\ ancestor \in [Rows -> Rows \cup {NoRow}]
    /\ lower \in [Rows -> SUBSET Rows]
    /\ offDiagonal \in [Rows -> SUBSET Rows]

Appended(r) == factor[r] # {}

\* Every appended row has a slot for its input entries, its diagonal, and every
\* update its elimination makes: the numerical kernels never meet a missing
\* destination, and the workspace kernel, which does not look, drops nothing.
FactorClosed ==
    \A r \in Rows : Appended(r) =>
        /\ pattern[r] \cup {r} \subseteq factor[r]
        /\ \A k \in LowerPart(r) : Appended(k) /\ UpperPart(k) \subseteq factor[r]

\* The fill path theorem, as a definition of fill independent of any elimination:
\* (i, j) fills when the pattern has a path from i to j through rows below both.
Through[k \in 0 .. Dimension] ==
    IF k = 0 THEN pattern
    ELSE [i \in Rows |-> IF k - 1 \in Through[k - 1][i]
                         THEN Through[k - 1][i] \cup Through[k - 1][k - 1]
                         ELSE Through[k - 1][i]]

FillRow(i) ==
    {j \in Rows : i = j \/ j \in Through[IF i < j THEN i ELSE j][i]}

\* Both algorithms compute the fill of the pattern exactly; with an enveloped
\* block, at least that.
FactorIsFill ==
    stage = "done" =>
        /\ \A r \in Rows : FillRow(r) \subseteq factor[r]
        /\ enveloped = {} => \A r \in Rows : factor[r] = FillRow(r)

\* The blocks flagged symmetric have a symmetric factor, which is what lets the
\* right-looking plan reuse the schedule of L.
FlaggedBlocksMirror ==
    stage = "done" =>
        \A b \in symmetric : \A r, c \in BlockRows(b) : c \in factor[r] <=> r \in factor[c]

\* The tree built with compressed paths is the elimination tree: the parent of a
\* column is its first row below the diagonal in the factor.
ParentIsFirstFill ==
    stage = "done" =>
        \A b \in symmetric : \A k \in BlockRows(b) :
            LET below == {i \in BlockRows(b) : i > k /\ k \in factor[i]}
            IN  parent[k] = IF below = {} THEN NoRow ELSE SetMin(below)

\* Between two climbs a shortcut never leaves the tree path it compresses.
TreePath(n) ==
    {m \in Rows : \E s \in SUBSET Rows :
        /\ n \in s /\ m \in s
        /\ \A x \in s \ {m} : parent[x] \in s}

ShortcutsFollowTree ==
    node = NoRow =>
        \A n \in Rows : ancestor[n] # NoRow => ancestor[n] \in TreePath(n)
=============================================================================
