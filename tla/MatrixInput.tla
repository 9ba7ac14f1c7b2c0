----------------------------- MODULE MatrixInput -----------------------------
(***************************************************************************)
(* How a system reaches the solver: src/matrix.cpp reads or generates a    *)
(* matrix and a right-hand side, the benchmark puts them together, and the *)
(* pipeline validates the request.                                         *)
(*                                                                         *)
(* A file is what its header and its lines say, one line read at a time.   *)
(* A number is an integer; one beyond Limit has overflowed to an infinity, *)
(* and stays there (rounding is left out).  Each line is tested for a      *)
(* finite value as it is read; duplicates are summed afterwards, and their *)
(* sum may overflow.                                                       *)
(***************************************************************************)
EXTENDS Integers, Sequences, FiniteSetsExt

CONSTANTS
    Headers,  \* the matrix headers to read
    Numbers,  \* the finite values of lines
    Limit,    \* the largest finite number
    IndexMax, \* the largest SparseIndex
    Grids,    \* the grid sizes make_poisson_2d is asked for
    MaxLines  \* bound: lines of a right-hand side

ASSUME NumberAssumption ==
    /\ Limit \in Nat /\ IndexMax \in Nat /\ MaxLines \in Nat
    /\ Headers \subseteq [symmetry : {"general", "symmetric", "skew-symmetric"},
                          rows : Int, columns : Int, stored : Int]
    /\ Numbers \subseteq -Limit .. Limit
    /\ Grids \subseteq Int

Infinity == Limit + 1
NaN      == Limit + 2
IsFinite(x) == -Limit <= x /\ x <= Limit

Add(x, y) ==
    IF x = NaN \/ y = NaN \/ (~IsFinite(x) /\ ~IsFinite(y) /\ x # y) THEN NaN
    ELSE IF ~IsFinite(x) THEN x
    ELSE IF ~IsFinite(y) THEN y
    ELSE IF x + y > Limit THEN Infinity ELSE IF x + y < -Limit THEN -Infinity ELSE x + y

VARIABLES
    phase,     \* what the program does next
    header,    \* the matrix header; only its rows matter once the matrix is built
    lines,     \* lines read of the current file
    entries,   \* entries by number, before make_csc sorts and merges them
    todo,      \* numbers of the entries not merged yet
    canonical, \* merged entries, which become the arrays of the CscMatrix
    grid,      \* grid size of a generated matrix, 0 for a file
    vector     \* the right-hand side, by row

input_vars == <<phase, header, lines, entries, todo, canonical, grid, vector>>

NoHeader == [symmetry |-> "general", rows |-> 0, columns |-> 0, stored |-> 0]

InputInit ==
    /\ phase = "start"
    /\ header = NoHeader
    /\ lines = <<>> /\ entries = <<>> /\ todo = {} /\ canonical = <<>>
    /\ grid = 0
    /\ vector = <<>>

\* An exception leaves nothing behind.
Reject ==
    /\ phase' = "rejected"
    /\ header' = NoHeader
    /\ lines' = <<>> /\ entries' = <<>> /\ todo' = {} /\ canonical' = <<>>
    /\ grid' = 0
    /\ vector' = <<>>

Mirrored == header.symmetry # "general"

\* Square, not empty, and within the 32-bit index with every entry mirrored.
HeaderIsValid(h) ==
    /\ h.rows > 0 /\ h.rows = h.columns /\ h.rows <= IndexMax
    /\ h.stored >= 0
    /\ h.stored * (IF h.symmetry = "general" THEN 1 ELSE 2) <= IndexMax

ReadHeader ==
    /\ phase = "start"
    /\ \E h \in Headers :
           IF HeaderIsValid(h)
           THEN /\ header' = h
                /\ phase' = "entries"
                /\ UNCHANGED <<lines, entries, todo, canonical, grid, vector>>
           ELSE Reject

Line == [row : 0 .. header.rows + 1, column : 0 .. header.rows + 1,
         value : Numbers \cup {Infinity}]

LineIsValid(l) ==
    l.row \in 1 .. header.rows /\ l.column \in 1 .. header.columns /\ IsFinite(l.value)

Entry(r, c, v) == [row |-> r, column |-> c, value |-> v]

\* Fault: the mirror of a skew-symmetric entry keeps its sign.
FaultExpanded(l) ==
    LET stored == Entry(l.row - 1, l.column - 1, l.value)
        mirror == Entry(l.column - 1, l.row - 1, l.value)
    IN  IF Mirrored /\ l.row # l.column THEN <<stored, mirror>> ELSE <<stored>>

\* The entries a stored line stands for.
Expanded(l) ==
    LET stored == Entry(l.row - 1, l.column - 1, l.value)
        mirror == Entry(l.column - 1, l.row - 1,
                        IF header.symmetry = "skew-symmetric" THEN -l.value ELSE l.value)
    IN  IF Mirrored /\ l.row # l.column THEN <<stored, mirror>> ELSE <<stored>>

ReadEntry ==
    /\ phase = "entries"
    /\ Len(lines) < header.stored
    /\ \E l \in Line :
           IF LineIsValid(l)
           THEN /\ lines' = Append(lines, l)
                /\ entries' = entries \o Expanded(l)
                /\ UNCHANGED <<phase, header, todo, canonical, grid, vector>>
           ELSE Reject

\* The file ends before its last entry, or a line is not made of numbers.
ReadFails == phase \in {"entries", "array", "coordinates"} /\ Reject

EntriesRead ==
    /\ phase = "entries"
    /\ Len(lines) = header.stored
    /\ todo' = DOMAIN entries
    /\ phase' = "merge"
    /\ UNCHANGED <<header, lines, entries, canonical, grid, vector>>

-----------------------------------------------------------------------------
\* Fault: nothing keeps a point from the end of the grid row before it.
FaultNeighbours(n, i) ==
    {j \in 0 .. n * n - 1 : j - i \in {-n, n, -1, 1}}

\* make_poisson_2d: the points above, below, left and right of a grid point.
Neighbours(n, i) ==
    {j \in 0 .. n * n - 1 :
        \/ i \div n > 0         /\ j = i - n
        \/ (i \div n) + 1 < n   /\ j = i + n
        \/ i % n > 0            /\ j = i - 1
        \/ (i % n) + 1 < n      /\ j = i + 1}

Stencil(n) ==
    {Entry(i, i, 4) : i \in 0 .. n * n - 1} \cup
    UNION {{Entry(i, j, -1) : j \in Neighbours(n, i)} : i \in 0 .. n * n - 1}

Generate ==
    /\ phase = "start"
    /\ \E n \in Grids :
           IF n > 1 /\ n * n <= IndexMax
           THEN /\ grid' = n
                /\ header' = [NoHeader EXCEPT !.rows = n * n, !.columns = n * n]
                /\ entries' = FoldSet(LAMBDA e, list : Append(list, e), <<>>, Stencil(n))
                /\ todo' = DOMAIN entries'
                /\ phase' = "merge"
                /\ UNCHANGED <<lines, canonical, vector>>
           ELSE Reject

-----------------------------------------------------------------------------
SameKey(e, f) == e.column = f.column /\ e.row = f.row
Before(e, f)  == e.column < f.column \/ (e.column = f.column /\ e.row < f.row)

\* make_csc takes the entries in column order.  std::sort does not keep the order of
\* duplicates, so they are summed in any order.
Merge ==
    /\ phase = "merge"
    /\ \E i \in todo :
           /\ \A j \in todo : ~Before(entries[j], entries[i])
           /\ todo' = todo \ {i}
           /\ canonical' =
                  IF canonical # <<>> /\ SameKey(canonical[Len(canonical)], entries[i])
                  THEN [canonical EXCEPT ![Len(canonical)].value = Add(@, entries[i].value)]
                  ELSE Append(canonical, entries[i])
    /\ UNCHANGED <<phase, header, lines, entries, grid, vector>>

\* CscMatrix::validate on the arrays built from the merged entries.
MatrixIsValid ==
    /\ header.rows > 0
    /\ Len(canonical) <= IndexMax
    /\ \A i \in 1 .. Len(canonical) :
           /\ canonical[i].row \in 0 .. header.rows - 1
           /\ IsFinite(canonical[i].value)
           /\ i > 1 => Before(canonical[i - 1], canonical[i])

BuildMatrix ==
    /\ phase = "merge" /\ todo = {}
    /\ IF MatrixIsValid
       THEN phase' = "built" /\ UNCHANGED <<header, lines, entries, todo, canonical, grid, vector>>
       ELSE Reject

-----------------------------------------------------------------------------
Zero == [r \in 0 .. header.rows - 1 |-> 0]

\* multiply(A, ones), column by column.
RowSums ==
    LET sums[k \in 0 .. Len(canonical)] ==
            IF k = 0 THEN Zero
            ELSE [sums[k - 1] EXCEPT ![canonical[k].row] = Add(@, canonical[k].value)]
    IN  sums[Len(canonical)]

\* The matrix is returned; the reader's entries are gone.
ChooseRightHandSide ==
    /\ phase = "built"
    /\ header' = [NoHeader EXCEPT !.rows = header.rows, !.columns = header.columns]
    /\ lines' = <<>> /\ entries' = <<>> /\ grid' = 0
    /\ \/ vector' = RowSums /\ phase' = "request"
       \/ vector' = Zero /\ phase' \in {"array", "coordinates"}
    /\ UNCHANGED <<todo, canonical>>

\* Dimensions of the vector that do not match, or a bad count.
BadVectorHeader == phase = "built" /\ Reject

ReadArray ==
    /\ phase = "array"
    /\ \E x \in Numbers \cup {Infinity} :
           IF IsFinite(x)
           THEN /\ vector' = [vector EXCEPT ![Len(lines)] = x]
                /\ lines' = Append(lines, [row |-> Len(lines) + 1, value |-> x])
                /\ phase' = IF Len(lines') = header.rows THEN "request" ELSE phase
                /\ UNCHANGED <<header, entries, todo, canonical, grid>>
           ELSE Reject

\* Nothing tests the sum of coordinates that name the same row.
ReadCoordinate ==
    /\ phase = "coordinates"
    /\ Len(lines) < MaxLines
    /\ \E r \in 0 .. header.rows + 1, x \in Numbers \cup {Infinity} :
           IF r \in 1 .. header.rows /\ IsFinite(x)
           THEN /\ vector' = [vector EXCEPT ![r - 1] = Add(@, x)]
                /\ lines' = Append(lines, [row |-> r, value |-> x])
                /\ UNCHANGED <<phase, header, entries, todo, canonical, grid>>
           ELSE Reject

CoordinatesRead ==
    /\ phase = "coordinates"
    /\ phase' = "request"
    /\ UNCHANGED <<header, lines, entries, todo, canonical, grid, vector>>

\* Fault: the readers are trusted to return finite numbers.
FaultRequestIsValid ==
    /\ MatrixIsValid
    /\ DOMAIN vector = 0 .. header.rows - 1

\* The validation in Task1Pipeline::run.
RequestIsValid ==
    /\ MatrixIsValid
    /\ DOMAIN vector = 0 .. header.rows - 1
    /\ \A r \in DOMAIN vector : IsFinite(vector[r])

ValidateRequest ==
    /\ phase = "request"
    /\ IF RequestIsValid
       THEN /\ phase' = "accepted"
            /\ UNCHANGED <<header, lines, entries, todo, canonical, grid, vector>>
       ELSE Reject

InputEnded == phase \in {"accepted", "rejected"} /\ UNCHANGED input_vars

InputNext ==
    \/ ReadHeader \/ ReadEntry \/ ReadFails \/ EntriesRead
    \/ Generate
    \/ Merge \/ BuildMatrix
    \/ ChooseRightHandSide \/ BadVectorHeader
    \/ ReadArray \/ ReadCoordinate \/ CoordinatesRead
    \/ ValidateRequest
    \/ InputEnded

InputSpec == InputInit /\ [][InputNext]_input_vars

-----------------------------------------------------------------------------
SumOver(f, S) == MapThenSumSet(LAMBDA x : f[x], S)

\* What the file's lines add up to in row r and column c, in exact arithmetic.
ExactEntry(r, c) ==
    LET sign == IF header.symmetry = "skew-symmetric" THEN -1 ELSE 1
        Direct(i)   == IF lines[i].row = r + 1 /\ lines[i].column = c + 1
                       THEN lines[i].value ELSE 0
        Reflected(i) == IF Mirrored /\ r # c
                           /\ lines[i].row = c + 1 /\ lines[i].column = r + 1
                        THEN sign * lines[i].value ELSE 0
    IN  SumOver([i \in DOMAIN lines |-> Direct(i) + Reflected(i)], DOMAIN lines)

\* Value of the matrix in a place; 0 where nothing is stored.
ValueAt(r, c) ==
    SumOver([i \in DOMAIN canonical |-> canonical[i].value],
            {i \in DOMAIN canonical : canonical[i].row = r /\ canonical[i].column = c})

\* A matrix that make_csc lets through is exactly what its file says, symmetry and
\* duplicates included, one entry for each place: a partial sum that overflowed is
\* never repaired by a later summand, in whatever order duplicates are added.
MatrixIsTheFile ==
    phase = "built" /\ grid = 0 =>
        /\ \A r, c \in 0 .. header.rows - 1 : ValueAt(r, c) = ExactEntry(r, c)
        /\ \A i, j \in DOMAIN canonical : SameKey(canonical[i], canonical[j]) => i = j

\* The generated matrix is the five-point stencil: two points are coupled when they
\* are next to each other in the grid, and never across the end of a grid row.
PoissonIsTheStencil ==
    phase = "built" /\ grid # 0 =>
        \A i, j \in 0 .. header.rows - 1 :
            LET Distance(a, b) == IF a < b THEN b - a ELSE a - b
                apart == Distance(i \div grid, j \div grid) + Distance(i % grid, j % grid)
            IN  ValueAt(i, j) = IF apart = 0 THEN 4 ELSE IF apart = 1 THEN -1 ELSE 0

\* The right-hand side of an accepted request is what its file says, in exact
\* arithmetic, or the row sums of the matrix.  The reader tests each coordinate and
\* not the sums: it is the pipeline that catches those that overflowed.
RightHandSideIsTheFile ==
    phase = "accepted" =>
        \A r \in 0 .. header.rows - 1 :
            \/ vector[r] = SumOver([i \in DOMAIN lines |-> lines[i].value],
                                  {i \in DOMAIN lines : lines[i].row = r + 1})
            \/ /\ lines = <<>>
               /\ vector[r] = SumOver([c \in 0 .. header.rows - 1 |-> ValueAt(r, c)],
                                     0 .. header.rows - 1)
=============================================================================
