------------------------ MODULE LinearSystem_proofs -------------------------
(***************************************************************************)
(* The linear system, from its file to the solver: what MatrixInput and    *)
(* AnalysisPlan promise of it, for every matrix, file, number and order.   *)
(*                                                                         *)
(* Sums come first: both components state what they promise as sums over   *)
(* finite sets, and the library's sum is a fold in an order it leaves      *)
(* open.  A sum is opened one term at a time, in any order.                *)
(*                                                                         *)
(* AnalysisPlan's invariant IInv says of each part of the plan that it is  *)
(* what its step makes of the parts before it, and that no check failed:   *)
(* its variables are functions of the matrix and the ordering.  The work   *)
(* is in what those functions promise.  Rows and slots are counting sorts  *)
(* (LevelSchedule_proofs), blocks are slices that follow one another, and  *)
(* the merge of a row with the factor finds every entry's slot.            *)
(*                                                                         *)
(* MatrixInput's invariant InputInv follows the entries: those of a file   *)
(* add up, place by place, to what its lines say, those of a grid to the   *)
(* stencil, and what is merged is exact wherever it has not overflowed.    *)
(***************************************************************************)
EXTENDS AnalysisPlan, MatrixInput, LevelSchedule_proofs

-----------------------------------------------------------------------------
\* Sums of integers over finite sets.

-----------------------------------------------------------------------------
\* Adding f[x] to a sum, as the table that FoldsOver takes.
AddingOf(f, U) == [w \in U \X Int |-> f[w[1]] + w[2]]

LEMMA AddingOfAdds ==
    ASSUME NEW f, NEW U, \A x \in U : f[x] \in Int
    PROVE  Adds(AddingOf(f, U), U, 0, Int) /\ Commutes(AddingOf(f, U), U, Int)
<1>1. \A x \in U : \A v \in Int : AddingOf(f, U)[<<x, v>>] = f[x] + v
    BY DEF AddingOf
<1>2. Adds(AddingOf(f, U), U, 0, Int)
    BY <1>1 DEF Adds
<1>3. ASSUME NEW x \in U, NEW y \in U, NEW v \in Int
      PROVE  AddingOf(f, U)[<<x, AddingOf(f, U)[<<y, v>>]>>]
                 = AddingOf(f, U)[<<y, AddingOf(f, U)[<<x, v>>]>>]
    <2>1. f[x] \in Int /\ f[y] \in Int
        OBVIOUS
    <2>2. f[x] + v \in Int /\ f[y] + v \in Int /\ f[x] + (f[y] + v) = f[y] + (f[x] + v)
        BY <2>1
    <2> QED
        BY <1>1, <2>2
<1> QED
    BY <1>2, <1>3 DEF Commutes

\* The library's sum is a fold of additions.
LEMMA SumFolds ==
    ASSUME NEW f, NEW g, NEW W, NEW U \in SUBSET W, IsFiniteSet(U),
           \A x \in W : f[x] \in Int, \A x \in U : g[x] = f[x]
    PROVE  \E h : FoldsOver(h, U, AddingOf(f, W), 0, Int) /\ SumOver(g, U) = h[U]
<1> DEFINE F == AddingOf(f, W)
           Solves(h) == h = [s \in SUBSET U |->
                                IF s = {} THEN 0
                                ELSE g[CHOOSE x \in s : TRUE] + h[s \ {CHOOSE x \in s : TRUE}]]
           iter == CHOOSE h : Solves(h)
<1>1. \A x \in W : \A v \in Int : F[<<x, v>>] = f[x] + v
    BY DEF AddingOf
<1>2. Adds(F, W, 0, Int)
    BY AddingOfAdds
<1> HIDE DEF F
<1>3. Adds(F, U, 0, Int)
    BY <1>2 DEF Adds
<1>4. PICK k : FoldsOver(k, U, F, 0, Int)
    BY <1>3, FoldExists
<1>5. Agree(k, k, U, Int)
    BY <1>2, <1>4, FoldIsUnique
<1>6. \A s \in SUBSET U : s # {} => First(s) \in U /\ Rest(s) \in SUBSET U
    BY FirstAndRest
<1>7. \E h : Solves(h)
    <2> PICK h : h = [s \in SUBSET U |-> k[s]]
        OBVIOUS
    <2>1. ASSUME NEW s \in SUBSET U, s # {}
          PROVE  h[s] = g[First(s)] + h[Rest(s)]
        BY <1>1, <1>4, <1>5, <1>6, <2>1 DEF FoldsOver, Agree
    <2>2. h[{}] = 0
        BY <1>4 DEF FoldsOver
    <2>3. Solves(h)
        BY <2>1, <2>2 DEF First, Rest
    <2> HIDE DEF Solves
    <2> QED
        BY <2>3
<1>8. Solves(iter)
    BY <1>7
<1>9. SumOver(g, U) = iter[U]
    BY DEF SumOver, MapThenSumSet, MapThenFoldSet
<1> HIDE DEF iter
<1>10. FoldsOver(iter, U, F, 0, Int)
    <2>1. \A s \in SUBSET U : s # {} => iter[s] = g[First(s)] + iter[Rest(s)]
        BY <1>8 DEF First, Rest
    <2>2. iter[{}] = 0 /\ DOMAIN iter = SUBSET U
        BY <1>8
    <2> QED
        BY <1>1, <1>6, <2>1, <2>2 DEF FoldsOver
<1> QED
    BY <1>9, <1>10 DEF F

Integral(f, U) == IsFiniteSet(U) /\ \A x \in U : f[x] \in Int

\* A sum of nothing.
LEMMA SumOfEmpty ==
    ASSUME NEW f
    PROVE  SumOver(f, {}) = 0
<1>1. IsFiniteSet({})
    BY FS_EmptySet
<1>2. PICK h : FoldsOver(h, {}, AddingOf(f, {}), 0, Int) /\ SumOver(f, {}) = h[{}]
    BY <1>1, SumFolds
<1> QED
    BY <1>2 DEF FoldsOver

\* A sum with one term apart.
SplitsOff(f, U, x) ==
    /\ SumOver(f, U) \in Int /\ SumOver(f, U \ {x}) \in Int /\ f[x] \in Int
    /\ SumOver(f, U) = f[x] + SumOver(f, U \ {x})

\* Any term can be the last that is added.
LEMMA TermSplitsOff ==
    ASSUME NEW f, NEW U, Integral(f, U), NEW x \in U
    PROVE  SplitsOff(f, U, x)
<1> PICK T : T = U \ {x}
    OBVIOUS
<1>1. T \in SUBSET U /\ IsFiniteSet(U) /\ IsFiniteSet(T) /\ Apart(x, T, U) /\ U \in SUBSET U
    BY FS_Subset DEF Apart, Integral
<1>2. \A y \in U : f[y] \in Int
    BY DEF Integral
<1>3. PICK h : FoldsOver(h, U, AddingOf(f, U), 0, Int) /\ SumOver(f, U) = h[U]
    BY <1>1, <1>2, SumFolds
<1>4. PICK g : FoldsOver(g, T, AddingOf(f, U), 0, Int) /\ SumOver(f, T) = g[T]
    BY <1>1, <1>2, SumFolds
<1>5. Adds(AddingOf(f, U), U, 0, Int) /\ Commutes(AddingOf(f, U), U, Int)
    BY <1>2, AddingOfAdds
<1>6. LastStep(h, U, x, g, T, AddingOf(f, U), Int)
    BY <1>1, <1>3, <1>4, <1>5, FoldWithout
<1>7. \A v \in Int : AddingOf(f, U)[<<x, v>>] = f[x] + v
    BY DEF AddingOf
<1>8. /\ SumOver(f, U) \in Int /\ SumOver(f, T) \in Int /\ f[x] \in Int
      /\ SumOver(f, U) = f[x] + SumOver(f, T)
    BY <1>2, <1>3, <1>4, <1>6, <1>7 DEF LastStep
<1> QED
    BY <1>1, <1>8 DEF SplitsOff, Apart

LEMMA SumWithout ==
    ASSUME NEW f, NEW U, Integral(f, U), NEW x \in U
    PROVE  /\ SumOver(f, U) \in Int /\ SumOver(f, U \ {x}) \in Int /\ f[x] \in Int
           /\ SumOver(f, U) = f[x] + SumOver(f, U \ {x})
<1>1. SplitsOff(f, U, x)
    BY TermSplitsOff
<1> QED
    BY <1>1 DEF SplitsOff

LEMMA SumIsInteger ==
    ASSUME NEW f, NEW U, Integral(f, U)
    PROVE  SumOver(f, U) \in Int
<1>1. CASE U = {}
    BY <1>1, SumOfEmpty
<1>2. CASE U # {}
    BY <1>2, SumWithout
<1> QED
    BY <1>1, <1>2

\* Adding a term.
LEMMA SumWith ==
    ASSUME NEW f, NEW U, NEW x, x \notin U, Integral(f, U), f[x] \in Int
    PROVE  SumOver(f, U \cup {x}) = f[x] + SumOver(f, U)
<1> PICK V : V = U \cup {x}
    OBVIOUS
<1>1. Integral(f, V) /\ x \in V /\ V \ {x} = U
    BY FS_AddElement DEF Integral
<1>2. SumOver(f, V) = f[x] + SumOver(f, V \ {x})
    BY <1>1, SumWithout
<1> QED
    BY <1>1, <1>2

\* Functions with the same terms have the same sum.
LEMMA SumOfEqualTerms ==
    ASSUME NEW f, NEW g, NEW U, Integral(f, U), \A x \in U : g[x] = f[x]
    PROVE  SumOver(g, U) = SumOver(f, U)
<1>1. IsFiniteSet(U) /\ U \in SUBSET U /\ \A x \in U : f[x] \in Int
    BY DEF Integral
<1>2. PICK h : FoldsOver(h, U, AddingOf(f, U), 0, Int) /\ SumOver(f, U) = h[U]
    BY <1>1, SumFolds
<1>3. PICK k : FoldsOver(k, U, AddingOf(f, U), 0, Int) /\ SumOver(g, U) = k[U]
    BY <1>1, SumFolds
<1>4. Agree(k, h, U, Int)
    BY <1>1, <1>2, <1>3, AddingOfAdds, FoldIsUnique
<1> QED
    BY <1>2, <1>3, <1>4 DEF Agree

\* The sum over two disjoint sets.
Disjoint(U, V) == U \cap V = {}

LEMMA SumOfUnion ==
    ASSUME NEW f, NEW U, NEW V, Integral(f, U), Integral(f, V), Disjoint(U, V)
    PROVE  SumOver(f, U \cup V) = SumOver(f, U) + SumOver(f, V)
<1> DEFINE Reached == {s \in SUBSET V : SumOver(f, U \cup s) = SumOver(f, U) + SumOver(f, s)}
<1>1. SumOver(f, U) \in Int /\ SumOver(f, V) \in Int
    BY SumIsInteger
<1>2. {} \in Reached
    <2>1. U \cup {} = U
        OBVIOUS
    <2> QED
        BY <1>1, <2>1, SumOfEmpty
<1>3. ASSUME NEW s \in SUBSET V, s # {}, \A x \in s : s \ {x} \in Reached
      PROVE  s \in Reached
    <2>1. PICK x \in s : TRUE
        BY <1>3
    <2>2. x \in U \cup s /\ (U \cup s) \ {x} = U \cup (s \ {x})
        BY <2>1 DEF Disjoint
    <2>3. Integral(f, s) /\ Integral(f, U \cup s)
        <3>1. IsFiniteSet(s) /\ IsFiniteSet(U)
            BY FS_Subset DEF Integral
        <3>2. IsFiniteSet(U \cup s)
            BY <3>1, FS_Union
        <3> QED
            BY <3>1, <3>2 DEF Integral
    <2>4. SumOver(f, U \cup s) = f[x] + SumOver(f, U \cup (s \ {x})) /\ f[x] \in Int
        <3>1. SplitsOff(f, U \cup s, x)
            BY <2>2, <2>3, TermSplitsOff
        <3> QED
            BY <2>2, <3>1 DEF SplitsOff
    <2>5. /\ SumOver(f, s) = f[x] + SumOver(f, s \ {x}) /\ f[x] \in Int
          /\ SumOver(f, s \ {x}) \in Int
        <3>1. SplitsOff(f, s, x)
            BY <2>1, <2>3, TermSplitsOff
        <3> QED
            BY <3>1 DEF SplitsOff
    <2>6. SumOver(f, U \cup (s \ {x})) = SumOver(f, U) + SumOver(f, s \ {x})
        BY <1>3, <2>1
    <2>7. SumOver(f, U \cup s) = SumOver(f, U) + SumOver(f, s)
        BY <1>1, <2>4, <2>5, <2>6
    <2> QED
        BY <2>7
<1> HIDE DEF Reached
<1>4. \A s \in SUBSET V : s \in Reached
    BY <1>2, <1>3, SubsetsAreReached DEF Integral
<1> QED
    BY <1>4 DEF Reached

\* Naturals add up to a natural.
LEMMA SumOfNaturals ==
    ASSUME NEW f, NEW U, IsFiniteSet(U), \A x \in U : f[x] \in Nat
    PROVE  SumOver(f, U) \in Nat
<1> DEFINE Reached == {s \in SUBSET U : SumOver(f, s) \in Nat}
<1>1. {} \in Reached
    BY SumOfEmpty
<1>2. ASSUME NEW s \in SUBSET U, s # {}, \A x \in s : s \ {x} \in Reached
      PROVE  s \in Reached
    <2>1. PICK x \in s : TRUE
        BY <1>2
    <2>2. Integral(f, s)
        BY FS_Subset DEF Integral
    <2>3. SumOver(f, s) = f[x] + SumOver(f, s \ {x}) /\ f[x] \in Nat
        BY <2>1, <2>2, SumWithout
    <2>4. SumOver(f, s \ {x}) \in Nat
        BY <1>2, <2>1
    <2> QED
        BY <2>3, <2>4
<1> HIDE DEF Reached
<1>3. \A s \in SUBSET U : s \in Reached
    BY <1>1, <1>2, SubsetsAreReached
<1> QED
    BY <1>3 DEF Reached

\* The sum of two sums, term by term.
LEMMA SumOfSums ==
    ASSUME NEW f, NEW g, NEW h, NEW U, Integral(f, U), Integral(g, U),
           \A x \in U : h[x] = f[x] + g[x]
    PROVE  SumOver(h, U) = SumOver(f, U) + SumOver(g, U)
<1> DEFINE Reached == {s \in SUBSET U : SumOver(h, s) = SumOver(f, s) + SumOver(g, s)}
<1>1. {} \in Reached
    BY SumOfEmpty
<1>2. ASSUME NEW s \in SUBSET U, s # {}, \A x \in s : s \ {x} \in Reached
      PROVE  s \in Reached
    <2>1. PICK x \in s : TRUE
        BY <1>2
    <2>2. Integral(f, s) /\ Integral(g, s) /\ Integral(h, s)
        BY FS_Subset DEF Integral
    <2>3. /\ SumOver(f, s) = f[x] + SumOver(f, s \ {x}) /\ f[x] \in Int
          /\ SumOver(f, s \ {x}) \in Int
        BY <2>1, <2>2, SumWithout
    <2>4. /\ SumOver(g, s) = g[x] + SumOver(g, s \ {x}) /\ g[x] \in Int
          /\ SumOver(g, s \ {x}) \in Int
        BY <2>1, <2>2, SumWithout
    <2>5. SumOver(h, s) = h[x] + SumOver(h, s \ {x})
        BY <2>1, <2>2, SumWithout
    <2>6. SumOver(h, s \ {x}) = SumOver(f, s \ {x}) + SumOver(g, s \ {x}) /\ h[x] = f[x] + g[x]
        BY <1>2, <2>1
    <2>7. SumOver(h, s) = SumOver(f, s) + SumOver(g, s)
        BY <2>3, <2>4, <2>5, <2>6
    <2> QED
        BY <2>7
<1> HIDE DEF Reached
<1>3. \A s \in SUBSET U : s \in Reached
    BY <1>1, <1>2, SubsetsAreReached DEF Integral
<1> QED
    BY <1>3 DEF Reached

\* Induction on the naturals up to n, over the set of those it has reached.
LEMMA NaturalsAreReached ==
    ASSUME NEW n \in Nat, NEW Reached, 0 \in Reached,
           \A k \in 0 .. n - 1 : k \in Reached => k + 1 \in Reached
    PROVE  \A k \in 0 .. n : k \in Reached
<1> DEFINE Missed == {k \in 0 .. n : k \notin Reached}
<1> SUFFICES ASSUME Missed # {} PROVE FALSE
    OBVIOUS
<1>1. PICK k \in Missed : \A m \in Missed : k <= m
    <2>1. Missed \in SUBSET Nat
        OBVIOUS
    <2> QED
        BY <2>1, LeastNatural
<1>2. k - 1 \in 0 .. n - 1 /\ k - 1 \notin Missed /\ k - 1 + 1 = k
    BY <1>1
<1> QED
    BY <1>1, <1>2

\* Intervals that follow one another: the sum over all of them.
Ascends(at, n) ==
    /\ \A b \in 0 .. n : at[b] \in Int
    /\ \A b, c \in 0 .. n : b <= c => at[b] <= at[c]

\* A slice inside an interval.
LEMMA SliceIsIntegral ==
    ASSUME NEW f, NEW low \in Int, NEW high \in Int, \A x \in low .. high - 1 : f[x] \in Int,
           NEW from \in Int, NEW to \in Int, low <= from, to <= high
    PROVE  Integral(f, from .. to - 1)
<1>1. IsFiniteSet(from .. to - 1)
    <2>1. to - 1 \in Int
        OBVIOUS
    <2> QED
        BY <2>1, FS_Interval
<1>2. from .. to - 1 \subseteq low .. high - 1
    OBVIOUS
<1> QED
    BY <1>1, <1>2 DEF Integral

\* The sums over slices that follow one another add up to the sum over all of them.
LEMMA SumOverSlices ==
    ASSUME NEW n \in Nat, NEW at, Ascends(at, n),
           NEW f, \A x \in at[0] .. at[n] - 1 : f[x] \in Int,
           NEW g, \A b \in 0 .. n - 1 : g[b] = SumOver(f, at[b] .. at[b + 1] - 1)
    PROVE  SumOver(g, 0 .. n - 1) = SumOver(f, at[0] .. at[n] - 1)
<1> DEFINE Reached == {k \in 0 .. n : SumOver(g, 0 .. k - 1) = SumOver(f, at[0] .. at[k] - 1)}
<1>0. \A b \in 0 .. n - 1 : g[b] \in Int
    <2> SUFFICES ASSUME NEW b \in 0 .. n - 1 PROVE g[b] \in Int
        OBVIOUS
    <2>1. b \in 0 .. n /\ b + 1 \in 0 .. n /\ 0 \in 0 .. n /\ n \in 0 .. n
        OBVIOUS
    <2>2. at[0] \in Int /\ at[b] \in Int /\ at[b + 1] \in Int /\ at[n] \in Int
        BY <2>1 DEF Ascends
    <2>3. at[0] <= at[b] /\ at[b + 1] <= at[n]
        BY <2>1 DEF Ascends
    <2>4. Integral(f, at[b] .. at[b + 1] - 1)
        BY <2>2, <2>3, SliceIsIntegral
    <2> QED
        BY <2>4, SumIsInteger
<1>1. 0 \in Reached
    <2>1. at[0] \in Int
        BY DEF Ascends
    <2>2. 0 .. 0 - 1 = {} /\ at[0] .. at[0] - 1 = {} /\ 0 \in 0 .. n
        BY <2>1
    <2>3. SumOver(g, {}) = SumOver(f, {})
        BY SumOfEmpty
    <2>4. SumOver(g, 0 .. 0 - 1) = SumOver(f, at[0] .. at[0] - 1)
        BY <2>2, <2>3
    <2> QED
        BY <2>2, <2>4
<1>2. ASSUME NEW k \in 0 .. n - 1, k \in Reached
      PROVE  k + 1 \in Reached
    <2>1. /\ k \in 0 .. n /\ k + 1 \in 0 .. n /\ 0 .. k + 1 - 1 = (0 .. k - 1) \cup {k}
          /\ k \notin 0 .. k - 1 /\ 0 \in 0 .. n /\ n \in 0 .. n
        OBVIOUS
    <2> PICK low, mid, next, high :
            low = at[0] /\ mid = at[k] /\ next = at[k + 1] /\ high = at[n]
        OBVIOUS
    <2>2. low \in Int /\ mid \in Int /\ next \in Int /\ high \in Int
        BY <2>1 DEF Ascends
    <2>3. low <= mid /\ mid <= next /\ next <= high
        BY <2>1 DEF Ascends
    <2> PICK U, V : U = low .. mid - 1 /\ V = mid .. next - 1
        OBVIOUS
    <2>4. U \cap V = {} /\ U \cup V = low .. next - 1
        BY <2>2, <2>3
    <2>5. mid <= high /\ low <= next
        BY <2>2, <2>3
    <2>6. Integral(f, U) /\ Integral(f, V)
        <3>1. \A x \in low .. high - 1 : f[x] \in Int
            OBVIOUS
        <3>2. low <= low /\ mid <= high /\ low <= mid /\ next <= high
            BY <2>2, <2>3, <2>5
        <3>3. Integral(f, low .. mid - 1)
            BY <2>2, <3>1, <3>2, SliceIsIntegral
        <3>4. Integral(f, mid .. next - 1)
            BY <2>2, <3>1, <3>2, SliceIsIntegral
        <3> QED
            BY <3>3, <3>4
    <2>7. SumOver(f, U \cup V) = SumOver(f, U) + SumOver(f, V)
        <3>1. Disjoint(U, V)
            BY <2>4 DEF Disjoint
        <3> QED
            BY <2>6, <3>1, SumOfUnion, ZenonT(20)
    <2>8. Integral(g, 0 .. k - 1) /\ g[k] \in Int /\ g[k] = SumOver(f, V)
        <3>1. k - 1 \in Int /\ \A b \in 0 .. k - 1 : b \in 0 .. n - 1
            OBVIOUS
        <3>2. IsFiniteSet(0 .. k - 1)
            BY <3>1, FS_Interval
        <3> QED
            BY <1>0, <3>1, <3>2 DEF Integral
    <2>9. SumOver(g, (0 .. k - 1) \cup {k}) = g[k] + SumOver(g, 0 .. k - 1)
        BY <2>1, <2>8, SumWith
    <2>10. SumOver(g, 0 .. k - 1) = SumOver(f, U)
        BY <1>2
    <2>11. SumOver(f, U) \in Int /\ SumOver(f, V) \in Int
        BY <2>6, SumIsInteger
    <2>12. SumOver(g, (0 .. k - 1) \cup {k}) = SumOver(f, U \cup V)
        BY <2>7, <2>8, <2>9, <2>10, <2>11
    <2>13. SumOver(g, 0 .. k + 1 - 1) = SumOver(f, low .. next - 1)
        BY <2>1, <2>4, <2>12
    <2>14. SumOver(g, 0 .. k + 1 - 1) = SumOver(f, at[0] .. at[k + 1] - 1)
        BY <2>13
    <2> QED
        BY <2>1, <2>14
<1> HIDE DEF Reached
<1>3. \A k \in 0 .. n : k \in Reached
    BY <1>1, <1>2, NaturalsAreReached
<1> QED
    BY <1>3 DEF Reached

\* How many things there are, row by row.
Counts(count, S, row, first, n) ==
    /\ \A e \in S : row[e] \in first .. first + n - 1
    /\ \A r \in first .. first + n - 1 : count[r] = Cardinality({e \in S : row[e] = r})

\* The numbers of things in the rows add up to the number of things.
LEMMA CountByRows ==
    ASSUME NEW S, IsFiniteSet(S), NEW row, NEW first \in Int, NEW n \in Nat,
           NEW count, Counts(count, S, row, first, n)
    PROVE  SumOver(count, first .. first + n - 1) = Cardinality(S)
<1>0. /\ \A e \in S : row[e] \in first .. first + n - 1
      /\ \A r \in first .. first + n - 1 : count[r] = Cardinality({e \in S : row[e] = r})
    BY DEF Counts
<1> DEFINE Below(k) == {e \in S : row[e] < first + k}
           Reached == {k \in 0 .. n :
                          SumOver(count, first .. first + k - 1) = Cardinality(Below(k))}
<1>1. 0 \in Reached
    <2>1. first .. first + 0 - 1 = {} /\ Below(0) = {} /\ 0 \in 0 .. n
        BY <1>0
    <2>2. SumOver(count, {}) = Cardinality({})
        BY SumOfEmpty, FS_EmptySet
    <2> HIDE DEF Below
    <2> QED
        BY <2>1, <2>2
<1>2. ASSUME NEW k \in 0 .. n - 1, k \in Reached
      PROVE  k + 1 \in Reached
    <2> PICK r, T, R : r = first + k /\ T = first .. first + k - 1 /\ R = {e \in S : row[e] = r}
        OBVIOUS
    <2>1. /\ k \in 0 .. n /\ k + 1 \in 0 .. n /\ first .. first + (k + 1) - 1 = T \cup {r}
          /\ r \notin T /\ r \in first .. first + n - 1 /\ T \subseteq first .. first + n - 1
        OBVIOUS
    <2>2. Below(k + 1) = Below(k) \cup R /\ Below(k) \cap R = {}
        BY <1>0
    <2>3. Below(k) \in SUBSET S /\ R \in SUBSET S
        OBVIOUS
    <2>4. SumOver(count, T) = Cardinality(Below(k))
        BY <1>2
    <2> HIDE DEF Below
    <2>5. IsFiniteSet(Below(k)) /\ IsFiniteSet(R)
        BY <2>3, PartOfFinite
    <2>6. Cardinality(Below(k + 1)) = Cardinality(Below(k)) + Cardinality(R)
        BY <2>2, <2>5, DisjointParts
    <2>7. \A t \in first .. first + n - 1 : count[t] \in Int
        <3> SUFFICES ASSUME NEW t \in first .. first + n - 1
                     PROVE  Cardinality({e \in S : row[e] = t}) \in Int
            BY <1>0
        <3>1. {e \in S : row[e] = t} \in SUBSET S
            OBVIOUS
        <3>2. Cardinality({e \in S : row[e] = t}) \in Nat
            BY <3>1, PartOfFinite
        <3> QED
            BY <3>2
    <2>8. Integral(count, T) /\ count[r] \in Int
        BY <2>1, <2>7, FS_Interval DEF Integral
    <2>9. SumOver(count, T \cup {r}) = count[r] + SumOver(count, T)
        BY <2>1, <2>8, SumWith
    <2>10. count[r] = Cardinality(R)
        BY <1>0, <2>1
    <2>11. Cardinality(Below(k)) \in Int
        BY <2>4, <2>8, SumIsInteger
    <2>12. count[r] + SumOver(count, T) = Cardinality(Below(k)) + Cardinality(R)
        BY <2>4, <2>8, <2>10, <2>11
    <2>13. SumOver(count, first .. first + (k + 1) - 1) = Cardinality(Below(k + 1))
        BY <2>1, <2>6, <2>9, <2>12
    <2> QED
        BY <2>1, <2>13
<1> HIDE DEF Reached
<1>3. \A k \in 0 .. n : k \in Reached
    BY <1>1, <1>2, NaturalsAreReached
<1>4. n \in 0 .. n /\ Below(n) = S
    BY <1>0
<1> QED
    BY <1>3, <1>4 DEF Reached

\* The rows of the matrix are finitely many.
LEMMA RowsAreFinite ==
    /\ Rows = 0 .. Dimension - 1 /\ Dimension \in Nat \ {0}
    /\ IsFiniteSet(Rows) /\ Cardinality(Rows) = Dimension
    /\ \A S \in SUBSET (Rows \X Rows) : IsFiniteSet(S)
<1>1. Rows = 0 .. Dimension - 1 /\ Dimension \in Nat \ {0}
    BY InputAssumption DEF Rows
<1>2. IsFiniteSet(Rows) /\ Cardinality(Rows) = Dimension
    BY <1>1, FS_Interval
<1>3. IsFiniteSet(Rows \X Rows)
    BY <1>2, FS_Product
<1>4. \A S \in SUBSET (Rows \X Rows) : IsFiniteSet(S)
    BY <1>3, FS_Subset
<1> QED
    BY <1>1, <1>2, <1>4

\* A permutation of the rows and its inverse.
Inverts(g, f) ==
    /\ f \in [Rows -> Rows] /\ g \in [Rows -> Rows]
    /\ \A i \in Rows : g[f[i]] = i
    /\ \A o \in Rows : f[g[o]] = o

\* A permutation and its inverse undo each other.
LEMMA PermutationIsInverted ==
    ASSUME NEW f \in [Rows -> Rows], IsPermutation(f)
    PROVE  Inverts(InverseOf(f), f)
<1>1. f \in Injection(Rows, Rows)
    BY DEF IsPermutation, Injection, IsInjective
<1>2. f \in Surjection(Rows, Rows)
    BY <1>1, RowsAreFinite, FS_Injection
<1>3. \A o \in Rows : \E i \in Rows : f[i] = o
    BY <1>2 DEF Surjection
<1>4. \A o \in Rows : InverseOf(f)[o] \in Rows /\ f[InverseOf(f)[o]] = o
    BY <1>3 DEF InverseOf
<1>5. InverseOf(f) \in [Rows -> Rows]
    BY <1>4 DEF InverseOf
<1>6. \A i \in Rows : InverseOf(f)[f[i]] = i
    BY <1>4 DEF IsPermutation
<1> QED
    BY <1>4, <1>5, <1>6 DEF Inverts

-----------------------------------------------------------------------------
\* The input is sorted by column and then by row.
LEMMA PositionsSort ==
    ASSUME matrix \in SUBSET (Rows \X Rows)
    PROVE  /\ \A e \in matrix : Position(e) \in Positions
           /\ \A e, f \in matrix : Position(e) = Position(f) => e = f
           /\ \A k \in Positions : \E e \in matrix : Position(e) = k
<1> DEFINE row == [e \in matrix |-> e[2]]
           col == [e \in matrix |-> e[1]]
<1>1. Sortable(matrix, row, col, Dimension)
    <2>1. \A e \in matrix : /\ e = <<e[1], e[2]>> /\ e[1] \in Rows /\ e[2] \in Rows
                            /\ row[e] = e[2] /\ col[e] = e[1]
        OBVIOUS
    <2> HIDE DEF row, col
    <2>2. \A e \in matrix : row[e] \in 0 .. Dimension - 1 /\ col[e] \in Nat
        BY <2>1, RowsAreFinite
    <2>3. \A e, f \in matrix : row[e] = row[f] /\ col[e] = col[f] => e = f
        BY <2>1
    <2>4. IsFiniteSet(matrix) /\ Dimension \in Nat
        BY RowsAreFinite
    <2> QED
        BY <2>2, <2>3, <2>4 DEF Sortable
<1>2. Sorts(matrix, row, col, Dimension)
    BY <1>1, CountingSorts
<1>3. \A e \in matrix : Position(e) = SortedPlace(matrix, row, col, e)
    <2> SUFFICES ASSUME NEW e \in matrix PROVE Position(e) = SortedPlace(matrix, row, col, e)
        OBVIOUS
    <2>1. EarlierRows(matrix, row, row[e]) \cup LeftInRow(matrix, row, col, e)
              = {f \in matrix : f[2] < e[2] \/ (f[2] = e[2] /\ f[1] < e[1])}
        BY DEF EarlierRows, LeftInRow
    <2>2. SortedPlace(matrix, row, col, e)
              = Cardinality(EarlierRows(matrix, row, row[e]) \cup LeftInRow(matrix, row, col, e))
        BY <1>1, SortedPlaceCounts
    <2> QED
        BY <2>1, <2>2 DEF Position
<1>4. Positions = 0 .. Cardinality(matrix) - 1
    BY DEF Positions, Nonzeros
<1> HIDE DEF row, col
<1> QED
    BY <1>2, <1>3, <1>4 DEF Sorts

\* What an ordering and its inverses are, from the step that inverts them on.
Inverted ==
    /\ matrix \in SUBSET (Rows \X Rows) /\ zeros \in SUBSET Rows
    /\ Inverts(pInverse, p) /\ Inverts(qInverse, q)

\* An entry is found again from its permuted row and column, and the other way round.
LEMMA EntriesPermute ==
    ASSUME Inverted
    PROVE  /\ \A e \in matrix : /\ RowOf(e) \in Rows /\ ColumnOf(e) \in Rows
                                /\ e = <<p[RowOf(e)], q[ColumnOf(e)]>>
           /\ \A i, c \in Rows : /\ p[i] \in Rows /\ q[c] \in Rows
                                 /\ RowOf(<<p[i], q[c]>>) = i
                                 /\ ColumnOf(<<p[i], q[c]>>) = c
<1>1. ASSUME NEW e \in matrix
      PROVE  /\ RowOf(e) \in Rows /\ ColumnOf(e) \in Rows
             /\ e = <<p[RowOf(e)], q[ColumnOf(e)]>>
    <2>1. e = <<e[1], e[2]>> /\ e[1] \in Rows /\ e[2] \in Rows
        BY DEF Inverted
    <2> QED
        BY <2>1 DEF Inverted, Inverts, RowOf, ColumnOf
<1>2. ASSUME NEW i \in Rows, NEW c \in Rows
      PROVE  /\ p[i] \in Rows /\ q[c] \in Rows
             /\ RowOf(<<p[i], q[c]>>) = i /\ ColumnOf(<<p[i], q[c]>>) = c
    BY DEF Inverted, Inverts, RowOf, ColumnOf
<1> QED
    BY <1>1, <1>2

\* build_permuted_rows sorts the entries by permuted row and permuted column.
PermutedRow    == [e \in matrix |-> RowOf(e)]
PermutedColumn == [e \in matrix |-> ColumnOf(e)]

\* The offsets and the destinations of build_permuted_rows are those of a counting sort.
LEMMA RowsAreSortable ==
    ASSUME Inverted
    PROVE  /\ Sortable(matrix, PermutedRow, PermutedColumn, Dimension)
           /\ \A r : RowOffset(r) = RowStart(matrix, PermutedRow, r)
           /\ \A e \in matrix :
                  Destination(e) = SortedPlace(matrix, PermutedRow, PermutedColumn, e)
<1>1. \A e \in matrix : PermutedRow[e] = RowOf(e) /\ PermutedColumn[e] = ColumnOf(e)
    BY DEF PermutedRow, PermutedColumn
<1>2. \A e \in matrix : /\ RowOf(e) \in Rows /\ ColumnOf(e) \in Rows
                        /\ e = <<p[RowOf(e)], q[ColumnOf(e)]>>
    BY EntriesPermute
<1>3. IsFiniteSet(matrix) /\ Dimension \in Nat
    BY RowsAreFinite DEF Inverted
<1>4. \A e \in matrix : PermutedRow[e] \in 0 .. Dimension - 1 /\ PermutedColumn[e] \in Nat
    BY <1>1, <1>2, RowsAreFinite
<1>5. \A e, f \in matrix :
          PermutedRow[e] = PermutedRow[f] /\ PermutedColumn[e] = PermutedColumn[f] => e = f
    BY <1>1, <1>2
<1>6. Sortable(matrix, PermutedRow, PermutedColumn, Dimension)
    BY <1>3, <1>4, <1>5 DEF Sortable
<1>7. ASSUME NEW r PROVE RowOffset(r) = RowStart(matrix, PermutedRow, r)
    <2>1. {e \in matrix : RowOf(e) < r} = EarlierRows(matrix, PermutedRow, r)
        BY <1>1 DEF EarlierRows
    <2> QED
        BY <2>1 DEF RowOffset, RowStart
<1>8. ASSUME NEW e \in matrix
      PROVE  Destination(e) = SortedPlace(matrix, PermutedRow, PermutedColumn, e)
    <2>1. {f \in matrix : RowOf(f) = RowOf(e) /\ ColumnOf(f) < ColumnOf(e)}
              = LeftInRow(matrix, PermutedRow, PermutedColumn, e)
        BY <1>1 DEF LeftInRow
    <2>2. RowOffset(RowOf(e)) = RowStart(matrix, PermutedRow, PermutedRow[e])
        BY <1>1, <1>7
    <2> QED
        BY <2>1, <2>2 DEF Destination, SortedPlace
<1> QED
    BY <1>6, <1>7, <1>8

\* Where entries go: each to a place of its own in its row, columns ascending.
LEMMA DestinationsSort ==
    ASSUME Inverted
    PROVE  /\ \A e \in matrix : /\ Destination(e) \in Positions
                                /\ Destination(e) \in RowEntries(RowOf(e))
           /\ \A e, f \in matrix : Destination(e) = Destination(f) => e = f
           /\ \A e, f \in matrix : RowOf(e) = RowOf(f) =>
                  (Destination(e) < Destination(f) <=> ColumnOf(e) < ColumnOf(f))
           /\ \A k \in Positions : \E e \in matrix : Destination(e) = k
           /\ \A e \in matrix : \A r \in Rows : Destination(e) \in RowEntries(r) => RowOf(e) = r
           /\ \A r \in Rows : /\ RowEntries(r) \in SUBSET Positions
                              /\ RowOffset(r) \in Nat /\ RowOffset(r + 1) \in Nat
<1>1. /\ Sortable(matrix, PermutedRow, PermutedColumn, Dimension)
      /\ \A r : RowOffset(r) = RowStart(matrix, PermutedRow, r)
      /\ \A e \in matrix :
             Destination(e) = SortedPlace(matrix, PermutedRow, PermutedColumn, e)
    BY RowsAreSortable
<1>2. Sorts(matrix, PermutedRow, PermutedColumn, Dimension)
    BY <1>1, CountingSorts
<1>3. \A e \in matrix : PermutedRow[e] = RowOf(e) /\ PermutedColumn[e] = ColumnOf(e)
    BY DEF PermutedRow, PermutedColumn
<1>4. Positions = 0 .. Cardinality(matrix) - 1
    BY DEF Positions, Nonzeros
<1>5. Cardinality(matrix) \in Nat /\ \A r : RowOffset(r) \in 0 .. Cardinality(matrix)
    BY <1>1, RowStarts
<1>6. \A e \in matrix : /\ Destination(e) \in Positions
                        /\ RowOffset(RowOf(e)) <= Destination(e)
                        /\ Destination(e) < RowOffset(RowOf(e) + 1)
    BY <1>1, <1>2, <1>3, <1>4 DEF Sorts
<1>7. \A e \in matrix : Destination(e) \in RowEntries(RowOf(e))
    <2> SUFFICES ASSUME NEW e \in matrix PROVE Destination(e) \in RowEntries(RowOf(e))
        OBVIOUS
    <2>1. RowOffset(RowOf(e)) \in Int /\ RowOffset(RowOf(e) + 1) \in Int /\ Destination(e) \in Int
        BY <1>4, <1>5, <1>6
    <2> QED
        BY <1>6, <2>1 DEF RowEntries
<1>8. \A e, f \in matrix : Destination(e) = Destination(f) => e = f
    BY <1>1, <1>2 DEF Sorts
<1>9. \A e, f \in matrix : RowOf(e) = RowOf(f) =>
          (Destination(e) < Destination(f) <=> ColumnOf(e) < ColumnOf(f))
    BY <1>1, <1>2, <1>3 DEF Sorts
<1>10. \A k \in Positions : \E e \in matrix : Destination(e) = k
    BY <1>1, <1>2, <1>4 DEF Sorts
<1>11. ASSUME NEW e \in matrix, NEW r \in Rows, Destination(e) \in RowEntries(r)
       PROVE  RowOf(e) = r
    <2>1. RowOffset(r) \in Int /\ RowOffset(r + 1) \in Int
        BY <1>5
    <2>2. RowOffset(r) <= Destination(e) /\ Destination(e) < RowOffset(r + 1)
        BY <1>11, <2>1 DEF RowEntries
    <2>3. r \in 0 .. Dimension - 1
        BY RowsAreFinite
    <2> QED
        BY <1>1, <1>2, <1>3, <2>2, <2>3 DEF Sorts
<1>12. ASSUME NEW r \in Rows
       PROVE  /\ RowEntries(r) \in SUBSET Positions
              /\ RowOffset(r) \in Nat /\ RowOffset(r + 1) \in Nat
    <2>1. RowOffset(r) \in 0 .. Cardinality(matrix) /\ RowOffset(r + 1) \in 0 .. Cardinality(matrix)
        BY <1>5
    <2> QED
        BY <1>4, <1>5, <2>1 DEF RowEntries
<1> QED
    BY <1>6, <1>7, <1>8, <1>9, <1>10, <1>11, <1>12

\* What build_permuted_rows leaves.
EntryAt == [k \in Positions |-> CHOOSE e \in matrix : Destination(e) = k]
Sorted  == [k \in Positions |-> ColumnOf(EntryAt[k])]

Built ==
    /\ columns = Sorted
    /\ originals = [k \in Positions |-> Position(EntryAt[k])]
    /\ scale = [r \in Rows |-> ScaleOf(r)]

\* The entry at a place.
LEMMA EntriesAreFound ==
    ASSUME Inverted
    PROVE  /\ \A k \in Positions : EntryAt[k] \in matrix /\ Destination(EntryAt[k]) = k
           /\ \A e \in matrix : Destination(e) \in Positions /\ EntryAt[Destination(e)] = e
<1>1. /\ \A e \in matrix : Destination(e) \in Positions
      /\ \A e, f \in matrix : Destination(e) = Destination(f) => e = f
      /\ \A k \in Positions : \E e \in matrix : Destination(e) = k
    BY DestinationsSort
<1>2. \A k \in Positions : EntryAt[k] \in matrix /\ Destination(EntryAt[k]) = k
    BY <1>1 DEF EntryAt
<1> QED
    BY <1>1, <1>2

\* A debug build finds the rows sorted and without a column twice.
LEMMA RowsAreSorted ==
    ASSUME Inverted, NEW r \in Rows
    PROVE  Ascending(Sorted, RowOffset(r), RowOffset(r + 1) - 1)
<1> SUFFICES ASSUME NEW i \in RowEntries(r), NEW j \in RowEntries(r), i < j
             PROVE  Sorted[i] < Sorted[j]
    BY DEF Ascending, RowEntries
<1>1. i \in Positions /\ j \in Positions
    BY DestinationsSort
<1>2. /\ EntryAt[i] \in matrix /\ Destination(EntryAt[i]) = i
      /\ EntryAt[j] \in matrix /\ Destination(EntryAt[j]) = j
    BY <1>1, EntriesAreFound
<1>3. RowOf(EntryAt[i]) = r /\ RowOf(EntryAt[j]) = r
    BY <1>2, DestinationsSort
<1>4. ColumnOf(EntryAt[i]) < ColumnOf(EntryAt[j])
    BY <1>2, <1>3, DestinationsSort
<1> QED
    BY <1>1, <1>4 DEF Sorted

\* After the sort, an entry's destination names its column, its old position and its row,
\* and a row's pattern is the columns of its entries.
LEMMA PermutedRows ==
    ASSUME Inverted, Built
    PROVE  /\ \A e \in matrix : /\ columns[Destination(e)] = ColumnOf(e)
                                /\ originals[Destination(e)] = Position(e)
                                /\ RowAt(Destination(e)) = RowOf(e)
           /\ \A k \in Positions : /\ RowAt(k) \in Rows /\ k \in RowEntries(RowAt(k))
                                   /\ columns[k] \in Pattern(RowAt(k))
           /\ \A r \in Rows : Pattern(r) = {ColumnOf(e) : e \in {f \in matrix : RowOf(f) = r}}
<1>1. /\ \A k \in Positions : EntryAt[k] \in matrix /\ Destination(EntryAt[k]) = k
      /\ \A e \in matrix : Destination(e) \in Positions /\ EntryAt[Destination(e)] = e
    BY EntriesAreFound
<1>2. /\ \A e \in matrix : RowOf(e) \in Rows /\ Destination(e) \in RowEntries(RowOf(e))
      /\ \A e \in matrix : \A r \in Rows : Destination(e) \in RowEntries(r) => RowOf(e) = r
      /\ \A r \in Rows : RowEntries(r) \in SUBSET Positions
    BY DestinationsSort, EntriesPermute
<1>3. \A k \in Positions : /\ columns[k] = ColumnOf(EntryAt[k])
                           /\ originals[k] = Position(EntryAt[k])
    BY DEF Built, Sorted
<1>4. \A e \in matrix : RowAt(Destination(e)) = RowOf(e)
    BY <1>2 DEF RowAt
<1>5. \A e \in matrix : /\ columns[Destination(e)] = ColumnOf(e)
                        /\ originals[Destination(e)] = Position(e)
    BY <1>1, <1>3
<1>6. ASSUME NEW k \in Positions
      PROVE  /\ RowAt(k) \in Rows /\ k \in RowEntries(RowAt(k))
             /\ columns[k] \in Pattern(RowAt(k))
    <2>1. RowAt(k) = RowOf(EntryAt[k])
        BY <1>1, <1>4
    <2>2. RowAt(k) \in Rows /\ k \in RowEntries(RowAt(k))
        BY <1>1, <1>2, <2>1
    <2> QED
        BY <2>2 DEF Pattern
<1>7. ASSUME NEW r \in Rows
      PROVE  Pattern(r) = {ColumnOf(e) : e \in {f \in matrix : RowOf(f) = r}}
    <2>1. ASSUME NEW k \in RowEntries(r)
          PROVE  \E e \in matrix : RowOf(e) = r /\ columns[k] = ColumnOf(e)
        <3>1. k \in Positions
            BY <1>2
        <3>2. /\ EntryAt[k] \in matrix /\ Destination(EntryAt[k]) = k
              /\ columns[k] = ColumnOf(EntryAt[k])
            BY <1>1, <1>3, <3>1
        <3>3. RowOf(EntryAt[k]) = r
            BY <1>2, <3>2
        <3> QED
            BY <3>2, <3>3
    <2>2. ASSUME NEW e \in matrix, RowOf(e) = r
          PROVE  Destination(e) \in RowEntries(r) /\ columns[Destination(e)] = ColumnOf(e)
        BY <1>2, <1>5, <2>2
    <2>3. \A c : c \in Pattern(r) <=> c \in {ColumnOf(e) : e \in {f \in matrix : RowOf(f) = r}}
        BY <2>1, <2>2 DEF Pattern
    <2> QED
        BY <2>3
<1> QED
    BY <1>4, <1>5, <1>6, <1>7

-----------------------------------------------------------------------------
\* The slots of the factor, row by row and column by column.
FactorIsBuilt ==
    /\ factor \in [Rows -> SUBSET Rows]
    /\ IsFactor(factor)

Pairs   == {s \in Rows \X Rows : s[2] \in factor[s[1]]}
PairRow == [s \in Pairs |-> s[1]]
PairColumn == [s \in Pairs |-> s[2]]

\* The slots of the factor are those of a counting sort.
LEMMA PairsAreSortable ==
    ASSUME factor \in [Rows -> SUBSET Rows]
    PROVE  /\ Sortable(Pairs, PairRow, PairColumn, Dimension)
           /\ \A r : FactorOffset(r) = RowStart(Pairs, PairRow, r)
           /\ \A r \in Rows : \A c \in factor[r] :
                  /\ <<r, c>> \in Pairs
                  /\ SlotOf(r, c) = SortedPlace(Pairs, PairRow, PairColumn, <<r, c>>)
<1>1. \A s \in Pairs : /\ s = <<s[1], s[2]>> /\ s[1] \in Rows /\ s[2] \in Rows
                       /\ s[2] \in factor[s[1]]
                       /\ PairRow[s] = s[1] /\ PairColumn[s] = s[2]
    BY DEF Pairs, PairRow, PairColumn
<1>2. IsFiniteSet(Pairs) /\ Dimension \in Nat
    <2>1. Pairs \in SUBSET (Rows \X Rows)
        BY DEF Pairs
    <2> QED
        BY <2>1, RowsAreFinite
<1>3. Sortable(Pairs, PairRow, PairColumn, Dimension)
    <2>1. \A s \in Pairs : PairRow[s] \in 0 .. Dimension - 1 /\ PairColumn[s] \in Nat
        BY <1>1, RowsAreFinite
    <2>2. \A s, t \in Pairs : PairRow[s] = PairRow[t] /\ PairColumn[s] = PairColumn[t] => s = t
        BY <1>1
    <2> QED
        BY <1>2, <2>1, <2>2 DEF Sortable
<1>4. ASSUME NEW r PROVE FactorOffset(r) = RowStart(Pairs, PairRow, r)
    <2>1. \A s : s \in {t \in Rows \X Rows : t[1] < r /\ t[2] \in factor[t[1]]}
                     <=> s \in EarlierRows(Pairs, PairRow, r)
        BY <1>1 DEF EarlierRows, Pairs
    <2>2. {t \in Rows \X Rows : t[1] < r /\ t[2] \in factor[t[1]]} = EarlierRows(Pairs, PairRow, r)
        BY <2>1
    <2> QED
        BY <2>2 DEF FactorOffset, RowStart
<1>5. ASSUME NEW r \in Rows, NEW c \in factor[r]
      PROVE  /\ <<r, c>> \in Pairs
             /\ SlotOf(r, c) = SortedPlace(Pairs, PairRow, PairColumn, <<r, c>>)
    <2>1. c \in Rows /\ <<r, c>> \in Pairs
        BY DEF Pairs
    <2> DEFINE before == {d \in factor[r] : d < c}
               left == LeftInRow(Pairs, PairRow, PairColumn, <<r, c>>)
               pair == [d \in before |-> <<r, d>>]
    <2>2. before \in SUBSET Rows
        OBVIOUS
    <2>3. \A s : s \in left <=> \E d \in before : s = <<r, d>>
        <3>1. ASSUME NEW s \in left PROVE \E d \in before : s = <<r, d>>
            <4>1. s \in Pairs /\ s[1] = r /\ s[2] < c
                BY <1>1, <2>1 DEF LeftInRow
            <4> QED
                BY <1>1, <4>1
        <3>2. ASSUME NEW d \in before PROVE <<r, d>> \in left
            <4>1. <<r, d>> \in Pairs
                BY <2>2 DEF Pairs
            <4> QED
                BY <1>1, <2>1, <4>1 DEF LeftInRow
        <3> QED
            BY <3>1, <3>2
    <2> HIDE DEF before, left
    <2>4. IsFiniteSet(before)
        BY <2>2, RowsAreFinite, FS_Subset
    <2>5. pair \in Bijection(before, left)
        BY <2>3 DEF Bijection, Injection, Surjection, IsInjective
    <2> HIDE DEF pair
    <2>6. Cardinality(before) = Cardinality(left)
        BY <2>4, <2>5, FS_Bijection DEF ExistsBijection
    <2>7. PairRow[<<r, c>>] = r
        BY <1>1, <2>1
    <2>8. SlotOf(r, c) = FactorOffset(r) + Cardinality(before)
        BY DEF SlotOf, before
    <2> QED
        BY <1>4, <2>1, <2>6, <2>7, <2>8 DEF SortedPlace, left
<1> QED
    BY <1>3, <1>4, <1>5

\* Slots are numbered without gaps, row after row, and a slot has one row and one column.
LEMMA SlotsSort ==
    ASSUME factor \in [Rows -> SUBSET Rows]
    PROVE  /\ \A r : FactorOffset(r) \in Nat
           /\ FactorOffset(0) = 0 /\ FactorOffset(Dimension) = Cardinality(Pairs)
           /\ \A r \in Rows : \A c \in factor[r] :
                  /\ SlotOf(r, c) \in 0 .. FactorOffset(Dimension) - 1
                  /\ SlotOf(r, c) \in RowSlots(r)
                  /\ ColumnAt(r, SlotOf(r, c)) = c
           /\ \A r, s \in Rows : \A c \in factor[r], d \in factor[s] :
                  SlotOf(r, c) = SlotOf(s, d) => r = s /\ c = d
           /\ \A r \in Rows : \A c, d \in factor[r] : SlotOf(r, c) < SlotOf(r, d) <=> c < d
           /\ \A r \in Rows : \A x \in RowSlots(r) :
                  ColumnAt(r, x) \in factor[r] /\ SlotOf(r, ColumnAt(r, x)) = x
<1>1. /\ Sortable(Pairs, PairRow, PairColumn, Dimension)
      /\ \A r : FactorOffset(r) = RowStart(Pairs, PairRow, r)
      /\ \A r \in Rows : \A c \in factor[r] :
             /\ <<r, c>> \in Pairs
             /\ SlotOf(r, c) = SortedPlace(Pairs, PairRow, PairColumn, <<r, c>>)
    BY PairsAreSortable
<1>2. Sorts(Pairs, PairRow, PairColumn, Dimension)
    BY <1>1, CountingSorts
<1>3. \A s \in Pairs : /\ s = <<s[1], s[2]>> /\ s[1] \in Rows /\ s[2] \in factor[s[1]]
                       /\ PairRow[s] = s[1] /\ PairColumn[s] = s[2]
    BY DEF Pairs, PairRow, PairColumn
<1>4. /\ Cardinality(Pairs) \in Nat /\ \A r : FactorOffset(r) \in 0 .. Cardinality(Pairs)
      /\ FactorOffset(0) = 0 /\ FactorOffset(Dimension) = Cardinality(Pairs)
    BY <1>1, RowStarts
<1>5. ASSUME NEW r \in Rows, NEW c \in factor[r]
      PROVE  SlotOf(r, c) \in 0 .. FactorOffset(Dimension) - 1 /\ SlotOf(r, c) \in RowSlots(r)
    <2> PICK s : s = <<r, c>>
        OBVIOUS
    <2>0. s \in Pairs /\ PairRow[s] = r
        BY <1>1, <1>3
    <2>1. /\ SlotOf(r, c) \in 0 .. Cardinality(Pairs) - 1
          /\ FactorOffset(r) <= SlotOf(r, c) /\ SlotOf(r, c) < FactorOffset(r + 1)
        BY <1>1, <1>2, <2>0 DEF Sorts
    <2>2. FactorOffset(r) \in Int /\ FactorOffset(r + 1) \in Int
        BY <1>4
    <2> QED
        BY <1>4, <2>1, <2>2 DEF RowSlots
<1>6. ASSUME NEW r \in Rows, NEW s \in Rows, NEW c \in factor[r], NEW d \in factor[s],
             SlotOf(r, c) = SlotOf(s, d)
      PROVE  r = s /\ c = d
    <2> PICK t, u : t = <<r, c>> /\ u = <<s, d>>
        OBVIOUS
    <2>0. /\ t \in Pairs /\ u \in Pairs
          /\ SortedPlace(Pairs, PairRow, PairColumn, t) = SortedPlace(Pairs, PairRow, PairColumn, u)
        BY <1>1, <1>6
    <2>1. t = u
        BY <1>2, <2>0 DEF Sorts
    <2> QED
        BY <2>1
<1>7. ASSUME NEW r \in Rows, NEW c \in factor[r], NEW d \in factor[r]
      PROVE  SlotOf(r, c) < SlotOf(r, d) <=> c < d
    <2>1. /\ <<r, c>> \in Pairs /\ <<r, d>> \in Pairs
          /\ PairRow[<<r, c>>] = PairRow[<<r, d>>]
          /\ PairColumn[<<r, c>>] = c /\ PairColumn[<<r, d>>] = d
        BY <1>1, <1>3
    <2> QED
        BY <1>1, <1>2, <2>1 DEF Sorts
<1>8. \A r \in Rows : \A c \in factor[r] : ColumnAt(r, SlotOf(r, c)) = c
    BY <1>6 DEF ColumnAt
<1>9. ASSUME NEW r \in Rows, NEW x \in RowSlots(r)
      PROVE  \E c \in factor[r] : SlotOf(r, c) = x
    <2>1. /\ FactorOffset(r) \in 0 .. Cardinality(Pairs)
          /\ FactorOffset(r + 1) \in 0 .. Cardinality(Pairs)
        BY <1>4
    <2>2. /\ x \in 0 .. Cardinality(Pairs) - 1
          /\ FactorOffset(r) <= x /\ x < FactorOffset(r + 1)
        BY <1>4, <2>1 DEF RowSlots
    <2>3. PICK s \in Pairs : SortedPlace(Pairs, PairRow, PairColumn, s) = x
        BY <1>2, <2>2 DEF Sorts
    <2>4. s = <<s[1], s[2]>> /\ s[1] \in Rows /\ s[2] \in factor[s[1]] /\ PairRow[s] = s[1]
        BY <1>3
    <2>5. r \in 0 .. Dimension - 1
        BY RowsAreFinite
    <2>6. s[1] = r
        BY <1>1, <1>2, <2>2, <2>3, <2>4, <2>5 DEF Sorts
    <2>7. SlotOf(r, s[2]) = x
        BY <1>1, <2>3, <2>4, <2>6
    <2> QED
        BY <2>4, <2>6, <2>7
<1>10. \A r \in Rows : \A x \in RowSlots(r) :
           ColumnAt(r, x) \in factor[r] /\ SlotOf(r, ColumnAt(r, x)) = x
    BY <1>9 DEF ColumnAt
<1>11. \A r : FactorOffset(r) \in Nat
    BY <1>4
<1> QED
    BY <1>4, <1>5, <1>6, <1>7, <1>8, <1>10, <1>11

-----------------------------------------------------------------------------
\* What the merge needs: sorted rows, and a factor with all their columns.
Mergeable == Inverted /\ Built /\ FactorIsBuilt

\* Every column of a permuted row is a column of the factor's row.
LEMMA EntriesHaveSlots ==
    ASSUME Mergeable
    PROVE  /\ \A e \in matrix : ColumnOf(e) \in factor[RowOf(e)]
           /\ \A r \in Rows : factor[r] \in SUBSET Rows
           /\ \A r \in Rows : \A k \in RowEntries(r) : columns[k] \in factor[r]
<1>1. \A r \in Rows : Pattern(r) \subseteq factor[r] /\ factor[r] \in SUBSET Rows
    BY DEF Mergeable, FactorIsBuilt, IsFactor
<1>2. \A r \in Rows : Pattern(r) = {ColumnOf(e) : e \in {f \in matrix : RowOf(f) = r}}
    BY PermutedRows DEF Mergeable
<1>3. \A e \in matrix : RowOf(e) \in Rows
    BY EntriesPermute DEF Mergeable
<1> QED
    BY <1>1, <1>2, <1>3 DEF Pattern

\* One turn of the merge: from a slot of the row that is not past the column's, the next
\* one whose column is not left of it is the column's own.
LEMMA MergeStops ==
    ASSUME Mergeable, NEW r \in Rows, NEW c \in factor[r],
           NEW from \in Int, FactorOffset(r) <= from, from <= SlotOf(r, c)
    PROVE  Min({FactorOffset(r + 1)} \cup
               {x \in from .. FactorOffset(r + 1) - 1 : ColumnAt(r, x) >= c}) = SlotOf(r, c)
<1> DEFINE low == FactorOffset(r)
           high == FactorOffset(r + 1)
           slot == SlotOf(r, c)
           T == {high} \cup {x \in from .. high - 1 : ColumnAt(r, x) >= c}
<1>1. factor \in [Rows -> SUBSET Rows]
    BY DEF Mergeable, FactorIsBuilt
<1>2. low \in Nat /\ high \in Nat /\ RowSlots(r) = low .. high - 1
    BY <1>1, SlotsSort DEF RowSlots
<1>3. slot \in RowSlots(r) /\ ColumnAt(r, slot) = c
    BY <1>1, SlotsSort
<1>4. c \in Nat /\ \A d \in factor[r] : d \in Nat
    BY <1>1, RowsAreFinite
<1>5. \A x \in RowSlots(r) : ColumnAt(r, x) \in factor[r] /\ SlotOf(r, ColumnAt(r, x)) = x
    BY <1>1, SlotsSort
<1>6. \A d \in factor[r] : SlotOf(r, c) < SlotOf(r, d) <=> c < d
    BY <1>1, SlotsSort
<1>7. T \in SUBSET Nat /\ T # {}
    BY <1>2
<1>8. slot \in T
    <2>1. slot \in from .. high - 1
        BY <1>2, <1>3
    <2> QED
        BY <1>3, <1>4, <2>1
<1>9. ASSUME NEW x \in T PROVE slot <= x
    <2>1. CASE x = high
        BY <1>2, <1>3, <2>1
    <2>2. CASE x # high
        <3>1. x \in from .. high - 1 /\ ColumnAt(r, x) >= c
            BY <2>2
        <3>2. x \in RowSlots(r)
            BY <1>2, <3>1
        <3> PICK d : d = ColumnAt(r, x)
            OBVIOUS
        <3>3. d \in factor[r] /\ SlotOf(r, d) = x /\ d \in Nat /\ d >= c
            BY <1>4, <1>5, <3>1, <3>2
        <3>4. CASE d = c
            BY <1>2, <1>3, <3>3, <3>4
        <3>5. CASE d # c
            <4>1. c < d
                BY <1>4, <3>3, <3>5
            <4>2. slot < x
                BY <1>6, <3>3, <4>1
            <4> QED
                BY <1>2, <1>3, <3>2, <4>2
        <3> QED
            BY <3>4, <3>5
    <2> QED
        BY <2>1, <2>2
<1> HIDE DEF T, slot, low, high
<1>10. Min(T) \in T /\ \A x \in T : Min(T) <= x
    BY <1>7, MinOfNaturals
<1>11. slot <= Min(T) /\ Min(T) <= slot /\ slot \in Int /\ Min(T) \in Int
    <2> PICK least : least = Min(T)
        OBVIOUS
    <2>1. least \in T /\ \A x \in T : least <= x
        BY <1>10
    <2>2. slot \in Int /\ least \in Int
        BY <1>7, <1>8, <2>1
    <2>3. slot <= least /\ least <= slot
        BY <1>8, <1>9, <2>1
    <2> QED
        BY <2>2, <2>3
<1>12. Min(T) = slot
    BY <1>11
<1> QED
    BY <1>12 DEF T, slot, low, high

\* The equation of the merge at an element of the row, from the stops before it.
StopFrom(stop, r, k) ==
    LET from == IF k = RowOffset(r) THEN FactorOffset(r) ELSE stop[k - 1]
    IN  Min({FactorOffset(r + 1)} \cup
            {x \in from .. FactorOffset(r + 1) - 1 : ColumnAt(r, x) >= columns[k]})

\* If the merge stopped right before, it stops right here.
LEMMA MergeContinues ==
    ASSUME Mergeable, NEW r \in Rows, NEW k \in RowEntries(r), NEW stop,
           k # RowOffset(r) => stop[k - 1] = SlotOf(r, columns[k - 1])
    PROVE  StopFrom(stop, r, k) = SlotOf(r, columns[k])
<1>1. factor \in [Rows -> SUBSET Rows] /\ columns[k] \in factor[r]
    BY EntriesHaveSlots DEF Mergeable, FactorIsBuilt
<1>2. /\ FactorOffset(r) \in Nat /\ FactorOffset(r + 1) \in Nat
      /\ SlotOf(r, columns[k]) \in RowSlots(r)
    BY <1>1, SlotsSort
<1>3. CASE k = RowOffset(r)
    <2>1. FactorOffset(r) \in Int /\ FactorOffset(r) <= SlotOf(r, columns[k])
        BY <1>2 DEF RowSlots
    <2> QED
        BY <1>1, <1>3, <2>1, MergeStops DEF StopFrom
<1>4. CASE k # RowOffset(r)
    <2>1. RowOffset(r) \in Nat /\ RowOffset(r + 1) \in Nat
        BY DestinationsSort DEF Mergeable
    <2>2. k - 1 \in RowEntries(r) /\ k \in Int
        BY <1>4, <2>1 DEF RowEntries
    <2>3. columns[k - 1] \in factor[r]
        BY <2>2, EntriesHaveSlots
    <2>4. columns[k - 1] < columns[k]
        <3>1. Ascending(columns, RowOffset(r), RowOffset(r + 1) - 1)
            BY RowsAreSorted DEF Mergeable, Built
        <3> QED
            BY <2>1, <2>2, <3>1 DEF Ascending, RowEntries
    <2>5. SlotOf(r, columns[k - 1]) < SlotOf(r, columns[k])
        BY <1>1, <2>3, <2>4, SlotsSort
    <2>6. SlotOf(r, columns[k - 1]) \in RowSlots(r)
        BY <1>1, <2>3, SlotsSort
    <2> PICK from : from = SlotOf(r, columns[k - 1])
        OBVIOUS
    <2>7. from \in Int /\ FactorOffset(r) <= from /\ from <= SlotOf(r, columns[k])
        BY <1>2, <2>5, <2>6 DEF RowSlots
    <2>8. Min({FactorOffset(r + 1)} \cup
              {x \in from .. FactorOffset(r + 1) - 1 : ColumnAt(r, x) >= columns[k]})
              = SlotOf(r, columns[k])
        BY <1>1, <2>7, MergeStops
    <2> QED
        BY <1>4, <2>8 DEF StopFrom
<1> QED
    BY <1>3, <1>4

\* The merge finds the slot of every element of a row.
LEMMA MergeFindsSlots ==
    ASSUME Mergeable, NEW r \in Rows
    PROVE  \A k \in RowEntries(r) : Stops(r)[k] = SlotOf(r, columns[k])
<1> DEFINE Solves(h) == h = [k \in RowEntries(r) |-> StopFrom(h, r, k)]
<1>1. RowOffset(r) \in Nat /\ RowOffset(r + 1) \in Nat
    BY DestinationsSort DEF Mergeable
<1>2. \E h : Solves(h)
    <2> DEFINE g == [k \in RowEntries(r) |-> SlotOf(r, columns[k])]
    <2>1. ASSUME NEW k \in RowEntries(r) PROVE StopFrom(g, r, k) = SlotOf(r, columns[k])
        <3>1. k # RowOffset(r) => k - 1 \in RowEntries(r)
            BY <1>1 DEF RowEntries
        <3>2. k # RowOffset(r) => g[k - 1] = SlotOf(r, columns[k - 1])
            BY <3>1
        <3> HIDE DEF g
        <3> QED
            BY <3>2, MergeContinues
    <2>2. Solves(g)
        BY <2>1
    <2> QED
        BY <2>2
<1>3. Stops(r) = CHOOSE h : Solves(h)
    BY DEF Stops, StopFrom
<1>4. Solves(Stops(r))
    BY <1>2, <1>3
<1>5. \A k \in RowEntries(r) : Stops(r)[k] = StopFrom(Stops(r), r, k)
    BY <1>4
<1> HIDE DEF Solves
<1> DEFINE Wrong == {k \in RowEntries(r) : Stops(r)[k] # SlotOf(r, columns[k])}
<1> SUFFICES ASSUME Wrong # {} PROVE FALSE
    OBVIOUS
<1>6. PICK k \in Wrong : \A x \in Wrong : k <= x
    <2>1. Wrong \in SUBSET Nat
        BY <1>1 DEF RowEntries
    <2> QED
        BY <2>1, LeastNatural
<1>7. ASSUME k # RowOffset(r) PROVE Stops(r)[k - 1] = SlotOf(r, columns[k - 1])
    <2>1. k \in Int /\ k - 1 \in RowEntries(r)
        BY <1>1, <1>7 DEF RowEntries
    <2>2. k - 1 \notin Wrong
        BY <1>6, <2>1
    <2> QED
        BY <2>1, <2>2
<1>8. StopFrom(Stops(r), r, k) = SlotOf(r, columns[k])
    BY <1>7, MergeContinues
<1> QED
    BY <1>5, <1>8

\* "input entry is absent from the symbolic LU pattern" is never thrown, and matrix_to_lu
\* leads from the position of an entry to the slot of its permuted row and column.
LEMMA MappingIsRight ==
    ASSUME Mergeable
    PROVE  /\ \A k \in Positions : Present(k)
           /\ Mapped = [position \in Positions |-> Mapped[position]]
           /\ \A e \in matrix : Mapped[Position(e)] = SlotOf(RowOf(e), ColumnOf(e))
<1>0. factor \in [Rows -> SUBSET Rows]
    BY DEF Mergeable, FactorIsBuilt
<1>1. \A r \in Rows : \A k \in RowEntries(r) : Stops(r)[k] = SlotOf(r, columns[k])
    BY MergeFindsSlots
<1>2. ASSUME NEW k \in Positions PROVE Present(k)
    <2> PICK r : r = RowAt(k)
        OBVIOUS
    <2>1. r \in Rows /\ k \in RowEntries(r)
        BY PermutedRows DEF Mergeable
    <2>2. columns[k] \in factor[r]
        BY <2>1, EntriesHaveSlots
    <2>3. /\ SlotOf(r, columns[k]) \in RowSlots(r)
          /\ ColumnAt(r, SlotOf(r, columns[k])) = columns[k]
        BY <1>0, <2>1, <2>2, SlotsSort
    <2>4. Stops(r)[k] = SlotOf(r, columns[k])
        BY <1>1, <2>1
    <2> QED
        BY <2>3, <2>4 DEF Present
<1>3. ASSUME NEW e \in matrix PROVE Mapped[Position(e)] = SlotOf(RowOf(e), ColumnOf(e))
    <2> PICK at : at = Destination(e)
        OBVIOUS
    <2>1. /\ at \in Positions /\ columns[at] = ColumnOf(e) /\ originals[at] = Position(e)
          /\ RowAt(at) = RowOf(e)
        BY EntriesAreFound, PermutedRows DEF Mergeable
    <2>2. Position(e) \in Positions
        BY PositionsSort DEF Mergeable, Inverted
    <2>3. ASSUME NEW k \in Positions, originals[k] = Position(e) PROVE k = at
        <3>1. EntryAt[k] \in matrix /\ Destination(EntryAt[k]) = k
            BY EntriesAreFound DEF Mergeable
        <3>2. Position(EntryAt[k]) = Position(e)
            BY <2>3 DEF Mergeable, Built
        <3>3. EntryAt[k] = e
            BY <3>1, <3>2, PositionsSort DEF Mergeable, Inverted
        <3> QED
            BY <3>1, <3>3
    <2>4. (CHOOSE k \in Positions : originals[k] = Position(e)) = at
        BY <2>1, <2>3
    <2>5. Mapped[Position(e)] = Stops(RowAt(at))[at]
        BY <2>2, <2>4 DEF Mapped
    <2>6. RowOf(e) \in Rows /\ at \in RowEntries(RowOf(e))
        BY DestinationsSort, EntriesPermute DEF Mergeable
    <2> QED
        BY <1>1, <2>1, <2>5, <2>6
<1>4. Mapped = [position \in Positions |-> Mapped[position]]
    BY DEF Mapped
<1> QED
    BY <1>2, <1>3, <1>4

-----------------------------------------------------------------------------
\* What the counting sort makes of levels: rows level by level.
Lists(rows, at, level, top) ==
    /\ rows \in [Rows -> Rows]
    /\ \A i \in Rows : Place(level, rows[i]) = i
    /\ \A r \in Rows : /\ Place(level, r) \in Rows /\ rows[Place(level, r)] = r
                       /\ at[level[r]] <= Place(level, r)
                       /\ Place(level, r) < at[level[r] + 1]
    /\ \A r \in Rows : \A l \in 0 .. top - 1 :
           at[l] <= Place(level, r) /\ Place(level, r) < at[l + 1] => level[r] = l

\* A schedule lists every row once, level after level.
LEMMA ScheduleLists ==
    ASSUME NEW level, Levelled(level, Dimension)
    PROVE  Lists(ScheduledRows(level), LevelOffsets(level), level, Levels(level))
<1>1. Rows = 0 .. Dimension - 1 /\ Dimension \in Nat \ {0}
    BY RowsAreFinite
<1> QED
    BY <1>1, ScheduleIsAPermutation DEF Lists

\* A schedule of levels that respect the dependencies passes validate_schedule.
LEMMA SchedulePasses ==
    ASSUME NEW deps, NEW level, Levelled(level, Dimension),
           \A r \in Rows : \A d \in deps[r] : d \in Rows /\ level[d] < level[r]
    PROVE  /\ ScheduleDimensions(Schedule(level))
           /\ ValidSchedule(Schedule(level), deps)
<1> DEFINE s == Schedule(level)
<1>1. Rows = 0 .. Dimension - 1 /\ Dimension \in Nat \ {0} /\ Cardinality(Rows) = Dimension
    BY RowsAreFinite
<1> PICK top : top = Levels(level)
    OBVIOUS
<1>2. s.offsets = LevelOffsets(level) /\ s.rows = ScheduledRows(level)
    BY DEF Schedule
<1>3. /\ top \in 1 .. Dimension
      /\ \A r \in Rows : level[r] \in 0 .. top - 1
    BY <1>1, LevelsAreCounted
<1>4. /\ s.offsets \in [0 .. top -> 0 .. Dimension]
      /\ s.offsets[0] = 0 /\ s.offsets[top] = Dimension
    BY <1>1, <1>2, OffsetsAscend
<1>5. /\ s.rows \in [Rows -> Rows]
      /\ \A i \in Rows : Place(level, s.rows[i]) = i
      /\ \A r \in Rows : /\ Place(level, r) \in Rows /\ s.rows[Place(level, r)] = r
                         /\ s.offsets[level[r]] <= Place(level, r)
                         /\ Place(level, r) < s.offsets[level[r] + 1]
      /\ \A r \in Rows : \A l \in 0 .. top - 1 :
             s.offsets[l] <= Place(level, r) /\ Place(level, r) < s.offsets[l + 1]
                 => level[r] = l
    <2>1. Lists(ScheduledRows(level), LevelOffsets(level), level, top)
        BY ScheduleLists
    <2>2. Lists(s.rows, s.offsets, level, top)
        BY <1>2, <2>1
    <2> HIDE DEF s
    <2> QED
        BY <2>2 DEF Lists
<1> HIDE DEF s
<1>6. Cardinality(DOMAIN s.offsets) = top + 1 /\ Cardinality(DOMAIN s.rows) = Dimension
    <2>1. Cardinality(0 .. top) = top + 1
        BY <1>3, FS_Interval
    <2> QED
        BY <1>1, <1>4, <1>5, <2>1
<1>7. ScheduleDimensions(s)
    BY <1>3, <1>4, <1>6 DEF ScheduleDimensions
<1>8. DOMAIN s.offsets \ {Cardinality(DOMAIN s.offsets) - 1} = 0 .. top - 1
    <2>1. DOMAIN s.offsets = 0 .. top /\ Cardinality(DOMAIN s.offsets) - 1 = top
        BY <1>3, <1>4, <1>6
    <2> QED
        BY <1>3, <2>1
<1>9. ASSUME NEW r \in Rows PROVE LevelsWith(s, r) = {level[r]}
    <2>1. LevelsWith(s, r)
              = {l \in 0 .. top - 1 : \E k \in s.offsets[l] .. s.offsets[l + 1] - 1 : s.rows[k] = r}
        BY <1>8 DEF LevelsWith
    <2>2. \A l \in 0 .. top - 1 : /\ s.offsets[l] \in 0 .. Dimension
                                  /\ s.offsets[l + 1] \in 0 .. Dimension
        BY <1>3, <1>4
    <2>3. ASSUME NEW l \in 0 .. top - 1, NEW k \in s.offsets[l] .. s.offsets[l + 1] - 1,
                 s.rows[k] = r
          PROVE  l = level[r]
        <3> PICK from, to : from = s.offsets[l] /\ to = s.offsets[l + 1]
            OBVIOUS
        <3>1. from \in 0 .. Dimension /\ to \in 0 .. Dimension /\ k \in from .. to - 1
            BY <2>2
        <3>2. k \in Rows /\ from <= k /\ k < to
            BY <1>1, <3>1
        <3>3. Place(level, r) = k
            BY <1>5, <2>3, <3>2
        <3> QED
            BY <1>5, <3>2, <3>3
    <2>4. \E k \in s.offsets[level[r]] .. s.offsets[level[r] + 1] - 1 : s.rows[k] = r
        <3> PICK from, to : from = s.offsets[level[r]] /\ to = s.offsets[level[r] + 1]
            OBVIOUS
        <3>1. from \in 0 .. Dimension /\ to \in 0 .. Dimension
            BY <1>3, <2>2
        <3>2. Place(level, r) \in Rows /\ from <= Place(level, r) /\ Place(level, r) < to
            BY <1>5
        <3>3. Place(level, r) \in from .. to - 1
            BY <1>1, <3>1, <3>2
        <3> QED
            BY <1>5, <3>3
    <2>5. level[r] \in 0 .. top - 1
        BY <1>3
    <2>6. \A l : l \in LevelsWith(s, r) <=> l = level[r]
        BY <2>1, <2>3, <2>4, <2>5
    <2> QED
        BY <2>6
<1>10. \A k, l \in DOMAIN s.rows : s.rows[k] = s.rows[l] => k = l
    BY <1>5
<1>11. \A r \in Rows : Cardinality(LevelsWith(s, r)) = 1
    <2>1. \A r \in Rows : Cardinality({level[r]}) = 1
        BY FS_Singleton
    <2> QED
        BY <1>9, <2>1
<1>12. \A r \in Rows : \A d \in deps[r] :
           \A k \in LevelsWith(s, d), l \in LevelsWith(s, r) : k < l
    BY <1>9
<1> QED
    BY <1>7, <1>10, <1>11, <1>12 DEF ValidSchedule, s

\* Both schedules of the plan.
LEMMA SchedulesPass ==
    ASSUME factor \in [Rows -> SUBSET Rows]
    PROVE  /\ ScheduleDimensions(Schedule(RowLevels(Rows, ForwardDeps)))
           /\ ScheduleDimensions(Schedule(RowLevels(Rows, BackwardDeps)))
           /\ ValidSchedule(Schedule(RowLevels(Rows, ForwardDeps)), ForwardDeps)
           /\ ValidSchedule(Schedule(RowLevels(Rows, BackwardDeps)), BackwardDeps)
<1>1. Rows = 0 .. Dimension - 1 /\ Dimension \in Nat
    BY RowsAreFinite
<1>2. \A r \in Rows : ForwardDeps[r] \subseteq 0 .. r - 1 /\ ForwardDeps[r] \subseteq Rows
    BY <1>1 DEF ForwardDeps, Lower
<1>3. \A r \in Rows : /\ BackwardDeps[r] \subseteq r + 1 .. Dimension - 1
                      /\ BackwardDeps[r] \subseteq Rows
    BY <1>1 DEF BackwardDeps, Upper
<1> PICK forward, backward : forward = ForwardDeps /\ backward = BackwardDeps
    OBVIOUS
<1> PICK up, down : up = RowLevels(Rows, forward) /\ down = RowLevels(Rows, backward)
    OBVIOUS
<1>4. /\ Levelled(up, Dimension)
      /\ \A r \in Rows : \A d \in forward[r] : up[d] < up[r]
    <2>1. \A r \in 0 .. Dimension - 1 : forward[r] \subseteq 0 .. r - 1
        BY <1>1, <1>2
    <2>2. up = RowLevels(0 .. Dimension - 1, forward)
        BY <1>1
    <2> QED
        BY <1>1, <2>1, <2>2, RowLevelsRespectDependencies
<1>5. /\ Levelled(down, Dimension)
      /\ \A r \in Rows : \A d \in backward[r] : down[d] < down[r]
    <2>1. \A r \in 0 .. Dimension - 1 : backward[r] \subseteq r + 1 .. Dimension - 1
        BY <1>1, <1>3
    <2>2. down = RowLevels(0 .. Dimension - 1, backward)
        BY <1>1
    <2> QED
        BY <1>1, <2>1, <2>2, BackwardLevelsRespectDependencies
<1>6. ScheduleDimensions(Schedule(up)) /\ ValidSchedule(Schedule(up), forward)
    <2>1. \A r \in Rows : \A d \in forward[r] : d \in Rows /\ up[d] < up[r]
        BY <1>2, <1>4
    <2> QED
        BY <1>4, <2>1, SchedulePasses
<1>7. ScheduleDimensions(Schedule(down)) /\ ValidSchedule(Schedule(down), backward)
    <2>1. \A r \in Rows : \A d \in backward[r] : d \in Rows /\ down[d] < down[r]
        BY <1>3, <1>5
    <2> QED
        BY <1>5, <2>1, SchedulePasses
<1> QED
    BY <1>6, <1>7

-----------------------------------------------------------------------------
\* block_offsets: from 0 to the dimension, each block with a row.
Bounds(at, blocks) ==
    /\ blocks \in Nat \ {0} /\ DOMAIN at = 0 .. blocks
    /\ at[0] = 0 /\ at[blocks] = Dimension
    /\ \A b \in 0 .. blocks : at[b] \in 0 .. Dimension
    /\ \A a, b \in 0 .. blocks : a < b => at[a] < at[b]

\* The cuts between blocks, in order, are their bounds.
LEMMA BlocksAscend ==
    ASSUME NEW cuts \in SUBSET (0 .. Dimension), 0 \in cuts, Dimension \in cuts
    PROVE  Bounds(InOrder(cuts), Cardinality(cuts) - 1)
<1> DEFINE row == [c \in cuts |-> 0]
           col == [c \in cuts |-> c]
           place(c) == SortedPlace(cuts, row, col, c)
           at == InOrder(cuts)
<1> PICK n : n = Cardinality(cuts) - 1
    OBVIOUS
<1>0. Dimension \in Nat \ {0}
    BY RowsAreFinite
<1>1. \A c \in cuts : row[c] = 0 /\ col[c] = c /\ c \in Nat
    BY <1>0
<1>2. IsFiniteSet(cuts)
    <2>1. IsFiniteSet(0 .. Dimension)
        BY <1>0, FS_Interval
    <2> QED
        BY <2>1, FS_Subset
<1> HIDE DEF row, col
<1>3. Sortable(cuts, row, col, 1)
    BY <1>1, <1>2 DEF Sortable
<1>4. Sorts(cuts, row, col, 1)
    BY <1>3, CountingSorts
<1>5. /\ \A c \in cuts : place(c) \in 0 .. n
      /\ \A c, d \in cuts : place(c) < place(d) <=> c < d
      /\ \A c, d \in cuts : place(c) = place(d) => c = d
      /\ \A k \in 0 .. n : \E c \in cuts : place(c) = k
    BY <1>1, <1>4 DEF Sorts
<1>6. RowStart(cuts, row, 0) = 0
    BY <1>3, RowStarts
<1>7. ASSUME NEW c \in cuts PROVE Cardinality({d \in cuts : d < c}) = place(c)
    <2>1. {d \in cuts : d < c} = LeftInRow(cuts, row, col, c)
        BY <1>1 DEF LeftInRow
    <2>2. IsFiniteSet({d \in cuts : d < c})
        BY <1>2, FS_Subset
    <2>3. Cardinality({d \in cuts : d < c}) \in Nat
        BY <2>2, FS_CardinalityType
    <2> QED
        BY <1>1, <1>6, <2>1, <2>3 DEF SortedPlace
<1> HIDE DEF place
<1>8. at = [k \in 0 .. n |-> CHOOSE c \in cuts : Cardinality({d \in cuts : d < c}) = k]
    BY DEF InOrder
<1>9. \A k \in 0 .. n : at[k] \in cuts /\ place(at[k]) = k
    <2> SUFFICES ASSUME NEW k \in 0 .. n PROVE at[k] \in cuts /\ place(at[k]) = k
        OBVIOUS
    <2>1. \E c \in cuts : Cardinality({d \in cuts : d < c}) = k
        BY <1>5, <1>7
    <2>2. at[k] \in cuts /\ Cardinality({d \in cuts : d < at[k]}) = k
        BY <1>8, <2>1
    <2> QED
        BY <1>7, <2>2
<1>10. \A a, b \in 0 .. n : a < b => at[a] < at[b]
    <2> SUFFICES ASSUME NEW a \in 0 .. n, NEW b \in 0 .. n, a < b PROVE at[a] < at[b]
        OBVIOUS
    <2>1. at[a] \in cuts /\ at[b] \in cuts /\ place(at[a]) < place(at[b])
        BY <1>9
    <2> QED
        BY <1>5, <2>1
<1>11. n \in Nat
    <2>1. place(0) \in 0 .. n
        BY <1>5
    <2>2. Cardinality(cuts) \in Nat
        BY <1>2, FS_CardinalityType
    <2> QED
        BY <2>1, <2>2
<1>12. at[0] = 0
    <2>1. at[0] \in cuts /\ place(at[0]) = 0 /\ place(0) \in 0 .. n
        BY <1>5, <1>9, <1>11
    <2>2. ~(place(0) < place(at[0]))
        BY <2>1
    <2>3. ~(0 < at[0])
        BY <1>5, <2>1, <2>2
    <2>4. at[0] \in Nat
        BY <1>1, <2>1
    <2> QED
        BY <2>3, <2>4
<1>13. at[n] = Dimension
    <2>1. at[n] \in cuts /\ place(at[n]) = n /\ place(Dimension) \in 0 .. n
        BY <1>5, <1>9, <1>11
    <2>2. ~(place(at[n]) < place(Dimension))
        BY <1>11, <2>1
    <2>3. ~(at[n] < Dimension)
        BY <1>5, <2>1, <2>2
    <2>4. at[n] \in 0 .. Dimension
        BY <2>1
    <2> QED
        BY <1>0, <2>3, <2>4
<1>14. n # 0
    BY <1>0, <1>12, <1>13
<1>15. DOMAIN at = 0 .. n /\ \A b \in 0 .. n : at[b] \in 0 .. Dimension
    BY <1>8, <1>9
<1> QED
    BY <1>10, <1>11, <1>12, <1>13, <1>14, <1>15 DEF Bounds

-----------------------------------------------------------------------------
\* A scale is never zero.
LEMMA ScalesArePositive ==
    ASSUME Inverted, NEW r \in Rows
    PROVE  ScaleOf(r) \in Nat \ {0}
<1> DEFINE T == {0} \cup {Magnitude(e) : e \in {f \in matrix : RowOf(f) = r}}
<1>1. T \in SUBSET (0 .. Dimension) /\ T # {} /\ 0 \in T /\ Dimension \in Nat
    <2>1. Dimension \in Nat /\ Rows = 0 .. Dimension - 1
        BY RowsAreFinite
    <2>2. ASSUME NEW e \in matrix PROVE Magnitude(e) \in 0 .. Dimension
        <3>1. e[2] \in 0 .. Dimension - 1
            BY <2>1 DEF Inverted
        <3> QED
            BY <2>1, <3>1 DEF Magnitude
    <2> QED
        BY <2>1, <2>2
<1>2. ScaleOf(r) = IF Max(T) = 0 THEN 1 ELSE Max(T)
    BY DEF ScaleOf
<1> HIDE DEF T
<1>3. Max(T) \in T
    BY <1>1, MaxOfNaturals
<1>4. Max(T) \in Nat
    <2> PICK greatest : greatest = Max(T)
        OBVIOUS
    <2>1. greatest \in 0 .. Dimension
        BY <1>1, <1>3
    <2> QED
        BY <2>1
<1> QED
    BY <1>2, <1>4

\* AnalysisPlan's sum and MatrixInput's are the same.
LEMMA TotalIsASum ==
    ASSUME NEW f, NEW S
    PROVE  Total(f, S) = SumOver(f, S)
    BY DEF Total, SumOver

\* A row has a number of scalar updates, not less than none.
LEMMA UpdatesAreNaturals ==
    ASSUME factor \in [Rows -> SUBSET Rows], NEW r \in Rows
    PROVE  RowUpdates(r) \in Nat
<1> DEFINE f == [d \in Rows |-> Cardinality(Upper(factor, d))]
<1>1. Lower(factor, r) \in SUBSET Rows /\ \A d \in Rows : Upper(factor, d) \in SUBSET Rows
    BY DEF Lower, Upper
<1>2. ASSUME NEW T \in SUBSET Rows PROVE IsFiniteSet(T) /\ Cardinality(T) \in Nat
    BY RowsAreFinite, PartOfFinite
<1>3. \A d \in Lower(factor, r) : f[d] \in Nat
    BY <1>1, <1>2
<1>4. RowUpdates(r) = SumOver(f, Lower(factor, r))
    BY TotalIsASum DEF RowUpdates
<1> HIDE DEF f
<1> QED
    BY <1>1, <1>2, <1>3, <1>4, SumOfNaturals

-----------------------------------------------------------------------------
\* What the steps of the analysis leave behind them.
Delivered ==
    /\ p \in [Rows -> Rows] /\ q \in [Rows -> Rows]
    /\ IsPermutation(p) /\ IsPermutation(q)
    /\ \E cuts \in SUBSET (1 .. Dimension - 1) : offsets = InOrder(cuts \cup {0, Dimension})

Counted ==
    /\ updates = [r \in Rows |-> RowUpdates(r)]
    /\ total = Total(updates, Rows)
    /\ schedules = [forward  |-> Schedule(RowLevels(Rows, ForwardDeps)),
                    backward |-> Schedule(RowLevels(Rows, BackwardDeps))]

Analyzed == Delivered /\ Mergeable /\ mapping = Mapped /\ Counted

\* The block offsets an ordering delivers are bounds of blocks.
LEMMA OffsetsAreBounds ==
    ASSUME Delivered
    PROVE  Bounds(offsets, Cardinality(DOMAIN offsets) - 1)
<1>1. PICK cuts \in SUBSET (1 .. Dimension - 1) : offsets = InOrder(cuts \cup {0, Dimension})
    BY DEF Delivered
<1> PICK all : all = cuts \cup {0, Dimension}
    OBVIOUS
<1>2. all \in SUBSET (0 .. Dimension) /\ 0 \in all /\ Dimension \in all
    BY <1>1, RowsAreFinite
<1> PICK n : n = Cardinality(all) - 1
    OBVIOUS
<1>3. Bounds(offsets, n)
    BY <1>1, <1>2, BlocksAscend
<1>4. n \in Nat /\ DOMAIN offsets = 0 .. n
    BY <1>3 DEF Bounds
<1>5. Cardinality(DOMAIN offsets) = n + 1
    BY <1>4, FS_Interval
<1>6. Cardinality(DOMAIN offsets) - 1 = n
    BY <1>4, <1>5
<1> QED
    BY <1>3, <1>6

\* The plan passes what a release build tests of it, and what a debug build tests.
LEMMA PlanPasses ==
    ASSUME Analyzed
    PROVE  ValidDimensions /\ Valid
<1> PICK blocks : blocks = Cardinality(DOMAIN offsets) - 1
    OBVIOUS
<1>1. Bounds(offsets, blocks)
    BY OffsetsAreBounds DEF Analyzed
<1>0. blocks \in Nat \ {0} /\ DOMAIN offsets = 0 .. blocks
    BY <1>1 DEF Bounds
<1>2. blocks >= 1 /\ offsets[0] = 0 /\ offsets[blocks] = Dimension
    <2>1. offsets[0] = 0 /\ offsets[blocks] = Dimension
        BY <1>1 DEF Bounds
    <2>2. blocks >= 1
        <3>1. \A n \in Nat \ {0} : n >= 1
            OBVIOUS
        <3> QED
            BY <1>0, <3>1, Zenon
    <2> QED
        BY <2>1, <2>2
<1>3. factor \in [Rows -> SUBSET Rows]
    BY DEF Analyzed, Mergeable, FactorIsBuilt
<1>4. /\ ScheduleDimensions(schedules.forward) /\ ScheduleDimensions(schedules.backward)
      /\ ValidSchedule(schedules.forward, ForwardDeps)
      /\ ValidSchedule(schedules.backward, BackwardDeps)
    <2>1. /\ schedules.forward = Schedule(RowLevels(Rows, ForwardDeps))
          /\ schedules.backward = Schedule(RowLevels(Rows, BackwardDeps))
        BY DEF Analyzed, Counted
    <2> QED
        BY <1>3, <2>1, SchedulesPass
<1>5. Cardinality(DOMAIN mapping) = Nonzeros
    <2>1. DOMAIN mapping = Positions
        BY DEF Analyzed, Mapped
    <2>2. IsFiniteSet(matrix)
        BY RowsAreFinite DEF Analyzed, Mergeable, Inverted
    <2>3. Nonzeros \in Nat
        BY <2>2, FS_CardinalityType DEF Nonzeros
    <2>4. Cardinality(0 .. Nonzeros - 1) = Nonzeros
        BY <2>3, FS_Interval
    <2> QED
        BY <2>1, <2>4 DEF Positions
<1>6. ValidDimensions
    BY <1>2, <1>4, <1>5 DEF ValidDimensions
<1>7. \A i \in Rows : pInverse[p[i]] = i /\ qInverse[q[i]] = i
    BY DEF Analyzed, Mergeable, Inverted, Inverts
<1>8. \A r \in Rows : scale[r] > 0
    <2>1. \A r \in Rows : scale[r] = ScaleOf(r) /\ ScaleOf(r) \in Nat \ {0}
        BY ScalesArePositive DEF Analyzed, Mergeable, Built
    <2> QED
        BY <2>1
<1>9. \A b \in DOMAIN offsets \ {0} : offsets[b - 1] <= offsets[b]
    <2> SUFFICES ASSUME NEW b \in DOMAIN offsets, b # 0 PROVE offsets[b - 1] <= offsets[b]
        OBVIOUS
    <2>0. b \in 0 .. blocks
        BY <1>0
    <2>1. b \in 0 .. blocks /\ b - 1 \in 0 .. blocks /\ b - 1 < b
        BY <1>0, <2>0
    <2>2. offsets[b - 1] \in Int /\ offsets[b] \in Int /\ offsets[b - 1] < offsets[b]
        BY <1>1, <2>1 DEF Bounds
    <2> QED
        BY <2>2
<1>10. \A r \in Rows : ColumnAt(r, SlotOf(r, r)) = r
    <2>1. \A r \in Rows : r \in factor[r]
        BY <1>3 DEF Analyzed, Mergeable, FactorIsBuilt, IsFactor, Closed
    <2> QED
        BY <1>3, <2>1, SlotsSort
<1>11. Total(updates, Rows) = total
    BY DEF Analyzed, Counted
<1>12. ASSUME NEW e \in matrix
       PROVE  LET slot == mapping[Position(e)]
              IN  slot \in RowSlots(RowOf(e)) /\ ColumnAt(RowOf(e), slot) = ColumnOf(e)
    <2>1. mapping[Position(e)] = SlotOf(RowOf(e), ColumnOf(e))
        BY MappingIsRight DEF Analyzed
    <2>2. RowOf(e) \in Rows /\ ColumnOf(e) \in factor[RowOf(e)]
        BY EntriesHaveSlots, EntriesPermute DEF Analyzed, Mergeable
    <2> QED
        BY <1>3, <2>1, <2>2, SlotsSort
<1>13. Valid
    BY <1>4, <1>7, <1>8, <1>9, <1>10, <1>11, <1>12 DEF Valid
<1> QED
    BY <1>6, <1>13

\* build_btf_candidates covers the rows.
LEMMA CandidatesCover ==
    ASSUME NEW at, NEW blocks, Bounds(at, blocks), NEW lengths, NEW amount
    PROVE  CoverIsValid(Candidates(at, blocks, lengths, amount), Dimension)
<1> DEFINE cover == Candidates(at, blocks, lengths, amount)
<1>1. blocks \in Nat \ {0} /\ DOMAIN cover = 0 .. blocks - 1
    BY DEF Bounds, Candidates
<1>2. \A b \in 0 .. blocks - 1 : /\ cover[b].begin = at[b] /\ cover[b].end = at[b + 1]
                                 /\ cover[b].work.rows = at[b + 1] - at[b]
    BY DEF Candidates, Measure
<1> HIDE DEF cover
<1>3. Cardinality(DOMAIN cover) = blocks
    BY <1>1, FS_Interval
<1>4. ASSUME NEW b \in 0 .. blocks - 1
      PROVE  /\ cover[b].begin = IF b = 0 THEN 0 ELSE cover[b - 1].end
             /\ cover[b].begin < cover[b].end
             /\ cover[b].end <= Dimension
             /\ cover[b].work.rows = cover[b].end - cover[b].begin
    <2>1. b \in 0 .. blocks /\ b + 1 \in 0 .. blocks /\ b < b + 1
        BY <1>1
    <2>2. at[b] < at[b + 1] /\ at[b + 1] \in 0 .. Dimension /\ at[0] = 0
        BY <2>1 DEF Bounds
    <2>3. b # 0 => b - 1 \in 0 .. blocks - 1 /\ b - 1 + 1 = b
        BY <1>1
    <2>4. at[b + 1] <= Dimension
        BY <2>2, RowsAreFinite
    <2>5. b # 0 => cover[b - 1].end = at[b]
        BY <1>2, <2>3
    <2> QED
        BY <1>2, <2>2, <2>4, <2>5
<1>5. cover[blocks - 1].end = Dimension
    <2>1. blocks - 1 \in 0 .. blocks - 1 /\ blocks - 1 + 1 = blocks
        BY <1>1
    <2> QED
        BY <1>2, <2>1 DEF Bounds
<1>6. CoverIsValid(cover, Dimension)
    BY <1>1, <1>3, <1>4, <1>5 DEF CoverIsValid
<1> QED
    BY <1>6 DEF cover

-----------------------------------------------------------------------------
\* What a backend has made of the plan when it has solved.
Scattered ==
    values = [x \in 0 .. FactorOffset(Dimension) - 1 |->
        {<<e, scale[RowOf(e)]>> : e \in {f \in matrix : mapping[Position(f)] = x}}]

Solved ==
    /\ Scattered
    /\ rhs = [r \in Rows |-> <<p[r], scale[r]>>]
    /\ solution = [o \in Rows |-> CHOOSE c \in Rows : q[c] = o]

\* The slot of row i and column c has the entry of row p[i] and column q[c].
LEMMA SlotsHoldTheInput ==
    ASSUME Analyzed, Scattered, NEW i \in Rows, NEW c \in Rows
    PROVE  (IF c \in factor[i] THEN values[SlotOf(i, c)] ELSE {})
               = IF <<p[i], q[c]>> \in matrix THEN {<<<<p[i], q[c]>>, scale[i]>>} ELSE {}
<1> PICK entry : entry = <<p[i], q[c]>>
    OBVIOUS
<1>1. /\ RowOf(entry) = i /\ ColumnOf(entry) = c
      /\ \A e \in matrix : /\ RowOf(e) \in Rows /\ ColumnOf(e) \in Rows
                           /\ e = <<p[RowOf(e)], q[ColumnOf(e)]>>
    BY EntriesPermute DEF Analyzed, Mergeable
<1>2. \A e \in matrix : ColumnOf(e) \in factor[RowOf(e)]
    BY EntriesHaveSlots DEF Analyzed
<1>3. factor \in [Rows -> SUBSET Rows]
    BY DEF Analyzed, Mergeable, FactorIsBuilt
<1>4. CASE c \notin factor[i]
    <2>1. entry \notin matrix
        BY <1>1, <1>2, <1>4
    <2> QED
        BY <1>4, <2>1
<1>5. CASE c \in factor[i]
    <2>1. SlotOf(i, c) \in 0 .. FactorOffset(Dimension) - 1
        BY <1>3, <1>5, SlotsSort
    <2>2. ASSUME NEW f \in matrix PROVE mapping[Position(f)] = SlotOf(i, c) <=> f = entry
        <3>1. mapping[Position(f)] = SlotOf(RowOf(f), ColumnOf(f))
            BY MappingIsRight DEF Analyzed
        <3>2. SlotOf(RowOf(f), ColumnOf(f)) = SlotOf(i, c) <=> RowOf(f) = i /\ ColumnOf(f) = c
            BY <1>1, <1>2, <1>3, <1>5, SlotsSort
        <3> QED
            BY <1>1, <3>1, <3>2
    <2>3. {f \in matrix : mapping[Position(f)] = SlotOf(i, c)}
              = IF entry \in matrix THEN {entry} ELSE {}
        BY <2>2
    <2>4. values[SlotOf(i, c)] =
              {<<e, scale[RowOf(e)]>> : e \in {f \in matrix : mapping[Position(f)] = SlotOf(i, c)}}
        BY <2>1 DEF Scattered
    <2>5. values[SlotOf(i, c)] = IF entry \in matrix THEN {<<entry, scale[i]>>} ELSE {}
        <3>1. CASE entry \in matrix
            <4>1. {f \in matrix : mapping[Position(f)] = SlotOf(i, c)} = {entry}
                BY <2>3, <3>1
            <4>2. {<<e, scale[RowOf(e)]>> : e \in {entry}} = {<<entry, scale[i]>>}
                BY <1>1
            <4> QED
                BY <2>4, <3>1, <4>1, <4>2
        <3>2. CASE entry \notin matrix
            <4>1. {f \in matrix : mapping[Position(f)] = SlotOf(i, c)} = {}
                BY <2>3, <3>2
            <4>2. {<<e, scale[RowOf(e)]>> : e \in {}} = {}
                OBVIOUS
            <4> QED
                BY <2>4, <3>2, <4>1, <4>2
        <3> QED
            BY <3>1, <3>2
    <2> QED
        BY <1>5, <2>5
<1> QED
    BY <1>4, <1>5

\* A plan that was analyzed solves the system it was given: scaled, permuted and permuted
\* back, each coefficient stands where its row and its unknown are.
LEMMA SolvedSystemIsTheInput ==
    ASSUME Analyzed, Solved
    PROVE  /\ \A i, j \in Rows : rhs[i][1] = rhs[j][1] => i = j
           /\ \A i, o \in Rows :
                  LET e == <<rhs[i][1], o>>
                      c == solution[o]
                  IN  (IF c \in factor[i] THEN values[SlotOf(i, c)] ELSE {})
                          = IF e \in matrix THEN {<<e, rhs[i][2]>>} ELSE {}
<1>1. Inverts(pInverse, p) /\ Inverts(qInverse, q)
    BY DEF Analyzed, Mergeable, Inverted
<1>2. \A i \in Rows : rhs[i][1] = p[i] /\ rhs[i][2] = scale[i]
    BY DEF Solved
<1>3. \A i, j \in Rows : rhs[i][1] = rhs[j][1] => i = j
    BY <1>1, <1>2 DEF Inverts
<1>4. \A o \in Rows : solution[o] \in Rows /\ q[solution[o]] = o
    BY <1>1 DEF Inverts, Solved
<1>5. ASSUME NEW i \in Rows, NEW o \in Rows
      PROVE  LET e == <<rhs[i][1], o>>
                 c == solution[o]
             IN  (IF c \in factor[i] THEN values[SlotOf(i, c)] ELSE {})
                     = IF e \in matrix THEN {<<e, rhs[i][2]>>} ELSE {}
    <2> PICK c : c = solution[o]
        OBVIOUS
    <2>1. c \in Rows /\ q[c] = o
        BY <1>4
    <2>2. (IF c \in factor[i] THEN values[SlotOf(i, c)] ELSE {})
              = IF <<p[i], q[c]>> \in matrix THEN {<<<<p[i], q[c]>>, scale[i]>>} ELSE {}
        BY <2>1, SlotsHoldTheInput DEF Solved
    <2> QED
        BY <1>2, <2>1, <2>2
<1> QED
    BY <1>3, <1>5

-----------------------------------------------------------------------------
\* The rows of a slice, whatever it is a slice of.
LEMMA SliceOfRows ==
    ASSUME NEW at, NEW blocks, Bounds(at, blocks), NEW b \in 0 .. blocks - 1
    PROVE  /\ at[b] \in Nat /\ at[b + 1] \in Nat /\ at[b] < at[b + 1]
           /\ at[b] .. at[b + 1] - 1 \in SUBSET Rows
           /\ IsFiniteSet(at[b] .. at[b + 1] - 1)
           /\ Cardinality(at[b] .. at[b + 1] - 1) = at[b + 1] - at[b]
<1> PICK low, high : low = at[b] /\ high = at[b + 1]
    OBVIOUS
<1>1. b \in 0 .. blocks /\ b + 1 \in 0 .. blocks /\ b < b + 1
    BY DEF Bounds
<1>2. low \in 0 .. Dimension /\ high \in 0 .. Dimension /\ low < high
    BY <1>1 DEF Bounds
<1>3. low .. high - 1 \in SUBSET Rows /\ low \in Nat /\ high \in Nat
    BY <1>2, RowsAreFinite
<1>4. IsFiniteSet(low .. high - 1) /\ Cardinality(low .. high - 1) = high - low
    <2> PICK last : last = high - 1
        OBVIOUS
    <2>1. low \in Int /\ last \in Int /\ ~(low > last) /\ last - low + 1 = high - low
        BY <1>2, <1>3
    <2>2. /\ IsFiniteSet(low .. last)
          /\ Cardinality(low .. last) = IF low > last THEN 0 ELSE last - low + 1
        BY <2>1, FS_Interval
    <2> QED
        BY <2>1, <2>2
<1> QED
    BY <1>2, <1>3, <1>4

\* Bounds of blocks are slices that follow one another.
LEMMA BoundsAscend ==
    ASSUME NEW at, NEW blocks, Bounds(at, blocks)
    PROVE  Ascends(at, blocks) /\ at[0] = 0 /\ at[blocks] = Dimension /\ blocks \in Nat
<1>1. \A b \in 0 .. blocks : at[b] \in 0 .. Dimension
    BY DEF Bounds
<1>2. \A b, c \in 0 .. blocks : b < c => at[b] < at[c]
    BY DEF Bounds
<1>3. ASSUME NEW b \in 0 .. blocks, NEW c \in 0 .. blocks, b <= c PROVE at[b] <= at[c]
    <2>1. at[b] \in Int /\ at[c] \in Int
        BY <1>1
    <2>2. CASE b = c
        BY <2>1, <2>2
    <2>3. CASE b # c
        <3>1. b < c
            BY <1>3, <2>3
        <3>2. at[b] < at[c]
            BY <1>2, <3>1
        <3> QED
            BY <2>1, <3>2
    <2> QED
        BY <2>2, <2>3
<1>4. \A b \in 0 .. blocks : at[b] \in Int
    BY <1>1
<1> QED
    BY <1>3, <1>4 DEF Ascends, Bounds

\* A quantity of the rows, added up region by region.
LEMMA RegionsAddUp ==
    ASSUME NEW at, NEW blocks, Bounds(at, blocks),
           NEW f, \A r \in Rows : f[r] \in Int,
           NEW g, \A b \in 0 .. blocks - 1 : g[b] = SumOver(f, at[b] .. at[b + 1] - 1)
    PROVE  SumOver(g, 0 .. blocks - 1) = SumOver(f, Rows)
<1>1. Ascends(at, blocks) /\ at[0] = 0 /\ at[blocks] = Dimension /\ blocks \in Nat
    BY BoundsAscend
<1>2. at[0] .. at[blocks] - 1 = Rows
    BY <1>1, RowsAreFinite
<1>3. \A x \in at[0] .. at[blocks] - 1 : f[x] \in Int
    BY <1>2
<1>4. SumOver(g, 0 .. blocks - 1) = SumOver(f, at[0] .. at[blocks] - 1)
    BY <1>1, <1>3, SumOverSlices
<1> QED
    BY <1>2, <1>4

\* Every row counts one: the sum over a set of rows is their number.
LEMMA SumOfOnes ==
    ASSUME NEW T \in SUBSET Rows
    PROVE  SumOver([r \in Rows |-> 1], T) = Cardinality(T)
<1> DEFINE ones == [r \in Rows |-> 1]
           Reached == {s \in SUBSET T : SumOver(ones, s) = Cardinality(s)}
<1>1. {} \in Reached
    BY SumOfEmpty, FS_EmptySet
<1>2. ASSUME NEW s \in SUBSET T, s # {}, \A x \in s : s \ {x} \in Reached
      PROVE  s \in Reached
    <2>1. PICK x \in s : TRUE
        BY <1>2
    <2>2. IsFiniteSet(s)
        BY RowsAreFinite, FS_Subset
    <2>3. \A y \in s : ones[y] = 1
        OBVIOUS
    <2>4. SumOver(ones, s \ {x}) = Cardinality(s \ {x})
        BY <1>2, <2>1
    <2> HIDE DEF ones
    <2>5. Integral(ones, s)
        BY <2>2, <2>3 DEF Integral
    <2>6. SplitsOff(ones, s, x)
        BY <2>1, <2>5, TermSplitsOff
    <2>7. Cardinality(s \ {x}) = Cardinality(s) - 1 /\ Cardinality(s) \in Nat
        BY <2>1, <2>2, FS_RemoveElement, FS_CardinalityType
    <2>8. SumOver(ones, s) = Cardinality(s)
        BY <2>1, <2>3, <2>4, <2>6, <2>7 DEF SplitsOff
    <2> QED
        BY <2>8
<1> HIDE DEF Reached
<1>3. IsFiniteSet(T)
    BY RowsAreFinite, FS_Subset
<1>4. \A s \in SUBSET T : s \in Reached
    BY <1>1, <1>2, <1>3, SubsetsAreReached
<1> QED
    BY <1>4 DEF Reached

\* The factor has as many slots as its rows have columns.
LEMMA SlotsAreColumns ==
    ASSUME factor \in [Rows -> SUBSET Rows]
    PROVE  SumOver([r \in Rows |-> Cardinality(factor[r])], Rows) = FactorOffset(Dimension)
<1> DEFINE count == [r \in Rows |-> Cardinality(factor[r])]
<1>1. /\ IsFiniteSet(Pairs) /\ FactorOffset(Dimension) = Cardinality(Pairs)
    BY PairsAreSortable, SlotsSort DEF Sortable
<1>2. Rows = 0 .. 0 + Dimension - 1 /\ Dimension \in Nat
    BY RowsAreFinite
<1>3. \A s \in Pairs : /\ s = <<s[1], s[2]>> /\ s[1] \in Rows /\ s[2] \in factor[s[1]]
                       /\ PairRow[s] = s[1]
    BY DEF Pairs, PairRow
<1>4. ASSUME NEW r \in Rows PROVE count[r] = Cardinality({s \in Pairs : PairRow[s] = r})
    <2> DEFINE row == {s \in Pairs : PairRow[s] = r}
               pair == [c \in factor[r] |-> <<r, c>>]
    <2>1. \A s : s \in row <=> \E c \in factor[r] : s = <<r, c>>
        <3>1. \A c \in factor[r] : <<r, c>> \in Pairs
            BY DEF Pairs
        <3> QED
            BY <1>3, <3>1
    <2> HIDE DEF row
    <2>2. pair \in Bijection(factor[r], row)
        BY <2>1 DEF Bijection, Injection, Surjection, IsInjective
    <2> HIDE DEF pair
    <2>3. IsFiniteSet(factor[r])
        BY RowsAreFinite, FS_Subset
    <2>4. Cardinality(factor[r]) = Cardinality(row)
        BY <2>2, <2>3, FS_Bijection DEF ExistsBijection
    <2> QED
        BY <2>4 DEF row
<1> HIDE DEF count
<1>5. SumOver(count, 0 .. 0 + Dimension - 1) = Cardinality(Pairs)
    <2>1. \A s \in Pairs : PairRow[s] \in 0 .. 0 + Dimension - 1
        BY <1>2, <1>3
    <2>2. \A r \in 0 .. 0 + Dimension - 1 :
              count[r] = Cardinality({s \in Pairs : PairRow[s] = r})
        BY <1>2, <1>4
    <2>3. Counts(count, Pairs, PairRow, 0, Dimension)
        BY <2>1, <2>2 DEF Counts
    <2> QED
        BY <1>1, <1>2, <2>3, CountByRows
<1> QED
    BY <1>1, <1>2, <1>5 DEF count

-----------------------------------------------------------------------------
Classes == 1 .. Len(WorkClasses) + 1

\* Every amount of work is in one class of the chain of tests in measure_region.
LEMMA OneClass ==
    ASSUME NEW amount \in Nat
    PROVE  \E c \in Classes : InClass(amount, c) /\ \A d \in Classes : InClass(amount, d) => d = c
<1> DEFINE n == Len(WorkClasses)
           Fits == {c \in Classes : c <= n => amount < WorkClasses[c]}
<1>1. /\ n \in Nat /\ \A c \in 1 .. n : WorkClasses[c] \in Nat
      /\ \A c, d \in 1 .. n : c < d => WorkClasses[c] < WorkClasses[d]
    BY WorkClassesAssumption
<1>2. Classes = 1 .. n + 1
    BY DEF Classes
<1> HIDE DEF n
<1>3. n + 1 \in Fits /\ Fits \in SUBSET Nat
    BY <1>1, <1>2
<1>4. PICK c \in Fits : \A d \in Fits : c <= d
    BY <1>3, LeastNatural
<1>5. c \in Classes /\ c \in Nat
    BY <1>3
<1>6. InClass(amount, c)
    <2>1. ASSUME c > 1 PROVE amount >= WorkClasses[c - 1]
        <3>1. c - 1 \in 1 .. n /\ c - 1 \in Classes /\ ~(c <= c - 1)
            BY <1>1, <1>2, <1>5, <2>1
        <3>2. c - 1 \notin Fits
            BY <1>4, <3>1
        <3>3. ~(amount < WorkClasses[c - 1])
            BY <3>1, <3>2
        <3> QED
            BY <1>1, <3>1, <3>3
    <2>2. c <= Len(WorkClasses) => amount < WorkClasses[c]
        BY DEF n
    <2> QED
        BY <2>1, <2>2 DEF InClass
<1>7. ASSUME NEW a \in Classes, NEW b \in Classes, InClass(amount, a), InClass(amount, b), a < b
      PROVE  FALSE
    <2>1. a \in 1 .. n /\ b - 1 \in 1 .. n /\ b > 1 /\ a <= b - 1
        BY <1>1, <1>2, <1>7
    <2>2. amount < WorkClasses[a] /\ amount >= WorkClasses[b - 1]
        BY <1>7, <2>1 DEF InClass, n
    <2>3. WorkClasses[a] <= WorkClasses[b - 1]
        <3>1. CASE a = b - 1
            BY <1>1, <2>1, <3>1
        <3>2. CASE a < b - 1
            <4>1. WorkClasses[a] < WorkClasses[b - 1]
                BY <1>1, <2>1, <3>2
            <4> QED
                BY <1>1, <2>1, <4>1
        <3> QED
            BY <2>1, <3>1, <3>2
    <2>4. WorkClasses[a] \in Nat /\ WorkClasses[b - 1] \in Nat
        BY <1>1, <2>1
    <2> QED
        BY <2>2, <2>3, <2>4
<1>8. ASSUME NEW d \in Classes, InClass(amount, d) PROVE d = c
    <2>1. ~(c < d) /\ ~(d < c)
        BY <1>5, <1>6, <1>7, <1>8
    <2> QED
        BY <1>2, <1>5, <2>1
<1> QED
    BY <1>5, <1>6, <1>8

Classified(classes, T, amount) ==
    classes = [c \in Classes |-> Cardinality({r \in T : InClass(amount[r], c)})]

\* The classes of work share the rows of a region.
LEMMA ClassesShareTheRows ==
    ASSUME NEW T \in SUBSET Rows, NEW amount, \A r \in Rows : amount[r] \in Nat,
           NEW classes, Classified(classes, T, amount)
    PROVE  SumOver(classes, Classes) = Cardinality(T)
<1> DEFINE class == [r \in Rows |-> CHOOSE c \in Classes : InClass(amount[r], c)]
           n == Len(WorkClasses) + 1
<1>1. \A r \in Rows : /\ class[r] \in Classes
                      /\ \A c \in Classes : InClass(amount[r], c) <=> class[r] = c
    <2> SUFFICES ASSUME NEW r \in Rows
                 PROVE  /\ class[r] \in Classes
                        /\ \A c \in Classes : InClass(amount[r], c) <=> class[r] = c
        OBVIOUS
    <2>1. PICK c \in Classes :
              InClass(amount[r], c) /\ \A d \in Classes : InClass(amount[r], d) => d = c
        BY OneClass
    <2>2. class[r] = c
        BY <2>1
    <2> HIDE DEF class
    <2> QED
        BY <2>1, <2>2
<1>2. n \in Nat /\ Classes = 1 .. 1 + n - 1
    BY WorkClassesAssumption DEF Classes
<1> HIDE DEF class, n
<1>3. ASSUME NEW c \in Classes PROVE classes[c] = Cardinality({r \in T : class[r] = c})
    <2>1. {r \in T : InClass(amount[r], c)} = {r \in T : class[r] = c}
        BY <1>1
    <2> QED
        BY <2>1 DEF Classified
<1>4. Counts(classes, T, class, 1, n)
    BY <1>1, <1>2, <1>3 DEF Counts
<1>5. IsFiniteSet(T)
    BY RowsAreFinite, FS_Subset
<1>6. SumOver(classes, 1 .. 1 + n - 1) = Cardinality(T)
    BY <1>2, <1>4, <1>5, CountByRows
<1> QED
    BY <1>2, <1>6

-----------------------------------------------------------------------------
\* A row is in a region.
LEMMA RowIsInASlice ==
    ASSUME NEW at, NEW blocks, Bounds(at, blocks), NEW r \in Rows
    PROVE  \E b \in 0 .. blocks - 1 : r \in at[b] .. at[b + 1] - 1
<1> DEFINE Above == {c \in 0 .. blocks : r < at[c]}
<1>1. blocks \in Nat \ {0} /\ at[0] = 0 /\ at[blocks] = Dimension
    BY DEF Bounds
<1>2. \A c \in 0 .. blocks : at[c] \in 0 .. Dimension
    BY DEF Bounds
<1>3. r \in Nat /\ r < Dimension /\ Dimension \in Nat
    BY RowsAreFinite
<1>4. blocks \in Above /\ 0 \notin Above /\ Above \in SUBSET Nat
    BY <1>1, <1>3
<1>5. PICK c \in Above : \A d \in Above : c <= d
    BY <1>4, LeastNatural
<1>6. c - 1 \in 0 .. blocks - 1 /\ c - 1 \in 0 .. blocks /\ c - 1 \notin Above /\ c - 1 + 1 = c
      /\ c \in 0 .. blocks
    BY <1>1, <1>4, <1>5
<1>7. at[c - 1] \in Nat /\ at[c] \in Nat /\ ~(r < at[c - 1]) /\ r < at[c]
    BY <1>2, <1>3, <1>6
<1>8. r \in at[c - 1] .. at[c] - 1
    <2> PICK low, high : low = at[c - 1] /\ high = at[c]
        OBVIOUS
    <2>1. r \in low .. high - 1
        BY <1>3, <1>7
    <2> QED
        BY <2>1
<1> QED
    BY <1>6, <1>8

\* Finitely many naturals have a bound.
LEMMA NaturalsAreBounded ==
    ASSUME NEW U, IsFiniteSet(U), NEW f, \A x \in U : f[x] \in Nat
    PROVE  \E n \in Nat : \A x \in U : f[x] \in 0 .. n
<1> DEFINE Reached == {s \in SUBSET U : \E n \in Nat : \A x \in s : f[x] \in 0 .. n}
<1>1. {} \in Reached
    OBVIOUS
<1>2. ASSUME NEW s \in SUBSET U, s # {}, \A x \in s : s \ {x} \in Reached
      PROVE  s \in Reached
    <2>1. PICK x \in s : TRUE
        BY <1>2
    <2>2. PICK n \in Nat : \A y \in s \ {x} : f[y] \in 0 .. n
        BY <1>2, <2>1
    <2>3. f[x] \in Nat
        BY <2>1
    <2>4. n + f[x] \in Nat /\ \A y \in s : f[y] \in 0 .. n + f[x]
        BY <2>2, <2>3
    <2> QED
        BY <2>4
<1> HIDE DEF Reached
<1>3. \A s \in SUBSET U : s \in Reached
    BY <1>1, <1>2, SubsetsAreReached
<1> QED
    BY <1>3 DEF Reached

\* The greatest of the regions' maxima is the greatest of all rows.
Maxima(g, f, at, blocks) ==
    \A b \in 0 .. blocks - 1 : g[b] = Max({0} \cup {f[r] : r \in at[b] .. at[b + 1] - 1})

\* The greatest of the blocks' greatest is the greatest of all.
LEMMA MaximumOfMaxima ==
    ASSUME NEW at, NEW blocks, Bounds(at, blocks),
           NEW f, \A r \in Rows : f[r] \in Nat,
           NEW g, Maxima(g, f, at, blocks)
    PROVE  Max({g[b] : b \in 0 .. blocks - 1}) = Max({f[r] : r \in Rows})
<1> DEFINE U == {f[r] : r \in Rows}
           V == {g[b] : b \in 0 .. blocks - 1}
<1>1. PICK n \in Nat : \A r \in Rows : f[r] \in 0 .. n
    BY RowsAreFinite, NaturalsAreBounded
<1>2. ASSUME NEW b \in 0 .. blocks - 1
      PROVE  /\ \E r \in Rows : g[b] = f[r]
             /\ \A r \in at[b] .. at[b + 1] - 1 : f[r] <= g[b]
    <2> PICK slice : slice = at[b] .. at[b + 1] - 1
        OBVIOUS
    <2>1. slice \in SUBSET Rows /\ \E r \in slice : TRUE
        <3>1. at[b] .. at[b + 1] - 1 \in SUBSET Rows
            BY SliceOfRows
        <3>2. at[b] \in at[b] .. at[b + 1] - 1
            <4>1. at[b] \in Nat /\ at[b + 1] \in Nat /\ at[b] < at[b + 1]
                BY SliceOfRows
            <4> PICK low, high : low = at[b] /\ high = at[b + 1]
                OBVIOUS
            <4>2. low \in low .. high - 1
                BY <4>1
            <4> QED
                BY <4>2
        <3> QED
            BY <3>1, <3>2
    <2> DEFINE T == {0} \cup {f[r] : r \in slice}
    <2>2. T \in SUBSET (0 .. n) /\ T # {}
        BY <1>1, <2>1
    <2>3. g[b] = Max(T)
        BY DEF Maxima
    <2>4. \A r \in slice : f[r] \in T /\ f[r] \in Nat
        BY <2>1
    <2>5. \A x \in T : x = 0 \/ \E r \in slice : x = f[r]
        OBVIOUS
    <2> HIDE DEF T
    <2>6. g[b] \in T /\ \A x \in T : x <= g[b]
        BY <2>2, <2>3, MaxOfNaturals
    <2>7. \A r \in slice : f[r] <= g[b]
        BY <2>4, <2>6
    <2>8. \E r \in Rows : g[b] = f[r]
        <3>1. CASE \E r \in slice : g[b] = f[r]
            BY <2>1, <3>1
        <3>2. CASE g[b] = 0
            <4>1. PICK r \in slice : TRUE
                BY <2>1
            <4>2. f[r] \in Nat /\ f[r] <= 0
                BY <2>4, <2>7, <3>2
            <4>3. f[r] = 0
                BY <4>2
            <4> QED
                BY <2>1, <3>2, <4>3
        <3> QED
            BY <2>5, <2>6, <3>1, <3>2
    <2> QED
        BY <2>7, <2>8
<1>3. U \in SUBSET (0 .. n) /\ U # {}
    BY <1>1, RowsAreFinite
<1>4. V \in SUBSET U /\ V # {}
    <2>1. 0 \in 0 .. blocks - 1
        BY DEF Bounds
    <2> QED
        BY <1>2, <2>1
<1>5. \A r \in Rows : \E v \in V : f[r] <= v
    <2> SUFFICES ASSUME NEW r \in Rows PROVE \E v \in V : f[r] <= v
        OBVIOUS
    <2>1. PICK b \in 0 .. blocks - 1 : r \in at[b] .. at[b + 1] - 1
        BY RowIsInASlice
    <2>2. f[r] <= g[b]
        BY <1>2, <2>1
    <2> QED
        BY <2>2
<1>6. \A u \in U : \E v \in V : u <= v
    BY <1>5
<1> HIDE DEF U, V
<1>7. Max(U) \in U /\ \A x \in U : x <= Max(U)
    BY <1>3, MaxOfNaturals
<1>8. V \in SUBSET (0 .. n)
    BY <1>3, <1>4
<1>9. Max(V) \in V /\ \A x \in V : x <= Max(V)
    BY <1>4, <1>8, MaxOfNaturals
<1>10. PICK v \in V : Max(U) <= v
    BY <1>6, <1>7
<1> PICK a, b : a = Max(U) /\ b = Max(V)
    OBVIOUS
<1>11. a \in Int /\ b \in Int /\ v \in Int /\ a <= v /\ v <= b /\ b <= a
    <2>1. a \in U /\ b \in U /\ v \in U
        BY <1>4, <1>7, <1>9
    <2>2. a <= v /\ v <= b /\ b <= a
        BY <1>7, <1>9, <1>10, <2>1
    <2> QED
        BY <1>3, <2>1, <2>2
<1>12. a = b
    BY <1>11
<1> QED
    BY <1>12 DEF U, V

-----------------------------------------------------------------------------
Blocks  == Cardinality(DOMAIN offsets) - 1
Lengths == [r \in Rows |-> Cardinality(factor[r])]

\* What measure_region counts in the rows of a region.
Measures(m, lengths, amount, from, to) ==
    /\ m.rows = to - from
    /\ m.factor_nonzeros = SumOver(lengths, from .. to - 1)
    /\ m.scalar_updates = SumOver(amount, from .. to - 1)
    /\ m.maximum = Max({0} \cup {amount[r] : r \in from .. to - 1})
    /\ Classified(m.classes, from .. to - 1, amount)

\* What Measure says of a region.
LEMMA MeasureIsRight ==
    ASSUME NEW lengths, NEW amount, NEW from, NEW to
    PROVE  Measures(Measure(lengths, amount, from, to), lengths, amount, from, to)
<1> DEFINE m == Measure(lengths, amount, from, to)
<1>1. /\ m.rows = to - from
      /\ m.factor_nonzeros = Total(lengths, from .. to - 1)
      /\ m.scalar_updates = Total(amount, from .. to - 1)
      /\ m.maximum = Max({0} \cup {amount[r] : r \in from .. to - 1})
    BY DEF Measure
<1>2. m.classes = [c \in Classes |->
                      Cardinality({r \in from .. to - 1 : InClass(amount[r], c)})]
    BY DEF Measure, Classes
<1> QED
    BY <1>1, <1>2, TotalIsASum DEF Classified, Measures

\* The regions share the rows, the slots and the updates, and their classes the rows.
LEMMA RegionsShare ==
    ASSUME Analyzed, regions = Candidates(offsets, Blocks, Lengths, updates)
    PROVE  LET Sum(f) == Total(f, DOMAIN regions)
           IN  /\ Sum([b \in DOMAIN regions |-> regions[b].work.rows]) = Dimension
               /\ Sum([b \in DOMAIN regions |-> regions[b].work.factor_nonzeros])
                      = FactorOffset(Dimension)
               /\ Sum([b \in DOMAIN regions |-> regions[b].work.scalar_updates]) = total
               /\ \A b \in DOMAIN regions :
                      Total(regions[b].work.classes, DOMAIN regions[b].work.classes)
                          = regions[b].work.rows
               /\ Max({regions[b].work.maximum : b \in DOMAIN regions})
                      = Max({updates[r] : r \in Rows})
<1> PICK at, n : at = offsets /\ n = Blocks
    OBVIOUS
<1>1. Bounds(at, n) /\ n \in Nat
    BY OffsetsAreBounds DEF Analyzed, Blocks, Bounds
<1>2. /\ DOMAIN regions = 0 .. n - 1
      /\ \A b \in 0 .. n - 1 : regions[b].work = Measure(Lengths, updates, at[b], at[b + 1])
    BY DEF Candidates
<1>3. ASSUME NEW b \in 0 .. n - 1
      PROVE  /\ regions[b].work.rows = at[b + 1] - at[b]
             /\ regions[b].work.factor_nonzeros = SumOver(Lengths, at[b] .. at[b + 1] - 1)
             /\ regions[b].work.scalar_updates = SumOver(updates, at[b] .. at[b + 1] - 1)
             /\ regions[b].work.maximum
                    = Max({0} \cup {updates[r] : r \in at[b] .. at[b + 1] - 1})
             /\ Classified(regions[b].work.classes, at[b] .. at[b + 1] - 1, updates)
    <2>1. Measures(regions[b].work, Lengths, updates, at[b], at[b + 1])
        BY <1>2, MeasureIsRight
    <2> QED
        BY <2>1 DEF Measures
<1>4. factor \in [Rows -> SUBSET Rows]
    BY DEF Analyzed, Mergeable, FactorIsBuilt
<1>5. \A r \in Rows : Lengths[r] \in Int
    <2>1. \A r \in Rows : IsFiniteSet(factor[r])
        BY <1>4, RowsAreFinite, FS_Subset
    <2>2. \A r \in Rows : Cardinality(factor[r]) \in Nat
        BY <2>1, FS_CardinalityType
    <2> QED
        BY <2>2 DEF Lengths
<1>6. \A r \in Rows : updates[r] \in Nat /\ updates[r] \in Int
    BY <1>4, UpdatesAreNaturals DEF Analyzed, Counted
<1>7. \A b \in 0 .. n - 1 :
          Cardinality(at[b] .. at[b + 1] - 1) = at[b + 1] - at[b]
          /\ at[b] .. at[b + 1] - 1 \in SUBSET Rows
    BY <1>1, SliceOfRows
<1> DEFINE ones   == [r \in Rows |-> 1]
           rows   == [b \in DOMAIN regions |-> regions[b].work.rows]
           slots  == [b \in DOMAIN regions |-> regions[b].work.factor_nonzeros]
           scalar == [b \in DOMAIN regions |-> regions[b].work.scalar_updates]
           most   == [b \in DOMAIN regions |-> regions[b].work.maximum]
<1>8. Total(rows, DOMAIN regions) = Dimension
    <2>1. ASSUME NEW b \in 0 .. n - 1
          PROVE  rows[b] = SumOver(ones, at[b] .. at[b + 1] - 1)
        <3> PICK slice : slice = at[b] .. at[b + 1] - 1
            OBVIOUS
        <3>1. slice \in SUBSET Rows /\ Cardinality(slice) = at[b + 1] - at[b]
            BY <1>7
        <3>2. SumOver(ones, slice) = Cardinality(slice)
            BY <3>1, SumOfOnes
        <3>3. rows[b] = at[b + 1] - at[b]
            BY <1>2, <1>3
        <3> QED
            BY <3>1, <3>2, <3>3
    <2>2. \A r \in Rows : ones[r] \in Int
        OBVIOUS
    <2>3. SumOver(ones, Rows) = Dimension
        BY RowsAreFinite, SumOfOnes
    <2> HIDE DEF ones, rows
    <2>4. SumOver(rows, 0 .. n - 1) = SumOver(ones, Rows)
        BY <1>1, <2>1, <2>2, RegionsAddUp
    <2> QED
        BY <1>2, <2>3, <2>4, TotalIsASum
<1>9. Total(slots, DOMAIN regions) = FactorOffset(Dimension)
    <2>1. \A b \in 0 .. n - 1 : slots[b] = SumOver(Lengths, at[b] .. at[b + 1] - 1)
        BY <1>2, <1>3
    <2> HIDE DEF slots
    <2>2. SumOver(slots, 0 .. n - 1) = SumOver(Lengths, Rows)
        BY <1>1, <1>5, <2>1, RegionsAddUp
    <2>3. SumOver(Lengths, Rows) = FactorOffset(Dimension)
        BY <1>4, SlotsAreColumns DEF Lengths
    <2> QED
        BY <1>2, <2>2, <2>3, TotalIsASum
<1>10. Total(scalar, DOMAIN regions) = total
    <2>1. \A b \in 0 .. n - 1 : scalar[b] = SumOver(updates, at[b] .. at[b + 1] - 1)
        BY <1>2, <1>3
    <2> HIDE DEF scalar
    <2>2. SumOver(scalar, 0 .. n - 1) = SumOver(updates, Rows)
        BY <1>1, <1>6, <2>1, RegionsAddUp
    <2>3. total = SumOver(updates, Rows)
        BY TotalIsASum DEF Analyzed, Counted
    <2> QED
        BY <1>2, <2>2, <2>3, TotalIsASum
<1>11. ASSUME NEW b \in DOMAIN regions
       PROVE  Total(regions[b].work.classes, DOMAIN regions[b].work.classes)
                  = regions[b].work.rows
    <2> PICK classes, slice : /\ classes = regions[b].work.classes
                              /\ slice = at[b] .. at[b + 1] - 1
        OBVIOUS
    <2>1. /\ b \in 0 .. n - 1 /\ slice \in SUBSET Rows
          /\ Cardinality(slice) = at[b + 1] - at[b]
        BY <1>2, <1>7
    <2>2. Classified(classes, slice, updates)
        BY <1>3, <2>1
    <2>3. DOMAIN classes = Classes
        BY <2>2 DEF Classified
    <2>4. SumOver(classes, Classes) = Cardinality(slice)
        BY <1>6, <2>1, <2>2, ClassesShareTheRows
    <2>5. regions[b].work.rows = Cardinality(slice)
        BY <1>3, <2>1
    <2> QED
        BY <2>3, <2>4, <2>5, TotalIsASum
<1>12. Max({regions[b].work.maximum : b \in DOMAIN regions}) = Max({updates[r] : r \in Rows})
    <2>1. Maxima(most, updates, at, n)
        BY <1>2, <1>3 DEF Maxima
    <2>2. {regions[b].work.maximum : b \in DOMAIN regions} = {most[b] : b \in 0 .. n - 1}
        BY <1>2
    <2> HIDE DEF most
    <2>3. Max({most[b] : b \in 0 .. n - 1}) = Max({updates[r] : r \in Rows})
        BY <1>1, <1>6, <2>1, MaximumOfMaxima
    <2> QED
        BY <2>2, <2>3
<1> QED
    BY <1>8, <1>9, <1>10, <1>11, <1>12

-----------------------------------------------------------------------------
\* The stages from which on a part of the plan is there.
HasSolution  == {"solved"}
HasRhs       == {"solution"} \cup HasSolution
HasValues    == {"rhs"} \cup HasRhs
HasRegions   == {"initialize"} \cup HasValues
IsPlanned    == {"planned"} \cup HasRegions
HasWork      == {"validate"} \cup IsPlanned
HasMapping   == {"schedule"} \cup HasWork
HasFactor    == {"map"} \cup HasMapping
HasRows      == {"symbolic"} \cup HasFactor
HasInverses  == {"permute"} \cup HasRows
HasOrdering  == {"invert"} \cup HasInverses

\* Each part is what its step makes of the parts before it, the analysis never ends as
\* invalid, and there are no regions before the plan is finished.
IInv ==
    /\ stage \in {"order", "failed"} \cup HasOrdering
    /\ matrix \in SUBSET (Rows \X Rows) /\ zeros \in SUBSET Rows
    /\ stage \in HasOrdering => Delivered
    /\ stage \in HasInverses => pInverse = InverseOf(p) /\ qInverse = InverseOf(q)
    /\ stage \in HasRows     => Built
    /\ stage \in HasFactor   => FactorIsBuilt
    /\ stage \in HasMapping  => mapping = Mapped
    /\ stage \in HasWork     => Counted
    /\ IF stage \in HasRegions
       THEN regions = Candidates(offsets, Blocks, Lengths, updates)
       ELSE regions = <<>>
    /\ stage \in HasValues   => Scattered
    /\ stage \in HasRhs      => rhs = [r \in Rows |-> <<p[r], scale[r]>>]
    /\ stage \in HasSolution => solution = [o \in Rows |-> CHOOSE c \in Rows : q[c] = o]

\* The invariant holds of the input.
LEMMA InitIsFine == Init => IInv
<1> SUFFICES ASSUME Init PROVE IInv
    OBVIOUS
<1>1. matrix \in SUBSET (Rows \X Rows) /\ zeros \in SUBSET Rows
    BY InputAssumption DEF Init
<1>2. stage = "order" /\ regions = <<>>
    BY DEF Init
<1> QED
    BY <1>1, <1>2 DEF IInv, HasSolution, HasRhs, HasValues, HasRegions, IsPlanned, HasWork,
                      HasMapping, HasFactor, HasRows, HasInverses, HasOrdering

\* What the invariant says of the plan, stage by stage.
LEMMA PartsAreThere ==
    ASSUME IInv
    PROVE  /\ stage \in HasInverses => Inverted
           /\ stage \in HasFactor   => Mergeable
           /\ stage \in HasWork     => Analyzed
<1>1. ASSUME stage \in HasInverses PROVE Inverted /\ Delivered
    <2>1. Delivered /\ pInverse = InverseOf(p) /\ qInverse = InverseOf(q)
        BY <1>1 DEF IInv, HasOrdering
    <2>2. p \in [Rows -> Rows] /\ IsPermutation(p) /\ q \in [Rows -> Rows] /\ IsPermutation(q)
        BY <2>1 DEF Delivered
    <2>3. Inverts(pInverse, p) /\ Inverts(qInverse, q)
        BY <2>1, <2>2, PermutationIsInverted
    <2> QED
        BY <2>1, <2>3 DEF Inverted, IInv
<1>2. ASSUME stage \in HasFactor PROVE Mergeable /\ Delivered
    <2>1. stage \in HasRows /\ stage \in HasInverses
        BY <1>2 DEF HasRows, HasInverses
    <2> QED
        BY <1>1, <1>2, <2>1 DEF Mergeable, IInv
<1>3. ASSUME stage \in HasWork PROVE Analyzed
    <2>1. stage \in HasMapping /\ stage \in HasFactor
        BY <1>3 DEF HasMapping, HasFactor
    <2> QED
        BY <1>2, <1>3, <2>1 DEF Analyzed, IInv
<1> QED
    BY <1>1, <1>2, <1>3

\* A part stays what it is while the variables it is made of do.
LEMMA DeliveredStays ==
    ASSUME UNCHANGED ordering
    PROVE  Delivered' <=> Delivered
    BY DEF ordering, Delivered, InOrder, IsPermutation

LEMMA BuiltStays ==
    ASSUME UNCHANGED <<input, inverses>>
    PROVE  /\ Sorted' = Sorted
           /\ [k \in Positions |-> Position(EntryAt[k])]'
                  = [k \in Positions |-> Position(EntryAt[k])]
           /\ [r \in Rows |-> ScaleOf(r)]' = [r \in Rows |-> ScaleOf(r)]
           /\ UNCHANGED permuted => (Built' <=> Built)
<1>1. matrix' = matrix /\ zeros' = zeros /\ pInverse' = pInverse /\ qInverse' = qInverse
    BY DEF input, inverses
<1>2. Positions' = Positions
    BY <1>1 DEF Positions, Nonzeros
<1>3. EntryAt' = EntryAt
    BY <1>1, <1>2 DEF EntryAt, Destination, RowOffset, RowOf, ColumnOf
<1>4. Sorted' = Sorted
    BY <1>1, <1>2, <1>3 DEF Sorted, ColumnOf
<1>5. [k \in Positions |-> Position(EntryAt[k])]' = [k \in Positions |-> Position(EntryAt[k])]
    BY <1>1, <1>2, <1>3 DEF Position
<1>6. [r \in Rows |-> ScaleOf(r)]' = [r \in Rows |-> ScaleOf(r)]
    BY <1>1 DEF ScaleOf, Magnitude, RowOf
<1>7. ASSUME UNCHANGED permuted PROVE Built' <=> Built
    <2>1. columns' = columns /\ originals' = originals /\ scale' = scale
        BY <1>7 DEF permuted
    <2>2. (columns = Sorted)' <=> columns = Sorted
        BY <1>4, <2>1
    <2>3. (originals = [k \in Positions |-> Position(EntryAt[k])])'
              <=> originals = [k \in Positions |-> Position(EntryAt[k])]
        BY <1>5, <2>1
    <2>4. (scale = [r \in Rows |-> ScaleOf(r)])' <=> scale = [r \in Rows |-> ScaleOf(r)]
        BY <1>6, <2>1
    <2> QED
        BY <2>2, <2>3, <2>4 DEF Built
<1> QED
    BY <1>4, <1>5, <1>6, <1>7

LEMMA FactorStays ==
    ASSUME UNCHANGED <<input, ordering, inverses, permuted, factor>>
    PROVE  FactorIsBuilt' <=> FactorIsBuilt
    BY DEF input, ordering, inverses, permuted, FactorIsBuilt, IsFactor, Pattern, RowEntries,
           RowOffset, RowOf, Cuts

LEMMA MappedStays ==
    ASSUME UNCHANGED <<input, ordering, inverses, permuted, factor>>
    PROVE  Mapped' = Mapped
    BY DEF input, ordering, inverses, permuted, Mapped, Positions, Nonzeros, Stops, RowAt,
           RowEntries, RowOffset, RowOf, FactorOffset, SlotOf, ColumnAt

LEMMA CountedStays ==
    ASSUME UNCHANGED <<factor, work>>
    PROVE  Counted' <=> Counted
    BY DEF work, Counted, RowUpdates, ForwardDeps, BackwardDeps

LEMMA RegionsStay ==
    ASSUME UNCHANGED <<ordering, factor, work>>
    PROVE  Candidates(offsets, Blocks, Lengths, updates)'
               = Candidates(offsets, Blocks, Lengths, updates)
    BY DEF ordering, work, Blocks, Lengths

LEMMA ScatteredStays ==
    ASSUME UNCHANGED <<input, inverses, permuted, factor, mapping, values>>
    PROVE  Scattered' <=> Scattered
    BY DEF input, inverses, permuted, Scattered, FactorOffset, RowOf, Position

\* An ordering is delivered.
LEMMA OrderKeeps == ASSUME IInv, Order PROVE IInv'
<1>1. stage = "order" /\ stage' = "invert" /\ regions = <<>>
    BY DEF Order, IInv, HasSolution, HasRhs, HasValues, HasRegions
<1>2. UNCHANGED <<matrix, zeros, regions>>
    BY DEF Order, input
<1>3. Delivered'
    <2>1. PICK rows \in [Rows -> Rows], cols \in [Rows -> Rows],
               cuts \in SUBSET (1 .. Dimension - 1) :
              /\ IsOrdering(rows, cols, cuts)
              /\ p' = rows /\ q' = cols
              /\ offsets' = InOrder(cuts \cup {0, Dimension})
        BY DEF Order
    <2>2. IsPermutation(rows) /\ IsPermutation(cols)
        BY <2>1 DEF IsOrdering
    <2>3. IsPermutation(p)' /\ IsPermutation(q)'
        BY <2>1, <2>2 DEF IsPermutation
    <2>4. (\E cut \in SUBSET (1 .. Dimension - 1) : offsets = InOrder(cut \cup {0, Dimension}))'
        BY <2>1 DEF InOrder
    <2> QED
        BY <2>1, <2>3, <2>4 DEF Delivered
<1> QED
    BY <1>1, <1>2, <1>3 DEF IInv, HasSolution, HasRhs, HasValues, HasRegions, IsPlanned, HasWork,
                           HasMapping, HasFactor, HasRows, HasInverses, HasOrdering

\* A step of the analysis keeps the invariant; here, one that ends it.
LEMMA FailureKeeps == ASSUME IInv, OrderFails \/ SymbolicFails PROVE IInv'
<1>1. stage \in {"order", "symbolic"} /\ stage' = "failed"
    BY DEF OrderFails, SymbolicFails
<1>2. UNCHANGED <<matrix, zeros, regions>>
    BY DEF OrderFails, SymbolicFails, input
<1> QED
    BY <1>1, <1>2 DEF IInv, HasSolution, HasRhs, HasValues, HasRegions, IsPlanned, HasWork,
                      HasMapping, HasFactor, HasRows, HasInverses, HasOrdering

\* The inverses are those of the ordering, as build_inverse makes them.
LEMMA InvertKeeps == ASSUME IInv, Invert PROVE IInv'
<1>1. stage = "invert"
    BY DEF Invert
<1>2. Delivered /\ regions = <<>>
    BY <1>1 DEF IInv, HasSolution, HasRhs, HasValues, HasRegions, IsPlanned, HasWork,
                HasMapping, HasFactor, HasRows, HasInverses, HasOrdering
<1>3. /\ stage' = "permute" /\ pInverse' = InverseOf(p) /\ qInverse' = InverseOf(q)
      /\ UNCHANGED <<matrix, zeros, ordering, regions>>
    BY <1>2 DEF Invert, Delivered, input
<1>4. (pInverse = InverseOf(p) /\ qInverse = InverseOf(q))'
    BY <1>3 DEF ordering, InverseOf
<1>5. Delivered'
    BY <1>2, <1>3, DeliveredStays
<1> QED
    BY <1>1, <1>2, <1>3, <1>4, <1>5
       DEF IInv, HasSolution, HasRhs, HasValues, HasRegions, IsPlanned, HasWork,
           HasMapping, HasFactor, HasRows, HasInverses, HasOrdering

LEMMA InversesStay ==
    ASSUME UNCHANGED <<ordering, inverses>>
    PROVE  (pInverse = InverseOf(p) /\ qInverse = InverseOf(q))'
               <=> (pInverse = InverseOf(p) /\ qInverse = InverseOf(q))
    BY DEF ordering, inverses, InverseOf

\* The permuted rows are those of the sort.
LEMMA PermuteKeeps == ASSUME IInv, Permute PROVE IInv'
<1>1. stage = "permute"
    BY DEF Permute
<1>2. /\ Delivered /\ regions = <<>> /\ pInverse = InverseOf(p) /\ qInverse = InverseOf(q)
      /\ stage \in HasInverses
    BY <1>1 DEF IInv, HasSolution, HasRhs, HasValues, HasRegions, IsPlanned, HasWork,
                HasMapping, HasFactor, HasRows, HasInverses, HasOrdering
<1>3. UNCHANGED <<input, ordering, inverses, regions>>
    BY DEF Permute
<1>4. Inverted
    BY <1>2, PartsAreThere
<1>5. \A r \in Rows : Ascending(Sorted, RowOffset(r), RowOffset(r + 1) - 1)
    BY <1>4, RowsAreSorted
<1>6. /\ columns' = Sorted
      /\ originals' = [k \in Positions |-> Position(EntryAt[k])]
      /\ scale' = [r \in Rows |-> ScaleOf(r)]
      /\ stage' = IF debug /\ \E r \in Rows :
                         ~Ascending(Sorted, RowOffset(r), RowOffset(r + 1) - 1)
                  THEN "invalid" ELSE "symbolic"
    BY DEF Permute, EntryAt, Sorted
<1>7. stage' = "symbolic"
    BY <1>5, <1>6
<1>8. Built'
    <2>1. /\ Sorted' = Sorted
          /\ [k \in Positions |-> Position(EntryAt[k])]'
                 = [k \in Positions |-> Position(EntryAt[k])]
          /\ [r \in Rows |-> ScaleOf(r)]' = [r \in Rows |-> ScaleOf(r)]
        BY <1>3, BuiltStays
    <2>2. (columns = Sorted)'
        BY <1>6, <2>1
    <2>3. (originals = [k \in Positions |-> Position(EntryAt[k])])'
        BY <1>6, <2>1
    <2>4. (scale = [r \in Rows |-> ScaleOf(r)])'
        BY <1>6, <2>1
    <2> QED
        BY <2>2, <2>3, <2>4 DEF Built
<1>9. Delivered' /\ (pInverse = InverseOf(p) /\ qInverse = InverseOf(q))'
    BY <1>2, <1>3, DeliveredStays, InversesStay
<1>10. UNCHANGED <<matrix, zeros, regions>>
    BY <1>3 DEF input
<1> QED
    BY <1>2, <1>7, <1>8, <1>9, <1>10
       DEF IInv, HasSolution, HasRhs, HasValues, HasRegions, IsPlanned, HasWork,
           HasMapping, HasFactor, HasRows, HasInverses, HasOrdering

\* The factor has the rows' entries, the diagonal and the fill.
LEMMA SymbolicKeeps == ASSUME IInv, Symbolic PROVE IInv'
<1>1. stage = "symbolic" /\ stage' = "map"
    BY DEF Symbolic
<1>2. /\ Delivered /\ regions = <<>> /\ pInverse = InverseOf(p) /\ qInverse = InverseOf(q)
      /\ Built
    BY <1>1 DEF IInv, HasSolution, HasRhs, HasValues, HasRegions, IsPlanned, HasWork,
                HasMapping, HasFactor, HasRows, HasInverses, HasOrdering
<1>3. UNCHANGED <<input, ordering, inverses, permuted, regions>>
    BY DEF Symbolic
<1>4. PICK f \in [Rows -> SUBSET Rows] : IsFactor(f) /\ factor' = f
    BY DEF Symbolic
<1>5. IsFactor(f)' <=> IsFactor(f)
    BY <1>3 DEF input, ordering, inverses, permuted, IsFactor, Pattern, RowEntries,
                RowOffset, RowOf, Cuts
<1>6. FactorIsBuilt'
    BY <1>4, <1>5 DEF FactorIsBuilt, IsFactor
<1>7. /\ Delivered' /\ (pInverse = InverseOf(p) /\ qInverse = InverseOf(q))' /\ Built'
      /\ UNCHANGED <<matrix, zeros>>
    BY <1>2, <1>3, DeliveredStays, InversesStay, BuiltStays DEF input
<1> QED
    BY <1>1, <1>2, <1>3, <1>6, <1>7
       DEF IInv, HasSolution, HasRhs, HasValues, HasRegions, IsPlanned, HasWork,
           HasMapping, HasFactor, HasRows, HasInverses, HasOrdering

\* What is there once the factor is, and once the plan is.
Factored ==
    /\ matrix \in SUBSET (Rows \X Rows) /\ zeros \in SUBSET Rows
    /\ Delivered /\ pInverse = InverseOf(p) /\ qInverse = InverseOf(q)
    /\ Built /\ FactorIsBuilt
Planned  == Factored /\ mapping = Mapped /\ Counted
Shared   == Planned /\ regions = Candidates(offsets, Blocks, Lengths, updates)

LEMMA FactoredStays ==
    ASSUME UNCHANGED <<input, ordering, inverses, permuted, factor>>
    PROVE  Factored' <=> Factored
<1>1. UNCHANGED <<matrix, zeros>>
    BY DEF input
<1> QED
    BY <1>1, DeliveredStays, InversesStay, BuiltStays, FactorStays DEF Factored

LEMMA PlannedStays ==
    ASSUME UNCHANGED <<input, ordering, inverses, permuted, factor, mapping, work>>
    PROVE  Planned' <=> Planned
    BY FactoredStays, MappedStays, CountedStays DEF Planned

LEMMA SharedStays ==
    ASSUME UNCHANGED <<input, ordering, inverses, permuted, factor, mapping, work, regions>>
    PROVE  Shared' <=> Shared
<1>1. Candidates(offsets, Blocks, Lengths, updates)' = Candidates(offsets, Blocks, Lengths, updates)
    BY RegionsStay
<1> QED
    BY <1>1, PlannedStays DEF Shared

\* The invariant at each stage.
LEMMA StageByStage ==
    /\ stage = "map" => (IInv <=> Factored /\ regions = <<>>)
    /\ stage = "schedule" => (IInv <=> Factored /\ mapping = Mapped /\ regions = <<>>)
    /\ stage \in {"validate", "planned"} => (IInv <=> Planned /\ regions = <<>>)
    /\ stage = "initialize" => (IInv <=> Shared)
    /\ stage = "rhs" => (IInv <=> Shared /\ Scattered)
    /\ stage = "solution" =>
           (IInv <=> Shared /\ Scattered /\ rhs = [r \in Rows |-> <<p[r], scale[r]>>])
    /\ stage = "solved" => (IInv <=> Shared /\ Solved)
    BY DEF IInv, Factored, Planned, Shared, Solved, HasSolution, HasRhs, HasValues, HasRegions,
           IsPlanned, HasWork, HasMapping, HasFactor, HasRows, HasInverses, HasOrdering

\* A factor that is built can be merged, and a plan that is made was analyzed.
LEMMA PlannedIsAnalyzed ==
    /\ Factored => Mergeable
    /\ Planned  => Analyzed
<1>1. ASSUME Factored PROVE Mergeable /\ Delivered
    <2>1. p \in [Rows -> Rows] /\ IsPermutation(p) /\ q \in [Rows -> Rows] /\ IsPermutation(q)
        BY <1>1 DEF Factored, Delivered
    <2>2. Inverts(pInverse, p) /\ Inverts(qInverse, q)
        BY <1>1, <2>1, PermutationIsInverted DEF Factored
    <2> QED
        BY <1>1, <2>2 DEF Factored, Mergeable, Inverted
<1>2. ASSUME Planned PROVE Analyzed
    BY <1>1, <1>2 DEF Planned, Analyzed
<1> QED
    BY <1>1, <1>2

\* Every entry is mapped to its slot: the merge finds them all.
LEMMA MapMatrixKeeps == ASSUME IInv, MapMatrix PROVE IInv'
<1>1. stage = "map"
    BY DEF MapMatrix
<1>2. Factored /\ regions = <<>>
    BY <1>1, StageByStage
<1>3. \A k \in Positions : Present(k)
    BY <1>2, PlannedIsAnalyzed, MappingIsRight
<1>4. /\ mapping' = Mapped /\ stage' = "schedule"
      /\ UNCHANGED <<input, ordering, inverses, permuted, factor, regions>>
    BY <1>3 DEF MapMatrix
<1>5. Factored'
    BY <1>2, <1>4, FactoredStays
<1>6. Mapped' = Mapped
    BY <1>4, MappedStays
<1>7. (stage = "schedule" => (IInv <=> Factored /\ mapping = Mapped /\ regions = <<>>))'
    BY StageByStage, PTL
<1> QED
    BY <1>2, <1>4, <1>5, <1>6, <1>7

\* The schedules are those of the factor.
LEMMA BuildSchedulesKeeps == ASSUME IInv, BuildSchedules PROVE IInv'
<1>1. stage = "schedule"
    BY DEF BuildSchedules
<1>2. Factored /\ mapping = Mapped /\ regions = <<>>
    BY <1>1, StageByStage
<1>3. /\ stage' = "validate"
      /\ UNCHANGED <<input, ordering, inverses, permuted, factor, mapping, regions>>
    BY DEF BuildSchedules
<1>4. Factored' /\ (mapping = Mapped)'
    BY <1>2, <1>3, FactoredStays, MappedStays
<1>5. Counted'
    <2>1. factor' = factor
        BY <1>3
    <2>2. /\ [r \in Rows |-> RowUpdates(r)]' = [r \in Rows |-> RowUpdates(r)]
          /\ ForwardDeps' = ForwardDeps /\ BackwardDeps' = BackwardDeps
        BY <2>1 DEF RowUpdates, ForwardDeps, BackwardDeps
    <2>3. /\ updates' = [r \in Rows |-> RowUpdates(r)]
          /\ total' = Total(updates', Rows)
          /\ schedules' = [forward  |-> Schedule(RowLevels(Rows, ForwardDeps)),
                           backward |-> Schedule(RowLevels(Rows, BackwardDeps))]
        BY DEF BuildSchedules
    <2>4. (updates = [r \in Rows |-> RowUpdates(r)])'
        BY <2>2, <2>3
    <2>5. (total = Total(updates, Rows))'
        BY <2>3
    <2>6. (schedules = [forward  |-> Schedule(RowLevels(Rows, ForwardDeps)),
                        backward |-> Schedule(RowLevels(Rows, BackwardDeps))])'
        BY <2>2, <2>3
    <2> QED
        BY <2>4, <2>5, <2>6 DEF Counted
<1>6. (stage \in {"validate", "planned"} => (IInv <=> Planned /\ regions = <<>>))'
    BY StageByStage, PTL
<1> QED
    BY <1>2, <1>3, <1>4, <1>5, <1>6 DEF Planned

\* No self-check fires: the plan passes all of them.
LEMMA ValidateKeeps == ASSUME IInv, Validate PROVE IInv'
<1>1. stage = "validate"
    BY DEF Validate
<1>2. Planned /\ regions = <<>>
    BY <1>1, StageByStage
<1>3. ValidDimensions /\ Valid
    BY <1>2, PlannedIsAnalyzed, PlanPasses
<1>4. /\ stage' = "planned"
      /\ UNCHANGED <<input, ordering, inverses, permuted, factor, mapping, work, regions>>
    BY <1>3 DEF Validate
<1>5. Planned'
    BY <1>2, <1>4, PlannedStays
<1>6. (stage \in {"validate", "planned"} => (IInv <=> Planned /\ regions = <<>>))'
    BY StageByStage, PTL
<1> QED
    BY <1>2, <1>4, <1>5, <1>6

\* The regions are measured when the plan is there.
LEMMA BuildCandidatesKeeps == ASSUME IInv, BuildCandidates PROVE IInv'
<1>1. stage = "planned"
    BY DEF BuildCandidates
<1>2. Planned
    BY <1>1, StageByStage
<1>3. /\ regions' = Candidates(offsets, Blocks, Lengths, updates)
      /\ UNCHANGED <<input, ordering, inverses, permuted, factor, mapping, work>>
    BY DEF BuildCandidates, Blocks, Lengths
<1>4. Bounds(offsets, Blocks)
    BY <1>2, OffsetsAreBounds DEF Planned, Factored, Blocks
<1>5. CoverIsValid(Candidates(offsets, Blocks, Lengths, updates), Dimension)
    BY <1>4, CandidatesCover
<1>6. stage' = "initialize"
    BY <1>3, <1>5 DEF BuildCandidates
<1>7. Planned'
    BY <1>2, <1>3, PlannedStays
<1>8. Candidates(offsets, Blocks, Lengths, updates)' = Candidates(offsets, Blocks, Lengths, updates)
    BY <1>3, RegionsStay
<1>9. Shared'
    BY <1>3, <1>7, <1>8 DEF Shared
<1>10. (stage = "initialize" => (IInv <=> Shared))'
    BY StageByStage, PTL
<1> QED
    BY <1>6, <1>9, <1>10

\* The values are scattered into their slots.
LEMMA InitializeValuesKeeps == ASSUME IInv, InitializeValues PROVE IInv'
<1>1. stage = "initialize"
    BY DEF InitializeValues
<1>2. Shared
    BY <1>1, StageByStage
<1>3. /\ stage' = "rhs"
      /\ UNCHANGED <<input, ordering, inverses, permuted, factor, mapping, work, regions>>
    BY DEF InitializeValues
<1>4. Shared'
    BY <1>2, <1>3, SharedStays
<1>5. Scattered'
    BY <1>3 DEF InitializeValues, Scattered, input, inverses, permuted, FactorOffset, RowOf,
                Position
<1>6. (stage = "rhs" => (IInv <=> Shared /\ Scattered))'
    BY StageByStage, PTL
<1> QED
    BY <1>3, <1>4, <1>5, <1>6

\* The right-hand side is permuted and scaled as its rows are.
LEMMA PermuteRightHandSideKeeps == ASSUME IInv, PermuteRightHandSide PROVE IInv'
<1>1. stage = "rhs"
    BY DEF PermuteRightHandSide
<1>2. Shared /\ Scattered
    BY <1>1, StageByStage
<1>3. /\ stage' = "solution" /\ rhs' = [r \in Rows |-> <<p[r], scale[r]>>]
      /\ UNCHANGED <<input, ordering, inverses, permuted, factor, mapping, work, regions,
                     values>>
    BY DEF PermuteRightHandSide
<1>4. Shared' /\ Scattered'
    BY <1>2, <1>3, SharedStays, ScatteredStays
<1>5. (rhs = [r \in Rows |-> <<p[r], scale[r]>>])'
    BY <1>3 DEF ordering, permuted
<1>6. (stage = "solution" =>
          (IInv <=> Shared /\ Scattered /\ rhs = [r \in Rows |-> <<p[r], scale[r]>>]))'
    BY StageByStage, PTL
<1> QED
    BY <1>3, <1>4, <1>5, <1>6

\* The solution is put back in the order of the unknowns.
LEMMA InversePermuteSolutionKeeps == ASSUME IInv, InversePermuteSolution PROVE IInv'
<1>1. stage = "solution"
    BY DEF InversePermuteSolution
<1>2. Shared /\ Scattered /\ rhs = [r \in Rows |-> <<p[r], scale[r]>>]
    BY <1>1, StageByStage
<1>3. /\ stage' = "solved" /\ solution' = [o \in Rows |-> CHOOSE c \in Rows : q[c] = o]
      /\ UNCHANGED <<input, ordering, inverses, permuted, factor, mapping, work, regions,
                     values, rhs>>
    BY DEF InversePermuteSolution
<1>4. Shared' /\ Scattered'
    BY <1>2, <1>3, SharedStays, ScatteredStays
<1>5. (rhs = [r \in Rows |-> <<p[r], scale[r]>>])'
    BY <1>2, <1>3 DEF ordering, permuted
<1>6. (solution = [o \in Rows |-> CHOOSE c \in Rows : q[c] = o])'
    BY <1>3 DEF ordering
<1>7. (stage = "solved" => (IInv <=> Shared /\ Solved))'
    BY StageByStage, PTL
<1> QED
    BY <1>3, <1>4, <1>5, <1>6, <1>7 DEF Solved

\* A step that changes nothing.
LEMMA StutterKeeps == ASSUME IInv, UNCHANGED vars PROVE IInv'
<1>1. UNCHANGED <<input, stage, ordering, inverses, permuted, factor, mapping, work, regions,
                  values, rhs, solution>>
    BY DEF vars, system
<1>2. Delivered' <=> Delivered
    BY <1>1, DeliveredStays
<1>3. Built' <=> Built
    BY <1>1, BuiltStays
<1>4. (FactorIsBuilt' <=> FactorIsBuilt) /\ Mapped' = Mapped
    BY <1>1, FactorStays, MappedStays
<1>5. Counted' <=> Counted
    BY <1>1, CountedStays
<1>6. Candidates(offsets, Blocks, Lengths, updates)' = Candidates(offsets, Blocks, Lengths, updates)
    BY <1>1, RegionsStay
<1>7. Scattered' <=> Scattered
    BY <1>1, ScatteredStays
<1>8. /\ (pInverse = InverseOf(p))' <=> pInverse = InverseOf(p)
      /\ (qInverse = InverseOf(q))' <=> qInverse = InverseOf(q)
      /\ UNCHANGED <<matrix, zeros>>
    BY <1>1 DEF input, ordering, inverses, InverseOf
<1>9. /\ (rhs = [r \in Rows |-> <<p[r], scale[r]>>])' <=> rhs = [r \in Rows |-> <<p[r], scale[r]>>]
      /\ (solution = [o \in Rows |-> CHOOSE c \in Rows : q[c] = o])'
             <=> solution = [o \in Rows |-> CHOOSE c \in Rows : q[c] = o]
    BY <1>1 DEF ordering, permuted
<1> QED
    BY <1>1, <1>2, <1>3, <1>4, <1>5, <1>6, <1>7, <1>8, <1>9 DEF IInv

\* Every step keeps the invariant.
LEMMA NextIsFine == IInv /\ [Next]_vars => IInv'
<1> SUFFICES ASSUME IInv, [Next]_vars PROVE IInv'
    OBVIOUS
<1>1. CASE Order \/ OrderFails
    BY <1>1, OrderKeeps, FailureKeeps
<1>2. CASE Invert
    BY <1>2, InvertKeeps
<1>3. CASE Permute
    BY <1>3, PermuteKeeps
<1>4. CASE Symbolic \/ SymbolicFails
    BY <1>4, SymbolicKeeps, FailureKeeps
<1>5. CASE MapMatrix
    BY <1>5, MapMatrixKeeps
<1>6. CASE BuildSchedules
    BY <1>6, BuildSchedulesKeeps
<1>7. CASE Validate
    BY <1>7, ValidateKeeps
<1>8. CASE BuildCandidates
    BY <1>8, BuildCandidatesKeeps
<1>9. CASE InitializeValues
    BY <1>9, InitializeValuesKeeps
<1>10. CASE PermuteRightHandSide
    BY <1>10, PermuteRightHandSideKeeps
<1>11. CASE InversePermuteSolution
    BY <1>11, InversePermuteSolutionKeeps
<1>12. CASE Ended \/ UNCHANGED vars
    BY <1>12, StutterKeeps DEF Ended
<1> QED
    BY <1>1, <1>2, <1>3, <1>4, <1>5, <1>6, <1>7, <1>8, <1>9, <1>10, <1>11, <1>12 DEF Next

\* The invariant holds in every state of the analysis.
LEMMA Invariance == Spec => []IInv
    BY InitIsFine, NextIsFine, PTL DEF Spec

\* SelfChecksNeverFire: whatever the matrix and whatever ordering is delivered, nothing
\* that analyze() checks of its own work fails.
THEOREM SelfChecksPass == Spec => []SelfChecksNeverFire
<1>1. IInv => SelfChecksNeverFire
    BY DEF IInv, SelfChecksNeverFire, HasSolution, HasRhs, HasValues, HasRegions, IsPlanned,
           HasWork, HasMapping, HasFactor, HasRows, HasInverses, HasOrdering
<1> QED
    BY <1>1, Invariance, PTL

\* ReleasePlanIsValid: a release build hands its kernels a plan that the exhaustive
\* validation would have accepted.
THEOREM ReleasePlansAreValid == Spec => []ReleasePlanIsValid
<1>1. IInv => ReleasePlanIsValid
    BY StageByStage, PlannedIsAnalyzed, PlanPasses DEF Shared, ReleasePlanIsValid
<1> QED
    BY <1>1, Invariance, PTL

\* SystemIsTheInput: through both permutations, the scaling and the mapping into the
\* factor, the system that is solved is the system that was given.
THEOREM SystemsAreTheInput == Spec => []SystemIsTheInput
<1>1. IInv => SystemIsTheInput
    <2>1. ASSUME IInv, stage = "solved" PROVE Analyzed /\ Solved
        BY <2>1, StageByStage, PlannedIsAnalyzed DEF Shared
    <2> QED
        BY <2>1, SolvedSystemIsTheInput DEF SystemIsTheInput
<1> QED
    BY <1>1, Invariance, PTL

\* RegionsShareTheWork: the candidate regions share out all rows, factor entries and
\* updates, none twice, and their summary is that of the whole.
THEOREM RegionsShareAll == Spec => []RegionsShareTheWork
<1>1. IInv => RegionsShareTheWork
    <2>1. ASSUME IInv, regions # <<>>
          PROVE  Analyzed /\ regions = Candidates(offsets, Blocks, Lengths, updates)
        <3>1. stage \in HasRegions
            BY <2>1 DEF IInv
        <3> QED
            BY <2>1, <3>1, PartsAreThere DEF IInv, HasWork, IsPlanned
    <2> QED
        BY <2>1, RegionsShare DEF RegionsShareTheWork
<1> QED
    BY <1>1, Invariance, PTL

-----------------------------------------------------------------------------
\* A sum of Add that is finite is exact, and so are the sums it is made of.
LEMMA FiniteSumsAreExact ==
    ASSUME NEW x \in Int, NEW y \in Int
    PROVE  /\ Add(x, y) \in Int
           /\ IsFinite(Add(x, y)) => IsFinite(x) /\ IsFinite(y) /\ Add(x, y) = x + y
    BY NumberAssumption DEF Add, IsFinite, Infinity, NaN

\* A sum with a term more, of a function that agrees on the others.
LEMMA SumGrows ==
    ASSUME NEW f, NEW U, Integral(f, U), NEW g, \A x \in U : g[x] = f[x],
           NEW y, y \notin U, g[y] \in Int
    PROVE  SumOver(g, U \cup {y}) = SumOver(f, U) + g[y]
<1>1. Integral(g, U)
    BY DEF Integral
<1>2. SumOver(g, U) = SumOver(f, U)
    BY SumOfEqualTerms
<1>3. SumOver(g, U \cup {y}) = g[y] + SumOver(g, U)
    BY <1>1, SumWith
<1>4. SumOver(f, U) \in Int
    BY SumIsInteger
<1> QED
    BY <1>2, <1>3, <1>4

\* A sum of one term.
LEMMA SumOfOne ==
    ASSUME NEW f, NEW x, f[x] \in Int
    PROVE  SumOver(f, {x}) = f[x]
<1> PICK none : none = {}
    OBVIOUS
<1>1. Integral(f, none) /\ x \notin none /\ none \cup {x} = {x}
    BY FS_EmptySet DEF Integral
<1>2. SumOver(f, none \cup {x}) = f[x] + SumOver(f, none)
    BY <1>1, SumWith
<1>3. SumOver(f, none) = 0
    BY SumOfEmpty
<1> QED
    BY <1>1, <1>2, <1>3

-----------------------------------------------------------------------------
\* Entries of a matrix of n rows, and the values of a list of them.
Cells(n) == [row : 0 .. n - 1, column : 0 .. n - 1, value : Int]

Values(list) == [i \in DOMAIN list |-> list[i].value]

\* Those numbered in S that are in row r and column c.
At(list, r, c, S) == {i \in S : list[i].row = r /\ list[i].column = c}

\* What they add up to.
Gathered(list, r, c, S) == SumOver(Values(list), At(list, r, c, S))

\* What Merge has made of the entries that are not open any more: the entries in
\* order, one for each place, and those that did not overflow are exact.
MergedFrom(list, open, merged, n) ==
    /\ open \in SUBSET DOMAIN list
    /\ merged \in Seq(Cells(n))
    /\ \A k, l \in DOMAIN merged : k < l => Before(merged[k], merged[l])
    /\ \A k \in DOMAIN merged : \A i \in open : ~Before(list[i], merged[k])
    /\ \A i \in DOMAIN list \ open : \E k \in DOMAIN merged : SameKey(merged[k], list[i])
    /\ \A k \in DOMAIN merged : IsFinite(merged[k].value) =>
           merged[k].value =
               Gathered(list, merged[k].row, merged[k].column, DOMAIN list \ open)

\* The values of entries can be added.
LEMMA ValuesAreIntegral ==
    ASSUME NEW n \in Nat, NEW list \in Seq(Cells(n)), NEW S \in SUBSET DOMAIN list
    PROVE  Integral(Values(list), S)
<1>1. DOMAIN list = 1 .. Len(list) /\ Len(list) \in Int
    OBVIOUS
<1>2. IsFiniteSet(S)
    <2>1. IsFiniteSet(1 .. Len(list))
        BY <1>1, FS_Interval
    <2>2. S \subseteq 1 .. Len(list)
        BY <1>1
    <2> QED
        BY <2>1, <2>2, FS_Subset
<1>3. \A i \in DOMAIN list : list[i] \in Cells(n)
    OBVIOUS
<1> QED
    BY <1>2, <1>3 DEF Integral, Values, Cells

\* Entries in the order of make_csc.
LEMMA BeforeIsAnOrder ==
    ASSUME NEW n \in Nat, NEW e \in Cells(n), NEW f \in Cells(n), NEW g \in Cells(n)
    PROVE  /\ Before(e, f) => ~SameKey(e, f) /\ ~Before(f, e)
           /\ Before(e, f) /\ Before(f, g) => Before(e, g)
           /\ Before(e, f) \/ SameKey(e, f) \/ Before(f, e)
           /\ SameKey(e, f) /\ Before(f, g) => Before(e, g)
           /\ SameKey(e, f) /\ Before(g, f) => Before(g, e)
    BY DEF Before, SameKey, Cells

\* One more entry is merged: the entries at other places stay as they are.
LEMMA OtherPlaces ==
    ASSUME NEW list, NEW open \in SUBSET DOMAIN list, NEW i \in open, NEW r, NEW c,
           list[i].row # r \/ list[i].column # c
    PROVE  Gathered(list, r, c, DOMAIN list \ (open \ {i}))
               = Gathered(list, r, c, DOMAIN list \ open)
<1>1. At(list, r, c, DOMAIN list \ (open \ {i})) = At(list, r, c, DOMAIN list \ open)
    BY DEF At
<1> QED
    BY <1>1 DEF Gathered

\* Merging an entry adds it to its own place.
LEMMA SamePlace ==
    ASSUME NEW n \in Nat, NEW list \in Seq(Cells(n)), NEW open \in SUBSET DOMAIN list,
           NEW i \in open, NEW r, NEW c, list[i].row = r, list[i].column = c
    PROVE  Gathered(list, r, c, DOMAIN list \ (open \ {i}))
               = Gathered(list, r, c, DOMAIN list \ open) + list[i].value
<1> PICK U : U = At(list, r, c, DOMAIN list \ open)
    OBVIOUS
<1>1. /\ At(list, r, c, DOMAIN list \ (open \ {i})) = U \cup {i}
      /\ i \notin U /\ U \in SUBSET DOMAIN list
    BY DEF At
<1> PICK f : f = Values(list)
    OBVIOUS
<1>2. Integral(f, U)
    BY <1>1, ValuesAreIntegral
<1>3. i \in DOMAIN list /\ list[i] \in Cells(n)
    OBVIOUS
<1>4. f[i] = list[i].value /\ list[i].value \in Int
    BY <1>3 DEF Values, Cells
<1>5. f[i] \in Int
    BY <1>4
<1>6. SumOver(f, U \cup {i}) = f[i] + SumOver(f, U)
    BY <1>1, <1>2, <1>5, SumWith
<1>7. SumOver(f, U) \in Int
    BY <1>2, SumIsInteger
<1>8. Gathered(list, r, c, DOMAIN list \ (open \ {i})) = SumOver(f, U \cup {i})
    BY <1>1 DEF Gathered
<1>9. Gathered(list, r, c, DOMAIN list \ open) = SumOver(f, U)
    BY DEF Gathered
<1>10. f[i] = list[i].value
    BY <1>4
<1> QED
    BY <1>5, <1>6, <1>7, <1>8, <1>9, <1>10

\* A duplicate is added to the entry before it.
LEMMA MergesIntoTheLast ==
    ASSUME NEW n \in Nat, NEW list \in Seq(Cells(n)), NEW open, NEW merged,
           MergedFrom(list, open, merged, n),
           NEW i \in open, \A j \in open : ~Before(list[j], list[i]),
           NEW m, m = Len(merged), merged # <<>>, SameKey(merged[m], list[i])
    PROVE  MergedFrom(list, open \ {i},
               [merged EXCEPT ![m].value = Add(@, list[i].value)], n)
<1> PICK next : next = [merged EXCEPT ![m].value = Add(@, list[i].value)]
    OBVIOUS
<1>1. /\ merged \in Seq(Cells(n)) /\ m \in Nat \ {0} /\ DOMAIN merged = 1 .. m
      /\ \A k \in 1 .. m : merged[k] \in Cells(n)
      /\ open \in SUBSET DOMAIN list /\ list[i] \in Cells(n)
    BY DEF MergedFrom
<1>2. /\ DOMAIN next = 1 .. m
      /\ \A k \in 1 .. m : k # m => next[k] = merged[k]
      /\ next[m] = [merged[m] EXCEPT !.value = Add(@, list[i].value)]
    BY <1>1
<1>3. /\ next[m].row = merged[m].row /\ next[m].column = merged[m].column
      /\ next[m].value = Add(merged[m].value, list[i].value)
      /\ next[m] \in Cells(n)
    <2>1. merged[m] \in Cells(n)
        BY <1>1
    <2>2. merged[m].value \in Int /\ list[i].value \in Int
        BY <1>1, <2>1 DEF Cells
    <2>3. Add(merged[m].value, list[i].value) \in Int
        BY <2>2, FiniteSumsAreExact
    <2> PICK cell : cell = merged[m]
        OBVIOUS
    <2> PICK amount : amount = Add(merged[m].value, list[i].value)
        OBVIOUS
    <2>4. next[m] = [cell EXCEPT !.value = amount]
        BY <1>2
    <2>5. cell \in Cells(n) /\ amount \in Int
        BY <2>1, <2>3
    <2>6. /\ [cell EXCEPT !.value = amount] \in Cells(n)
          /\ [cell EXCEPT !.value = amount].row = cell.row
          /\ [cell EXCEPT !.value = amount].column = cell.column
          /\ [cell EXCEPT !.value = amount].value = amount
        BY <2>5 DEF Cells
    <2> QED
        BY <2>4, <2>6
<1>4. next \in Seq(Cells(n))
    <2>1. \A k \in 1 .. m : next[k] \in Cells(n)
        BY <1>1, <1>2, <1>3
    <2>2. next \in [1 .. m -> Cells(n)]
        BY <1>1, <1>2, <2>1
    <2> QED
        BY <1>1, <2>2 DEF Seq
<1>5. \A k \in 1 .. m : next[k].row = merged[k].row /\ next[k].column = merged[k].column
    BY <1>2, <1>3
<1>6. \A k, l \in DOMAIN next : k < l => Before(next[k], next[l])
    BY <1>1, <1>2, <1>5 DEF MergedFrom, Before
<1>7. \A k \in DOMAIN next : \A j \in open \ {i} : ~Before(list[j], next[k])
    BY <1>1, <1>2, <1>5 DEF MergedFrom, Before
<1>8. \A j \in DOMAIN list \ (open \ {i}) : \E k \in DOMAIN next : SameKey(next[k], list[j])
    <2> TAKE j \in DOMAIN list \ (open \ {i})
    <2>1. CASE j = i
        BY <1>1, <1>2, <1>3, <2>1 DEF SameKey
    <2>2. CASE j # i
        <3>1. PICK k \in 1 .. m : SameKey(merged[k], list[j])
            BY <1>1, <2>2 DEF MergedFrom
        <3> QED
            BY <1>2, <1>5, <3>1 DEF SameKey
    <2> QED
        BY <2>1, <2>2
<1>9. ASSUME NEW k \in DOMAIN next, IsFinite(next[k].value)
      PROVE  next[k].value =
                 Gathered(list, next[k].row, next[k].column, DOMAIN list \ (open \ {i}))
    <2>0. k \in 1 .. m
        BY <1>2
    <2>1. CASE k # m
        <3>1. Before(merged[k], merged[m])
            BY <1>1, <2>0, <2>1 DEF MergedFrom
        <3>2. ~SameKey(merged[k], list[i])
            BY <1>1, <2>0, <3>1 DEF Before, SameKey, Cells
        <3> PICK r, c : r = merged[k].row /\ c = merged[k].column
            OBVIOUS
        <3>5. list[i].row # r \/ list[i].column # c
            BY <3>2 DEF SameKey
        <3>6. Gathered(list, r, c, DOMAIN list \ (open \ {i}))
                  = Gathered(list, r, c, DOMAIN list \ open)
            BY <1>1, <3>5, OtherPlaces
        <3>3. Gathered(list, merged[k].row, merged[k].column, DOMAIN list \ (open \ {i}))
                  = Gathered(list, merged[k].row, merged[k].column, DOMAIN list \ open)
            BY <3>6
        <3>4. next[k] = merged[k]
            BY <1>2, <2>0, <2>1
        <3> QED
            BY <1>1, <1>9, <2>0, <3>3, <3>4 DEF MergedFrom
    <2>2. CASE k = m
        <3>1. /\ IsFinite(merged[m].value)
              /\ next[m].value = merged[m].value + list[i].value
            <4>1. merged[m] \in Cells(n)
                BY <1>1
            <4>2. merged[m].value \in Int /\ list[i].value \in Int
                BY <1>1, <4>1 DEF Cells
            <4> QED
                BY <1>3, <1>9, <2>2, <4>2, FiniteSumsAreExact
        <3>2. merged[m].value =
                  Gathered(list, merged[m].row, merged[m].column, DOMAIN list \ open)
            <4>1. m \in DOMAIN merged
                BY <1>1
            <4> QED
                BY <3>1, <4>1 DEF MergedFrom
        <3> PICK r, c : r = merged[m].row /\ c = merged[m].column
            OBVIOUS
        <3>4. list[i].row = r /\ list[i].column = c
            BY DEF SameKey
        <3>5. Gathered(list, r, c, DOMAIN list \ (open \ {i}))
                  = Gathered(list, r, c, DOMAIN list \ open) + list[i].value
            <4>1. open \in SUBSET DOMAIN list
                BY <1>1
            <4> QED
                BY <3>4, <4>1, SamePlace
        <3>3. Gathered(list, merged[m].row, merged[m].column, DOMAIN list \ (open \ {i}))
                  = Gathered(list, merged[m].row, merged[m].column, DOMAIN list \ open)
                        + list[i].value
            BY <3>5
        <3> QED
            BY <1>3, <2>2, <3>1, <3>2, <3>3
    <2> QED
        BY <2>1, <2>2
<1> QED
    BY <1>1, <1>4, <1>6, <1>7, <1>8, <1>9 DEF MergedFrom

\* An entry of a place that is new goes to the end.
LEMMA MergesAsANewOne ==
    ASSUME NEW n \in Nat, NEW list \in Seq(Cells(n)), NEW open, NEW merged,
           MergedFrom(list, open, merged, n),
           NEW i \in open, \A j \in open : ~Before(list[j], list[i]),
           NEW m, m = Len(merged), merged # <<>> => ~SameKey(merged[m], list[i])
    PROVE  MergedFrom(list, open \ {i}, Append(merged, list[i]), n)
<1> PICK next : next = Append(merged, list[i])
    OBVIOUS
<1>1. /\ merged \in Seq(Cells(n)) /\ m \in Nat /\ DOMAIN merged = 1 .. m
      /\ \A k \in 1 .. m : merged[k] \in Cells(n)
      /\ open \in SUBSET DOMAIN list /\ list[i] \in Cells(n)
    BY DEF MergedFrom
<1>2. /\ next \in Seq(Cells(n)) /\ DOMAIN next = 1 .. m + 1
      /\ \A k \in 1 .. m : next[k] = merged[k]
      /\ next[m + 1] = list[i]
    BY <1>1
<1>3. ASSUME NEW k \in 1 .. m PROVE Before(merged[k], list[i])
    <2>1. m \in 1 .. m /\ merged # <<>>
        BY <1>1
    <2>2. ~Before(list[i], merged[m]) /\ ~SameKey(merged[m], list[i])
        BY <1>1, <2>1 DEF MergedFrom
    <2>3. Before(merged[m], list[i])
        BY <1>1, <2>1, <2>2, BeforeIsAnOrder
    <2>4. CASE k # m
        <3>1. Before(merged[k], merged[m])
            BY <1>1, <2>1, <2>4 DEF MergedFrom
        <3> QED
            BY <1>1, <2>1, <2>3, <3>1, BeforeIsAnOrder
    <2> QED
        BY <2>3, <2>4
<1>4. \A k, l \in DOMAIN next : k < l => Before(next[k], next[l])
    <2> TAKE k, l \in DOMAIN next
    <2> HAVE k < l
    <2>1. k \in 1 .. m /\ (l \in 1 .. m \/ l = m + 1)
        BY <1>1, <1>2
    <2>2. CASE l \in 1 .. m
        BY <1>1, <1>2, <2>1, <2>2 DEF MergedFrom
    <2>3. CASE l = m + 1
        BY <1>2, <1>3, <2>1, <2>3
    <2> QED
        BY <2>1, <2>2, <2>3
<1>5. \A k \in DOMAIN next : \A j \in open \ {i} : ~Before(list[j], next[k])
    BY <1>1, <1>2 DEF MergedFrom
<1>6. \A j \in DOMAIN list \ (open \ {i}) : \E k \in DOMAIN next : SameKey(next[k], list[j])
    <2> TAKE j \in DOMAIN list \ (open \ {i})
    <2>1. CASE j = i
        BY <1>1, <1>2, <2>1 DEF SameKey
    <2>2. CASE j # i
        <3>1. PICK k \in 1 .. m : SameKey(merged[k], list[j])
            BY <1>1, <2>2 DEF MergedFrom
        <3> QED
            BY <1>1, <1>2, <3>1
    <2> QED
        BY <2>1, <2>2
<1>7. ASSUME NEW k \in DOMAIN next, IsFinite(next[k].value)
      PROVE  next[k].value =
                 Gathered(list, next[k].row, next[k].column, DOMAIN list \ (open \ {i}))
    <2>0. k \in 1 .. m \/ k = m + 1
        BY <1>1, <1>2
    <2>1. CASE k \in 1 .. m
        <3>1. ~SameKey(merged[k], list[i])
            BY <1>1, <1>3, <2>1, BeforeIsAnOrder
        <3>2. Gathered(list, merged[k].row, merged[k].column, DOMAIN list \ (open \ {i}))
                  = Gathered(list, merged[k].row, merged[k].column, DOMAIN list \ open)
            BY <1>1, <3>1, OtherPlaces DEF SameKey
        <3>3. next[k] = merged[k]
            BY <1>2, <2>1
        <3> QED
            BY <1>1, <1>7, <2>1, <3>2, <3>3 DEF MergedFrom
    <2>2. CASE k = m + 1
        <3>1. At(list, list[i].row, list[i].column, DOMAIN list \ open) = {}
            <4>1. SUFFICES ASSUME NEW j \in DOMAIN list \ open, SameKey(list[j], list[i])
                           PROVE  FALSE
                BY DEF At, SameKey
            <4>2. PICK l \in 1 .. m : SameKey(merged[l], list[j])
                BY <1>1 DEF MergedFrom
            <4>3. SameKey(merged[l], list[i])
                BY <4>1, <4>2 DEF SameKey
            <4> QED
                BY <1>1, <1>3, <4>3, BeforeIsAnOrder
        <3>2. Gathered(list, list[i].row, list[i].column, DOMAIN list \ (open \ {i}))
                  = SumOver(Values(list), {}) + list[i].value
            <4>1. Gathered(list, list[i].row, list[i].column, DOMAIN list \ (open \ {i}))
                      = Gathered(list, list[i].row, list[i].column, DOMAIN list \ open)
                            + list[i].value
                BY <1>1, SamePlace
            <4> QED
                BY <3>1, <4>1 DEF Gathered
        <3>3. list[i].value \in Int /\ SumOver(Values(list), {}) = 0
            BY <1>1, SumOfEmpty DEF Cells
        <3> QED
            BY <1>2, <2>2, <3>2, <3>3
    <2> QED
        BY <2>0, <2>1, <2>2
<1> QED
    BY <1>1, <1>2, <1>4, <1>5, <1>6, <1>7 DEF MergedFrom

-----------------------------------------------------------------------------
\* What a list adds up to in a place, and what a list adds to it.
LEMMA MergedIsExact ==
    ASSUME NEW n \in Nat, NEW list \in Seq(Cells(n)), NEW merged,
           MergedFrom(list, {}, merged, n), \A k \in DOMAIN merged : IsFinite(merged[k].value),
           NEW r, NEW c
    PROVE  Gathered(merged, r, c, DOMAIN merged) = Gathered(list, r, c, DOMAIN list)
<1>1. merged \in Seq(Cells(n)) /\ DOMAIN list \ {} = DOMAIN list
    BY DEF MergedFrom
<1>2. \A k \in DOMAIN merged : merged[k] \in Cells(n)
    BY <1>1
<1>3. CASE \E k \in DOMAIN merged : merged[k].row = r /\ merged[k].column = c
    <2>1. PICK k \in DOMAIN merged : merged[k].row = r /\ merged[k].column = c
        BY <1>3
    <2>2. \A l \in DOMAIN merged : merged[l].row = r /\ merged[l].column = c => l = k
        <3> TAKE l \in DOMAIN merged
        <3>1. \/ ~Before(merged[k], merged[l]) /\ ~Before(merged[l], merged[k])
              \/ ~SameKey(merged[k], merged[l])
            BY <1>2, BeforeIsAnOrder
        <3>2. DOMAIN merged = 1 .. Len(merged) /\ Len(merged) \in Nat
            BY <1>1
        <3>3. ~(k < l) \/ ~SameKey(merged[k], merged[l])
            BY <3>1 DEF MergedFrom
        <3>4. ~(l < k) \/ ~SameKey(merged[k], merged[l])
            BY <3>1 DEF MergedFrom
        <3>5. k \in Int /\ l \in Int
            BY <3>2
        <3> QED
            BY <2>1, <3>3, <3>4, <3>5 DEF SameKey
    <2>3. At(merged, r, c, DOMAIN merged) = {k}
        BY <2>1, <2>2 DEF At
    <2>4. Values(merged)[k] = merged[k].value /\ merged[k].value \in Int
        BY <1>2 DEF Values, Cells
    <2>5. Gathered(merged, r, c, DOMAIN merged) = merged[k].value
        BY <2>3, <2>4, SumOfOne DEF Gathered
    <2>6. merged[k].value =
              Gathered(list, merged[k].row, merged[k].column, DOMAIN list \ {})
        BY DEF MergedFrom
    <2> QED
        BY <1>1, <2>1, <2>5, <2>6
<1>4. CASE ~\E k \in DOMAIN merged : merged[k].row = r /\ merged[k].column = c
    <2>1. At(merged, r, c, DOMAIN merged) = {}
        BY <1>4 DEF At
    <2>2. ASSUME NEW i \in DOMAIN list, list[i].row = r, list[i].column = c PROVE FALSE
        <3>1. PICK k \in DOMAIN merged : SameKey(merged[k], list[i])
            BY DEF MergedFrom
        <3> QED
            BY <1>4, <2>2, <3>1 DEF SameKey
    <2>3. At(list, r, c, DOMAIN list) = {}
        BY <2>2 DEF At
    <2> QED
        BY <2>1, <2>3, SumOfEmpty DEF Gathered
<1> QED
    BY <1>3, <1>4

\* Merged entries are in places of their own.
LEMMA OnePerPlace ==
    ASSUME NEW n \in Nat, NEW list, NEW open, NEW merged, MergedFrom(list, open, merged, n),
           NEW k \in DOMAIN merged, NEW l \in DOMAIN merged, SameKey(merged[k], merged[l])
    PROVE  k = l
<1>1. /\ merged[k] \in Cells(n) /\ merged[l] \in Cells(n) /\ k \in Int /\ l \in Int
    BY DEF MergedFrom
<1>2. ~Before(merged[k], merged[l]) /\ ~Before(merged[l], merged[k])
    BY <1>1 DEF Before, SameKey, Cells
<1>3. ~(k < l) /\ ~(l < k)
    BY <1>2 DEF MergedFrom
<1> QED
    BY <1>1, <1>3

\* What one entry has in a place.
Held(e, r, c) == IF e.row = r /\ e.column = c THEN e.value ELSE 0

\* One entry more.
LEMMA AppendGathers ==
    ASSUME NEW n \in Nat, NEW list \in Seq(Cells(n)), NEW e \in Cells(n), NEW r, NEW c
    PROVE  /\ Append(list, e) \in Seq(Cells(n))
           /\ Gathered(Append(list, e), r, c, DOMAIN Append(list, e))
                  = Gathered(list, r, c, DOMAIN list) + Held(e, r, c)
<1> PICK more : more = Append(list, e)
    OBVIOUS
<1> PICK m : m = Len(list)
    OBVIOUS
<1>1. /\ m \in Nat /\ DOMAIN list = 1 .. m /\ DOMAIN more = 1 .. m + 1
      /\ \A i \in 1 .. m : more[i] = list[i]
      /\ more[m + 1] = e /\ more \in Seq(Cells(n))
    OBVIOUS
<1> PICK U : U = At(list, r, c, DOMAIN list)
    OBVIOUS
<1> PICK f, g : f = Values(list) /\ g = Values(more)
    OBVIOUS
<1>2. U \in SUBSET (1 .. m) /\ m + 1 \notin U
    BY <1>1 DEF At
<1>3. Integral(f, U)
    BY <1>1, <1>2, ValuesAreIntegral
<1>4. \A i \in U : g[i] = f[i]
    BY <1>1, <1>2 DEF Values
<1>5. g[m + 1] = e.value /\ e.value \in Int
    BY <1>1 DEF Values, Cells
<1>6. Gathered(list, r, c, DOMAIN list) = SumOver(f, U) /\ SumOver(f, U) \in Int
    BY <1>3, SumIsInteger DEF Gathered
<1>7. CASE e.row = r /\ e.column = c
    <2>1. At(more, r, c, DOMAIN more) = U \cup {m + 1}
        BY <1>1, <1>7 DEF At
    <2>2. SumOver(g, U \cup {m + 1}) = SumOver(f, U) + g[m + 1]
        BY <1>2, <1>3, <1>4, <1>5, SumGrows
    <2>3. Gathered(more, r, c, DOMAIN more) = SumOver(g, U \cup {m + 1})
        BY <2>1 DEF Gathered
    <2> QED
        BY <1>1, <1>5, <1>6, <1>7, <2>2, <2>3 DEF Held
<1>8. CASE ~(e.row = r /\ e.column = c)
    <2>1. At(more, r, c, DOMAIN more) = U
        BY <1>1, <1>8 DEF At
    <2>2. SumOver(g, U) = SumOver(f, U)
        BY <1>3, <1>4, SumOfEqualTerms
    <2>3. Gathered(more, r, c, DOMAIN more) = SumOver(g, U)
        BY <2>1 DEF Gathered
    <2> QED
        BY <1>1, <1>6, <1>8, <2>2, <2>3 DEF Held
<1> QED
    BY <1>7, <1>8

-----------------------------------------------------------------------------
\* Lines of a file with the given symmetry.
FileLines(n) == [row : 1 .. n, column : 1 .. n, value : Int]

\* What a line says of a place, and what all do.
Says(symmetry, l, r, c) ==
    (IF l.row = r + 1 /\ l.column = c + 1 THEN l.value ELSE 0) +
    (IF symmetry # "general" /\ r # c /\ l.row = c + 1 /\ l.column = r + 1
     THEN (IF symmetry = "skew-symmetric" THEN -1 ELSE 1) * l.value ELSE 0)

SaidBy(symmetry, list, r, c) ==
    SumOver([i \in DOMAIN list |-> Says(symmetry, list[i], r, c)], DOMAIN list)

\* The file's exact entry is what its lines say.
LEMMA ExactEntryIsSaid ==
    ASSUME NEW r, NEW c
    PROVE  ExactEntry(r, c) = SaidBy(header.symmetry, lines, r, c)
    BY DEF ExactEntry, SaidBy, Says, Mirrored

LEMMA SayingsAreIntegral ==
    ASSUME NEW n \in Nat, NEW list \in Seq(FileLines(n)), NEW symmetry,
           NEW r \in Int, NEW c \in Int
    PROVE  Integral([i \in DOMAIN list |-> Says(symmetry, list[i], r, c)], DOMAIN list)
<1>1. DOMAIN list = 1 .. Len(list) /\ Len(list) \in Int
    OBVIOUS
<1>2. IsFiniteSet(DOMAIN list)
    BY <1>1, FS_Interval
<1>3. ASSUME NEW l \in FileLines(n) PROVE Says(symmetry, l, r, c) \in Int
    BY DEF Says, FileLines
<1>4. \A i \in DOMAIN list : list[i] \in FileLines(n)
    OBVIOUS
<1> QED
    BY <1>2, <1>3, <1>4 DEF Integral

\* One line more.
LEMMA AppendSays ==
    ASSUME NEW n \in Nat, NEW list \in Seq(FileLines(n)), NEW l \in FileLines(n),
           NEW symmetry, NEW r \in Int, NEW c \in Int
    PROVE  SaidBy(symmetry, Append(list, l), r, c)
               = SaidBy(symmetry, list, r, c) + Says(symmetry, l, r, c)
<1> PICK more : more = Append(list, l)
    OBVIOUS
<1> PICK m : m = Len(list)
    OBVIOUS
<1>1. /\ m \in Nat /\ DOMAIN list = 1 .. m /\ DOMAIN more = 1 .. m + 1
      /\ \A i \in 1 .. m : more[i] = list[i]
      /\ more[m + 1] = l
    OBVIOUS
<1>10. PICK f : f = [i \in DOMAIN list |-> Says(symmetry, list[i], r, c)]
    OBVIOUS
<1>11. PICK g : g = [i \in DOMAIN more |-> Says(symmetry, more[i], r, c)]
    OBVIOUS
<1> PICK before, last : before = 1 .. m /\ last = m + 1
    OBVIOUS
<1>2. Integral(f, before)
    <2>1. Integral([i \in DOMAIN list |-> Says(symmetry, list[i], r, c)], DOMAIN list)
        BY SayingsAreIntegral
    <2> QED
        BY <1>1, <1>10, <2>1
<1>3. \A i \in before : g[i] = f[i]
    BY <1>1, <1>10, <1>11
<1>4. g[last] = Says(symmetry, l, r, c) /\ Says(symmetry, l, r, c) \in Int
    BY <1>1, <1>11 DEF Says, FileLines
<1>5. last \notin before /\ DOMAIN more = before \cup {last} /\ DOMAIN list = before
    BY <1>1
<1>6. g[last] \in Int
    BY <1>4
<1>7. SumOver(g, before \cup {last}) = SumOver(f, before) + g[last]
    BY <1>2, <1>3, <1>5, <1>6, SumGrows
<1>8. SaidBy(symmetry, more, r, c) = SumOver(g, before \cup {last})
    BY <1>5, <1>11 DEF SaidBy
<1>9. SaidBy(symmetry, list, r, c) = SumOver(f, before)
    BY <1>5, <1>10 DEF SaidBy
<1> QED
    BY <1>4, <1>7, <1>8, <1>9

\* A line becomes one or two entries, which hold what it says.
LEMMA LineBecomesEntries ==
    ASSUME NEW n \in Nat, NEW list \in Seq(Cells(n)), NEW l \in FileLines(n),
           NEW r \in Int, NEW c \in Int
    PROVE  /\ list \o Expanded(l) \in Seq(Cells(n))
           /\ Gathered(list \o Expanded(l), r, c, DOMAIN (list \o Expanded(l)))
                  = Gathered(list, r, c, DOMAIN list) + Says(header.symmetry, l, r, c)
<1> PICK stored : stored = Entry(l.row - 1, l.column - 1, l.value)
    OBVIOUS
<1> PICK mirror : mirror = Entry(l.column - 1, l.row - 1,
                        IF header.symmetry = "skew-symmetric" THEN -l.value ELSE l.value)
    OBVIOUS
<1>1. stored \in Cells(n) /\ mirror \in Cells(n)
    BY DEF Entry, Cells, FileLines
<1>2. /\ l.row \in Int /\ l.column \in Int /\ l.value \in Int
      /\ stored.row = l.row - 1 /\ stored.column = l.column - 1 /\ stored.value = l.value
      /\ mirror.row = l.column - 1 /\ mirror.column = l.row - 1
      /\ mirror.value = IF header.symmetry = "skew-symmetric" THEN -l.value ELSE l.value
    BY DEF Entry, FileLines
<1>3. Gathered(list, r, c, DOMAIN list) \in Int
    <2>1. At(list, r, c, DOMAIN list) \in SUBSET DOMAIN list
        BY DEF At
    <2>2. Integral(Values(list), At(list, r, c, DOMAIN list))
        BY <2>1, ValuesAreIntegral
    <2> QED
        BY <2>2, SumIsInteger DEF Gathered
<1>7. PICK once : once = Append(list, stored)
    OBVIOUS
<1>4. /\ once \in Seq(Cells(n))
      /\ Gathered(once, r, c, DOMAIN once)
             = Gathered(list, r, c, DOMAIN list) + Held(stored, r, c)
    BY <1>1, <1>7, AppendGathers
<1>8. /\ l.row \in Int /\ l.column \in Int
      /\ stored.row = l.row - 1 /\ stored.column = l.column - 1
      /\ mirror.row = l.column - 1 /\ mirror.column = l.row - 1
    BY <1>2
<1>9. ASSUME NEW a \in Int, NEW b \in Int PROVE a = b + 1 <=> a - 1 = b
    OBVIOUS
<1>5. CASE Mirrored /\ l.row # l.column
    <2>0. once \in Seq(Cells(n)) /\ mirror \in Cells(n)
        BY <1>1, <1>4
    <2>6. PICK twice : twice = Append(once, mirror)
        OBVIOUS
    <2>1. /\ twice \in Seq(Cells(n))
          /\ Gathered(twice, r, c, DOMAIN twice)
                 = Gathered(once, r, c, DOMAIN once) + Held(mirror, r, c)
        BY <2>0, <2>6, AppendGathers
    <2>2. Expanded(l) = <<stored, mirror>>
        BY <1>5 DEF Expanded
    <2>3. list \o <<stored, mirror>> = twice
        BY <1>1, <1>7, <2>6
    <2>4. Held(stored, r, c) + Held(mirror, r, c) = Says(header.symmetry, l, r, c)
        <3>1. header.symmetry # "general" /\ l.row # l.column
            BY <1>5 DEF Mirrored
        <3>2. mirror.value = (IF header.symmetry = "skew-symmetric" THEN -1 ELSE 1) * l.value
            BY <1>2
        <3>3. Says(header.symmetry, l, r, c)
                  = (IF l.row = r + 1 /\ l.column = c + 1 THEN stored.value ELSE 0) +
                    (IF r # c /\ l.row = c + 1 /\ l.column = r + 1 THEN mirror.value ELSE 0)
            BY <1>2, <3>1, <3>2 DEF Says
        <3>4. (l.row = r + 1 /\ l.column = c + 1) <=> (stored.row = r /\ stored.column = c)
            BY <1>8, <1>9
        <3>5. (r # c /\ l.row = c + 1 /\ l.column = r + 1)
                  <=> (mirror.row = r /\ mirror.column = c)
            <4>1. (l.row = c + 1 <=> mirror.column = c) /\ (l.column = r + 1 <=> mirror.row = r)
                BY <1>8, <1>9
            <4>2. ~(r = c /\ l.row = c + 1 /\ l.column = r + 1)
                BY <3>1
            <4> QED
                BY <4>1, <4>2
        <3> QED
            BY <3>3, <3>4, <3>5 DEF Held
    <2>5. Held(stored, r, c) \in Int /\ Held(mirror, r, c) \in Int
        BY <1>2 DEF Held
    <2> QED
        <3>1. list \o Expanded(l) = twice
            BY <2>2, <2>3
        <3>2. Gathered(twice, r, c, DOMAIN twice)
                  = Gathered(list, r, c, DOMAIN list) + Says(header.symmetry, l, r, c)
            BY <1>3, <1>4, <2>1, <2>4, <2>5
        <3> QED
            BY <2>1, <3>1, <3>2
<1>6. CASE ~(Mirrored /\ l.row # l.column)
    <2>1. Expanded(l) = <<stored>>
        BY <1>6 DEF Expanded
    <2>2. list \o <<stored>> = once
        BY <1>1, <1>7
    <2>3. Held(stored, r, c) = Says(header.symmetry, l, r, c)
        <3>1. header.symmetry = "general" \/ l.row = l.column
            BY <1>6 DEF Mirrored
        <3>2. ~(header.symmetry # "general" /\ r # c /\ l.row = c + 1 /\ l.column = r + 1)
            BY <1>2, <3>1
        <3>3. Says(header.symmetry, l, r, c)
                  = (IF l.row = r + 1 /\ l.column = c + 1 THEN l.value ELSE 0) + 0
            BY <3>2 DEF Says
        <3>4. (l.row = r + 1 /\ l.column = c + 1) <=> (stored.row = r /\ stored.column = c)
            BY <1>8, <1>9
        <3> QED
            BY <1>2, <3>3, <3>4 DEF Held
    <2> QED
        BY <1>3, <1>4, <2>1, <2>2, <2>3
<1> QED
    BY <1>5, <1>6

-----------------------------------------------------------------------------
\* A list of a set: every element once.
Enumerates(list, S) ==
    /\ list \in Seq(S)
    /\ \A x \in S : \E i \in DOMAIN list : list[i] = x
    /\ \A i, j \in DOMAIN list : list[i] = list[j] => i = j

\* A list of all elements but one, and then that one.
LEMMA OneMoreElement ==
    ASSUME NEW S, NEW x \in S, NEW list, Enumerates(list, S \ {x})
    PROVE  Enumerates(Append(list, x), S)
<1> PICK m : m = Len(list)
    OBVIOUS
<1>1. /\ list \in Seq(S \ {x}) /\ m \in Nat /\ DOMAIN list = 1 .. m
      /\ \A i \in 1 .. m : list[i] \in S \ {x}
    BY DEF Enumerates
<1>2. PICK more : more = Append(list, x)
    OBVIOUS
<1>3. list \in Seq(S)
    <2>1. list \in [1 .. m -> S]
        BY <1>1
    <2> QED
        BY <1>1, <2>1 DEF Seq
<1>4. /\ more \in Seq(S) /\ DOMAIN more = 1 .. m + 1
      /\ \A i \in 1 .. m : more[i] = list[i]
      /\ more[m + 1] = x
    BY <1>1, <1>2, <1>3
<1>5. \A y \in S : \E i \in DOMAIN more : more[i] = y
    <2> TAKE y \in S
    <2>1. CASE y = x
        BY <1>1, <1>4, <2>1
    <2>2. CASE y # x
        <3>1. PICK i \in 1 .. m : list[i] = y
            BY <1>1, <2>2 DEF Enumerates
        <3> QED
            BY <1>1, <1>4, <3>1
    <2> QED
        BY <2>1, <2>2
<1>6. \A i, j \in DOMAIN more : more[i] = more[j] => i = j
    <2> TAKE i, j \in DOMAIN more
    <2> HAVE more[i] = more[j]
    <2>1. (i \in 1 .. m \/ i = m + 1) /\ (j \in 1 .. m \/ j = m + 1)
        BY <1>1, <1>4
    <2>2. CASE i \in 1 .. m /\ j \in 1 .. m
        BY <1>1, <1>4, <2>2 DEF Enumerates
    <2>3. CASE i = m + 1 /\ j \in 1 .. m
        BY <1>1, <1>4, <2>3
    <2>4. CASE i \in 1 .. m /\ j = m + 1
        BY <1>1, <1>4, <2>4
    <2> QED
        BY <2>1, <2>2, <2>3, <2>4
<1>7. Enumerates(more, S)
    BY <1>4, <1>5, <1>6 DEF Enumerates
<1> QED
    BY <1>2, <1>7

\* Appending to a list, as the table that FoldsOver takes.
Appending(S) == [w \in S \X Seq(S) |-> Append(w[2], w[1])]

\* Folded into a list, a set has each of its elements in the list once.
LEMMA FoldLists ==
    ASSUME NEW S, IsFiniteSet(S)
    PROVE  Enumerates(FoldSet(LAMBDA e, list : Append(list, e), <<>>, S), S)
<1> DEFINE Solves(h) == h = [s \in SUBSET S |->
                                IF s = {} THEN <<>>
                                ELSE Append(h[s \ {CHOOSE x \in s : TRUE}],
                                            CHOOSE x \in s : TRUE)]
           iter == CHOOSE h : Solves(h)
<1>1. \A x \in S : \A v \in Seq(S) : Appending(S)[<<x, v>>] = Append(v, x)
    BY DEF Appending
<1>2. Adds(Appending(S), S, <<>>, Seq(S))
    <2>1. <<>> \in Seq(S)
        OBVIOUS
    <2>2. \A x \in S : \A v \in Seq(S) : Append(v, x) \in Seq(S)
        OBVIOUS
    <2>3. PICK F : F = Appending(S)
        OBVIOUS
    <2>4. \A x \in S : \A v \in Seq(S) : F[<<x, v>>] \in Seq(S)
        BY <1>1, <2>2, <2>3
    <2>5. Adds(F, S, <<>>, Seq(S))
        BY <2>1, <2>4 DEF Adds
    <2> QED
        BY <2>3, <2>5
<1>3. PICK k : FoldsOver(k, S, Appending(S), <<>>, Seq(S))
    BY <1>2, FoldExists
<1>4. Agree(k, k, S, Seq(S))
    BY <1>2, <1>3, FoldIsUnique
<1>5. \A s \in SUBSET S : s # {} =>
          First(s) \in s /\ First(s) \in S /\ Rest(s) \in SUBSET S /\ Rest(s) = s \ {First(s)}
    BY FirstAndRest
<1>6. \E h : Solves(h)
    <2> PICK h : h = [s \in SUBSET S |-> k[s]]
        OBVIOUS
    <2>1. ASSUME NEW s \in SUBSET S, s # {}
          PROVE  h[s] = Append(h[Rest(s)], First(s))
        BY <1>1, <1>3, <1>4, <1>5, <2>1 DEF FoldsOver, Agree
    <2>2. h[{}] = <<>>
        BY <1>3 DEF FoldsOver
    <2>3. Solves(h)
        BY <2>1, <2>2 DEF First, Rest
    <2> HIDE DEF Solves
    <2> QED
        BY <2>3
<1>7. Solves(iter)
    BY <1>6
<1>8. FoldSet(LAMBDA e, list : Append(list, e), <<>>, S) = iter[S]
    BY DEF FoldSet, MapThenFoldSet
<1> HIDE DEF iter
<1>9. iter[{}] = <<>>
    BY <1>7
<1>10. \A s \in SUBSET S : s # {} => iter[s] = Append(iter[Rest(s)], First(s))
    BY <1>7 DEF First, Rest
<1> HIDE DEF Solves
<1> DEFINE Reached == {s \in SUBSET S : Enumerates(iter[s], s)}
<1>11. {} \in Reached
    <2>1. <<>> \in Seq({}) /\ DOMAIN <<>> = {}
        OBVIOUS
    <2>2. Enumerates(<<>>, {})
        BY <2>1 DEF Enumerates
    <2> QED
        BY <1>9, <2>2
<1>12. \A s \in SUBSET S : s # {} /\ (\A x \in s : s \ {x} \in Reached) => s \in Reached
    <2> TAKE s \in SUBSET S
    <2> HAVE s # {} /\ \A x \in s : s \ {x} \in Reached
    <2>1. First(s) \in s /\ Rest(s) = s \ {First(s)}
        BY <1>5
    <2>2. Enumerates(iter[Rest(s)], s \ {First(s)})
        BY <2>1
    <2>3. Enumerates(Append(iter[Rest(s)], First(s)), s)
        BY <2>1, <2>2, OneMoreElement
    <2> QED
        BY <1>10, <2>3
<1> HIDE DEF Reached
<1>13. \A s \in SUBSET S : s \in Reached
    BY <1>11, <1>12, SubsetsAreReached
<1>14. S \in Reached
    BY <1>13
<1> QED
    BY <1>8, <1>14 DEF Reached

-----------------------------------------------------------------------------
\* A grid point by its row and column in the grid.
LEMMA GridPoint ==
    ASSUME NEW n \in Nat, n > 1, NEW i \in 0 .. n * n - 1
    PROVE  /\ i \div n \in 0 .. n - 1 /\ i % n \in 0 .. n - 1
           /\ i = n * (i \div n) + (i % n)
<1>1. i \in Nat /\ n \in Nat /\ n > 0
    OBVIOUS
<1>2. i \div n \in Int /\ i % n \in 0 .. n - 1 /\ i = n * (i \div n) + (i % n)
    BY <1>1
<1>3. PICK a, b : a = i \div n /\ b = i % n
    OBVIOUS
<1>4. a \in Int /\ b \in 0 .. n - 1 /\ i = n * a + b /\ i < n * n
    BY <1>2, <1>3
<1>5. a >= 0
    <2>1. a < 0 => n * a <= -n
        BY <1>4
    <2> QED
        BY <1>4, <2>1
<1>6. a < n
    <2>1. a >= n => n * a >= n * n
        BY <1>4
    <2> QED
        BY <1>4, <2>1
<1> QED
    BY <1>2, <1>3, <1>4, <1>5, <1>6

\* Its row and column are the only ones.
LEMMA OneGridPoint ==
    ASSUME NEW n \in Nat, n > 1, NEW a \in Int, NEW b \in 0 .. n - 1,
           NEW c \in Int, NEW d \in 0 .. n - 1, n * a + b = n * c + d
    PROVE  a = c /\ b = d
<1>1. a < c => n * a + n <= n * c
    <2>1. c - a - 1 >= 0 => n * (c - a - 1) >= 0
        OBVIOUS
    <2> QED
        BY <2>1
<1>2. c < a => n * c + n <= n * a
    <2>1. a - c - 1 >= 0 => n * (a - c - 1) >= 0
        OBVIOUS
    <2> QED
        BY <2>1
<1>3. a = c
    <2>1. n * a \in Int /\ n * c \in Int
        OBVIOUS
    <2> QED
        BY <1>1, <1>2, <2>1
<1> QED
    BY <1>3

\* How far apart two grid points are.
Gap(a, b) == IF a < b THEN b - a ELSE a - b
Apartness(n, i, j) == Gap(i \div n, j \div n) + Gap(i % n, j % n)

Coupling(n, i, j) ==
    IF Apartness(n, i, j) = 0 THEN 4 ELSE IF Apartness(n, i, j) = 1 THEN -1 ELSE 0

\* The neighbours of make_poisson_2d are the points one step apart in the grid.
LEMMA NeighboursAreOneApart ==
    ASSUME NEW n \in Nat, n > 1, NEW i \in 0 .. n * n - 1, NEW j \in 0 .. n * n - 1
    PROVE  /\ i = j <=> Apartness(n, i, j) = 0
           /\ j \in Neighbours(n, i) <=> Apartness(n, i, j) = 1
<1>1. PICK a, b : a = i \div n /\ b = i % n
    OBVIOUS
<1>2. PICK c, d : c = j \div n /\ d = j % n
    OBVIOUS
<1>3. /\ a \in 0 .. n - 1 /\ b \in 0 .. n - 1 /\ i = n * a + b
      /\ c \in 0 .. n - 1 /\ d \in 0 .. n - 1 /\ j = n * c + d
    BY <1>1, <1>2, GridPoint
<1>4. Apartness(n, i, j) = Gap(a, c) + Gap(b, d)
    BY <1>1, <1>2 DEF Apartness
<1>5. i = j <=> a = c /\ b = d
    BY <1>3, OneGridPoint
<1>6. j \in Neighbours(n, i) <=> \/ a > 0     /\ j = i - n
                                 \/ a + 1 < n /\ j = i + n
                                 \/ b > 0     /\ j = i - 1
                                 \/ b + 1 < n /\ j = i + 1
    BY <1>1 DEF Neighbours
<1>7. n * (a - 1) = n * a - n /\ n * (a + 1) = n * a + n
    BY <1>3
<1>8. a > 0 /\ j = i - n <=> c = a - 1 /\ d = b
    <2>1. j = i - n => n * c + d = n * (a - 1) + b
        BY <1>3, <1>7
    <2>2. j = i - n => c = a - 1 /\ d = b
        BY <1>3, <2>1, OneGridPoint
    <2>3. c = a - 1 /\ d = b => j = i - n
        BY <1>3, <1>7
    <2> QED
        BY <1>3, <2>2, <2>3
<1>9. a + 1 < n /\ j = i + n <=> c = a + 1 /\ d = b
    <2>1. j = i + n => n * c + d = n * (a + 1) + b
        BY <1>3, <1>7
    <2>2. j = i + n => c = a + 1 /\ d = b
        BY <1>3, <2>1, OneGridPoint
    <2>3. c = a + 1 /\ d = b => j = i + n
        BY <1>3, <1>7
    <2> QED
        BY <1>3, <2>2, <2>3
<1>10. b > 0 /\ j = i - 1 <=> c = a /\ d = b - 1
    <2>1. j = i - 1 => n * c + d = n * a + (b - 1)
        BY <1>3
    <2>2. b > 0 /\ j = i - 1 => c = a /\ d = b - 1
        BY <1>3, <2>1, OneGridPoint
    <2> QED
        BY <1>3, <2>2
<1>11. b + 1 < n /\ j = i + 1 <=> c = a /\ d = b + 1
    <2>1. j = i + 1 => n * c + d = n * a + (b + 1)
        BY <1>3
    <2>2. b + 1 < n /\ j = i + 1 => c = a /\ d = b + 1
        BY <1>3, <2>1, OneGridPoint
    <2> QED
        BY <1>3, <2>2
<1>12. Gap(a, c) + Gap(b, d) = 0 <=> a = c /\ b = d
    BY <1>3 DEF Gap
<1>13. Gap(a, c) + Gap(b, d) = 1 <=>
           \/ c = a - 1 /\ d = b
           \/ c = a + 1 /\ d = b
           \/ c = a /\ d = b - 1
           \/ c = a /\ d = b + 1
    BY <1>3 DEF Gap
<1> QED
    BY <1>4, <1>5, <1>6, <1>8, <1>9, <1>10, <1>11, <1>12, <1>13

-----------------------------------------------------------------------------
\* The entries of a stencil: one for a point, one for each of its neighbours.
LEMMA StencilEntries ==
    ASSUME NEW n \in Nat, n > 1
    PROVE  /\ Stencil(n) \in SUBSET Cells(n * n)
           /\ \A e \in Stencil(n) : e.value = Coupling(n, e.row, e.column)
           /\ \A e, f \in Stencil(n) : SameKey(e, f) => e = f
           /\ \A i, j \in 0 .. n * n - 1 :
                  Coupling(n, i, j) # 0 =>
                      \E e \in Stencil(n) : e.row = i /\ e.column = j
           /\ IsFiniteSet(Stencil(n))
<1>1. PICK points : points = 0 .. n * n - 1
    OBVIOUS
<1>2. \A i, j \in points : /\ i = j <=> Apartness(n, i, j) = 0
                           /\ j \in Neighbours(n, i) <=> Apartness(n, i, j) = 1
    BY <1>1, NeighboursAreOneApart
<1>3. \A i \in points : Neighbours(n, i) \in SUBSET points
    BY <1>1 DEF Neighbours
<1>4. \A e : e \in Stencil(n) <=>
          \/ \E i \in points : e = Entry(i, i, 4)
          \/ \E i \in points : \E j \in Neighbours(n, i) : e = Entry(i, j, -1)
    BY <1>1 DEF Stencil
<1>5. \A i, j, v : /\ Entry(i, j, v).row = i /\ Entry(i, j, v).column = j
                   /\ Entry(i, j, v).value = v
    BY DEF Entry
<1>6. \A i, j \in points : \A v \in Int : Entry(i, j, v) \in Cells(n * n)
    BY <1>1 DEF Entry, Cells
<1>7. ASSUME NEW e \in Stencil(n)
      PROVE  /\ e \in Cells(n * n) /\ e.row \in points /\ e.column \in points
             /\ e.value = Coupling(n, e.row, e.column)
             /\ e = Entry(e.row, e.column, Coupling(n, e.row, e.column))
    <2>1. CASE \E i \in points : e = Entry(i, i, 4)
        <3>1. PICK i \in points : e = Entry(i, i, 4)
            BY <2>1
        <3>2. Coupling(n, i, i) = 4
            BY <1>2 DEF Coupling
        <3> QED
            BY <1>5, <1>6, <3>1, <3>2
    <2>2. CASE \E i \in points : \E j \in Neighbours(n, i) : e = Entry(i, j, -1)
        <3>1. PICK i \in points : \E j \in Neighbours(n, i) : e = Entry(i, j, -1)
            BY <2>2
        <3>2. PICK j \in Neighbours(n, i) : e = Entry(i, j, -1)
            BY <3>1
        <3>3. j \in points
            BY <1>3
        <3>4. Coupling(n, i, j) = -1
            BY <1>2, <3>3 DEF Coupling
        <3> QED
            BY <1>5, <1>6, <3>2, <3>3, <3>4
    <2> QED
        BY <1>4, <2>1, <2>2
<1>8. \A e, f \in Stencil(n) : SameKey(e, f) => e = f
    BY <1>7 DEF SameKey
<1>9. ASSUME NEW i \in points, NEW j \in points, Coupling(n, i, j) # 0
      PROVE  \E e \in Stencil(n) : e.row = i /\ e.column = j
    <2>1. i = j \/ j \in Neighbours(n, i)
        BY <1>2, <1>9 DEF Coupling
    <2>2. Entry(i, j, 4) \in Stencil(n) \/ Entry(i, j, -1) \in Stencil(n)
        BY <1>4, <2>1
    <2> QED
        BY <1>5, <2>2
<1>10. IsFiniteSet(Stencil(n))
    <2>1. PICK pairs : pairs = points \X points
        OBVIOUS
    <2>2. PICK f : f = [e \in Stencil(n) |-> <<e.row, e.column>>]
        OBVIOUS
    <2>3. n * n \in Int
        OBVIOUS
    <2>4. IsFiniteSet(points)
        BY <1>1, <2>3, FS_Interval
    <2>5. IsFiniteSet(pairs)
        BY <2>1, <2>4, FS_Product
    <2>6. \A e \in Stencil(n) : e.row \in points /\ e.column \in points
        BY <1>7
    <2>7. f \in [Stencil(n) -> pairs]
        BY <2>1, <2>2, <2>6
    <2>8. ASSUME NEW a \in Stencil(n), NEW b \in Stencil(n), f[a] = f[b]
          PROVE  a = b
        <3>1. <<a.row, a.column>> = <<b.row, b.column>>
            BY <2>2, <2>8
        <3>2. SameKey(a, b)
            BY <3>1 DEF SameKey
        <3> QED
            BY <1>8, <3>2
    <2>9. f \in Injection(Stencil(n), pairs)
        BY <2>7, <2>8 DEF Injection, IsInjective
    <2> QED
        BY <2>5, <2>9, FS_Injection
<1> QED
    BY <1>1, <1>7, <1>8, <1>9, <1>10

\* A list of the stencil's entries has one for every two points that are coupled.
LEMMA StencilGathers ==
    ASSUME NEW n \in Nat, n > 1, NEW list, Enumerates(list, Stencil(n)),
           NEW i \in 0 .. n * n - 1, NEW j \in 0 .. n * n - 1
    PROVE  Gathered(list, i, j, DOMAIN list) = Coupling(n, i, j)
<1>1. /\ \A e \in Stencil(n) : e.value = Coupling(n, e.row, e.column)
      /\ \A e, f \in Stencil(n) : SameKey(e, f) => e = f
      /\ Coupling(n, i, j) # 0 => \E e \in Stencil(n) : e.row = i /\ e.column = j
    BY StencilEntries
<1>2. /\ \A k \in DOMAIN list : list[k] \in Stencil(n)
      /\ \A e \in Stencil(n) : \E k \in DOMAIN list : list[k] = e
      /\ \A k, l \in DOMAIN list : list[k] = list[l] => k = l
    BY DEF Enumerates
<1>3. Coupling(n, i, j) \in Int
    BY DEF Coupling
<1>4. CASE \E k \in DOMAIN list : list[k].row = i /\ list[k].column = j
    <2>1. PICK k \in DOMAIN list : list[k].row = i /\ list[k].column = j
        BY <1>4
    <2>2. \A l \in DOMAIN list : list[l].row = i /\ list[l].column = j => l = k
        BY <1>1, <1>2, <2>1 DEF SameKey
    <2>3. At(list, i, j, DOMAIN list) = {k}
        BY <2>1, <2>2 DEF At
    <2>4. Values(list)[k] = Coupling(n, i, j)
        BY <1>1, <1>2, <2>1 DEF Values
    <2>5. SumOver(Values(list), {k}) = Values(list)[k]
        BY <1>3, <2>4, SumOfOne
    <2> QED
        BY <2>3, <2>4, <2>5 DEF Gathered
<1>5. CASE ~\E k \in DOMAIN list : list[k].row = i /\ list[k].column = j
    <2>1. Coupling(n, i, j) = 0
        BY <1>1, <1>2, <1>5
    <2>2. At(list, i, j, DOMAIN list) = {}
        BY <1>5 DEF At
    <2> QED
        BY <2>1, <2>2, SumOfEmpty DEF Gathered
<1> QED
    BY <1>4, <1>5

\* A function of lists that are of a smaller set.
LEMMA ListsOfMore ==
    ASSUME NEW S, NEW T, S \subseteq T, NEW list \in Seq(S)
    PROVE  list \in Seq(T)
<1>1. PICK m : m = Len(list)
    OBVIOUS
<1>2. m \in Nat /\ list \in [1 .. m -> S]
    BY <1>1
<1>3. list \in [1 .. m -> T]
    BY <1>2
<1> QED
    BY <1>2, <1>3 DEF Seq

-----------------------------------------------------------------------------
\* Lines of a right-hand side, and what they add up to in row r.
VectorLines(n) == [row : 1 .. n, value : Int]

Listed(list, r) == SumOver(Values(list), {i \in DOMAIN list : list[i].row = r + 1})

\* The row sum of a list of entries, column by column.
RowSum(list, n, r) ==
    SumOver([c \in 0 .. n - 1 |-> Gathered(list, r, c, DOMAIN list)], 0 .. n - 1)

\* Nothing is left of an earlier input when a program starts.
StartsEmpty ==
    phase = "start" => lines = <<>> /\ entries = <<>> /\ canonical = <<>> /\ grid = 0

\* What the entries add up to is what the lines say, or the stencil.
EntriesAreTheInput ==
    phase \in {"entries", "merge", "built"} =>
        /\ header.rows \in Nat
        /\ lines \in Seq(FileLines(header.rows))
        /\ entries \in Seq(Cells(header.rows))
        /\ grid = 0 =>
               \A r, c \in 0 .. header.rows - 1 :
                   Gathered(entries, r, c, DOMAIN entries) = SaidBy(header.symmetry, lines, r, c)
        /\ grid # 0 =>
               /\ grid \in Nat /\ grid > 1 /\ header.rows = grid * grid
               /\ \A i, j \in 0 .. header.rows - 1 :
                      Gathered(entries, i, j, DOMAIN entries) = Coupling(grid, i, j)

\* A file is read into a square matrix, which is not merged yet.
ReadingAFile ==
    phase = "entries" => grid = 0 /\ canonical = <<>> /\ header.columns = header.rows

MergingTheEntries ==
    /\ phase \in {"merge", "built"} => MergedFrom(entries, todo, canonical, header.rows)
    /\ phase = "built" => todo = {} /\ MatrixIsValid

\* A row of the right-hand side that is finite is the sum of its lines, or the row sum.
VectorIsTheInput ==
    phase \in {"array", "coordinates", "request", "accepted"} =>
        /\ header.rows \in Nat
        /\ canonical \in Seq(Cells(header.rows))
        /\ lines \in Seq(VectorLines(header.rows))
        /\ vector \in [0 .. header.rows - 1 -> Int]
        /\ \A r \in 0 .. header.rows - 1 : IsFinite(vector[r]) =>
               \/ vector[r] = Listed(lines, r)
               \/ /\ phase \in {"request", "accepted"} /\ lines = <<>>
                  /\ vector[r] = RowSum(canonical, header.rows, r)

\* An array names its rows in order.
ReadingAnArray ==
    phase = "array" => /\ \A k \in DOMAIN lines : lines[k].row = k
                       /\ Len(lines) < header.rows

AcceptedWhenValid == phase = "accepted" => RequestIsValid

\* The inductive invariant.
InputInv ==
    /\ StartsEmpty
    /\ EntriesAreTheInput
    /\ ReadingAFile
    /\ MergingTheEntries
    /\ VectorIsTheInput
    /\ ReadingAnArray
    /\ AcceptedWhenValid

-----------------------------------------------------------------------------
\* Any list of records with integral values.
LEMMA ListValuesAreIntegral ==
    ASSUME NEW S, \A e \in S : e.value \in Int, NEW list \in Seq(S), NEW U \in SUBSET DOMAIN list
    PROVE  Integral(Values(list), U)
<1>1. DOMAIN list = 1 .. Len(list) /\ Len(list) \in Int
    OBVIOUS
<1>2. IsFiniteSet(U)
    <2>1. IsFiniteSet(1 .. Len(list)) /\ U \subseteq 1 .. Len(list)
        BY <1>1, FS_Interval
    <2> QED
        BY <2>1, FS_Subset
<1>3. \A i \in DOMAIN list : list[i] \in S
    OBVIOUS
<1> QED
    BY <1>2, <1>3 DEF Integral, Values

\* One line of a right-hand side more.
LEMMA AppendLists ==
    ASSUME NEW n \in Nat, NEW list \in Seq(VectorLines(n)), NEW l \in VectorLines(n), NEW r
    PROVE  /\ Append(list, l) \in Seq(VectorLines(n))
           /\ Listed(list, r) \in Int
           /\ l.row = r + 1 => Listed(Append(list, l), r) = Listed(list, r) + l.value
           /\ l.row # r + 1 => Listed(Append(list, l), r) = Listed(list, r)
<1> PICK more : more = Append(list, l)
    OBVIOUS
<1> PICK m : m = Len(list)
    OBVIOUS
<1>1. /\ m \in Nat /\ DOMAIN list = 1 .. m /\ DOMAIN more = 1 .. m + 1
      /\ \A i \in 1 .. m : more[i] = list[i]
      /\ more[m + 1] = l /\ more \in Seq(VectorLines(n))
    OBVIOUS
<1>2. PICK U : U = {i \in DOMAIN list : list[i].row = r + 1}
    OBVIOUS
<1>3. PICK f, g : f = Values(list) /\ g = Values(more)
    OBVIOUS
<1>4. U \in SUBSET DOMAIN list /\ m + 1 \notin U
    BY <1>1, <1>2
<1>5. Integral(f, U)
    <2>1. \A e \in VectorLines(n) : e.value \in Int
        BY DEF VectorLines
    <2> QED
        BY <1>3, <1>4, <2>1, ListValuesAreIntegral
<1>6. \A i \in U : g[i] = f[i]
    BY <1>1, <1>2, <1>3 DEF Values
<1>7. g[m + 1] = l.value /\ l.value \in Int
    BY <1>1, <1>3 DEF Values, VectorLines
<1>8. Listed(list, r) = SumOver(f, U) /\ SumOver(f, U) \in Int
    BY <1>2, <1>3, <1>5, SumIsInteger DEF Listed
<1>9. PICK V : V = {i \in DOMAIN more : more[i].row = r + 1}
    OBVIOUS
<1>10. Listed(more, r) = SumOver(g, V)
    BY <1>3, <1>9 DEF Listed
<1>11. CASE l.row = r + 1
    <2>1. V = U \cup {m + 1}
        BY <1>1, <1>2, <1>9, <1>11
    <2>2. g[m + 1] \in Int
        BY <1>7
    <2>3. SumOver(g, U \cup {m + 1}) = SumOver(f, U) + g[m + 1]
        BY <1>4, <1>5, <1>6, <2>2, SumGrows
    <2> QED
        BY <1>1, <1>7, <1>8, <1>10, <1>11, <2>1, <2>3
<1>12. CASE l.row # r + 1
    <2>1. V = U
        BY <1>1, <1>2, <1>9, <1>12
    <2>2. SumOver(g, U) = SumOver(f, U)
        BY <1>5, <1>6, SumOfEqualTerms
    <2> QED
        BY <1>1, <1>8, <1>10, <1>12, <2>1, <2>2
<1> QED
    BY <1>11, <1>12

LEMMA NothingListed ==
    ASSUME NEW r
    PROVE  Listed(<<>>, r) = 0
<1>1. {i \in DOMAIN <<>> : <<>>[i].row = r + 1} = {}
    OBVIOUS
<1> QED
    BY <1>1, SumOfEmpty DEF Listed

\* A row that no line names.
LEMMA NotListed ==
    ASSUME NEW list, NEW r, \A i \in DOMAIN list : list[i].row # r + 1
    PROVE  Listed(list, r) = 0
<1>1. {i \in DOMAIN list : list[i].row = r + 1} = {}
    OBVIOUS
<1> QED
    BY <1>1, SumOfEmpty DEF Listed

-----------------------------------------------------------------------------
\* A function on 0 .. last that is defined from its value before.
Recurs(h, last, W, first, next) ==
    /\ h \in [0 .. last -> W]
    /\ h[0] = first
    /\ \A k \in 1 .. last : h[k] = next[<<k, h[k - 1]>>]

\* There is such a function.
LEMMA RecursionExists ==
    ASSUME NEW last \in Nat, NEW W, NEW first \in W, NEW next,
           \A k \in 1 .. last : \A v \in W : next[<<k, v>>] \in W
    PROVE  \E h : Recurs(h, last, W, first, next)
<1> DEFINE Reached == {m \in 0 .. last : \E h : Recurs(h, m, W, first, next)}
<1>1. 0 \in Reached
    <2> PICK h : h = [k \in 0 .. 0 |-> first]
        OBVIOUS
    <2>1. Recurs(h, 0, W, first, next)
        BY DEF Recurs
    <2> QED
        BY <2>1
<1>2. ASSUME NEW m \in 0 .. last - 1, m \in Reached
      PROVE  m + 1 \in Reached
    <2>1. PICK h : Recurs(h, m, W, first, next)
        BY <1>2
    <2>2. PICK v : v = next[<<m + 1, h[m]>>]
        OBVIOUS
    <2>3. v \in W
        BY <2>1, <2>2 DEF Recurs
    <2>4. PICK longer : longer = [k \in 0 .. m + 1 |-> IF k = m + 1 THEN v ELSE h[k]]
        OBVIOUS
    <2>5. /\ longer \in [0 .. m + 1 -> W] /\ longer[m + 1] = v
          /\ \A k \in 0 .. m : longer[k] = h[k]
        BY <2>1, <2>3, <2>4 DEF Recurs
    <2>6. longer[0] = first
        BY <2>1, <2>5 DEF Recurs
    <2>7. ASSUME NEW k \in 1 .. m + 1
          PROVE  longer[k] = next[<<k, longer[k - 1]>>]
        <3>1. CASE k = m + 1
            BY <2>2, <2>5, <3>1
        <3>2. CASE k # m + 1
            BY <2>1, <2>5, <3>2 DEF Recurs
        <3> QED
            BY <3>1, <3>2
    <2>8. Recurs(longer, m + 1, W, first, next)
        BY <2>5, <2>6, <2>7 DEF Recurs
    <2> QED
        BY <2>8
<1> HIDE DEF Reached
<1>3. \A m \in 0 .. last : m \in Reached
    BY <1>1, <1>2, NaturalsAreReached
<1> QED
    BY <1>3 DEF Reached

-----------------------------------------------------------------------------
\* The entries of a row, column by column.
LEMMA RowByColumns ==
    ASSUME NEW n \in Nat, NEW list \in Seq(Cells(n)), NEW r
    PROVE  RowSum(list, n, r) = SumOver(Values(list), {i \in DOMAIN list : list[i].row = r})
<1> PICK f : f = Values(list)
    OBVIOUS
<1> PICK g : g = [c \in 0 .. n - 1 |-> Gathered(list, r, c, DOMAIN list)]
    OBVIOUS
<1> DEFINE Left(k) == {i \in DOMAIN list : list[i].row = r /\ list[i].column < k}
           Reached == {k \in 0 .. n : SumOver(g, 0 .. k - 1) = SumOver(f, Left(k))}
<1>1. \A i \in DOMAIN list : list[i] \in Cells(n)
    OBVIOUS
<1>2. \A i \in DOMAIN list : list[i].column \in 0 .. n - 1
    BY <1>1 DEF Cells
<1>3. \A S \in SUBSET DOMAIN list : Integral(f, S)
    BY ValuesAreIntegral
<1>4. \A c : /\ At(list, r, c, DOMAIN list) \in SUBSET DOMAIN list
             /\ Gathered(list, r, c, DOMAIN list) = SumOver(f, At(list, r, c, DOMAIN list))
    BY DEF At, Gathered
<1>5. \A c \in 0 .. n - 1 : g[c] = SumOver(f, At(list, r, c, DOMAIN list)) /\ g[c] \in Int
    <2> TAKE c \in 0 .. n - 1
    <2>1. PICK U : U = At(list, r, c, DOMAIN list)
        OBVIOUS
    <2>2. g[c] = SumOver(f, U) /\ Integral(f, U)
        BY <1>3, <1>4, <2>1
    <2>3. SumOver(f, U) \in Int
        BY <2>2, SumIsInteger
    <2> QED
        BY <2>1, <2>2, <2>3
<1>6. 0 \in Reached
    <2>1. 0 .. 0 - 1 = {} /\ Left(0) = {} /\ 0 \in 0 .. n
        BY <1>2
    <2>2. SumOver(g, {}) = SumOver(f, {})
        BY SumOfEmpty
    <2> HIDE DEF Left
    <2> QED
        BY <2>1, <2>2
<1>7. ASSUME NEW k \in 0 .. n - 1, k \in Reached
      PROVE  k + 1 \in Reached
    <2>1. PICK T, U, V : T = 0 .. k - 1 /\ U = Left(k) /\ V = At(list, r, k, DOMAIN list)
        OBVIOUS
    <2>2. /\ 0 .. (k + 1) - 1 = T \cup {k} /\ k \notin T /\ k + 1 \in 0 .. n
          /\ \A c \in T : c \in 0 .. n - 1
        BY <2>1
    <2>3. Left(k + 1) = U \cup V /\ U \cap V = {}
        BY <1>2, <2>1 DEF At
    <2>4. U \in SUBSET DOMAIN list /\ V \in SUBSET DOMAIN list
        BY <2>1 DEF At
    <2>5. SumOver(g, T) = SumOver(f, U)
        BY <1>7, <2>1
    <2> HIDE DEF Left
    <2>6. Integral(f, U) /\ Integral(f, V)
        BY <1>3, <2>4
    <2>7. SumOver(f, U \cup V) = SumOver(f, U) + SumOver(f, V)
        BY <2>3, <2>6, SumOfUnion DEF Disjoint
    <2>8. Integral(g, T)
        <3>1. k - 1 \in Int
            OBVIOUS
        <3>2. IsFiniteSet(0 .. k - 1)
            BY <3>1, FS_Interval
        <3> QED
            BY <1>5, <2>1, <2>2, <3>2 DEF Integral
    <2>9. g[k] = SumOver(f, V) /\ g[k] \in Int
        BY <1>5, <2>1
    <2>10. SumOver(g, T \cup {k}) = g[k] + SumOver(g, T)
        BY <2>2, <2>8, <2>9, SumWith
    <2>11. SumOver(f, U) \in Int
        BY <2>6, SumIsInteger
    <2>12. SumOver(g, T \cup {k}) = SumOver(f, U \cup V)
        BY <2>5, <2>7, <2>9, <2>10, <2>11
    <2> QED
        BY <2>2, <2>3, <2>12
<1>8. n \in 0 .. n /\ Left(n) = {i \in DOMAIN list : list[i].row = r}
    BY <1>2
<1> HIDE DEF Reached
<1>9. \A k \in 0 .. n : k \in Reached
    BY <1>6, <1>7, NaturalsAreReached
<1>10. SumOver(g, 0 .. n - 1) = SumOver(f, Left(n))
    BY <1>8, <1>9 DEF Reached
<1> QED
    BY <1>8, <1>10 DEF RowSum

-----------------------------------------------------------------------------
\* The vector after an entry more, and the entries of a row among the first k.
Adding(list, D, W) ==
    [w \in D \X W |->
        [w[2] EXCEPT ![list[w[1]].row] = Add(@, list[w[1]].value)]]

Advances(next, list, k, v) ==
    next[<<k, v>>] = [v EXCEPT ![list[k].row] = Add(@, list[k].value)]

\* What Adding does with an entry.
LEMMA AddingOne ==
    ASSUME NEW list, NEW D, NEW W, NEW k \in D, NEW v \in W
    PROVE  Advances(Adding(list, D, W), list, k, v)
<1>1. PICK w : w = <<k, v>>
    OBVIOUS
<1>2. w \in D \X W /\ w[1] = k /\ w[2] = v
    BY <1>1
<1>3. Adding(list, D, W)[w] = [w[2] EXCEPT ![list[w[1]].row] = Add(@, list[w[1]].value)]
    BY <1>2 DEF Adding
<1> QED
    BY <1>1, <1>2, <1>3 DEF Advances

InRow(list, r, k) == {i \in 1 .. k : list[i].row = r}

\* RowSums adds the entries one at a time.
LEMMA RowSumsRecur ==
    ASSUME header.rows \in Nat, canonical \in Seq(Cells(header.rows)),
           NEW W, W = [0 .. header.rows - 1 -> Int]
    PROVE  \E h : /\ Recurs(h, Len(canonical), W, Zero, Adding(canonical, DOMAIN canonical, W))
                  /\ RowSums = h[Len(canonical)]
<1> DEFINE Solves(h) ==
               h = [k \in 0 .. Len(canonical) |->
                       IF k = 0 THEN Zero
                       ELSE [h[k - 1] EXCEPT
                                ![canonical[k].row] = Add(@, canonical[k].value)]]
           sums == CHOOSE h : Solves(h)
<1>1. PICK m : m = Len(canonical)
    OBVIOUS
<1>2. /\ m \in Nat /\ DOMAIN canonical = 1 .. m
      /\ \A k \in 1 .. m : canonical[k] \in Cells(header.rows)
    BY <1>1
<1>3. PICK next : next = Adding(canonical, DOMAIN canonical, W)
    OBVIOUS
<1>4. \A k \in 1 .. m : \A v \in W :
          next[<<k, v>>] = [v EXCEPT ![canonical[k].row] = Add(@, canonical[k].value)]
    <2> TAKE k \in 1 .. m
    <2> TAKE v \in W
    <2>1. k \in DOMAIN canonical
        BY <1>2
    <2> QED
        <3>1. Advances(next, canonical, k, v)
            BY <1>3, <2>1, AddingOne
        <3> QED
            BY <3>1 DEF Advances
<1>5. \A k \in 1 .. m : \A v \in W : next[<<k, v>>] \in W
    <2> TAKE k \in 1 .. m
    <2> TAKE v \in W
    <2>1. canonical[k].row \in 0 .. header.rows - 1 /\ canonical[k].value \in Int
        BY <1>2 DEF Cells
    <2>2. v[canonical[k].row] \in Int
        BY <2>1
    <2>3. Add(v[canonical[k].row], canonical[k].value) \in Int
        BY <2>1, <2>2, FiniteSumsAreExact
    <2>4. [v EXCEPT ![canonical[k].row] = Add(@, canonical[k].value)]
              \in [0 .. header.rows - 1 -> Int]
        BY <2>1, <2>3
    <2> QED
        BY <1>4, <2>4
<1>6. Zero \in W
    BY DEF Zero
<1>7. PICK h : Recurs(h, m, W, Zero, next)
    BY <1>2, <1>5, <1>6, RecursionExists
<1>8. /\ h \in [0 .. m -> W] /\ h[0] = Zero
      /\ \A k \in 1 .. m : h[k] = next[<<k, h[k - 1]>>]
    BY <1>7 DEF Recurs
<1>9. \A k \in 1 .. m : k - 1 \in 0 .. m /\ h[k - 1] \in W
    BY <1>2, <1>8
<1>10. \A k \in 1 .. m :
           h[k] = [h[k - 1] EXCEPT ![canonical[k].row] = Add(@, canonical[k].value)]
    BY <1>4, <1>8, <1>9
<1>11. Solves(h)
    <2>1. PICK t : t = [k \in 0 .. m |->
                           IF k = 0 THEN Zero
                           ELSE [h[k - 1] EXCEPT
                                    ![canonical[k].row] = Add(@, canonical[k].value)]]
        OBVIOUS
    <2>2. ASSUME NEW k \in 0 .. m PROVE t[k] = h[k]
        <3>1. CASE k = 0
            BY <1>2, <1>8, <2>1, <3>1
        <3>2. CASE k # 0
            <4>1. k \in 1 .. m
                BY <1>2, <3>2
            <4> QED
                BY <1>10, <2>1, <3>2, <4>1
        <3> QED
            BY <3>1, <3>2
    <2>3. t = h
        BY <1>8, <2>1, <2>2
    <2> QED
        BY <1>1, <2>1, <2>3
<1>12. Solves(sums)
    BY <1>11
<1>13. RowSums = sums[m]
    BY <1>1 DEF RowSums
<1> HIDE DEF sums
<1>14. /\ sums[0] = Zero
       /\ \A k \in 1 .. m :
              sums[k] = [sums[k - 1] EXCEPT ![canonical[k].row] = Add(@, canonical[k].value)]
    <2>1. \A k \in 0 .. m :
              sums[k] = IF k = 0 THEN Zero
                        ELSE [sums[k - 1] EXCEPT
                                 ![canonical[k].row] = Add(@, canonical[k].value)]
        BY <1>1, <1>12
    <2>2. 0 \in 0 .. m /\ \A k \in 1 .. m : k \in 0 .. m /\ k # 0
        BY <1>2
    <2> HIDE DEF Solves
    <2> QED
        BY <2>1, <2>2
<1> HIDE DEF Solves
<1> DEFINE Reached == {k \in 0 .. m : sums[k] = h[k]}
<1>15. 0 \in Reached
    BY <1>2, <1>8, <1>14
<1>16. ASSUME NEW k \in 0 .. m - 1, k \in Reached
       PROVE  k + 1 \in Reached
    <2>1. k + 1 \in 1 .. m /\ k + 1 - 1 = k /\ k + 1 \in 0 .. m
        BY <1>2
    <2>2. PICK l : l = k + 1
        OBVIOUS
    <2>3. l \in 1 .. m /\ sums[l - 1] = h[l - 1]
        BY <1>16, <2>1, <2>2
    <2>4. sums[l] = h[l]
        BY <1>10, <1>14, <2>3
    <2> QED
        BY <2>1, <2>2, <2>4
<1> HIDE DEF Reached
<1>17. \A k \in 0 .. m : k \in Reached
    BY <1>2, <1>15, <1>16, NaturalsAreReached
<1>18. RowSums = h[m]
    BY <1>2, <1>13, <1>17 DEF Reached
<1> QED
    BY <1>1, <1>3, <1>7, <1>18

\* A row sum that is finite is exact.
LEMMA RowSumsAreSums ==
    ASSUME header.rows \in Nat, canonical \in Seq(Cells(header.rows))
    PROVE  /\ RowSums \in [0 .. header.rows - 1 -> Int]
           /\ \A r \in 0 .. header.rows - 1 : IsFinite(RowSums[r]) =>
                  RowSums[r] = RowSum(canonical, header.rows, r)
<1>1. PICK n, W, list, f : /\ n = header.rows /\ W = [0 .. n - 1 -> Int]
                           /\ list = canonical /\ f = Values(list)
    OBVIOUS
<1>2. PICK m : m = Len(list)
    OBVIOUS
<1>3. /\ n \in Nat /\ list \in Seq(Cells(n)) /\ m \in Nat /\ DOMAIN list = 1 .. m
      /\ \A k \in 1 .. m : list[k] \in Cells(n)
    BY <1>1, <1>2
<1>4. PICK h : Recurs(h, m, W, Zero, Adding(list, DOMAIN list, W)) /\ RowSums = h[m]
    BY <1>1, <1>2, RowSumsRecur
<1>5. h \in [0 .. m -> W] /\ h[0] = Zero
    BY <1>4 DEF Recurs
<1>6. ASSUME NEW k \in 1 .. m
      PROVE  /\ k - 1 \in 0 .. m /\ h[k - 1] \in W
             /\ h[k] = [h[k - 1] EXCEPT ![list[k].row] = Add(@, list[k].value)]
             /\ list[k].row \in 0 .. n - 1 /\ list[k].value \in Int
             /\ f[k] = list[k].value
    <2>1. k - 1 \in 0 .. m /\ h[k - 1] \in W
        BY <1>3, <1>5
    <2>2. h[k] = Adding(list, DOMAIN list, W)[<<k, h[k - 1]>>]
        BY <1>4 DEF Recurs
    <2>3. k \in DOMAIN list
        BY <1>3
    <2>4. h[k] = [h[k - 1] EXCEPT ![list[k].row] = Add(@, list[k].value)]
        <3>1. Advances(Adding(list, DOMAIN list, W), list, k, h[k - 1])
            BY <2>1, <2>3, AddingOne
        <3> QED
            BY <2>2, <3>1 DEF Advances
    <2>5. list[k].row \in 0 .. n - 1 /\ list[k].value \in Int
        BY <1>3 DEF Cells
    <2> QED
        BY <1>1, <1>3, <2>1, <2>4, <2>5 DEF Values
<1>7. \A r, k : k \in 0 .. m => InRow(list, r, k) \in SUBSET DOMAIN list
    BY <1>3 DEF InRow
<1> DEFINE Reached == {k \in 0 .. m : \A r \in 0 .. n - 1 : IsFinite(h[k][r]) =>
                                          h[k][r] = SumOver(f, InRow(list, r, k))}
<1>8. 0 \in Reached
    <2> SUFFICES ASSUME NEW r \in 0 .. n - 1 PROVE h[0][r] = SumOver(f, InRow(list, r, 0))
        BY <1>3
    <2>1. InRow(list, r, 0) = {}
        BY DEF InRow
    <2>2. h[0][r] = 0
        BY <1>1, <1>5 DEF Zero
    <2> QED
        BY <2>1, <2>2, SumOfEmpty
<1>9. ASSUME NEW k \in 0 .. m - 1, k \in Reached
      PROVE  k + 1 \in Reached
    <2>1. k + 1 \in 1 .. m /\ k + 1 \in 0 .. m /\ k \in 0 .. m /\ k + 1 - 1 = k
        BY <1>3
    <2>2. PICK place, x : place = list[k + 1].row /\ x = list[k + 1].value
        OBVIOUS
    <2>3. /\ h[k] \in W /\ h[k + 1] = [h[k] EXCEPT ![place] = Add(@, x)]
          /\ place \in 0 .. n - 1 /\ x \in Int /\ f[k + 1] = x
        BY <1>6, <2>1, <2>2
    <2>4. h[k] \in [0 .. n - 1 -> Int]
        BY <1>1, <2>3
    <2>5. ASSUME NEW r \in 0 .. n - 1, IsFinite(h[k + 1][r])
          PROVE  h[k + 1][r] = SumOver(f, InRow(list, r, k + 1))
        <3>1. PICK U : U = InRow(list, r, k)
            OBVIOUS
        <3>2. U \in SUBSET DOMAIN list /\ k + 1 \notin U
            <4>1. k + 1 \notin 1 .. k
                BY <1>3
            <4>2. k + 1 \notin U
                BY <3>1, <4>1 DEF InRow
            <4> QED
                BY <1>7, <2>1, <3>1, <4>2
        <3>3. Integral(f, U)
            BY <1>1, <1>3, <3>2, ValuesAreIntegral
        <3>4. SumOver(f, U) \in Int
            BY <3>3, SumIsInteger
        <3>5. CASE r = place
            <4>1. h[k + 1][r] = Add(h[k][r], x) /\ h[k][r] \in Int
                BY <2>3, <2>4, <3>5
            <4>7. PICK y \in Int : y = h[k][r]
                BY <4>1
            <4>8. IsFinite(Add(y, x))
                BY <2>5, <4>1, <4>7
            <4>9. IsFinite(y) /\ Add(y, x) = y + x
                BY <2>3, <4>8, FiniteSumsAreExact
            <4>2. IsFinite(h[k][r]) /\ h[k + 1][r] = h[k][r] + x
                BY <4>1, <4>7, <4>9
            <4>3. h[k][r] = SumOver(f, U)
                BY <1>9, <3>1, <4>2
            <4>4. InRow(list, r, k + 1) = U \cup {k + 1}
                BY <2>1, <2>2, <3>1, <3>5 DEF InRow
            <4>5. f[k + 1] \in Int
                BY <2>3
            <4>6. SumOver(f, U \cup {k + 1}) = f[k + 1] + SumOver(f, U)
                BY <3>2, <3>3, <4>5, SumWith
            <4> QED
                <5>1. PICK before \in Int : before = SumOver(f, U)
                    BY <3>4
                <5>2. h[k + 1][r] = before + x /\ SumOver(f, U \cup {k + 1}) = x + before
                    BY <2>3, <4>2, <4>3, <4>6, <5>1
                <5>3. x + before = before + x
                    BY <2>3
                <5> QED
                    BY <4>4, <5>2, <5>3
        <3>6. CASE r # place
            <4>1. h[k + 1][r] = h[k][r]
                BY <2>3, <2>4, <3>6
            <4>2. InRow(list, r, k + 1) = U
                BY <2>1, <2>2, <3>1, <3>6 DEF InRow
            <4> QED
                <5>1. IsFinite(h[k][r])
                    BY <2>5, <4>1
                <5>2. h[k][r] = SumOver(f, U)
                    BY <1>9, <3>1, <5>1
                <5> QED
                    BY <4>1, <4>2, <5>2
        <3> QED
            BY <3>5, <3>6
    <2> QED
        BY <2>1, <2>5
<1>10. \A r : InRow(list, r, m) = {i \in DOMAIN list : list[i].row = r}
    BY <1>3 DEF InRow
<1> HIDE DEF Reached
<1>11. \A k \in 0 .. m : k \in Reached
    BY <1>3, <1>8, <1>9, NaturalsAreReached
<1>12. \A r \in 0 .. n - 1 : IsFinite(h[m][r]) => h[m][r] = SumOver(f, InRow(list, r, m))
    BY <1>3, <1>11 DEF Reached
<1>13. \A r : RowSum(list, n, r) = SumOver(f, InRow(list, r, m))
    BY <1>1, <1>3, <1>10, RowByColumns
<1>14. h[m] \in W
    BY <1>3, <1>5
<1> QED
    BY <1>1, <1>4, <1>12, <1>13, <1>14

-----------------------------------------------------------------------------
\* An exception, and a step that changes nothing.
LEMMA RejectKeeps ==
    ASSUME Reject
    PROVE  InputInv'
    BY DEF Reject, InputInv, StartsEmpty, EntriesAreTheInput, ReadingAFile, MergingTheEntries,
           VectorIsTheInput, ReadingAnArray, AcceptedWhenValid

LEMMA InputStutters ==
    ASSUME InputInv, UNCHANGED input_vars
    PROVE  InputInv'
<1>1. /\ phase' = phase /\ header' = header /\ lines' = lines /\ entries' = entries
      /\ todo' = todo /\ canonical' = canonical /\ grid' = grid /\ vector' = vector
    BY DEF input_vars
<1>2. StartsEmpty' /\ ReadingAFile'
    BY <1>1 DEF InputInv, StartsEmpty, ReadingAFile
<1>3. EntriesAreTheInput'
    BY <1>1 DEF InputInv, EntriesAreTheInput
<1>4. MergingTheEntries'
    BY <1>1 DEF InputInv, MergingTheEntries, MatrixIsValid
<1>5. VectorIsTheInput'
    BY <1>1 DEF InputInv, VectorIsTheInput
<1>6. ReadingAnArray'
    BY <1>1 DEF InputInv, ReadingAnArray
<1>7. AcceptedWhenValid'
    BY <1>1 DEF InputInv, AcceptedWhenValid, RequestIsValid, MatrixIsValid
<1> QED
    BY <1>2, <1>3, <1>4, <1>5, <1>6, <1>7 DEF InputInv

-----------------------------------------------------------------------------
\* Nothing read, nothing said.
LEMMA NothingGathered ==
    ASSUME NEW r, NEW c, NEW symmetry
    PROVE  Gathered(<<>>, r, c, DOMAIN <<>>) = 0 /\ SaidBy(symmetry, <<>>, r, c) = 0
<1>1. At(<<>>, r, c, DOMAIN <<>>) = {}
    BY DEF At
<1>2. DOMAIN <<>> = {}
    OBVIOUS
<1>3. PICK f : f = [i \in DOMAIN <<>> |-> Says(symmetry, <<>>[i], r, c)]
    OBVIOUS
<1>4. SaidBy(symmetry, <<>>, r, c) = SumOver(f, {})
    BY <1>2, <1>3 DEF SaidBy
<1> QED
    BY <1>1, <1>4, SumOfEmpty DEF Gathered

LEMMA NothingMerged ==
    ASSUME NEW n \in Nat, NEW list
    PROVE  MergedFrom(list, DOMAIN list, <<>>, n)
<1>1. <<>> \in Seq(Cells(n)) /\ DOMAIN <<>> = {}
    OBVIOUS
<1>2. DOMAIN list \ DOMAIN list = {}
    OBVIOUS
<1> QED
    BY <1>1, <1>2 DEF MergedFrom

-----------------------------------------------------------------------------
\* A file's header: nothing is read yet.
LEMMA ReadHeaderKeeps ==
    ASSUME InputInv, ReadHeader
    PROVE  InputInv'
<1>1. CASE Reject
    BY <1>1, RejectKeeps
<1>2. CASE ~Reject
    <2>1. PICK h \in Headers :
              /\ HeaderIsValid(h) /\ header' = h /\ phase' = "entries"
              /\ lines' = lines /\ entries' = entries /\ todo' = todo
              /\ canonical' = canonical /\ grid' = grid /\ vector' = vector
        BY <1>2 DEF ReadHeader
    <2>2. lines = <<>> /\ entries = <<>> /\ canonical = <<>> /\ grid = 0
        BY DEF InputInv, StartsEmpty, ReadHeader
    <2>3. h.rows \in Nat /\ h.rows = h.columns
        BY NumberAssumption, <2>1 DEF HeaderIsValid
    <2>4. lines' \in Seq(FileLines(h.rows)) /\ entries' \in Seq(Cells(h.rows))
        BY <2>1, <2>2
    <2>5. \A r, c : Gathered(entries', r, c, DOMAIN entries')
                        = SaidBy(header'.symmetry, lines', r, c)
        BY <2>1, <2>2, NothingGathered
    <2>6. StartsEmpty' /\ ReadingAFile'
        BY <2>1, <2>2, <2>3 DEF StartsEmpty, ReadingAFile
    <2>7. EntriesAreTheInput'
        BY <2>1, <2>2, <2>3, <2>4, <2>5 DEF EntriesAreTheInput
    <2>8. MergingTheEntries' /\ VectorIsTheInput' /\ ReadingAnArray' /\ AcceptedWhenValid'
        BY <2>1 DEF MergingTheEntries, VectorIsTheInput, ReadingAnArray, AcceptedWhenValid
    <2> QED
        BY <2>6, <2>7, <2>8 DEF InputInv
<1> QED
    BY <1>1, <1>2

\* A line becomes the entries that hold what it says.
LEMMA ReadEntryKeeps ==
    ASSUME InputInv, ReadEntry
    PROVE  InputInv'
<1>1. CASE Reject
    BY <1>1, RejectKeeps
<1>2. CASE ~Reject
    <2>1. PICK l \in Line :
              /\ LineIsValid(l) /\ lines' = Append(lines, l) /\ entries' = entries \o Expanded(l)
              /\ phase' = phase /\ header' = header /\ todo' = todo
              /\ canonical' = canonical /\ grid' = grid /\ vector' = vector
        BY <1>2 DEF ReadEntry
    <2>2. phase = "entries"
        BY DEF ReadEntry
    <2>3. PICK n : n = header.rows
        OBVIOUS
    <2>4. /\ n \in Nat /\ header.columns = n /\ grid = 0 /\ canonical = <<>>
          /\ lines \in Seq(FileLines(n)) /\ entries \in Seq(Cells(n))
          /\ \A r, c \in 0 .. n - 1 :
                 Gathered(entries, r, c, DOMAIN entries) = SaidBy(header.symmetry, lines, r, c)
        BY <2>2, <2>3 DEF InputInv, EntriesAreTheInput, ReadingAFile
    <2>5. l \in FileLines(n)
        <3>1. PICK V : V = Numbers \cup {Infinity}
            OBVIOUS
        <3>2. l \in [row : 0 .. n + 1, column : 0 .. n + 1, value : V]
            BY <2>3, <3>1 DEF Line
        <3>3. \A v \in V : v \in Int
            BY NumberAssumption, <3>1 DEF Infinity
        <3>4. l.row \in 1 .. n /\ l.column \in 1 .. n /\ l.value \in Int
            BY <2>1, <2>3, <2>4, <3>2, <3>3 DEF LineIsValid
        <3> QED
            BY <3>2, <3>4 DEF FileLines
    <2>6. lines' \in Seq(FileLines(n))
        BY <2>1, <2>4, <2>5
    <2>7. entries' \in Seq(Cells(n))
        <3>1. 0 \in Int
            OBVIOUS
        <3>2. entries \o Expanded(l) \in Seq(Cells(n))
            BY <2>4, <2>5, <3>1, LineBecomesEntries
        <3> QED
            BY <2>1, <3>2
    <2>8. ASSUME NEW r \in 0 .. n - 1, NEW c \in 0 .. n - 1
          PROVE  Gathered(entries', r, c, DOMAIN entries')
                     = SaidBy(header'.symmetry, lines', r, c)
        <3>1. r \in Int /\ c \in Int
            OBVIOUS
        <3>2. Gathered(entries', r, c, DOMAIN entries')
                  = Gathered(entries, r, c, DOMAIN entries) + Says(header.symmetry, l, r, c)
            BY <2>1, <2>4, <2>5, <3>1, LineBecomesEntries
        <3>3. SaidBy(header.symmetry, lines', r, c)
                  = SaidBy(header.symmetry, lines, r, c) + Says(header.symmetry, l, r, c)
            BY <2>1, <2>4, <2>5, <3>1, AppendSays
        <3>4. Gathered(entries, r, c, DOMAIN entries) = SaidBy(header.symmetry, lines, r, c)
            BY <2>4
        <3> QED
            BY <2>1, <3>2, <3>3, <3>4
    <2>9. StartsEmpty' /\ ReadingAFile'
        BY <2>1, <2>2, <2>3, <2>4 DEF StartsEmpty, ReadingAFile
    <2>10. EntriesAreTheInput'
        BY <2>1, <2>3, <2>4, <2>6, <2>7, <2>8 DEF EntriesAreTheInput
    <2>11. MergingTheEntries' /\ VectorIsTheInput' /\ ReadingAnArray' /\ AcceptedWhenValid'
        BY <2>1, <2>2 DEF MergingTheEntries, VectorIsTheInput, ReadingAnArray, AcceptedWhenValid
    <2> QED
        BY <2>9, <2>10, <2>11 DEF InputInv
<1> QED
    BY <1>1, <1>2

\* All entries are open when the merge begins.
LEMMA EntriesReadKeeps ==
    ASSUME InputInv, EntriesRead
    PROVE  InputInv'
<1>1. /\ phase = "entries" /\ phase' = "merge" /\ todo' = DOMAIN entries
      /\ header' = header /\ lines' = lines /\ entries' = entries
      /\ canonical' = canonical /\ grid' = grid /\ vector' = vector
    BY DEF EntriesRead
<1>2. header.rows \in Nat /\ canonical = <<>>
    BY <1>1 DEF InputInv, EntriesAreTheInput, ReadingAFile
<1>3. MergedFrom(entries', todo', canonical', header'.rows)
    BY <1>1, <1>2, NothingMerged
<1>4. MergingTheEntries'
    BY <1>1, <1>3 DEF MergingTheEntries
<1>5. EntriesAreTheInput'
    BY <1>1 DEF InputInv, EntriesAreTheInput
<1>6. StartsEmpty' /\ ReadingAFile' /\ VectorIsTheInput' /\ ReadingAnArray' /\ AcceptedWhenValid'
    BY <1>1 DEF StartsEmpty, ReadingAFile, VectorIsTheInput, ReadingAnArray, AcceptedWhenValid
<1> QED
    BY <1>4, <1>5, <1>6 DEF InputInv

-----------------------------------------------------------------------------
\* The generator lists the stencil.
LEMMA GenerateKeeps ==
    ASSUME InputInv, Generate
    PROVE  InputInv'
<1>1. CASE Reject
    BY <1>1, RejectKeeps
<1>2. CASE ~Reject
    <2>1. PICK n \in Grids :
              /\ n > 1 /\ grid' = n
              /\ header' = [NoHeader EXCEPT !.rows = n * n, !.columns = n * n]
              /\ entries' = FoldSet(LAMBDA e, list : Append(list, e), <<>>, Stencil(n))
              /\ todo' = DOMAIN entries' /\ phase' = "merge"
              /\ lines' = lines /\ canonical' = canonical /\ vector' = vector
        BY <1>2 DEF Generate
    <2>2. lines = <<>> /\ canonical = <<>>
        BY DEF InputInv, StartsEmpty, Generate
    <2>3. n \in Nat /\ n # 0
        <3>1. n \in Int
            BY NumberAssumption
        <3>2. n > 1
            BY ONLY <2>1
        <3> QED
            BY <3>1, <3>2
    <2>4. PICK size : size = n * n
        OBVIOUS
    <2>5. size \in Nat /\ header'.rows = size
        <3>1. size \in Nat
            BY <2>3, <2>4
        <3>2. header'.rows = n * n
            BY <2>1 DEF NoHeader
        <3> QED
            BY <2>4, <3>1, <3>2
    <2>6. IsFiniteSet(Stencil(n)) /\ Stencil(n) \in SUBSET Cells(n * n)
        BY <2>1, <2>3, StencilEntries
    <2>7. Enumerates(FoldSet(LAMBDA e, list : Append(list, e), <<>>, Stencil(n)), Stencil(n))
        BY <2>6, FoldLists
    <2>8. PICK list : list = entries'
        OBVIOUS
    <2>9. Enumerates(list, Stencil(n))
        BY <2>1, <2>7, <2>8
    <2>10. list \in Seq(Stencil(n))
        BY <2>9 DEF Enumerates
    <2>11. list \in Seq(Cells(size))
        <3>1. PICK S, T : S = Stencil(n) /\ T = Cells(size)
            OBVIOUS
        <3>2. S \subseteq T /\ list \in Seq(S)
            BY <2>4, <2>6, <2>10, <3>1
        <3>3. list \in Seq(T)
            BY <3>2, ListsOfMore
        <3> QED
            BY <3>1, <3>3
    <2>12. \A i, j \in 0 .. size - 1 : Gathered(list, i, j, DOMAIN list) = Coupling(n, i, j)
        <3> TAKE i, j \in 0 .. size - 1
        <3>1. i \in 0 .. n * n - 1 /\ j \in 0 .. n * n - 1
            BY <2>4
        <3> QED
            BY <2>1, <2>3, <2>9, <3>1, StencilGathers
    <2>13. lines' \in Seq(FileLines(size))
        <3>1. <<>> \in Seq(FileLines(size))
            OBVIOUS
        <3> QED
            BY <2>1, <2>2, <3>1
    <2>14. StartsEmpty' /\ ReadingAFile'
        BY <2>1 DEF StartsEmpty, ReadingAFile
    <2>15. EntriesAreTheInput'
        BY <2>1, <2>3, <2>4, <2>5, <2>8, <2>11, <2>12, <2>13 DEF EntriesAreTheInput
    <2>16. MergedFrom(list, DOMAIN list, <<>>, size)
        BY <2>5, NothingMerged
    <2>17. MergingTheEntries'
        BY <2>1, <2>2, <2>5, <2>8, <2>16 DEF MergingTheEntries
    <2>18. VectorIsTheInput' /\ ReadingAnArray' /\ AcceptedWhenValid'
        BY <2>1 DEF VectorIsTheInput, ReadingAnArray, AcceptedWhenValid
    <2> QED
        BY <2>14, <2>15, <2>17, <2>18 DEF InputInv
<1> QED
    BY <1>1, <1>2

\* The merge takes a least entry.
LEMMA MergeKeeps ==
    ASSUME InputInv, Merge
    PROVE  InputInv'
<1>1. PICK i \in todo :
          /\ \A j \in todo : ~Before(entries[j], entries[i])
          /\ todo' = todo \ {i}
          /\ canonical' =
                 IF canonical # <<>> /\ SameKey(canonical[Len(canonical)], entries[i])
                 THEN [canonical EXCEPT ![Len(canonical)].value = Add(@, entries[i].value)]
                 ELSE Append(canonical, entries[i])
    BY DEF Merge
<1>2. /\ phase = "merge" /\ phase' = phase /\ header' = header /\ lines' = lines
      /\ entries' = entries /\ grid' = grid /\ vector' = vector
    BY DEF Merge
<1>3. PICK n, m, list, open, merged :
          /\ n = header.rows /\ m = Len(canonical) /\ list = entries
          /\ open = todo /\ merged = canonical
    OBVIOUS
<1>4. n \in Nat /\ list \in Seq(Cells(n)) /\ MergedFrom(list, open, merged, n)
    BY <1>2, <1>3 DEF InputInv, EntriesAreTheInput, MergingTheEntries
<1>5. i \in open /\ \A j \in open : ~Before(list[j], list[i])
    BY <1>1, <1>3
<1>6. m = Len(merged)
    BY <1>3
<1>7. MergedFrom(list, open \ {i}, canonical', n)
    <2>1. CASE merged # <<>> /\ SameKey(merged[m], list[i])
        <3>1. canonical' = [merged EXCEPT ![m].value = Add(@, list[i].value)]
            BY <1>1, <1>3, <2>1
        <3>2. MergedFrom(list, open \ {i},
                  [merged EXCEPT ![m].value = Add(@, list[i].value)], n)
            BY <1>4, <1>5, <1>6, <2>1, MergesIntoTheLast
        <3> QED
            BY <3>1, <3>2
    <2>2. CASE ~(merged # <<>> /\ SameKey(merged[m], list[i]))
        <3>1. canonical' = Append(merged, list[i])
            BY <1>1, <1>3, <2>2
        <3>2. MergedFrom(list, open \ {i}, Append(merged, list[i]), n)
            BY <1>4, <1>5, <1>6, <2>2, MergesAsANewOne
        <3> QED
            BY <3>1, <3>2
    <2> QED
        BY <2>1, <2>2
<1>8. MergingTheEntries'
    BY <1>1, <1>2, <1>3, <1>7 DEF MergingTheEntries
<1>9. EntriesAreTheInput'
    BY <1>2 DEF InputInv, EntriesAreTheInput
<1>10. StartsEmpty' /\ ReadingAFile' /\ VectorIsTheInput' /\ ReadingAnArray' /\ AcceptedWhenValid'
    BY <1>2 DEF StartsEmpty, ReadingAFile, VectorIsTheInput, ReadingAnArray, AcceptedWhenValid
<1> QED
    BY <1>8, <1>9, <1>10 DEF InputInv

\* The matrix is validated when nothing is open.
LEMMA BuildMatrixKeeps ==
    ASSUME InputInv, BuildMatrix
    PROVE  InputInv'
<1>1. CASE Reject
    BY <1>1, RejectKeeps
<1>2. CASE ~Reject
    <2>1. /\ phase = "merge" /\ todo = {} /\ MatrixIsValid /\ phase' = "built"
          /\ header' = header /\ lines' = lines /\ entries' = entries /\ todo' = todo
          /\ canonical' = canonical /\ grid' = grid /\ vector' = vector
        BY <1>2 DEF BuildMatrix
    <2>2. MatrixIsValid'
        BY <2>1 DEF MatrixIsValid
    <2>3. MergingTheEntries'
        BY <2>1, <2>2 DEF InputInv, MergingTheEntries
    <2>4. EntriesAreTheInput'
        BY <2>1 DEF InputInv, EntriesAreTheInput
    <2>5. StartsEmpty' /\ ReadingAFile' /\ VectorIsTheInput' /\ ReadingAnArray'
          /\ AcceptedWhenValid'
        BY <2>1 DEF StartsEmpty, ReadingAFile, VectorIsTheInput, ReadingAnArray, AcceptedWhenValid
    <2> QED
        BY <2>3, <2>4, <2>5 DEF InputInv
<1> QED
    BY <1>1, <1>2

-----------------------------------------------------------------------------
\* A right-hand side of zeros, or of row sums.
LEMMA ChooseRightHandSideKeeps ==
    ASSUME InputInv, ChooseRightHandSide
    PROVE  InputInv'
<1>1. PICK n : n = header.rows
    OBVIOUS
<1>2. /\ phase = "built" /\ lines' = <<>> /\ entries' = <<>> /\ grid' = 0
      /\ header'.rows = n /\ todo' = todo /\ canonical' = canonical
    BY <1>1 DEF ChooseRightHandSide, NoHeader
<1>3. n \in Nat /\ n > 0 /\ canonical \in Seq(Cells(n))
    <2>1. n \in Nat /\ MatrixIsValid /\ MergedFrom(entries, todo, canonical, n)
        BY <1>1, <1>2 DEF InputInv, EntriesAreTheInput, MergingTheEntries
    <2> QED
        BY <1>1, <2>1 DEF MatrixIsValid, MergedFrom
<1>4. \/ vector' = RowSums /\ phase' = "request"
      \/ vector' = Zero /\ phase' \in {"array", "coordinates"}
    BY DEF ChooseRightHandSide
<1>5. phase' \in {"request", "array", "coordinates"}
    BY <1>4
<1>6. lines' \in Seq(VectorLines(n)) /\ DOMAIN lines' = {} /\ Len(lines') = 0
    BY <1>2
<1>7. VectorIsTheInput'
    <2>1. CASE vector' = RowSums /\ phase' = "request"
        <3>1. /\ RowSums \in [0 .. n - 1 -> Int]
              /\ \A r \in 0 .. n - 1 : IsFinite(RowSums[r]) => RowSums[r] = RowSum(canonical, n, r)
            BY <1>1, <1>3, RowSumsAreSums
        <3> QED
            BY <1>2, <1>3, <1>6, <2>1, <3>1 DEF VectorIsTheInput
    <2>2. CASE vector' = Zero /\ phase' \in {"array", "coordinates"}
        <3>1. vector' \in [0 .. n - 1 -> Int] /\ \A r \in 0 .. n - 1 : vector'[r] = 0
            BY <1>1, <2>2 DEF Zero
        <3>2. \A r : Listed(lines', r) = 0
            BY <1>2, NothingListed
        <3> QED
            BY <1>2, <1>3, <1>6, <2>2, <3>1, <3>2 DEF VectorIsTheInput
    <2> QED
        BY <1>4, <2>1, <2>2
<1>8. ReadingAnArray'
    BY <1>2, <1>3, <1>6 DEF ReadingAnArray
<1>9. StartsEmpty' /\ EntriesAreTheInput' /\ ReadingAFile' /\ MergingTheEntries'
      /\ AcceptedWhenValid'
    BY <1>5 DEF StartsEmpty, EntriesAreTheInput, ReadingAFile, MergingTheEntries,
                AcceptedWhenValid
<1> QED
    BY <1>7, <1>8, <1>9 DEF InputInv

-----------------------------------------------------------------------------
\* Infinity is not one of the numbers of a line that is accepted.
LEMMA LineValuesAreIntegers ==
    ASSUME NEW x \in Numbers \cup {Infinity}
    PROVE  x \in Int
    BY NumberAssumption DEF Infinity

\* The next row of an array.
LEMMA ReadArrayKeeps ==
    ASSUME InputInv, ReadArray
    PROVE  InputInv'
<1>1. CASE Reject
    BY <1>1, RejectKeeps
<1>2. CASE ~Reject
    <2>1. PICK x \in Numbers \cup {Infinity} :
              /\ IsFinite(x) /\ vector' = [vector EXCEPT ![Len(lines)] = x]
              /\ lines' = Append(lines, [row |-> Len(lines) + 1, value |-> x])
              /\ phase' = IF Len(lines') = header.rows THEN "request" ELSE phase
              /\ header' = header /\ entries' = entries /\ todo' = todo
              /\ canonical' = canonical /\ grid' = grid
        BY <1>2 DEF ReadArray
    <2>2. PICK n, m, l : n = header.rows /\ m = Len(lines) /\ l = [row |-> m + 1, value |-> x]
        OBVIOUS
    <2>3. phase = "array"
        BY DEF ReadArray
    <2>4. /\ n \in Nat /\ canonical \in Seq(Cells(n)) /\ lines \in Seq(VectorLines(n))
          /\ vector \in [0 .. n - 1 -> Int]
          /\ \A r \in 0 .. n - 1 : IsFinite(vector[r]) => vector[r] = Listed(lines, r)
        BY <2>2, <2>3 DEF InputInv, VectorIsTheInput
    <2>5. m < n /\ \A k \in DOMAIN lines : lines[k].row = k
        BY <2>2, <2>3 DEF InputInv, ReadingAnArray
    <2>6. m \in 0 .. n - 1 /\ DOMAIN lines = 1 .. m
        BY <2>2, <2>4, <2>5
    <2>7. x \in Int
        BY LineValuesAreIntegers
    <2>8. l \in VectorLines(n) /\ l.row = m + 1 /\ l.value = x
        <3>1. m + 1 \in 1 .. n
            BY <2>4, <2>6
        <3> QED
            BY <2>2, <2>7, <3>1 DEF VectorLines
    <2>9. lines' = Append(lines, l) /\ lines' \in Seq(VectorLines(n))
        <3>1. lines' = Append(lines, l)
            BY <2>1, <2>2
        <3> QED
            BY <2>4, <2>8, <3>1
    <2>10. /\ vector' \in [0 .. n - 1 -> Int] /\ vector'[m] = x
           /\ \A r \in 0 .. n - 1 : r # m => vector'[r] = vector[r]
        BY <2>1, <2>2, <2>4, <2>6, <2>7
    <2>11. ASSUME NEW r \in 0 .. n - 1, IsFinite(vector'[r])
           PROVE  vector'[r] = Listed(lines', r)
        <3>1. CASE r = m
            <4>1. Listed(lines, r) = 0
                <5>1. \A k \in DOMAIN lines : lines[k].row # r + 1
                    BY <2>5, <2>6, <3>1
                <5> QED
                    BY <5>1, NotListed
            <4>2. l.row = r + 1
                BY <2>8, <3>1
            <4>3. Listed(Append(lines, l), r) = Listed(lines, r) + l.value
                BY <2>4, <2>8, <4>2, AppendLists
            <4> QED
                BY <2>7, <2>8, <2>9, <2>10, <3>1, <4>1, <4>3
        <3>2. CASE r # m
            <4>1. l.row # r + 1
                BY <2>6, <2>8, <3>2
            <4>2. Listed(Append(lines, l), r) = Listed(lines, r)
                BY <2>4, <2>8, <4>1, AppendLists
            <4>3. vector'[r] = vector[r]
                BY <2>10, <3>2
            <4>4. IsFinite(vector[r])
                BY <2>11, <4>3
            <4> QED
                BY <2>4, <2>9, <4>2, <4>3, <4>4
        <3> QED
            BY <3>1, <3>2
    <2>12. phase' \in {"array", "request"} /\ header'.rows = n /\ canonical' = canonical
        BY <2>1, <2>2, <2>3
    <2>13. VectorIsTheInput'
        BY <2>4, <2>9, <2>10, <2>11, <2>12 DEF VectorIsTheInput
    <2>14. ReadingAnArray'
        <3>1. DOMAIN lines' = 1 .. m + 1 /\ Len(lines') = m + 1
              /\ lines'[m + 1] = l /\ \A k \in 1 .. m : lines'[k] = lines[k]
            BY <2>2, <2>4, <2>9
        <3>2. \A k \in DOMAIN lines' : lines'[k].row = k
            BY <2>5, <2>6, <2>8, <3>1
        <3>3. phase' = "array" => Len(lines') # n
            BY <2>1, <2>2
        <3>4. Len(lines') # n => Len(lines') < n
            BY <2>4, <2>6, <3>1
        <3> QED
            BY <2>12, <3>2, <3>3, <3>4 DEF ReadingAnArray
    <2>15. StartsEmpty' /\ EntriesAreTheInput' /\ ReadingAFile' /\ MergingTheEntries'
           /\ AcceptedWhenValid'
        BY <2>12 DEF StartsEmpty, EntriesAreTheInput, ReadingAFile, MergingTheEntries,
                     AcceptedWhenValid
    <2> QED
        BY <2>13, <2>14, <2>15 DEF InputInv
<1> QED
    BY <1>1, <1>2

\* A coordinate is added to its row, whose sum may overflow.
LEMMA ReadCoordinateKeeps ==
    ASSUME InputInv, ReadCoordinate
    PROVE  InputInv'
<1>1. CASE Reject
    BY <1>1, RejectKeeps
<1>2. CASE ~Reject
    <2>1. PICK number \in 0 .. header.rows + 1, x \in Numbers \cup {Infinity} :
              /\ number \in 1 .. header.rows /\ IsFinite(x)
              /\ vector' = [vector EXCEPT ![number - 1] = Add(@, x)]
              /\ lines' = Append(lines, [row |-> number, value |-> x])
              /\ phase' = phase /\ header' = header /\ entries' = entries /\ todo' = todo
              /\ canonical' = canonical /\ grid' = grid
        BY <1>2 DEF ReadCoordinate
    <2>2. PICK n, place, l : /\ n = header.rows /\ place = number - 1
                             /\ l = [row |-> number, value |-> x]
        OBVIOUS
    <2>3. phase = "coordinates"
        BY DEF ReadCoordinate
    <2>4. /\ n \in Nat /\ canonical \in Seq(Cells(n)) /\ lines \in Seq(VectorLines(n))
          /\ vector \in [0 .. n - 1 -> Int]
          /\ \A r \in 0 .. n - 1 : IsFinite(vector[r]) => vector[r] = Listed(lines, r)
        BY <2>2, <2>3 DEF InputInv, VectorIsTheInput
    <2>5. number \in 1 .. n /\ place \in 0 .. n - 1 /\ number = place + 1
        BY <2>1, <2>2, <2>4
    <2>6. x \in Int
        BY LineValuesAreIntegers
    <2>7. l \in VectorLines(n) /\ l.row = number /\ l.value = x
        BY <2>2, <2>5, <2>6 DEF VectorLines
    <2>8. lines' = Append(lines, l) /\ lines' \in Seq(VectorLines(n))
        <3>1. lines' = Append(lines, l)
            BY <2>1, <2>2
        <3> QED
            BY <2>4, <2>7, <3>1
    <2>9. PICK y \in Int : y = vector[place]
        BY <2>4, <2>5
    <2>10. Add(y, x) \in Int /\ (IsFinite(Add(y, x)) => IsFinite(y) /\ Add(y, x) = y + x)
        BY <2>6, FiniteSumsAreExact
    <2>11. /\ vector' \in [0 .. n - 1 -> Int] /\ vector'[place] = Add(y, x)
           /\ \A r \in 0 .. n - 1 : r # place => vector'[r] = vector[r]
        <3>1. vector' = [vector EXCEPT ![place] = Add(y, x)]
            BY <2>1, <2>2, <2>4, <2>5, <2>9
        <3>2. PICK z \in Int : z = Add(y, x)
            BY <2>10
        <3> QED
            BY <2>4, <2>5, <3>1, <3>2
    <2>12. ASSUME NEW r \in 0 .. n - 1, IsFinite(vector'[r])
           PROVE  vector'[r] = Listed(lines', r)
        <3>1. CASE r = place
            <4>1. IsFinite(y) /\ vector'[r] = y + x
                BY <2>10, <2>11, <2>12, <3>1
            <4>2. y = Listed(lines, r)
                BY <2>4, <2>9, <3>1, <4>1
            <4>3. l.row = r + 1
                BY <2>5, <2>7, <3>1
            <4>4. Listed(Append(lines, l), r) = Listed(lines, r) + l.value
                BY <2>4, <2>7, <4>3, AppendLists
            <4> QED
                BY <2>7, <2>8, <4>1, <4>2, <4>4
        <3>2. CASE r # place
            <4>1. l.row # r + 1
                BY <2>5, <2>7, <3>2
            <4>2. Listed(Append(lines, l), r) = Listed(lines, r)
                BY <2>4, <2>7, <4>1, AppendLists
            <4>3. vector'[r] = vector[r]
                BY <2>11, <3>2
            <4>4. IsFinite(vector[r])
                BY <2>12, <4>3
            <4> QED
                BY <2>4, <2>8, <4>2, <4>3, <4>4
        <3> QED
            BY <3>1, <3>2
    <2>13. phase' = "coordinates" /\ header'.rows = n /\ canonical' = canonical
        BY <2>1, <2>2, <2>3
    <2>14. VectorIsTheInput'
        BY <2>4, <2>8, <2>11, <2>12, <2>13 DEF VectorIsTheInput
    <2>15. StartsEmpty' /\ EntriesAreTheInput' /\ ReadingAFile' /\ MergingTheEntries'
           /\ ReadingAnArray' /\ AcceptedWhenValid'
        BY <2>13 DEF StartsEmpty, EntriesAreTheInput, ReadingAFile, MergingTheEntries,
                     ReadingAnArray, AcceptedWhenValid
    <2> QED
        BY <2>14, <2>15 DEF InputInv
<1> QED
    BY <1>1, <1>2

LEMMA CoordinatesReadKeeps ==
    ASSUME InputInv, CoordinatesRead
    PROVE  InputInv'
<1>1. /\ phase = "coordinates" /\ phase' = "request" /\ header' = header /\ lines' = lines
      /\ canonical' = canonical /\ vector' = vector
    BY DEF CoordinatesRead
<1>2. VectorIsTheInput'
    BY <1>1 DEF InputInv, VectorIsTheInput
<1>3. StartsEmpty' /\ EntriesAreTheInput' /\ ReadingAFile' /\ MergingTheEntries'
      /\ ReadingAnArray' /\ AcceptedWhenValid'
    BY <1>1 DEF StartsEmpty, EntriesAreTheInput, ReadingAFile, MergingTheEntries,
                ReadingAnArray, AcceptedWhenValid
<1> QED
    BY <1>2, <1>3 DEF InputInv

\* The pipeline lets finite right-hand sides through.
LEMMA ValidateRequestKeeps ==
    ASSUME InputInv, ValidateRequest
    PROVE  InputInv'
<1>1. CASE Reject
    BY <1>1, RejectKeeps
<1>2. CASE ~Reject
    <2>1. /\ phase = "request" /\ phase' = "accepted" /\ RequestIsValid
          /\ header' = header /\ lines' = lines /\ canonical' = canonical /\ vector' = vector
        BY <1>2 DEF ValidateRequest
    <2>2. VectorIsTheInput'
        BY <2>1 DEF InputInv, VectorIsTheInput
    <2>3. AcceptedWhenValid'
        BY <2>1 DEF AcceptedWhenValid, RequestIsValid, MatrixIsValid
    <2>4. StartsEmpty' /\ EntriesAreTheInput' /\ ReadingAFile' /\ MergingTheEntries'
          /\ ReadingAnArray'
        BY <2>1 DEF StartsEmpty, EntriesAreTheInput, ReadingAFile, MergingTheEntries,
                    ReadingAnArray
    <2> QED
        BY <2>2, <2>3, <2>4 DEF InputInv
<1> QED
    BY <1>1, <1>2

-----------------------------------------------------------------------------
\* The invariant holds at the start.
LEMMA InputInitIsFine ==
    ASSUME InputInit
    PROVE  InputInv
    BY DEF InputInit, InputInv, StartsEmpty, EntriesAreTheInput, ReadingAFile,
           MergingTheEntries, VectorIsTheInput, ReadingAnArray, AcceptedWhenValid

\* Every step keeps it.
LEMMA InputNextIsFine ==
    ASSUME InputInv, [InputNext]_input_vars
    PROVE  InputInv'
<1>1. CASE ReadHeader
    BY <1>1, ReadHeaderKeeps
<1>2. CASE ReadEntry
    BY <1>2, ReadEntryKeeps
<1>3. CASE ReadFails
    BY <1>3, RejectKeeps DEF ReadFails
<1>4. CASE EntriesRead
    BY <1>4, EntriesReadKeeps
<1>5. CASE Generate
    BY <1>5, GenerateKeeps
<1>6. CASE Merge
    BY <1>6, MergeKeeps
<1>7. CASE BuildMatrix
    BY <1>7, BuildMatrixKeeps
<1>8. CASE ChooseRightHandSide
    BY <1>8, ChooseRightHandSideKeeps
<1>9. CASE BadVectorHeader
    BY <1>9, RejectKeeps DEF BadVectorHeader
<1>10. CASE ReadArray
    BY <1>10, ReadArrayKeeps
<1>11. CASE ReadCoordinate
    BY <1>11, ReadCoordinateKeeps
<1>12. CASE CoordinatesRead
    BY <1>12, CoordinatesReadKeeps
<1>13. CASE ValidateRequest
    BY <1>13, ValidateRequestKeeps
<1>14. CASE InputEnded \/ UNCHANGED input_vars
    BY <1>14, InputStutters DEF InputEnded
<1> QED
    BY <1>1, <1>2, <1>3, <1>4, <1>5, <1>6, <1>7, <1>8, <1>9, <1>10, <1>11, <1>12, <1>13,
       <1>14 DEF InputNext

\* It holds in every state.
LEMMA InputInvariance == InputSpec => []InputInv
<1>1. InputInit => InputInv
    BY InputInitIsFine
<1>2. InputInv /\ [InputNext]_input_vars => InputInv'
    BY InputNextIsFine
<1> QED
    BY <1>1, <1>2, PTL DEF InputSpec

-----------------------------------------------------------------------------
\* ValueAt is what the merged entries add up to.
LEMMA ValueAtGathers ==
    ASSUME NEW r, NEW c
    PROVE  ValueAt(r, c) = Gathered(canonical, r, c, DOMAIN canonical)
    BY DEF ValueAt, Gathered, Values, At

\* A matrix that is built has, in every place, what the entries add up to.
LEMMA BuiltIsExact ==
    ASSUME InputInv, phase = "built", NEW r, NEW c
    PROVE  ValueAt(r, c) = Gathered(entries, r, c, DOMAIN entries)
<1>1. PICK n, list, merged : n = header.rows /\ list = entries /\ merged = canonical
    OBVIOUS
<1>2. /\ n \in Nat /\ list \in Seq(Cells(n)) /\ MergedFrom(list, {}, merged, n)
      /\ MatrixIsValid
    BY <1>1 DEF InputInv, EntriesAreTheInput, MergingTheEntries
<1>3. \A k \in DOMAIN merged : IsFinite(merged[k].value)
    <2>1. merged \in Seq(Cells(n))
        BY <1>2 DEF MergedFrom
    <2>2. DOMAIN merged = 1 .. Len(merged)
        BY <2>1
    <2> QED
        BY <1>1, <1>2, <2>2 DEF MatrixIsValid
<1>4. Gathered(merged, r, c, DOMAIN merged) = Gathered(list, r, c, DOMAIN list)
    BY <1>2, <1>3, MergedIsExact
<1> QED
    BY <1>1, <1>4, ValueAtGathers

\* A matrix that is built from a file is what the file says, in every place.
THEOREM MatricesAreTheirFiles == InputSpec => []MatrixIsTheFile
<1>1. InputInv => MatrixIsTheFile
    <2> SUFFICES ASSUME InputInv, phase = "built", grid = 0
                 PROVE  /\ \A r, c \in 0 .. header.rows - 1 : ValueAt(r, c) = ExactEntry(r, c)
                        /\ \A i, j \in DOMAIN canonical :
                               SameKey(canonical[i], canonical[j]) => i = j
        BY DEF MatrixIsTheFile
    <2>1. ASSUME NEW r \in 0 .. header.rows - 1, NEW c \in 0 .. header.rows - 1
          PROVE  ValueAt(r, c) = ExactEntry(r, c)
        <3>1. Gathered(entries, r, c, DOMAIN entries) = SaidBy(header.symmetry, lines, r, c)
            BY DEF InputInv, EntriesAreTheInput
        <3> QED
            BY <3>1, BuiltIsExact, ExactEntryIsSaid
    <2>2. ASSUME NEW i \in DOMAIN canonical, NEW j \in DOMAIN canonical,
                 SameKey(canonical[i], canonical[j])
          PROVE  i = j
        <3>1. PICK n, merged : n = header.rows /\ merged = canonical
            OBVIOUS
        <3>2. n \in Nat /\ MergedFrom(entries, todo, merged, n)
            BY <3>1 DEF InputInv, EntriesAreTheInput, MergingTheEntries
        <3>3. i \in DOMAIN merged /\ j \in DOMAIN merged /\ SameKey(merged[i], merged[j])
            BY <2>2, <3>1
        <3> QED
            BY <3>2, <3>3, OnePerPlace
    <2> QED
        BY <2>1, <2>2
<1> QED
    BY <1>1, InputInvariance, PTL

\* The generated matrix couples the points that are one apart, and no others.
THEOREM PoissonMatricesAreStencils == InputSpec => []PoissonIsTheStencil
<1>1. InputInv => PoissonIsTheStencil
    <2> SUFFICES ASSUME InputInv, phase = "built", grid # 0,
                        NEW i \in 0 .. header.rows - 1, NEW j \in 0 .. header.rows - 1
                 PROVE  ValueAt(i, j) = Coupling(grid, i, j)
        BY DEF PoissonIsTheStencil, Coupling, Apartness, Gap
    <2>1. Gathered(entries, i, j, DOMAIN entries) = Coupling(grid, i, j)
        BY DEF InputInv, EntriesAreTheInput
    <2> QED
        BY <2>1, BuiltIsExact
<1> QED
    BY <1>1, InputInvariance, PTL

\* The right-hand side of an accepted request is its file, or the row sums.
THEOREM RightHandSidesAreTheirFiles == InputSpec => []RightHandSideIsTheFile
<1>1. InputInv => RightHandSideIsTheFile
    <2> SUFFICES ASSUME InputInv, phase = "accepted", NEW r \in 0 .. header.rows - 1
                 PROVE  \/ vector[r] = SumOver([i \in DOMAIN lines |-> lines[i].value],
                                              {i \in DOMAIN lines : lines[i].row = r + 1})
                        \/ /\ lines = <<>>
                           /\ vector[r] = SumOver([c \in 0 .. header.rows - 1 |-> ValueAt(r, c)],
                                                 0 .. header.rows - 1)
        BY DEF RightHandSideIsTheFile
    <2>1. IsFinite(vector[r])
        <3>1. RequestIsValid
            BY DEF InputInv, AcceptedWhenValid
        <3> QED
            BY <3>1 DEF RequestIsValid
    <2>2. \/ vector[r] = Listed(lines, r)
          \/ lines = <<>> /\ vector[r] = RowSum(canonical, header.rows, r)
        BY <2>1 DEF InputInv, VectorIsTheInput
    <2>3. Listed(lines, r) = SumOver([i \in DOMAIN lines |-> lines[i].value],
                                     {i \in DOMAIN lines : lines[i].row = r + 1})
        BY DEF Listed, Values
    <2>4. RowSum(canonical, header.rows, r)
              = SumOver([c \in 0 .. header.rows - 1 |-> ValueAt(r, c)], 0 .. header.rows - 1)
        BY ValueAtGathers DEF RowSum
    <2> QED
        BY <2>2, <2>3, <2>4
<1> QED
    BY <1>1, InputInvariance, PTL
=============================================================================
