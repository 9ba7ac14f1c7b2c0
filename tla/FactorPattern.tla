---------------------------- MODULE FactorPattern ----------------------------
(***************************************************************************)
(* The combined L and U pattern every numerical kernel works on, and the   *)
(* elementary steps a factorization on it is made of.                      *)
(*                                                                         *)
(* A factor maps every row to the set of its columns (a row of             *)
(* lu_column_indices, which the code keeps sorted).  A step <<i, k, j>> is *)
(* what pivot row k does to the entry in row i and column j: for j = k it  *)
(* divides the entry by the pivot, which makes it the multiplier L(i, k);  *)
(* for j > k it subtracts the multiplier times U(k, j).  A floating-point  *)
(* value is abstracted to the steps that have been applied to it.           *)
(***************************************************************************)
EXTENDS Integers

\* Columns left of the diagonal position of a row, and right of it.
Lower(factor, r) == {c \in factor[r] : c < r}
Upper(factor, r) == {c \in factor[r] : c > r}

\* Fault: fill-in right of the diagonal only.
FaultClosed(factor) ==
    \A r \in DOMAIN factor :
        /\ r \in factor[r]
        /\ \A k \in Lower(factor, r) : {c \in Upper(factor, k) : c > r} \subseteq factor[r]

\* Every row has its diagonal and a slot for each update made to it.
Closed(factor) ==
    \A r \in DOMAIN factor :
        /\ r \in factor[r]
        /\ \A k \in Lower(factor, r) : Upper(factor, k) \subseteq factor[r]

Steps(rows) == {s \in rows \X rows \X rows : s[2] < s[1] /\ s[2] <= s[3]}

\* The steps of the factorization: the multiplier and the entry of U exist.
Needed(factor, s) == s[2] \in factor[s[1]] /\ s[3] \in factor[s[2]]

\* An entry has received each of its steps by pivots below `limit` once.
DoneBelow(factor, applied, i, j, limit) ==
    \A k \in DOMAIN factor :
        k < i /\ k <= j /\ k < limit =>
            applied[<<i, k, j>>] = IF Needed(factor, <<i, k, j>>) THEN 1 ELSE 0

\* The entry holds its value of L or U.
Final(factor, applied, i, j) == DoneBelow(factor, applied, i, j, j + 1)

FactorFinal(factor, applied) ==
    \A i \in DOMAIN factor : \A j \in factor[i] : Final(factor, applied, i, j)

\* The operands of a step hold their values, and the entry is ready for it: to be
\* divided it has all its updates, to be updated it has not been divided.
Sound(factor, applied, s) ==
    LET i == s[1]  k == s[2]  j == s[3]
    IN  IF j = k
        THEN DoneBelow(factor, applied, i, k, k) /\ Final(factor, applied, k, k)
        ELSE /\ Final(factor, applied, i, k)
             /\ Final(factor, applied, k, j)
             /\ j < i => applied[<<i, j, j>>] = 0

\* What a step leaves: 1 if it is sound and the first of its kind, else 2, which
\* stands for any wrong value.
Outcome(factor, applied, s) ==
    IF applied[s] = 0 /\ Sound(factor, applied, s) THEN 1 ELSE 2

Apply(factor, applied, s) == [applied EXCEPT ![s] = Outcome(factor, applied, s)]
=============================================================================
