---------------------------- MODULE MCIvfSearch -----------------------------
(***************************************************************************)
(* Small instances of IvfSearch.  The indexes are those that Layout builds *)
(* from a list of records and an assignment of the records to clusters.    *)
(* Distances are kept small (FixScale = 2), with 32-bit lanes just wide    *)
(* enough for them.                                                        *)
(***************************************************************************)
EXTENDS IvfSearch, Layout

\* The origin with coordinate j set to x.  Dimension 5 is the first that the
\* scalar loop adds, dimension 3 the last that it tests and 4 the last that it adds.
At(j, x) == [e \in Dims |-> IF e = j THEN x ELSE 0]

\* Seen from the origin: two records at distance 1, one that the scalar loop
\* notices first and one last, and one at distance 4 that only the last of its
\* pruning tests notices.
Spots == {At(5, 1), At(4, -1), At(3, 2)}

\* The one at distance 4 passes every pruning test.
TwoSpots == {At(5, 1), At(4, 2)}
Origin == At(0, 0)

OddLabels(n) == [e \in 0..(n - 1) |-> e % 2]
OneFraud(n, f) == [e \in 0..(n - 1) |-> IF e = f THEN 1 ELSE 0]

\* Six records, so that one record is always left out of the top five, over
\* two clusters: split in the middle, alternating, all in one, and two splits
\* that leave a block of the vector loop incomplete.
SixAssignments ==
  {[e \in 0..5 |-> IF e < 3 THEN 0 ELSE 1],
   [e \in 0..5 |-> e % 2],
   [e \in 0..5 |-> 1],
   [e \in 0..5 |-> IF e \in {0, 5} THEN 1 ELSE 0],
   [e \in 0..5 |-> IF e = 2 THEN 0 ELSE 1]}

SixRecordProblems ==
  {<<LayoutOf(6, v, OddLabels(6), a), Origin>> :
     v \in [0..5 -> Spots], a \in SixAssignments}

\* Up to three records, fewer than the list has slots, in up to three clusters.
FewRecordProblems ==
  UNION {{<<LayoutOf(n, v, OddLabels(n), a), Origin>> :
            v \in [0..(n - 1) -> TwoSpots], a \in [0..(n - 1) -> Clusters]} :
         n \in 0..3}

\* Seven records, one of them fraudulent, the first three at distance 4 from
\* the query.
SevenAssignments ==
  {[e \in 0..6 |-> e % 2], [e \in 0..6 |-> IF e < 2 THEN 1 ELSE 0]}

SevenRecordProblems ==
  {<<LayoutOf(7, [e \in 0..6 |-> IF e < 3 THEN At(4, 2) ELSE v[e]],
              OneFraud(7, f), a), Origin>> :
     v \in [3..6 -> TwoSpots], f \in {0, 6}, a \in SevenAssignments}

\* Both orders of two centroids.
TwoPenalties == {[c \in 0..1 |-> c], [c \in 0..1 |-> 1 - c]}

\* Every weak order of the centroids, some of them perhaps out of reach.
AllPenalties ==
  {p \in [Clusters -> 0..FltMax] :
     \A c \in Clusters : \/ p[c] \in {0, FltMax}
                         \/ \E e \in Clusters : p[e] = p[c] - 1}

OneProbe  == {1}
AnyNProbe == -1..(K + 1)
AllKernels == {"avx2", "c", "go"}
TwoKernels == {"avx2", "go"}
=============================================================================
