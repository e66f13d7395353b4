----------------------------- MODULE MCIndexFile -----------------------------
(***************************************************************************)
(* Small instances of IndexFile: two dimensions, one cluster, indexes of   *)
(* one, two and three vectors, chunks of two.                              *)
(***************************************************************************)
EXTENDS IndexFile

Index(vec, lo, hi) ==
  LET n == Len(vec) \div D
  IN  [n |-> n, centroids |-> <<lo, hi>>, mn |-> <<lo, lo>>, mx |-> <<hi, hi>>,
       offsets |-> <<0, n>>, vec |-> vec, label |-> [i \in 1..n |-> i % 2],
       id |-> [i \in 1..n |-> i - 1]]

One    == Index(<<7, 8>>, 7, 8)
Two    == Index(<<3, 4, 4, 3>>, 3, 4)
Three  == Index(<<1, 2, 3, 4, 5, 6>>, 1, 6)
Trio   == Index(<<6, 1, 2, 5, 4, 3>>, 1, 6)
OneToThree == {One, Two, Three, Trio}

\* Contents of other versions and damaged files: another magic, another number
\* of clusters, a scale that is close and one that is not, words after the index,
\* a count that is too high.
Others ==
  LET e == Encode(Three)
  IN  {[e EXCEPT ![1] = 5], [e EXCEPT ![3] = 2], [e EXCEPT ![5] = 16],
       [e EXCEPT ![6] = 11], [e EXCEPT ![6] = 100], Encode(One) \o <<9, 9>>, [Encode(One) EXCEPT ![2] = 2]}
=============================================================================
