------------------------------- MODULE Layout -------------------------------
(***************************************************************************)
(* The index that a list of records and an assignment of each record to a  *)
(* cluster determine: the clusters in order, within a cluster the records  *)
(* in their original order, each cluster with its tight bounding box.  An  *)
(* empty cluster gets the box that holds the origin alone.                 *)
(*                                                                         *)
(* This is the result promised by cmd/preprocess, said without its loops:  *)
(* Preprocess is checked against it, and the search is given its indexes.  *)
(* The functions vecs, labels and assign have the domain 0..n-1.           *)
(***************************************************************************)
EXTENDS IvfIndex

Before(assign, n, i) ==
  {e \in 0..(n - 1) : assign[e] < assign[i] \/ (assign[e] = assign[i] /\ e < i)}

RecordAt(assign, n, p) ==
  CHOOSE i \in 0..(n - 1) : Cardinality(Before(assign, n, i)) = p

Group(assign, n, c) == {i \in 0..(n - 1) : assign[i] = c}

Least(S)    == CHOOSE x \in S : \A y \in S : x <= y
Greatest(S) == CHOOSE x \in S : \A y \in S : y <= x

LayoutOf(n, vecs, labels, assign) ==
  LET from == [p \in 0..(n - 1) |-> RecordAt(assign, n, p)]
      coords(c, j) == IF Group(assign, n, c) = {} THEN {0}
                      ELSE {vecs[i][j] : i \in Group(assign, n, c)}
  IN  [n       |-> n,
       offsets |-> [c \in 0..K |-> Cardinality({i \in 0..(n - 1) : assign[i] < c})],
       vec     |-> [p \in 0..(n - 1) |-> vecs[from[p]]],
       label   |-> [p \in 0..(n - 1) |-> labels[from[p]]],
       id      |-> from,
       mn      |-> [c \in Clusters |-> [j \in Dims |-> Least(coords(c, j))]],
       mx      |-> [c \in Clusters |-> [j \in Dims |-> Greatest(coords(c, j))]]]
=============================================================================
