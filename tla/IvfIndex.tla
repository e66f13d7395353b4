------------------------------ MODULE IvfIndex ------------------------------
(***************************************************************************)
(* The in-memory IVF6 index (ivf.Index): N records sorted by cluster.      *)
(*                                                                         *)
(*   n          number of records                                          *)
(*   offsets    cluster c holds the records offsets[c] .. offsets[c+1]-1   *)
(*   vec        quantised vector of each record                            *)
(*   label      1 for fraud, 0 for legit                                   *)
(*   id         position of the record in references.json.gz               *)
(*   mn, mx     bounding box of each cluster                               *)
(*                                                                         *)
(* Centroids are not kept here: the search uses them for one thing only,   *)
(* the order in which clusters are probed, and IvfSearch takes that order  *)
(* as an arbitrary input.                                                  *)
(***************************************************************************)
EXTENDS TopFive

CONSTANT K   \* number of clusters, 256 in the code

ASSUME ClusterAssumption == K \in Nat \ {0}

Clusters == 0..(K - 1)

Positions(ix) == 0..(ix.n - 1)

Members(ix, c) == ix.offsets[c] .. (ix.offsets[c + 1] - 1)

NonEmpty(ix, c) == ix.offsets[c] < ix.offsets[c + 1]

InBox(v, mn, mx) == \A j \in Dims : mn[j] <= v[j] /\ v[j] <= mx[j]

\* Everything the search relies on and Load does not check: Preprocess shows
\* that the files written by cmd/preprocess are of this form.
IndexShape(ix) ==
  /\ ix.n \in 0..MaxId
  /\ ix.offsets \in [0..K -> 0..ix.n]
  /\ ix.vec \in [Positions(ix) -> Points]
  /\ ix.label \in [Positions(ix) -> {0, 1}]
  /\ ix.id \in [Positions(ix) -> 0..(MaxId - 1)]
  /\ ix.mn \in [Clusters -> Points]
  /\ ix.mx \in [Clusters -> Points]

Partitioned(ix) ==
  /\ ix.offsets[0] = 0
  /\ ix.offsets[K] = ix.n
  /\ \A c, e \in 0..K : c <= e => ix.offsets[c] <= ix.offsets[e]

DistinctIds(ix) ==
  \A p, r \in Positions(ix) : ix.id[p] = ix.id[r] => p = r

BoxesCover(ix) ==
  \A c \in Clusters : \A p \in Members(ix, c) :
    InBox(ix.vec[p], ix.mn[c], ix.mx[c])

WellFormed(ix) ==
  IndexShape(ix) /\ Partitioned(ix) /\ DistinctIds(ix) /\ BoxesCover(ix)

\* The record at position p as a candidate for query q.
Cand(ix, q, p) ==
  [d |-> Dist(q, ix.vec[p]), id |-> ix.id[p], l |-> ix.label[p]]

(***************************************************************************)
(* The reference answer of bruteForceFrauds: the fraud labels among the    *)
(* five records that no five others beat.                                  *)
(***************************************************************************)
Beaters(ix, q, p) ==
  {r \in Positions(ix) : Better(Cand(ix, q, r), Cand(ix, q, p))}

Nearest(ix, q) == {p \in Positions(ix) : Cardinality(Beaters(ix, q, p)) < 5}

BruteForceFrauds(ix, q) ==
  Cardinality({p \in Nearest(ix, q) : ix.label[p] = 1})
=============================================================================
