----------------------------- MODULE Preprocess -----------------------------
(***************************************************************************)
(* cmd/preprocess: the counting sort that turns the reference records into *)
(* the cluster-sorted arrays of the IVF6 file.                             *)
(*                                                                         *)
(*   train    k-means picks its sample and the first centroids             *)
(*   assign   each record gets a cluster and is counted there              *)
(*   offsets  prefix sums of the counts                                    *)
(*   place    each record is quantised, copied to the next free position   *)
(*            of its cluster, and the box of the cluster grows around it   *)
(*   built    the boxes of empty clusters are reset                        *)
(*                                                                         *)
(* The iterations of k-means are not modelled: the cluster of a record is  *)
(* any cluster, as nothing the search promises may depend on the choice.   *)
(* Reading the JSON is left out; IndexFile models writing the file.        *)
(***************************************************************************)
EXTENDS Layout, Quantization

CONSTANTS
  Int16Max,   \* 32767
  SampleN,    \* records k-means looks at
  Files       \* the reference files read: n records, float vectors, labels

ASSUME FilesAssumption ==
  /\ Int16Max \in Nat /\ FixScale <= Int16Max
  /\ SampleN \in Nat
  /\ \A f \in Files :
       /\ f.n \in 0..MaxId
       /\ f.raw \in [0..(f.n - 1) -> [Dims -> Int]]
       /\ f.label \in [0..(f.n - 1) -> {0, 1}]

VARIABLES
  file,                 \* the input
  seeds,                \* records that are the first centroids of k-means
  phase,
  i,                    \* next record of the loop over the records
  c,                    \* next cluster of the loop over the clusters
  assign, counts,       \* cluster of each record, records of each cluster
  offsets, writePos,    \* start of each cluster, next free position in it
  vec, label, id,       \* the output arrays
  mn, mx                \* the boxes

loop   == <<phase, i, c>>
sizes  == <<assign, counts>>
output == <<vec, label, id, mn, mx>>
vars   == <<file, seeds, loop, sizes, offsets, writePos, output>>

Records == 0..(file.n - 1)

Init ==
  /\ file \in Files
  /\ seeds = <<>> /\ phase = "train" /\ i = 0 /\ c = 0
  /\ assign = [r \in Records |-> 0] /\ counts = [e \in Clusters |-> 0]
  /\ offsets = [e \in 0..K |-> 0] /\ writePos = [e \in Clusters |-> 0]
  /\ vec = [p \in Records |-> [j \in Dims |-> 0]]
  /\ label = [p \in Records |-> 0] /\ id = [p \in Records |-> 0]
  /\ mn = [e \in Clusters |-> [j \in Dims |-> 0]]
  /\ mx = [e \in Clusters |-> [j \in Dims |-> 0]]

\* An empty reference file is an error: no index is written.
NoRecords ==
  /\ phase = "train" /\ file.n = 0
  /\ phase' = "failed"
  /\ UNCHANGED <<file, seeds, i, c, sizes, offsets, writePos, output>>

\* A mutant: a sample may be smaller than the number of clusters.
SampleSizeUnraised == IF SampleN > file.n THEN file.n ELSE SampleN

\* The size of the sample, its members, and the member that seeds cluster e.
\* With fewer records than clusters some record is taken twice.
SampleSize ==
  LET s == IF SampleN > file.n THEN file.n ELSE SampleN IN IF s < K THEN K ELSE s
Sample(s) == (s * file.n) \div SampleSize

Seed(e) == LET s == (e * SampleSize) \div K
           IN  Sample(IF s >= SampleSize THEN SampleSize - 1 ELSE s)

Train ==
  /\ phase = "train" /\ file.n > 0
  /\ seeds' = [e \in Clusters |-> Seed(e)]
  /\ phase' = "assign"
  /\ UNCHANGED <<file, i, c, sizes, offsets, writePos, output>>

AssignRecord ==
  /\ phase = "assign" /\ i < file.n
  /\ \E e \in Clusters : /\ assign' = [assign EXCEPT ![i] = e]
                         /\ counts' = [counts EXCEPT ![e] = @ + 1]
  /\ i' = i + 1
  /\ UNCHANGED <<file, seeds, phase, c, offsets, writePos, output>>

BeginOffsets ==
  /\ phase = "assign" /\ file.n > 0 /\ i = file.n
  /\ phase' = "offsets"
  /\ UNCHANGED <<file, seeds, i, c, sizes, offsets, writePos, output>>

\* A mutant: the sizes are not summed up.
AddOffsetAlone ==
  /\ phase = "offsets" /\ c < K
  /\ offsets' = [offsets EXCEPT ![c + 1] = counts[c]]
  /\ c' = c + 1
  /\ UNCHANGED <<file, seeds, phase, i, sizes, writePos, output>>

AddOffset ==
  /\ phase = "offsets" /\ c < K
  /\ offsets' = [offsets EXCEPT ![c + 1] = offsets[c] + counts[c]]
  /\ c' = c + 1
  /\ UNCHANGED <<file, seeds, phase, i, sizes, writePos, output>>

\* A mutant: the boxes keep their zeros.
BeginPlacingFromOrigin ==
  /\ phase = "offsets" /\ c = K
  /\ phase' = "place" /\ i' = 0
  /\ writePos' = [e \in Clusters |-> offsets[e]]
  /\ UNCHANGED <<file, seeds, c, sizes, offsets, output>>

\* A box starts inside out, so that the first record of the cluster sets it.
BeginPlacing ==
  /\ phase = "offsets" /\ c = K
  /\ phase' = "place" /\ i' = 0
  /\ writePos' = [e \in Clusters |-> offsets[e]]
  /\ mn' = [e \in Clusters |-> [j \in Dims |-> Int16Max]]
  /\ mx' = [e \in Clusters |-> [j \in Dims |-> -Int16Max - 1]]
  /\ UNCHANGED <<file, seeds, c, sizes, offsets, vec, label, id>>

Smaller(a, b) == IF a < b THEN a ELSE b
Larger(a, b)  == IF a > b THEN a ELSE b

\* A mutant: a coordinate that lowers the minimum is not tried as a maximum.
PlaceRecordElse ==
  /\ phase = "place" /\ i < file.n
  /\ LET e == assign[i]
         p == writePos[e]
         v == [j \in Dims |-> Quantize(file.raw[i][j])]
     IN  /\ writePos' = [writePos EXCEPT ![e] = @ + 1]
         /\ vec' = [vec EXCEPT ![p] = v]
         /\ mn' = [mn EXCEPT ![e] = [j \in Dims |-> Smaller(v[j], @[j])]]
         /\ mx' = [mx EXCEPT ![e] = [j \in Dims |->
                     IF v[j] < mn[e][j] THEN @[j] ELSE Larger(v[j], @[j])]]
         /\ label' = [label EXCEPT ![p] = file.label[i]]
         /\ id' = [id EXCEPT ![p] = i]
  /\ i' = i + 1
  /\ UNCHANGED <<file, seeds, phase, c, sizes, offsets>>

PlaceRecord ==
  /\ phase = "place" /\ i < file.n
  /\ LET e == assign[i]
         p == writePos[e]
         v == [j \in Dims |-> Quantize(file.raw[i][j])]
     IN  /\ writePos' = [writePos EXCEPT ![e] = @ + 1]
         /\ vec' = [vec EXCEPT ![p] = v]
         /\ mn' = [mn EXCEPT ![e] = [j \in Dims |-> Smaller(v[j], @[j])]]
         /\ mx' = [mx EXCEPT ![e] = [j \in Dims |-> Larger(v[j], @[j])]]
         /\ label' = [label EXCEPT ![p] = file.label[i]]
         /\ id' = [id EXCEPT ![p] = i]
  /\ i' = i + 1
  /\ UNCHANGED <<file, seeds, phase, c, sizes, offsets>>

ResetEmptyBoxes ==
  /\ phase = "place" /\ i = file.n
  /\ phase' = "built"
  /\ mn' = [e \in Clusters |-> [j \in Dims |-> IF counts[e] = 0 THEN 0 ELSE mn[e][j]]]
  /\ mx' = [e \in Clusters |-> [j \in Dims |-> IF counts[e] = 0 THEN 0 ELSE mx[e][j]]]
  /\ UNCHANGED <<file, seeds, i, c, sizes, offsets, writePos, vec, label, id>>

Next ==
  \/ NoRecords \/ Train \/ AssignRecord \/ BeginOffsets \/ AddOffset
  \/ BeginPlacing \/ PlaceRecord \/ ResetEmptyBoxes

Spec == Init /\ [][Next]_vars

-----------------------------------------------------------------------------
(* Properties. *)

\* Every variable stays in its domain; positions, offsets and counts fit the
\* arrays they are used on.
TypeOK ==
  /\ file \in Files
  /\ phase \in {"train", "assign", "offsets", "place", "built", "failed"}
  /\ phase \in {"train", "failed"} \/ seeds \in [Clusters -> Records]
  /\ i \in 0..file.n /\ c \in 0..K
  /\ assign \in [Records -> Clusters]
  /\ counts \in [Clusters -> 0..file.n]
  /\ offsets \in [0..K -> 0..file.n]
  /\ writePos \in [Clusters -> 0..file.n]
  /\ vec \in [Records -> Points]
  /\ label \in [Records -> {0, 1}]
  /\ id \in [Records -> Nat]
  /\ mn \in [Clusters -> [Dims -> (-FixScale)..Int16Max]]
  /\ mx \in [Clusters -> [Dims -> (-Int16Max - 1)..FixScale]]

\* The first centroids are spread over the records: in their order, none taken
\* twice unless there are fewer records than clusters, and then every record
\* is one.
SeedsAreSpread ==
  phase \notin {"train", "failed"} =>
    /\ \A d, e \in Clusters : d < e => IF file.n >= K THEN seeds[d] < seeds[e]
                                      ELSE seeds[d] <= seeds[e]
    /\ file.n < K => \A r \in Records : \E e \in Clusters : seeds[e] = r

\* A cluster never spills into the next one: while the records are placed, the
\* next free position of a cluster is its start plus the records it has got,
\* and it meets the start of the next cluster only when all of them have been
\* placed.
ClustersDoNotSpill ==
  phase \in {"place", "built"} =>
    \A e \in Clusters :
      /\ writePos[e] = offsets[e] + Cardinality({r \in 0..(i - 1) : assign[r] = e})
      /\ offsets[e + 1] = offsets[e] + Cardinality({r \in Records : assign[r] = e})

\* The index in the output arrays.
Built == [n |-> file.n, offsets |-> offsets, vec |-> vec, label |-> label,
          id |-> id, mn |-> mn, mx |-> mx]

\* The file is fit for the search: its clusters partition the positions, every
\* original id occurs once and every record lies in the box of its cluster,
\* whatever the assignment.  Load checks none of this, the search needs it all.
BuiltIsWellFormed == phase = "built" => WellFormed(Built)

\* The loops compute the layout: clusters in order, records in their original
\* order within a cluster, each position with the vector, label and id of one
\* and the same record, every box as tight as can be.
BuiltIsTheLayout ==
  phase = "built" =>
    Built = LayoutOf(file.n,
                     [r \in Records |-> [j \in Dims |-> Quantize(file.raw[r][j])]],
                     file.label, assign)
=============================================================================
