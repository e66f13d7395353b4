-------------------------- MODULE PreprocessProofs --------------------------
(***************************************************************************)
(* Preprocess for any number of records, clusters and samples.             *)
(*                                                                         *)
(* Two arguments: the integer divisions of kmeans.Train spread the seeds,  *)
(* and the counting sort puts each record on a position of its own inside  *)
(* its cluster, so that what it writes is fit for the search.              *)
(***************************************************************************)
EXTENDS Preprocess, FiniteSetTheorems, TLAPS

-----------------------------------------------------------------------------
(* Integer division. *)

LEMMA Division ==
  ASSUME NEW a \in Nat, NEW m \in Nat \ {0}
  PROVE  /\ a \div m \in Nat /\ m * (a \div m) <= a /\ a < m * (a \div m) + m
BY SMT

LEMMA DivisionBelow ==
  ASSUME NEW a \in Nat, NEW m \in Nat \ {0}, NEW n \in Nat, a < m * n
  PROVE  a \div m < n
<1> DEFINE q == a \div m
<1>1. q \in Nat /\ m * q <= a
  BY Division
<1> HIDE DEF q
<1> SUFFICES ASSUME q >= n PROVE FALSE
  BY <1>1 DEF q
<1>2. m * q >= m * n
  BY <1>1, SMT
<1> QED
  BY <1>1, <1>2

LEMMA DivisionMonotone ==
  ASSUME NEW a \in Nat, NEW b \in Nat, a <= b, NEW m \in Nat \ {0}
  PROVE  a \div m <= b \div m
<1> DEFINE q == a \div m
           r == b \div m
<1>1. q \in Nat /\ r \in Nat /\ m * q <= a /\ b < m * r + m
  BY Division
<1> HIDE DEF q, r
<1> SUFFICES ASSUME q >= r + 1 PROVE FALSE
  BY <1>1 DEF q, r
<1>2. m * q >= m * (r + 1)
  BY <1>1, SMT
<1>3. m * (r + 1) = m * r + m
  BY <1>1, SMT
<1>4. m * q \in Nat /\ m * r \in Nat
  BY <1>1, SMT
<1> QED
  BY <1>1, <1>2, <1>3, <1>4

LEMMA DivisionStep ==
  ASSUME NEW a \in Nat, NEW b \in Nat, NEW m \in Nat \ {0}, a + m <= b
  PROVE  a \div m < b \div m
<1> DEFINE q == a \div m
           r == b \div m
<1>1. q \in Nat /\ r \in Nat /\ m * q <= a /\ b < m * r + m
  BY Division
<1> HIDE DEF q, r
<1> SUFFICES ASSUME q >= r PROVE FALSE
  BY <1>1 DEF q, r
<1>2. m * q >= m * r
  BY <1>1, SMT
<1>3. m * q \in Nat /\ m * r \in Nat
  BY <1>1, SMT
<1> QED
  BY <1>1, <1>2, <1>3

-----------------------------------------------------------------------------
(* Seeds. *)

LEMMA SampleSizeFacts ==
  ASSUME file.n \in Nat \ {0}
  PROVE  /\ SampleSize \in Nat \ {0} /\ SampleSize >= K /\ K \in Nat \ {0}
         /\ file.n >= K => SampleSize <= file.n
         /\ file.n < K => SampleSize = K
BY FilesAssumption, ClusterAssumption DEF SampleSize

\* The member of the sample that is taken, before the sample is looked up.
Slot(e) == (e * SampleSize) \div K

LEMMA SlotFacts ==
  ASSUME file.n \in Nat \ {0}, NEW e \in Clusters
  PROVE  Slot(e) \in 0..(SampleSize - 1) /\ Seed(e) = (Slot(e) * file.n) \div SampleSize
<1> DEFINE S == SampleSize
<1>1. S \in Nat \ {0} /\ K \in Nat \ {0} /\ e \in Nat /\ e < K
  BY SampleSizeFacts DEF Clusters
<1> HIDE DEF S
<1>2. e * S \in Nat /\ e * S < K * S
  BY <1>1, SMT
<1>3. (e * S) \div K < S /\ (e * S) \div K \in Nat
  BY <1>1, <1>2, DivisionBelow, Division
<1> QED
  BY <1>1, <1>3 DEF S, Slot, Seed, Sample

LEMMA SeedIsRecord ==
  ASSUME file.n \in Nat \ {0}, NEW e \in Clusters
  PROVE  Seed(e) \in Records
<1> DEFINE S == SampleSize
           s == Slot(e)
           n == file.n
<1>1. S \in Nat \ {0} /\ s \in Nat /\ s < S /\ n \in Nat \ {0} /\ Seed(e) = (s * n) \div S
  BY SampleSizeFacts, SlotFacts
<1> HIDE DEF S, s, n
<1>2. s * n \in Nat /\ s * n < S * n
  BY <1>1, SMT
<1>3. (s * n) \div S < n /\ (s * n) \div S \in Nat
  BY <1>1, <1>2, DivisionBelow, Division
<1> QED
  BY <1>1, <1>3 DEF Records, n

LEMMA SeedsKeepOrder ==
  ASSUME file.n \in Nat \ {0}, NEW d \in Clusters, NEW e \in Clusters, d < e
  PROVE  IF file.n >= K THEN Seed(d) < Seed(e) ELSE Seed(d) <= Seed(e)
<1> DEFINE S == SampleSize
           s == Slot(d)
           t == Slot(e)
           n == file.n
<1>1. /\ S \in Nat \ {0} /\ s \in Nat /\ t \in Nat /\ n \in Nat \ {0} /\ S >= K /\ K \in Nat \ {0}
      /\ d \in Nat /\ e \in Nat
      /\ Seed(d) = (s * n) \div S /\ Seed(e) = (t * n) \div S
      /\ n >= K => S <= n
  BY SampleSizeFacts, SlotFacts DEF Clusters
<1>2. s = (d * S) \div K /\ t = (e * S) \div K
  BY DEF Slot
<1> HIDE DEF S, s, t, n
<1>3. d * S \in Nat /\ e * S \in Nat /\ d * S + S <= e * S
  <2>1. (d + 1) * S <= e * S /\ (d + 1) * S = d * S + S
    BY <1>1, SMT
  <2> QED
    BY <1>1, <2>1, SMT
<1>4. s < t
  <2>1. d * S + K <= e * S
    BY <1>1, <1>3
  <2>2. (d * S) \div K < (e * S) \div K
    BY <1>1, <1>3, <2>1, DivisionStep
  <2> QED
    BY <1>2, <2>2
<1>5. s * n \in Nat /\ t * n \in Nat /\ s * n + n <= t * n
  <2>1. (s + 1) * n <= t * n /\ (s + 1) * n = s * n + n
    BY <1>1, <1>4, SMT
  <2> QED
    BY <1>1, <2>1, SMT
<1>6. CASE n >= K
  <2>1. s * n + S <= t * n
    BY <1>1, <1>5, <1>6
  <2>2. (s * n) \div S < (t * n) \div S
    BY <1>1, <1>5, <2>1, DivisionStep
  <2> QED
    BY <1>1, <1>6, <2>2 DEF n
<1>7. CASE ~(n >= K)
  <2>1. (s * n) \div S <= (t * n) \div S
    BY <1>1, <1>5, DivisionMonotone
  <2> QED
    BY <1>1, <1>7, <2>1 DEF n
<1> QED
  BY <1>6, <1>7

\* With fewer records than clusters record r seeds cluster ceiling(r * K / n).
LEMMA FewRecordsAllSeed ==
  ASSUME file.n \in Nat \ {0}, file.n < K, NEW r \in Records
  PROVE  \E e \in Clusters : Seed(e) = r
<1> DEFINE n == file.n
           x == r * K + (n - 1)
           e == x \div n
<1>1. n \in Nat \ {0} /\ K \in Nat \ {0} /\ n < K /\ r \in Nat /\ r <= n - 1 /\ SampleSize = K
  BY SampleSizeFacts DEF Records
<1> HIDE DEF n
<1>2. r * K \in Nat /\ r * K + K <= n * K
  <2>1. (r + 1) * K <= n * K /\ (r + 1) * K = r * K + K
    BY <1>1, SMT
  <2> QED
    BY <1>1, <2>1, SMT
<1>3. x \in Nat /\ x < n * K
  BY <1>1, <1>2
<1>4. e \in Nat /\ e < K /\ n * e <= x /\ x < n * e + n
  BY <1>1, <1>3, Division, DivisionBelow
<1>5. e * n \in Nat /\ e * n = n * e /\ r * K <= e * n /\ e * n < r * K + K
  <2>1. e * n \in Nat /\ e * n = n * e
    BY <1>1, <1>4, SMT
  <2> HIDE DEF e
  <2> QED
    BY <1>1, <1>2, <1>4, <2>1
<1> HIDE DEF e, x
<1>6. (e * n) \div K = r
  <2>1. e * n < K * (r + 1) /\ r * K = K * r
    BY <1>1, <1>2, <1>5, SMT
  <2>2. (e * n) \div K < r + 1
    <3>1. r + 1 \in Nat
      BY <1>1
    <3> QED
      BY <1>1, <1>5, <2>1, <3>1, DivisionBelow
  <2> DEFINE q == (e * n) \div K
  <2>3. q \in Nat /\ e * n < K * q + K
    BY <1>1, <1>5, Division
  <2> HIDE DEF q
  <2>4. r <= q
    <3> SUFFICES ASSUME r >= q + 1 PROVE FALSE
      BY <1>1, <2>3
    <3>1. K * r >= K * (q + 1) /\ K * (q + 1) = K * q + K
      BY <1>1, <2>3, SMT
    <3> QED
      BY <1>1, <1>2, <1>5, <2>1, <2>3, <3>1, SMT
  <2> QED
    BY <1>1, <2>2, <2>3, <2>4 DEF q
<1>7. e \in Clusters /\ Slot(e) = e
  <2>1. (e * K) \div K = e
    BY <1>1, <1>4, SMT
  <2> QED
    BY <1>1, <1>4, <2>1 DEF Clusters, Slot
<1> QED
  BY <1>1, <1>6, <1>7, SlotFacts DEF n

-----------------------------------------------------------------------------
(* Quantisation. *)

LEMMA QuantizeOnGrid ==
  ASSUME NEW x \in Int
  PROVE  Quantize(x) \in Coord
<1>1. Fine \in Nat \ {0} /\ FixScale \in Nat \ {0}
  BY FineAssumption, ScaleAssumption
<1>2. One \in Nat /\ One = Fine * FixScale
  BY <1>1, SMT DEF One
<1>3. ASSUME NEW a \in 0..One
      PROVE  HalfUp(a) \in 0..FixScale
  <2>1. 2 * a + Fine \in Nat /\ 2 * Fine \in Nat \ {0} /\ FixScale + 1 \in Nat
    BY <1>1, <1>2
  <2>2. (2 * Fine) * (FixScale + 1) = 2 * (Fine * FixScale) + 2 * Fine
    BY <1>1, SMT
  <2>3. 2 * a + Fine < (2 * Fine) * (FixScale + 1)
    BY <1>1, <1>2, <2>2
  <2>4. (2 * a + Fine) \div (2 * Fine) < FixScale + 1 /\ (2 * a + Fine) \div (2 * Fine) \in Nat
    BY <2>1, <2>3, DivisionBelow, Division
  <2> QED
    BY <1>1, <2>4 DEF HalfUp
<1>4. Clamp(x) \in Int /\ -One <= Clamp(x) /\ Clamp(x) <= One
  BY <1>2 DEF Clamp
<1>5. CASE Clamp(x) >= 0
  <2>1. HalfUp(Clamp(x)) \in 0..FixScale
    BY <1>2, <1>3, <1>4, <1>5
  <2> QED
    BY <1>1, <1>5, <2>1 DEF Quantize, Coord
<1>6. CASE ~(Clamp(x) >= 0)
  <2>1. HalfUp(-Clamp(x)) \in 0..FixScale
    BY <1>2, <1>3, <1>4, <1>6
  <2> QED
    BY <1>1, <1>6, <2>1 DEF Quantize, Coord
<1> QED
  BY <1>5, <1>6

-----------------------------------------------------------------------------
(* The invariant. *)

Early == {"train", "assign", "failed"}
Late  == {"place", "built"}

\* The records seen in the current loop, and all records, of a cluster; the
\* records of the clusters before it; the positions it has filled.
Got(e)    == {r \in 0..(i - 1) : assign[r] = e}
All(e)    == {r \in Records : assign[r] = e}
Below(e)  == {r \in Records : assign[r] < e}
Filled(e) == offsets[e]..(writePos[e] - 1)

\* A record on the grid.
Grid(r) == [j \in Dims |-> Quantize(file.raw[r][j])]

Types ==
  /\ file \in Files
  /\ phase \in Early \cup Late \cup {"offsets"}
  /\ phase \notin {"train", "failed"} => file.n > 0 /\ seeds = [e \in Clusters |-> Seed(e)]
  /\ i \in 0..file.n /\ c \in 0..K
  /\ phase \in {"train", "failed"} => i = 0
  /\ phase \in {"offsets", "built"} => i = file.n
  /\ phase \in Early => c = 0
  /\ phase \in Late => c = K
  /\ assign \in [Records -> Clusters]
  /\ counts \in [Clusters -> Nat] /\ offsets \in [0..K -> Nat] /\ writePos \in [Clusters -> Nat]

OutputTypes ==
  /\ vec \in [Records -> Points]
  /\ label \in [Records -> {0, 1}]
  /\ id \in [Records -> Nat]
  /\ mn \in [Clusters -> [Dims -> (-FixScale)..Int16Max]]
  /\ mx \in [Clusters -> [Dims -> (-Int16Max - 1)..FixScale]]

Counting ==
  \A e \in Clusters : counts[e] = IF phase \in Early THEN Cardinality(Got(e)) ELSE Cardinality(All(e))

Offsets ==
  \A e \in 0..K : offsets[e] = IF e <= c THEN Cardinality(Below(e)) ELSE 0

Writes ==
  \A e \in Clusters :
    writePos[e] = IF phase \in Late THEN offsets[e] + Cardinality(Got(e)) ELSE 0

\* A filled position holds a record of its cluster, no record is placed twice
\* and none that the loop has passed is missing.
Placed ==
  phase \in Late =>
    /\ \A e \in Clusters : \A p \in Filled(e) :
         id[p] \in 0..(i - 1) /\ assign[id[p]] = e /\ InBox(vec[p], mn[e], mx[e])
    /\ \A d, e \in Clusters : \A p \in Filled(d), q \in Filled(e) : id[p] = id[q] => p = q
    /\ \A r \in 0..(i - 1) : \E p \in Filled(assign[r]) : id[p] = r

\* A box of the finished index is on the grid.
BoxesOnGrid == phase = "built" => mn \in [Clusters -> Points] /\ mx \in [Clusters -> Points]

IInv == /\ Types /\ OutputTypes /\ Counting /\ Offsets /\ Writes /\ Placed /\ BoxesOnGrid

-----------------------------------------------------------------------------
(* Counting records. *)

LEMMA FileFacts ==
  ASSUME Types
  PROVE  /\ file.n \in Nat /\ file.n <= MaxId /\ MaxId \in Nat /\ K \in Nat \ {0}
         /\ file.raw \in [Records -> [Dims -> Int]] /\ file.label \in [Records -> {0, 1}]
         /\ i \in 0..file.n /\ c \in 0..K
         /\ assign \in [Records -> Clusters]
BY FilesAssumption, ClusterAssumption, IdAssumption DEF Types, Records

LEMMA RecordsFinite ==
  ASSUME Types
  PROVE  /\ IsFiniteSet(Records) /\ Cardinality(Records) = file.n
         /\ \A S \in SUBSET Records : /\ IsFiniteSet(S) /\ Cardinality(S) \in Nat
                                      /\ Cardinality(S) <= file.n
<1>1. file.n \in Nat
  BY FileFacts
<1>2. IsFiniteSet(Records) /\ Cardinality(Records) = file.n
  <2> DEFINE last == file.n - 1
  <2>1. last \in Int /\ last >= -1 /\ file.n = last + 1
    BY <1>1
  <2> HIDE DEF last
  <2>2. IsFiniteSet(0..last) /\ Cardinality(0..last) = IF 0 > last THEN 0 ELSE last - 0 + 1
    BY <2>1, FS_Interval
  <2>3. Records = 0..last
    BY DEF Records, last
  <2> QED
    BY <2>1, <2>2, <2>3
<1> QED
  BY <1>2, FS_Subset, FS_CardinalityType

LEMMA Subsets ==
  ASSUME Types
  PROVE  \A e : Got(e) \subseteq All(e) /\ All(e) \subseteq Records /\ Below(e) \subseteq Records
                /\ Got(e) \subseteq Records
BY FileFacts DEF Got, All, Below, Records

LEMMA BelowStep ==
  ASSUME Types, NEW e \in Clusters
  PROVE  Cardinality(Below(e + 1)) = Cardinality(Below(e)) + Cardinality(All(e))
<1>1. \A r \in Records : assign[r] \in Int
  BY FileFacts DEF Clusters
<1>2. e \in Int
  BY FileFacts DEF Clusters
<1>3. Below(e + 1) = Below(e) \cup All(e) /\ Below(e) \cap All(e) = {}
  BY <1>1, <1>2 DEF Below, All
<1>4. IsFiniteSet(Below(e)) /\ IsFiniteSet(All(e)) /\ Cardinality(Below(e)) \in Nat
      /\ Cardinality(All(e)) \in Nat
  BY RecordsFinite, Subsets
<1>5. Cardinality(Below(e) \cup All(e))
        = Cardinality(Below(e)) + Cardinality(All(e)) - Cardinality(Below(e) \cap All(e))
  BY <1>4, FS_Union
<1>6. Cardinality(Below(e) \cap All(e)) = 0
  BY <1>3, FS_EmptySet
<1>7. Cardinality(Below(e + 1)) = Cardinality(Below(e) \cup All(e))
  BY <1>3, Zenon
<1>8. Cardinality(Below(e) \cup All(e)) = Cardinality(Below(e)) + Cardinality(All(e))
  BY <1>4, <1>5, <1>6, SMT
<1> QED
  BY <1>7, <1>8, Zenon

LEMMA BelowEnds ==
  ASSUME Types
  PROVE  /\ Below(0) = {} /\ Cardinality(Below(0)) = 0
         /\ Below(K) = Records /\ Cardinality(Below(K)) = file.n
         /\ \A d, e \in 0..K : d <= e => Cardinality(Below(d)) <= Cardinality(Below(e))
<1>1. \A r \in Records : assign[r] \in Int /\ 0 <= assign[r] /\ assign[r] < K
  BY FileFacts DEF Clusters
<1>2. Below(0) = {} /\ Below(K) = Records
  BY <1>1 DEF Below
<1>3. ASSUME NEW d \in 0..K, NEW e \in 0..K, d <= e
      PROVE  Cardinality(Below(d)) <= Cardinality(Below(e))
  <2>1. Below(d) \subseteq Below(e)
    BY <1>1, <1>3 DEF Below
  <2> QED
    BY <2>1, RecordsFinite, Subsets, FS_Subset
<1> QED
  BY <1>2, <1>3, RecordsFinite, FS_EmptySet

\* What the offsets are once they have been summed up.
LEMMA OffsetFacts ==
  ASSUME Types, Offsets, c = K
  PROVE  /\ \A e \in Clusters : offsets[e + 1] = offsets[e] + Cardinality(All(e))
         /\ \A d, e \in 0..K : d <= e => offsets[d] <= offsets[e]
         /\ offsets[0] = 0 /\ offsets[K] = file.n
         /\ \A e \in 0..K : offsets[e] \in 0..file.n
<1>1. \A e \in 0..K : offsets[e] = Cardinality(Below(e))
  BY FileFacts DEF Offsets
<1>2. \A e \in Clusters : e \in 0..K /\ e + 1 \in 0..K
  BY FileFacts DEF Clusters
<1>3. \A e \in Clusters : offsets[e + 1] = offsets[e] + Cardinality(All(e))
  BY <1>1, <1>2, BelowStep
<1>4. \A e \in 0..K : Cardinality(Below(e)) \in Nat /\ Cardinality(Below(e)) <= file.n
  BY RecordsFinite, Subsets
<1>5. 0 \in 0..K /\ K \in 0..K
  BY FileFacts
<1> QED
  BY <1>1, <1>3, <1>4, <1>5, BelowEnds, FileFacts

\* While records are placed, each cluster fills an interval of its own.
LEMMA FilledFacts ==
  ASSUME Types, Offsets, Writes, phase \in Late
  PROVE  /\ \A e \in Clusters : /\ offsets[e] \in 0..file.n /\ offsets[e + 1] \in 0..file.n
                                /\ offsets[e] <= writePos[e] /\ writePos[e] <= offsets[e + 1]
                                /\ writePos[e] = offsets[e] + Cardinality(Got(e))
                                /\ offsets[e + 1] = offsets[e] + Cardinality(All(e))
                                /\ Filled(e) \subseteq Records
         /\ \A d, e \in Clusters :
              d # e => offsets[d + 1] <= offsets[e] \/ offsets[e + 1] <= offsets[d]
<1>0. c = K
  BY DEF Types
<1>1. \A e \in Clusters : e \in 0..K /\ e + 1 \in 0..K
  BY FileFacts DEF Clusters
<1>2. ASSUME NEW e \in Clusters
      PROVE  /\ offsets[e] \in 0..file.n /\ offsets[e + 1] \in 0..file.n
             /\ offsets[e] <= writePos[e] /\ writePos[e] <= offsets[e + 1]
             /\ writePos[e] = offsets[e] + Cardinality(Got(e))
             /\ offsets[e + 1] = offsets[e] + Cardinality(All(e))
             /\ Filled(e) \subseteq Records
  <2>1. Cardinality(Got(e)) \in Nat /\ Cardinality(All(e)) \in Nat
    BY RecordsFinite, Subsets
  <2>2. Cardinality(Got(e)) <= Cardinality(All(e))
    BY RecordsFinite, Subsets, FS_Subset
  <2>3. writePos[e] = offsets[e] + Cardinality(Got(e))
    BY DEF Writes
  <2>4. /\ offsets[e + 1] = offsets[e] + Cardinality(All(e))
        /\ offsets[e] \in 0..file.n /\ offsets[e + 1] \in 0..file.n
    BY <1>0, <1>1, OffsetFacts
  <2>5. offsets[e] <= writePos[e] /\ writePos[e] <= offsets[e + 1]
    BY <2>1, <2>2, <2>3, <2>4, FileFacts
  <2>6. Filled(e) \subseteq Records
    BY <2>1, <2>3, <2>4, <2>5, FileFacts, SMTT(30) DEF Filled, Records
  <2> QED
    BY <2>3, <2>4, <2>5, <2>6
<1>3. ASSUME NEW d \in Clusters, NEW e \in Clusters, d # e
      PROVE  offsets[d + 1] <= offsets[e] \/ offsets[e + 1] <= offsets[d]
  <2>1. d + 1 <= e \/ e + 1 <= d
    BY <1>3, FileFacts DEF Clusters
  <2> QED
    BY <1>0, <1>1, <2>1, OffsetFacts
<1> QED
  BY <1>2, <1>3

-----------------------------------------------------------------------------
(* The steps. *)

LEMMA InitInv == Init => IInv
<1> SUFFICES ASSUME Init PROVE IInv
  OBVIOUS
<1>0. file.n \in Nat /\ K \in Nat \ {0} /\ FixScale \in Nat \ {0} /\ Int16Max \in Nat
  BY FilesAssumption, ClusterAssumption, ScaleAssumption, IdAssumption DEF Init
<1>1. phase = "train" /\ phase \in Early /\ phase \notin Late
  BY DEF Init, Early, Late
<1>2. \A e : Got(e) = {}
  BY DEF Init, Got
<1>3. Types
  <2>1. 0 \in Clusters /\ file \in Files /\ i \in 0..file.n /\ c \in 0..K
    BY <1>0 DEF Clusters, Init
  <2>2. assign \in [Records -> Clusters]
    BY <2>1 DEF Init
  <2> QED
    BY <1>1, <2>1, <2>2 DEF Types, Init
<1>4. OutputTypes
  <2>1. 0 \in Coord /\ 0 \in (-FixScale)..Int16Max /\ 0 \in (-Int16Max - 1)..FixScale
    BY <1>0 DEF Coord
  <2> QED
    BY <2>1 DEF OutputTypes, Init, Points
<1>5. Counting /\ Writes
  BY <1>1, <1>2, FS_EmptySet DEF Counting, Writes, Init
<1>6. Offsets
  <2>1. Below(0) = {}
    BY <1>0 DEF Below, Init
  <2>2. Cardinality(Below(0)) = 0
    BY <2>1, FS_EmptySet
  <2>3. c = 0 /\ offsets = [e \in 0..K |-> 0]
    BY DEF Init
  <2>4. \A e \in 0..K : offsets[e] = IF e <= 0 THEN Cardinality(Below(e)) ELSE 0
    BY <1>0, <2>2, <2>3
  <2> QED
    BY <2>3, <2>4 DEF Offsets
<1> QED
  BY <1>1, <1>3, <1>4, <1>5, <1>6 DEF IInv, Placed, BoxesOnGrid

\* Nothing counted, summed or placed depends on these two steps.
LEMMA TrainInv ==
  ASSUME IInv, NoRecords \/ Train
  PROVE  IInv'
<1>0. Types /\ OutputTypes /\ Counting /\ Offsets /\ Writes
  BY DEF IInv
<1>1. /\ file' = file /\ i' = i /\ c' = c /\ assign' = assign /\ counts' = counts
      /\ offsets' = offsets /\ writePos' = writePos
      /\ vec' = vec /\ label' = label /\ id' = id /\ mn' = mn /\ mx' = mx
      /\ phase \in Early /\ phase' \in Early
      /\ \/ phase' = "failed"
         \/ file.n > 0 /\ phase' = "assign" /\ seeds' = [e \in Clusters |-> Seed(e)]
      /\ phase = "train"
  <2>1. CASE NoRecords
    BY <2>1 DEF NoRecords, sizes, output, Early
  <2>2. CASE Train
    BY <2>2 DEF Train, sizes, output, Early
  <2> QED
    BY <2>1, <2>2
<1>2. Records' = Records /\ \A e : Got(e)' = Got(e) /\ Below(e)' = Below(e) /\ All(e)' = All(e)
                               /\ Seed(e)' = Seed(e)
  BY <1>1 DEF Records, Got, Below, All, Seed, Sample, SampleSize
<1>3. Types'
  BY <1>0, <1>1, <1>2 DEF Types, Early, Late
<1>4. OutputTypes' /\ Counting' /\ Offsets' /\ Writes'
  BY <1>0, <1>1, <1>2 DEF OutputTypes, Counting, Offsets, Writes, Early, Late
<1> QED
  BY <1>1, <1>3, <1>4 DEF IInv, Placed, BoxesOnGrid, Early, Late

LEMMA AssignInv ==
  ASSUME IInv, AssignRecord
  PROVE  IInv'
<1>0. Types /\ OutputTypes /\ Counting /\ Offsets /\ Writes
  BY DEF IInv
<1>1. /\ file' = file /\ c' = c /\ seeds' = seeds /\ i' = i + 1 /\ i < file.n
      /\ offsets' = offsets /\ writePos' = writePos
      /\ vec' = vec /\ label' = label /\ id' = id /\ mn' = mn /\ mx' = mx
      /\ phase = "assign" /\ phase' = phase
  BY DEF AssignRecord, loop, sizes, output
<1>2. PICK e \in Clusters : /\ assign' = [assign EXCEPT ![i] = e]
                            /\ counts' = [counts EXCEPT ![e] = @ + 1]
  BY DEF AssignRecord
<1>3. i \in Nat /\ i \in Records /\ file.n \in Nat /\ Records' = Records /\ c = 0
  BY <1>0, <1>1, FileFacts DEF Records, Types, Early
<1>4. assign'[i] = e /\ \A r \in 0..(i - 1) : assign'[r] = assign[r]
  BY <1>0, <1>2, <1>3, FileFacts DEF Records
<1>5. Got(e)' = Got(e) \cup {i} /\ i \notin Got(e)
  BY <1>1, <1>3, <1>4 DEF Got
<1>6. \A d \in Clusters \ {e} : Got(d)' = Got(d)
  BY <1>1, <1>3, <1>4 DEF Got
<1>7. Types'
  <2>1. assign' \in [Records -> Clusters] /\ counts' \in [Clusters -> Nat]
    BY <1>0, <1>2, <1>3 DEF Types
  <2>2. file.n > 0 /\ seeds' = [d \in Clusters |-> Seed(d)']
    BY <1>0, <1>1 DEF Types, Seed, Sample, SampleSize
  <2>3. i' \in 0..file.n /\ phase' = "assign" /\ file' = file /\ file \in Files
        /\ c' = 0 /\ 0 \in 0..K /\ offsets' \in [0..K -> Nat] /\ writePos' \in [Clusters -> Nat]
    BY <1>0, <1>1, <1>3 DEF Types
  <2> QED
    BY <1>3, <2>1, <2>2, <2>3 DEF Types, Early, Late
<1>8. Counting'
  <2>1. \A d \in Clusters : counts[d] = Cardinality(Got(d))
    BY <1>0, <1>1 DEF Counting, Early
  <2>2. IsFiniteSet(Got(e))
    BY <1>0, RecordsFinite, Subsets
  <2>3. Cardinality(Got(e) \cup {i}) = Cardinality(Got(e)) + 1
    BY <1>5, <2>2, FS_AddElement
  <2>4. Cardinality(Got(e)') = Cardinality(Got(e)) + 1
    BY <1>5, <2>3, Zenon
  <2>5. counts'[e] = counts[e] + 1 /\ \A d \in Clusters \ {e} : counts'[d] = counts[d]
    BY <1>0, <1>2 DEF Types
  <2>6. \A d \in Clusters : counts'[d] = Cardinality(Got(d)')
    <3> TAKE d \in Clusters
    <3>1. CASE d = e
      BY <2>1, <2>4, <2>5, <3>1, Zenon
    <3>2. CASE d # e
      BY <1>6, <2>1, <2>5, <3>2
    <3> QED
      BY <3>1, <3>2
  <2> QED
    BY <1>1, <2>6 DEF Counting, Early
<1>9. Offsets'
  <2>0. \A r \in Records : assign'[r] \in Nat
    BY <1>3, <1>7, FileFacts, <1>0 DEF Types, Clusters
  <2>1. Below(0)' = {}
    <3>1. \A r \in Records : ~(assign'[r] < 0)
      BY <2>0
    <3> QED
      BY <1>3, <3>1, Zenon DEF Below
  <2>2. offsets[0] = 0 /\ \A d \in 0..K : d # 0 => offsets[d] = 0
    <3>1. offsets[0] = Cardinality(Below(0))
      BY <1>0, <1>3, FileFacts DEF Offsets
    <3> QED
      BY <1>0, <1>3, <3>1, BelowEnds, FileFacts DEF Offsets
  <2>3. Cardinality(Below(0)') = 0
    BY <2>1, FS_EmptySet
  <2> QED
    BY <1>0, <1>1, <1>3, <2>2, <2>3, FileFacts DEF Offsets
<1>10. OutputTypes' /\ Writes'
  BY <1>0, <1>1, <1>3 DEF OutputTypes, Writes, Late
<1> QED
  BY <1>1, <1>7, <1>8, <1>9, <1>10 DEF IInv, Placed, BoxesOnGrid, Late

LEMMA BeginOffsetsInv ==
  ASSUME IInv, BeginOffsets
  PROVE  IInv'
<1>0. Types /\ OutputTypes /\ Counting /\ Offsets /\ Writes
  BY DEF IInv
<1>1. /\ file' = file /\ c' = c /\ seeds' = seeds /\ i' = i /\ i = file.n /\ file.n > 0
      /\ assign' = assign /\ counts' = counts /\ offsets' = offsets /\ writePos' = writePos
      /\ vec' = vec /\ label' = label /\ id' = id /\ mn' = mn /\ mx' = mx
      /\ phase = "assign" /\ phase' = "offsets"
  BY DEF BeginOffsets, loop, sizes, output
<1>2. Records' = Records /\ \A e : /\ Below(e)' = Below(e) /\ All(e)' = All(e) /\ Got(e) = All(e)
                                   /\ Seed(e)' = Seed(e)
  BY <1>1 DEF Records, Got, Below, All, Seed, Sample, SampleSize
<1>3. Types'
  BY <1>0, <1>1, <1>2 DEF Types, Early, Late
<1>4. Counting'
  BY <1>0, <1>1, <1>2 DEF Counting, Early
<1>5. OutputTypes' /\ Offsets' /\ Writes'
  BY <1>0, <1>1, <1>2 DEF OutputTypes, Offsets, Writes, Early, Late
<1> QED
  BY <1>1, <1>3, <1>4, <1>5 DEF IInv, Placed, BoxesOnGrid, Late

LEMMA AddOffsetInv ==
  ASSUME IInv, AddOffset
  PROVE  IInv'
<1>0. Types /\ OutputTypes /\ Counting /\ Offsets /\ Writes
  BY DEF IInv
<1>1. /\ file' = file /\ c' = c + 1 /\ c < K /\ seeds' = seeds /\ i' = i
      /\ assign' = assign /\ counts' = counts /\ writePos' = writePos
      /\ offsets' = [offsets EXCEPT ![c + 1] = offsets[c] + counts[c]]
      /\ vec' = vec /\ label' = label /\ id' = id /\ mn' = mn /\ mx' = mx
      /\ phase = "offsets" /\ phase' = phase
  BY DEF AddOffset, loop, sizes, output
<1>2. Records' = Records /\ \A e : /\ Below(e)' = Below(e) /\ All(e)' = All(e) /\ Got(e)' = Got(e)
                                   /\ Seed(e)' = Seed(e)
  BY <1>1 DEF Records, Got, Below, All, Seed, Sample, SampleSize
<1>3. c \in Clusters /\ c \in 0..K /\ c + 1 \in 0..K /\ c \in Nat /\ K \in Nat
  BY <1>0, <1>1, FileFacts DEF Clusters
<1>4. Types'
  <2>1. offsets[c] + counts[c] \in Nat
    BY <1>0, <1>3 DEF Types
  <2>2. offsets' \in [0..K -> Nat]
    BY <1>0, <1>1, <1>3, <2>1 DEF Types
  <2> QED
    BY <1>0, <1>1, <1>2, <1>3, <2>2 DEF Types, Early, Late
<1>5. Offsets'
  <2>1. offsets[c] = Cardinality(Below(c)) /\ counts[c] = Cardinality(All(c))
    BY <1>0, <1>1, <1>3 DEF Offsets, Counting, Early
  <2>2. offsets'[c + 1] = Cardinality(Below(c + 1))
    BY <1>0, <1>1, <1>3, <2>1, BelowStep DEF Types
  <2>3. \A e \in 0..K : e # c + 1 => offsets'[e] = offsets[e]
    BY <1>0, <1>1 DEF Types
  <2>4. ASSUME NEW e \in 0..K
        PROVE  offsets'[e] = IF e <= c + 1 THEN Cardinality(Below(e)) ELSE 0
    <3>1. CASE e = c + 1
      BY <1>3, <2>2, <3>1
    <3>2. CASE e # c + 1
      BY <1>0, <1>3, <2>3, <3>2 DEF Offsets
    <3> QED
      BY <3>1, <3>2
  <2> QED
    BY <1>1, <1>2, <2>4 DEF Offsets
<1>6. OutputTypes' /\ Counting' /\ Writes'
  BY <1>0, <1>1, <1>2 DEF OutputTypes, Counting, Writes, Early, Late
<1> QED
  BY <1>1, <1>4, <1>5, <1>6 DEF IInv, Placed, BoxesOnGrid, Late

LEMMA BeginPlacingInv ==
  ASSUME IInv, BeginPlacing
  PROVE  IInv'
<1>0. Types /\ OutputTypes /\ Counting /\ Offsets /\ Writes
  BY DEF IInv
<1>1. /\ file' = file /\ c' = c /\ c = K /\ seeds' = seeds /\ i' = 0
      /\ assign' = assign /\ counts' = counts /\ offsets' = offsets
      /\ writePos' = [e \in Clusters |-> offsets[e]]
      /\ vec' = vec /\ label' = label /\ id' = id
      /\ mn' = [e \in Clusters |-> [j \in Dims |-> Int16Max]]
      /\ mx' = [e \in Clusters |-> [j \in Dims |-> -Int16Max - 1]]
      /\ phase = "offsets" /\ phase' = "place"
  BY DEF BeginPlacing, loop, sizes, output
<1>2. Records' = Records /\ \A e : /\ Below(e)' = Below(e) /\ All(e)' = All(e) /\ Got(e)' = {}
                                   /\ Seed(e)' = Seed(e)
  BY <1>1 DEF Records, Got, Below, All, Seed, Sample, SampleSize
<1>3. \A e \in Clusters : e \in 0..K /\ offsets[e] \in Nat /\ writePos'[e] = offsets[e]
  BY <1>0, <1>1, FileFacts DEF Clusters, Types
<1>4. Types'
  <2>1. 0 \in 0..file.n
    BY <1>0, FileFacts
  <2> QED
    BY <1>0, <1>1, <1>2, <1>3, <2>1 DEF Types, Early, Late
<1>5. OutputTypes'
  <2>1. Int16Max \in (-FixScale)..Int16Max /\ -Int16Max - 1 \in (-Int16Max - 1)..FixScale
    BY FilesAssumption, ScaleAssumption
  <2> QED
    BY <1>0, <1>1, <1>2, <2>1 DEF OutputTypes
<1>6. Counting' /\ Offsets'
  BY <1>0, <1>1, <1>2 DEF Counting, Offsets, Early
<1>7. Writes'
  <2>1. \A e \in Clusters : Cardinality(Got(e)') = 0
    BY <1>2, FS_EmptySet
  <2>2. \A e \in Clusters : writePos'[e] = offsets'[e] + Cardinality(Got(e)')
    BY <1>1, <1>3, <2>1
  <2> QED
    BY <1>1, <2>2 DEF Writes, Late
<1>8. Placed'
  <2>1. \A e \in Clusters : Filled(e)' = {}
    BY <1>1, <1>3 DEF Filled
  <2> QED
    BY <1>1, <2>1 DEF Placed
<1> QED
  BY <1>1, <1>4, <1>5, <1>6, <1>7, <1>8 DEF IInv, BoxesOnGrid

\* A box grows around what it held and the new vector.
LEMMA BoxGrows ==
  ASSUME NEW v \in [Dims -> Int], NEW lo \in [Dims -> Int], NEW hi \in [Dims -> Int]
  PROVE  LET l == [j \in Dims |-> Smaller(v[j], lo[j])]
             h == [j \in Dims |-> Larger(v[j], hi[j])]
         IN  InBox(v, l, h) /\ \A w \in [Dims -> Int] : InBox(w, lo, hi) => InBox(w, l, h)
BY SMT DEF InBox, Smaller, Larger

\* Where a record is placed: on the first free position of its cluster, in none
\* of the positions filled so far.
LEMMA PlaceFacts ==
  ASSUME IInv, PlaceRecord, NEW e, e = assign[i], NEW p, p = writePos[e]
  PROVE  LET v == Grid(i)
             l == [j \in Dims |-> Smaller(v[j], mn[e][j])]
             h == [j \in Dims |-> Larger(v[j], mx[e][j])]
         IN  /\ file' = file /\ c' = c /\ seeds' = seeds /\ i' = i + 1 /\ i < file.n
             /\ assign' = assign /\ counts' = counts /\ offsets' = offsets
             /\ phase = "place" /\ phase' = phase /\ phase \in Late
             /\ writePos' = [writePos EXCEPT ![e] = p + 1]
             /\ vec' = [vec EXCEPT ![p] = v] /\ label' = [label EXCEPT ![p] = file.label[i]]
             /\ id' = [id EXCEPT ![p] = i]
             /\ mn' = [mn EXCEPT ![e] = l] /\ mx' = [mx EXCEPT ![e] = h]
             /\ i \in Nat /\ i \in Records /\ e \in Clusters /\ file.n \in Nat
             /\ v \in Points /\ v \in [Dims -> Int]
             /\ Got(e)' = Got(e) \cup {i} /\ i \notin Got(e)
             /\ \A d \in Clusters \ {e} : Got(d)' = Got(d)
             /\ Cardinality(Got(e)) \in Nat /\ Cardinality(Got(e)') = Cardinality(Got(e)) + 1
             /\ p = offsets[e] + Cardinality(Got(e)) /\ offsets[e] \in Nat /\ p \in Nat
             /\ p \in Records
             /\ writePos'[e] = p + 1 /\ vec'[p] = v /\ id'[p] = i
             /\ \A d \in Clusters \ {e} :
                  writePos'[d] = writePos[d] /\ mn'[d] = mn[d] /\ mx'[d] = mx[d]
             /\ mn'[e] = l /\ mx'[e] = h
             /\ label'[p] = file.label[i]
             /\ \A q \in Records \ {p} :
                  vec'[q] = vec[q] /\ label'[q] = label[q] /\ id'[q] = id[q]
             /\ Filled(e)' = Filled(e) \cup {p}
             /\ \A d \in Clusters \ {e} : Filled(d)' = Filled(d)
             /\ \A d \in Clusters : p \notin Filled(d) /\ Filled(d) \subseteq Records
<1>a. Types /\ i < file.n
  BY DEF IInv, PlaceRecord
<1>b. i \in Nat /\ i \in Records /\ assign[i] \in Clusters /\ file.n \in Nat
  BY <1>a, FileFacts DEF Records
<1> DEFINE v == Grid(i)
           l == [j \in Dims |-> Smaller(v[j], mn[e][j])]
           h == [j \in Dims |-> Larger(v[j], mx[e][j])]
<1>0. Types /\ OutputTypes /\ Counting /\ Offsets /\ Writes /\ Placed
  BY DEF IInv
<1>1. /\ file' = file /\ c' = c /\ seeds' = seeds /\ i' = i + 1 /\ i < file.n
      /\ assign' = assign /\ counts' = counts /\ offsets' = offsets
      /\ phase = "place" /\ phase' = phase /\ phase \in Late
      /\ writePos' = [writePos EXCEPT ![e] = p + 1]
      /\ vec' = [vec EXCEPT ![p] = v] /\ label' = [label EXCEPT ![p] = file.label[i]]
      /\ id' = [id EXCEPT ![p] = i]
      /\ mn' = [mn EXCEPT ![e] = l] /\ mx' = [mx EXCEPT ![e] = h]
  BY Zenon DEF PlaceRecord, sizes, Late, Grid
<1>2. /\ Records' = Records
      /\ \A d : /\ Below(d)' = Below(d) /\ All(d)' = All(d) /\ Seed(d)' = Seed(d)
  BY <1>1 DEF Records, Below, All, Seed, Sample, SampleSize
<1>3. i \in Nat /\ i \in Records /\ e \in Clusters /\ file.n \in Nat /\ assign[i] = e
  BY <1>b
<1>4. v \in Points /\ v \in [Dims -> Int]
  <2>1. \A j \in Dims : file.raw[i][j] \in Int
    BY <1>0, <1>3, FileFacts
  <2>2. \A j \in Dims : v[j] \in Coord
    BY <2>1, QuantizeOnGrid DEF Grid
  <2>3. \A x \in Coord : x \in Int
    BY ScaleAssumption DEF Coord
  <2> QED
    BY <2>2, <2>3 DEF Points, Grid
<1>5. Got(e)' = Got(e) \cup {i} /\ i \notin Got(e) /\ \A d \in Clusters \ {e} : Got(d)' = Got(d)
  BY <1>1, <1>3 DEF Got
<1>6. IsFiniteSet(Got(e)) /\ IsFiniteSet(All(e)) /\ Cardinality(Got(e)) \in Nat
  BY <1>0, RecordsFinite, Subsets
<1>7. Cardinality(Got(e)') = Cardinality(Got(e)) + 1
  <2>1. Cardinality(Got(e) \cup {i}) = Cardinality(Got(e)) + 1
    BY <1>5, <1>6, FS_AddElement
  <2> QED
    BY <1>5, <2>1, Zenon
<1>8. Cardinality(Got(e)) + 1 <= Cardinality(All(e)) /\ Cardinality(All(e)) \in Nat
  <2>1. Got(e)' \subseteq All(e)
    BY <1>0, <1>3, <1>5, Subsets DEF All
  <2> QED
    BY <1>0, <1>6, <1>7, <2>1, FS_Subset, RecordsFinite, Subsets
<1>9. /\ p = offsets[e] + Cardinality(Got(e)) /\ offsets[e] \in Nat /\ p \in Nat /\ offsets[e] <= p
      /\ p < offsets[e + 1] /\ offsets[e + 1] <= file.n /\ p \in Records
  <2>1. /\ p = offsets[e] + Cardinality(Got(e)) /\ offsets[e] \in 0..file.n /\ offsets[e + 1] \in 0..file.n
        /\ offsets[e + 1] = offsets[e] + Cardinality(All(e))
    BY <1>0, <1>1, <1>3, FilledFacts
  <2> QED
    BY <1>3, <1>6, <1>8, <2>1 DEF Records
<1> HIDE DEF v
<1>10. /\ writePos'[e] = p + 1 /\ vec'[p] = v /\ id'[p] = i
       /\ \A d \in Clusters \ {e} : writePos'[d] = writePos[d] /\ mn'[d] = mn[d] /\ mx'[d] = mx[d]
       /\ mn'[e] = l /\ mx'[e] = h
       /\ label'[p] = file.label[i]
       /\ \A q \in Records \ {p} : vec'[q] = vec[q] /\ label'[q] = label[q] /\ id'[q] = id[q]
  BY <1>0, <1>1, <1>3, <1>9 DEF Types, OutputTypes
<1>11. Filled(e)' = Filled(e) \cup {p} /\ \A d \in Clusters \ {e} : Filled(d)' = Filled(d)
  BY <1>1, <1>9, <1>10 DEF Filled
<1>12. \A d \in Clusters : p \notin Filled(d) /\ Filled(d) \subseteq Records
  <2> SUFFICES ASSUME NEW d \in Clusters PROVE p \notin Filled(d) /\ Filled(d) \subseteq Records
    OBVIOUS
  <2>1. /\ Filled(d) \subseteq Records /\ writePos[d] <= offsets[d + 1]
        /\ offsets[d] \in Int /\ offsets[d + 1] \in Int /\ writePos[d] \in Int
        /\ d # e => offsets[d + 1] <= offsets[e] \/ offsets[e + 1] <= offsets[d]
    BY <1>0, <1>1, <1>3, FilledFacts DEF Types
  <2>2. CASE d = e
    <3>1. p = writePos[d]
      BY <2>2
    <3>2. ~(p <= p - 1)
      BY <1>9
    <3> QED
      BY <2>1, <3>1, <3>2 DEF Filled
  <2>3. CASE d # e
    <3>1. offsets[e + 1] \in Int
      BY <1>0, <1>1, <1>3, FilledFacts
    <3> QED
      BY <1>9, <2>1, <2>3, <3>1 DEF Filled
  <2> QED
    BY <2>1, <2>2, <2>3
<1> QED
  BY <1>1, <1>3, <1>4, <1>5, <1>6, <1>7, <1>9, <1>10, <1>11, <1>12, Zenon DEF v

LEMMA PlaceInv ==
  ASSUME IInv, PlaceRecord
  PROVE  IInv'
<1>a. Types /\ i < file.n
  BY DEF IInv, PlaceRecord
<1>b. i \in Nat /\ i \in Records /\ assign[i] \in Clusters /\ file.n \in Nat
  BY <1>a, FileFacts DEF Records
<1>c. PICK e \in Clusters : e = assign[i]
  BY <1>b
<1>d. PICK p : p = writePos[e]
  OBVIOUS
<1> DEFINE v == Grid(i)
           l == [j \in Dims |-> Smaller(v[j], mn[e][j])]
           h == [j \in Dims |-> Larger(v[j], mx[e][j])]
<1>0. Types /\ OutputTypes /\ Counting /\ Offsets /\ Writes /\ Placed
  BY DEF IInv
<1>1. /\ file' = file /\ c' = c /\ seeds' = seeds /\ i' = i + 1 /\ i < file.n
      /\ assign' = assign /\ counts' = counts /\ offsets' = offsets
      /\ phase = "place" /\ phase' = phase /\ phase \in Late
      /\ writePos' = [writePos EXCEPT ![e] = p + 1]
      /\ vec' = [vec EXCEPT ![p] = v] /\ label' = [label EXCEPT ![p] = file.label[i]]
      /\ id' = [id EXCEPT ![p] = i]
      /\ mn' = [mn EXCEPT ![e] = l] /\ mx' = [mx EXCEPT ![e] = h]
  BY <1>c, <1>d, PlaceFacts
<1>2. /\ Records' = Records
      /\ \A d : /\ Below(d)' = Below(d) /\ All(d)' = All(d) /\ Seed(d)' = Seed(d)
  BY <1>1 DEF Records, Below, All, Seed, Sample, SampleSize
<1>3. i \in Nat /\ i \in Records /\ e \in Clusters /\ file.n \in Nat /\ assign[i] = e
  BY <1>c, <1>d, PlaceFacts
<1>4. v \in Points /\ v \in [Dims -> Int]
  BY <1>c, <1>d, PlaceFacts
<1>5. Got(e)' = Got(e) \cup {i} /\ i \notin Got(e) /\ \A d \in Clusters \ {e} : Got(d)' = Got(d)
  BY <1>c, <1>d, PlaceFacts
<1>7. Cardinality(Got(e)) \in Nat /\ Cardinality(Got(e)') = Cardinality(Got(e)) + 1
  BY <1>c, <1>d, PlaceFacts
<1>9. /\ p = offsets[e] + Cardinality(Got(e)) /\ offsets[e] \in Nat /\ p \in Nat
      /\ p \in Records
  BY <1>c, <1>d, PlaceFacts
<1>10. /\ writePos'[e] = p + 1 /\ vec'[p] = v /\ id'[p] = i
       /\ \A d \in Clusters \ {e} : writePos'[d] = writePos[d] /\ mn'[d] = mn[d] /\ mx'[d] = mx[d]
       /\ mn'[e] = l /\ mx'[e] = h
       /\ \A q \in Records \ {p} : vec'[q] = vec[q] /\ id'[q] = id[q]
  BY <1>c, <1>d, PlaceFacts
<1>11. Filled(e)' = Filled(e) \cup {p} /\ \A d \in Clusters \ {e} : Filled(d)' = Filled(d)
  BY <1>c, <1>d, PlaceFacts
<1>12. \A d \in Clusters : p \notin Filled(d) /\ Filled(d) \subseteq Records
  BY <1>c, <1>d, PlaceFacts
<1> HIDE DEF v
<1>13. Types'
  <2>1. writePos' \in [Clusters -> Nat]
    BY <1>0, <1>1, <1>9 DEF Types
  <2>2. file.n > 0 /\ seeds' = [d \in Clusters |-> Seed(d)']
    BY <1>0, <1>1 DEF Types, Seed, Sample, SampleSize
  <2>3. i' \in 0..file.n
    BY <1>1, <1>3
  <2> QED
    BY <1>0, <1>1, <1>2, <2>1, <2>2, <2>3 DEF Types, Early, Late
<1>14. l \in [Dims -> (-FixScale)..Int16Max] /\ h \in [Dims -> (-Int16Max - 1)..FixScale]
  <2>1. /\ mn[e] \in [Dims -> (-FixScale)..Int16Max] /\ mx[e] \in [Dims -> (-Int16Max - 1)..FixScale]
        /\ FixScale \in Nat /\ Int16Max \in Nat /\ FixScale <= Int16Max
    BY <1>0, <1>3, FilesAssumption, ScaleAssumption DEF OutputTypes
  <2>2. \A j \in Dims : v[j] \in -FixScale..FixScale
    BY <1>4 DEF Points, Coord
  <2> QED
    BY <2>1, <2>2 DEF Smaller, Larger
<1>15. OutputTypes'
  <2>1. vec' \in [Records -> Points]
    BY <1>0, <1>1, <1>4, <1>9 DEF OutputTypes
  <2>2. label' \in [Records -> {0, 1}]
    BY <1>0, <1>1, <1>3, <1>9, FileFacts DEF OutputTypes
  <2>3. id' \in [Records -> Nat]
    BY <1>0, <1>1, <1>3, <1>9 DEF OutputTypes
  <2> HIDE DEF l, h
  <2>4. mn' \in [Clusters -> [Dims -> (-FixScale)..Int16Max]]
        /\ mx' \in [Clusters -> [Dims -> (-Int16Max - 1)..FixScale]]
    BY <1>0, <1>1, <1>3, <1>14 DEF OutputTypes
  <2> QED
    BY <1>2, <2>1, <2>2, <2>3, <2>4 DEF OutputTypes
<1>16. Counting' /\ Offsets'
  BY <1>0, <1>1, <1>2 DEF Counting, Offsets, Early, Late
<1>17. Writes'
  <2>1. ASSUME NEW d \in Clusters
        PROVE  writePos'[d] = offsets[d] + Cardinality(Got(d)')
    <3>1. CASE d = e
      <4>1. writePos'[e] = offsets[e] + Cardinality(Got(e)')
        BY <1>7, <1>9, <1>10
      <4> QED
        BY <3>1, <4>1, Zenon
    <3>2. CASE d # e
      <4>1. writePos[d] = offsets[d] + Cardinality(Got(d))
        BY <1>0, <1>1 DEF Writes
      <4>2. writePos'[d] = writePos[d] /\ Got(d)' = Got(d)
        BY <1>5, <1>10, <3>2
      <4> QED
        BY <4>1, <4>2, Zenon
    <3> QED
      BY <3>1, <3>2
  <2> QED
    BY <1>1, <2>1 DEF Writes
<1>18. Placed'
  <2>1. /\ \A d \in Clusters : \A q \in Filled(d) :
             id[q] \in 0..(i - 1) /\ assign[id[q]] = d /\ InBox(vec[q], mn[d], mx[d])
        /\ \A d, b \in Clusters : \A q \in Filled(d), t \in Filled(b) : id[q] = id[t] => q = t
        /\ \A r \in 0..(i - 1) : \E q \in Filled(assign[r]) : id[q] = r
    BY <1>0, <1>1 DEF Placed
  <2>2. \A d \in Clusters : \A q \in Filled(d) : q # p /\ q \in Records /\ id'[q] = id[q] /\ vec'[q] = vec[q]
    BY <1>10, <1>12
  <2>3. InBox(v, mn'[e], mx'[e])
        /\ \A w \in Points : \A d \in Clusters : InBox(w, mn[d], mx[d]) => InBox(w, mn'[d], mx'[d])
    <3>1. mn[e] \in [Dims -> Int] /\ mx[e] \in [Dims -> Int] /\ \A w \in Points : w \in [Dims -> Int]
      BY <1>0, <1>3, FilesAssumption, ScaleAssumption DEF OutputTypes, Points, Coord
    <3>2. InBox(v, l, h) /\ \A w \in [Dims -> Int] : InBox(w, mn[e], mx[e]) => InBox(w, l, h)
      BY <1>4, <3>1, BoxGrows
    <3> HIDE DEF l, h
    <3> QED
      BY <1>3, <1>10, <3>1, <3>2
  <2> HIDE DEF l, h
  <2>4. ASSUME NEW d \in Clusters, NEW q \in Filled(d)'
        PROVE  id'[q] \in 0..i /\ assign[id'[q]] = d /\ InBox(vec'[q], mn'[d], mx'[d])
    <3>1. CASE q = p
      <4>1. d = e
        BY <1>11, <1>12, <3>1
      <4> QED
        BY <1>3, <1>10, <2>3, <3>1, <4>1
    <3>2. CASE q # p
      <4>1. q \in Filled(d)
        BY <1>11, <3>2
      <4>2. vec[q] \in Points
        BY <1>0, <2>2, <4>1 DEF OutputTypes
      <4> QED
        BY <1>3, <2>1, <2>2, <2>3, <4>1, <4>2
    <3> QED
      BY <3>1, <3>2
  <2>5. ASSUME NEW d \in Clusters, NEW b \in Clusters, NEW q \in Filled(d)', NEW t \in Filled(b)',
               id'[q] = id'[t]
        PROVE  q = t
    <3>1. q = p \/ q \in Filled(d)
      BY <1>11
    <3>2. t = p \/ t \in Filled(b)
      BY <1>11
    <3>3. \A g \in Clusters : \A s \in Filled(g) : id'[s] = id[s] /\ id[s] # i
      BY <1>3, <2>1, <2>2
    <3> QED
      BY <1>10, <2>1, <2>5, <3>1, <3>2, <3>3
  <2>6. ASSUME NEW r \in 0..i
        PROVE  \E q \in Filled(assign[r])' : id'[q] = r
    <3>1. CASE r = i
      <4>1. p \in Filled(e)' /\ assign[r] = e
        BY <1>1, <1>3, <1>11, <3>1
      <4> QED
        BY <1>1, <1>10, <3>1, <4>1
    <3>2. CASE r # i
      <4>1. r \in 0..(i - 1) /\ r \in Records
        BY <1>1, <1>3, <3>2 DEF Records
      <4>2. PICK q \in Filled(assign[r]) : id[q] = r
        BY <2>1, <4>1
      <4>3. assign[r] \in Clusters
        BY <1>0, <4>1, FileFacts
      <4>4. id'[q] = r /\ q \in Filled(assign[r])'
        BY <1>1, <1>11, <2>2, <4>2, <4>3
      <4> QED
        BY <4>4
    <3> QED
      BY <3>1, <3>2
  <2>7. 0..(i' - 1) = 0..i
    BY <1>1, <1>3
  <2> QED
    BY <1>1, <2>4, <2>5, <2>6, <2>7 DEF Placed
<1> QED
  BY <1>1, <1>13, <1>15, <1>16, <1>17, <1>18 DEF IInv, BoxesOnGrid

\* A cluster without records has filled nothing; the others keep their boxes.
LEMMA ResetInv ==
  ASSUME IInv, ResetEmptyBoxes
  PROVE  IInv'
<1>0. Types /\ OutputTypes /\ Counting /\ Offsets /\ Writes /\ Placed
  BY DEF IInv
<1>1. /\ file' = file /\ c' = c /\ seeds' = seeds /\ i' = i /\ i = file.n
      /\ assign' = assign /\ counts' = counts /\ offsets' = offsets /\ writePos' = writePos
      /\ vec' = vec /\ label' = label /\ id' = id
      /\ phase = "place" /\ phase' = "built" /\ phase \in Late
      /\ mn' = [e \in Clusters |-> [j \in Dims |-> IF counts[e] = 0 THEN 0 ELSE mn[e][j]]]
      /\ mx' = [e \in Clusters |-> [j \in Dims |-> IF counts[e] = 0 THEN 0 ELSE mx[e][j]]]
  BY DEF ResetEmptyBoxes, sizes, Late
<1>2. /\ Records' = Records
      /\ \A d : /\ Below(d)' = Below(d) /\ All(d)' = All(d) /\ Seed(d)' = Seed(d)
                /\ Got(d)' = Got(d) /\ Filled(d)' = Filled(d)
  BY <1>1 DEF Records, Below, All, Got, Filled, Seed, Sample, SampleSize
<1>3. Types'
  BY <1>0, <1>1, <1>2 DEF Types, Early, Late
<1>4. Counting' /\ Offsets' /\ Writes'
  BY <1>0, <1>1, <1>2 DEF Counting, Offsets, Writes, Early, Late
<1>5. FixScale \in Nat /\ Int16Max \in Nat /\ FixScale <= Int16Max
  BY FilesAssumption, ScaleAssumption
<1>6. \A e \in Clusters :
        /\ counts[e] = 0 => /\ mn'[e] = [j \in Dims |-> 0] /\ mx'[e] = [j \in Dims |-> 0]
        /\ counts[e] # 0 => mn'[e] = mn[e] /\ mx'[e] = mx[e]
  BY <1>0, <1>1 DEF OutputTypes
<1>7. \A e \in Clusters : counts[e] = Cardinality(All(e)) /\ All(e) = Got(e)
  BY <1>0, <1>1 DEF Counting, Early, All, Got, Records
<1>8. OutputTypes'
  <2>1. \A e \in Clusters : /\ mn'[e] \in [Dims -> (-FixScale)..Int16Max]
                            /\ mx'[e] \in [Dims -> (-Int16Max - 1)..FixScale]
    BY <1>0, <1>5, <1>6 DEF OutputTypes
  <2>2. mn' \in [Clusters -> [Dims -> (-FixScale)..Int16Max]]
        /\ mx' \in [Clusters -> [Dims -> (-Int16Max - 1)..FixScale]]
    BY <1>1, <2>1
  <2> QED
    BY <1>0, <1>1, <1>2, <2>2 DEF OutputTypes
<1>9. \A e \in Clusters : \A p \in Filled(e) : counts[e] # 0
  <2> SUFFICES ASSUME NEW e \in Clusters, NEW p \in Filled(e), counts[e] = 0 PROVE FALSE
    OBVIOUS
  <2>1. writePos[e] = offsets[e] + Cardinality(Got(e)) /\ offsets[e] \in Nat
    BY <1>0, <1>1, FilledFacts
  <2>2. Cardinality(Got(e)) = 0
    BY <1>7
  <2> QED
    BY <2>1, <2>2 DEF Filled
<1>10. Placed'
  BY <1>0, <1>1, <1>2, <1>6, <1>9 DEF Placed
<1>11. BoxesOnGrid'
  <2>1. ASSUME NEW e \in Clusters
        PROVE  mn'[e] \in Points /\ mx'[e] \in Points
    <3>1. CASE counts[e] = 0
      BY <1>5, <1>6, <3>1 DEF Points, Coord
    <3>2. CASE counts[e] # 0
      <4>1. Got(e) # {}
        BY <1>7, <3>2, FS_EmptySet
      <4>2. PICK r \in 0..(i - 1) : assign[r] = e
        BY <4>1 DEF Got
      <4>3. PICK p \in Filled(e) : id[p] = r
        BY <1>0, <1>1, <4>2 DEF Placed
      <4>4. p \in Records /\ InBox(vec[p], mn[e], mx[e]) /\ vec[p] \in Points
        BY <1>0, <1>1, <4>3, FilledFacts DEF Placed, OutputTypes
      <4>5. /\ mn[e] \in [Dims -> (-FixScale)..Int16Max]
            /\ mx[e] \in [Dims -> (-Int16Max - 1)..FixScale]
        BY <1>0 DEF OutputTypes
      <4>6. \A j \in Dims : mn[e][j] \in Coord /\ mx[e][j] \in Coord
        BY <1>5, <4>4, <4>5 DEF InBox, Points, Coord
      <4> QED
        BY <1>6, <3>2, <4>5, <4>6 DEF Points
    <3> QED
      BY <3>1, <3>2
  <2>2. mn' \in [Clusters -> Points] /\ mx' \in [Clusters -> Points]
    BY <1>1, <2>1
  <2> QED
    BY <2>2 DEF BoxesOnGrid
<1> QED
  BY <1>3, <1>4, <1>8, <1>10, <1>11 DEF IInv

LEMMA NextInv == IInv /\ [Next]_vars => IInv'
<1> SUFFICES ASSUME IInv, [Next]_vars PROVE IInv'
  OBVIOUS
<1>1. CASE Next
  BY <1>1, TrainInv, AssignInv, BeginOffsetsInv, AddOffsetInv, BeginPlacingInv, PlaceInv, ResetInv
  DEF Next
<1>2. CASE UNCHANGED vars
  <2>1. /\ Records' = Records
        /\ \A d : /\ Below(d)' = Below(d) /\ All(d)' = All(d) /\ Seed(d)' = Seed(d)
                  /\ Got(d)' = Got(d) /\ Filled(d)' = Filled(d)
    BY <1>2 DEF vars, loop, sizes, output, Records, Below, All, Got, Filled, Seed, Sample, SampleSize
  <2>2. Types' /\ OutputTypes'
    BY <1>2, <2>1 DEF vars, loop, sizes, output, IInv, Types, OutputTypes
  <2>3. Counting' /\ Offsets' /\ Writes'
    BY <1>2, <2>1 DEF vars, loop, sizes, output, IInv, Counting, Offsets, Writes
  <2>4. Placed' /\ BoxesOnGrid'
    BY <1>2, <2>1 DEF vars, loop, sizes, output, IInv, Placed, BoxesOnGrid
  <2> QED
    BY <2>2, <2>3, <2>4 DEF IInv
<1> QED
  BY <1>1, <1>2

LEMMA Invariance == Spec => []IInv
BY InitInv, NextInv, PTL DEF Spec

-----------------------------------------------------------------------------
(* Theorems. *)

\* No loop of cmd/preprocess leaves the arrays it fills, whatever the records
\* and wherever k-means puts them.
THEOREM TypeCorrect == Spec => []TypeOK
<1>1. IInv => TypeOK
  <2> SUFFICES ASSUME IInv PROVE TypeOK
    OBVIOUS
  <2>0. Types /\ OutputTypes /\ Counting /\ Offsets /\ Writes
    BY DEF IInv
  <2>1. phase \in {"train", "failed"} \/ seeds \in [Clusters -> Records]
    BY <2>0, FileFacts, SeedIsRecord DEF Types
  <2>2. counts \in [Clusters -> 0..file.n]
    <3>1. \A e \in Clusters : counts[e] \in 0..file.n
      BY <2>0, RecordsFinite, Subsets, FileFacts DEF Counting
    <3> QED
      BY <2>0, <3>1 DEF Types
  <2>3. offsets \in [0..K -> 0..file.n]
    <3>1. \A e \in 0..K : offsets[e] \in 0..file.n
      BY <2>0, RecordsFinite, Subsets, FileFacts DEF Offsets
    <3> QED
      BY <2>0, <3>1 DEF Types
  <2>4. writePos \in [Clusters -> 0..file.n]
    <3>1. \A e \in Clusters : writePos[e] \in 0..file.n
      <4>1. CASE phase \in Late
        BY <2>0, <4>1, FilledFacts, FileFacts, SMTT(30) DEF Types
      <4>2. CASE phase \notin Late
        BY <2>0, <4>2, FileFacts DEF Writes
      <4> QED
        BY <4>1, <4>2
    <3> QED
      BY <2>0, <3>1 DEF Types
  <2> QED
    BY <2>0, <2>1, <2>2, <2>3, <2>4 DEF TypeOK, Types, OutputTypes, Early, Late
<1> QED
  BY <1>1, Invariance, PTL

\* The divisions of kmeans.Train keep the seeds in order and apart, for every
\* number of records, clusters and samples (kmeans.go 24-43).
THEOREM SeedsSpread == Spec => []SeedsAreSpread
<1>1. IInv => SeedsAreSpread
  <2> SUFFICES ASSUME IInv, phase \notin {"train", "failed"} PROVE SeedsAreSpread
    BY DEF SeedsAreSpread
  <2>1. seeds = [e \in Clusters |-> Seed(e)] /\ file.n \in Nat \ {0} /\ K \in Nat
    BY FileFacts DEF IInv, Types
  <2>2. \A d, e \in Clusters : d < e => IF file.n >= K THEN Seed(d) < Seed(e) ELSE Seed(d) <= Seed(e)
    BY <2>1, SeedsKeepOrder
  <2>3. file.n < K => \A r \in Records : \E e \in Clusters : Seed(e) = r
    BY <2>1, FewRecordsAllSeed
  <2> QED
    BY <2>1, <2>2, <2>3 DEF SeedsAreSpread
<1> QED
  BY <1>1, Invariance, PTL

\* Counts, offsets and write positions agree over the three loops (main.go
\* 74-108).
THEOREM ClustersStayApart == Spec => []ClustersDoNotSpill
<1>1. IInv => ClustersDoNotSpill
  <2> SUFFICES ASSUME IInv, phase \in Late, NEW e \in Clusters
               PROVE  /\ writePos[e] = offsets[e] + Cardinality(Got(e))
                      /\ offsets[e + 1] = offsets[e] + Cardinality(All(e))
    BY DEF ClustersDoNotSpill, Late, Got, All
  <2> QED
    BY FilledFacts DEF IInv
<1> QED
  BY <1>1, Invariance, PTL

\* Every position has been filled: the filled ones map onto the records.
LEMMA AllFilled ==
  ASSUME IInv, phase = "built"
  PROVE  \A p \in Records : \E e \in Clusters : p \in Filled(e)
<1> DEFINE F == UNION {Filled(e) : e \in Clusters}
           g == [p \in F |-> id[p]]
<1>1. Types /\ Offsets /\ Writes /\ Placed /\ phase \in Late /\ i = file.n
  BY DEF IInv, Types, Late
<1>2. F \subseteq Records
  BY <1>1, FilledFacts
<1>3. IsFiniteSet(F) /\ IsFiniteSet(Records) /\ Cardinality(F) <= Cardinality(Records)
      /\ Cardinality(F) \in Nat /\ Cardinality(Records) \in Nat
  BY <1>1, <1>2, RecordsFinite
<1>4. g \in Surjection(F, Records)
  <2>1. \A p \in F : id[p] \in Records
    BY <1>1 DEF Placed, Records
  <2>2. \A r \in Records : \E p \in F : id[p] = r
    <3> TAKE r \in Records
    <3>1. r \in 0..(i - 1) /\ assign[r] \in Clusters
      BY <1>1, FileFacts DEF Records
    <3>2. PICK p \in Filled(assign[r]) : id[p] = r
      BY <1>1, <3>1 DEF Placed
    <3> QED
      BY <3>1, <3>2
  <2> QED
    BY <2>1, <2>2 DEF Surjection
<1>5. Cardinality(Records) <= Cardinality(F)
  BY <1>3, <1>4, FS_Surjection
<1>6. F = Records
  BY <1>2, <1>3, <1>5, FS_Subset
<1> QED
  BY <1>6

\* What cmd/preprocess builds is what the search assumes of an index, for every
\* list of records and every assignment to clusters: Load checks none of it.
THEOREM BuildsWellFormed == Spec => []BuiltIsWellFormed
<1>1. IInv => BuiltIsWellFormed
  <2> SUFFICES ASSUME IInv, phase = "built" PROVE WellFormed(Built)
    BY DEF BuiltIsWellFormed
  <2>0. /\ Types /\ OutputTypes /\ Offsets /\ Writes /\ Placed /\ BoxesOnGrid
        /\ phase \in Late /\ i = file.n /\ c = K
    BY DEF IInv, Types, Late
  <2>1. /\ Built.n = file.n /\ Built.offsets = offsets /\ Built.vec = vec /\ Built.label = label
        /\ Built.id = id /\ Built.mn = mn /\ Built.mx = mx /\ Positions(Built) = Records
    BY DEF Built, Positions, Records
  <2>2. \A e \in Clusters : Members(Built, e) = Filled(e)
    <3> TAKE e \in Clusters
    <3>1. Got(e) = All(e)
      BY <2>0 DEF Got, All, Records
    <3>2. writePos[e] = offsets[e + 1]
      BY <2>0, <3>1, FilledFacts
    <3> QED
      BY <2>1, <3>2 DEF Members, Filled
  <2>3. IndexShape(Built)
    <3>1. \A p \in Records : id[p] \in 0..(MaxId - 1)
      <4> TAKE p \in Records
      <4>1. PICK e \in Clusters : p \in Filled(e)
        BY <2>0, AllFilled
      <4>2. id[p] \in 0..(file.n - 1)
        BY <2>0, <4>1 DEF Placed
      <4> QED
        BY <2>0, <4>2, FileFacts
    <3>2. id \in [Records -> 0..(MaxId - 1)]
      BY <2>0, <3>1 DEF OutputTypes
    <3>3. offsets \in [0..K -> 0..file.n]
      BY <2>0, OffsetFacts DEF Types
    <3>4. file.n \in 0..MaxId
      BY <2>0, FileFacts
    <3>5. vec \in [Records -> Points] /\ label \in [Records -> {0, 1}]
          /\ mn \in [Clusters -> Points] /\ mx \in [Clusters -> Points]
      BY <2>0 DEF OutputTypes, BoxesOnGrid
    <3> QED
      BY <2>1, <3>2, <3>3, <3>4, <3>5 DEF IndexShape
  <2>4. Partitioned(Built)
    BY <2>0, <2>1, OffsetFacts DEF Partitioned
  <2>5. DistinctIds(Built)
    BY <2>0, <2>1, AllFilled DEF DistinctIds, Placed
  <2>6. BoxesCover(Built)
    BY <2>0, <2>1, <2>2 DEF BoxesCover, Placed
  <2> QED
    BY <2>3, <2>4, <2>5, <2>6 DEF WellFormed
<1> QED
  BY <1>1, Invariance, PTL

-----------------------------------------------------------------------------
(***************************************************************************)
(* The layout.  A filled position holds a record's own vector and label,   *)
(* and lies as many records after the start of its cluster as the cluster  *)
(* has earlier records; a box touches the records of its cluster on every  *)
(* side.  Both are needed on top of IInv, which only keeps positions apart *)
(* and vectors inside boxes.                                               *)
(***************************************************************************)

Earlier(r) == {q \in 0..(r - 1) : assign[q] = assign[r]}

PositionOf(r) == offsets[assign[r]] + Cardinality(Earlier(r))

Copied ==
  phase \in Late =>
    \A e \in Clusters : \A p \in Filled(e) :
      /\ vec[p] = Grid(id[p]) /\ label[p] = file.label[id[p]]
      /\ p = PositionOf(id[p])

Touches(e, j) ==
  /\ \E r \in Got(e) : mn[e][j] = Grid(r)[j]
  /\ \E r \in Got(e) : mx[e][j] = Grid(r)[j]
  /\ \A r \in Got(e) : mn[e][j] <= Grid(r)[j] /\ Grid(r)[j] <= mx[e][j]

Tight ==
  \A e \in Clusters, j \in Dims :
    /\ phase = "place" /\ Got(e) = {} => mn[e][j] = Int16Max /\ mx[e][j] = -Int16Max - 1
    /\ phase = "built" /\ Got(e) = {} => mn[e][j] = 0 /\ mx[e][j] = 0
    /\ phase \in Late /\ Got(e) # {} => Touches(e, j)

LayoutInv == Copied /\ Tight

LEMMA GridTypes ==
  ASSUME Types, NEW r \in Records, NEW j \in Dims
  PROVE  Grid(r)[j] \in Coord /\ Grid(r)[j] \in Int
<1>1. file.raw[r][j] \in Int
  BY FileFacts
<1>2. Quantize(file.raw[r][j]) \in Coord
  BY <1>1, QuantizeOnGrid
<1>3. \A x \in Coord : x \in Int
  BY ScaleAssumption DEF Coord
<1> QED
  BY <1>2, <1>3 DEF Grid

\* The new record takes the place that its predecessors leave it.
LEMMA PlaceCopied ==
  ASSUME IInv, LayoutInv, PlaceRecord
  PROVE  Copied'
<1>0. Types
  BY DEF IInv
<1>a. i < file.n
  BY DEF PlaceRecord
<1>b. assign[i] \in Clusters
  BY <1>0, <1>a, FileFacts DEF Records
<1>c. PICK e \in Clusters : e = assign[i]
  BY <1>b
<1>d. PICK p : p = writePos[e]
  OBVIOUS
<1>1. /\ file' = file /\ assign' = assign /\ offsets' = offsets /\ phase \in Late
      /\ vec'[p] = Grid(i) /\ label'[p] = file.label[i] /\ id'[p] = i
      /\ p = offsets[e] + Cardinality(Got(e))
      /\ \A q \in Records \ {p} : vec'[q] = vec[q] /\ label'[q] = label[q] /\ id'[q] = id[q]
      /\ Filled(e)' = Filled(e) \cup {p}
      /\ \A d \in Clusters \ {e} : Filled(d)' = Filled(d)
      /\ \A d \in Clusters : p \notin Filled(d) /\ Filled(d) \subseteq Records
  BY <1>c, <1>d, PlaceFacts, ZenonT(40)
<1>2. \A r : Grid(r)' = Grid(r) /\ PositionOf(r)' = PositionOf(r)
  BY <1>1 DEF Grid, PositionOf, Earlier
<1>3. p = PositionOf(i)
  BY <1>c, <1>1 DEF PositionOf, Earlier, Got
<1>4. ASSUME NEW d \in Clusters, NEW q \in Filled(d)'
      PROVE  /\ vec'[q] = Grid(id'[q]) /\ label'[q] = file.label[id'[q]]
             /\ q = PositionOf(id'[q])
  <2>1. CASE q = p
    BY <1>1, <1>3, <2>1
  <2>2. CASE q # p
    <3>1. q \in Filled(d)
      BY <1>1, <2>2
    <3>2. vec'[q] = vec[q] /\ label'[q] = label[q] /\ id'[q] = id[q]
      BY <1>1, <2>2, <3>1
    <3> QED
      BY <1>1, <3>1, <3>2 DEF LayoutInv, Copied
  <2> QED
    BY <2>1, <2>2
<1> QED
  BY <1>1, <1>2, <1>4 DEF Copied

\* Its box grows no further than to it.
LEMMA PlaceTight ==
  ASSUME IInv, LayoutInv, PlaceRecord
  PROVE  Tight'
<1>0. Types /\ OutputTypes
  BY DEF IInv
<1>a. i < file.n
  BY DEF PlaceRecord
<1>b. assign[i] \in Clusters
  BY <1>0, <1>a, FileFacts DEF Records
<1>c. PICK e \in Clusters : e = assign[i]
  BY <1>b
<1>d. PICK p : p = writePos[e]
  OBVIOUS
<1>1. /\ file' = file /\ phase = "place" /\ phase' = phase /\ phase \in Late /\ i \in Records
      /\ Got(e)' = Got(e) \cup {i} /\ \A d \in Clusters \ {e} : Got(d)' = Got(d)
  BY <1>c, <1>d, PlaceFacts, Zenon
<1>e. \A d \in Clusters \ {e} : mn'[d] = mn[d] /\ mx'[d] = mx[d]
  BY <1>c, <1>d, PlaceFacts, Zenon
<1>f. \A j \in Dims : /\ mn'[e][j] = Smaller(Grid(i)[j], mn[e][j])
                     /\ mx'[e][j] = Larger(Grid(i)[j], mx[e][j])
  <2> DEFINE v == Grid(i)
             l == [j \in Dims |-> Smaller(v[j], mn[e][j])]
             h == [j \in Dims |-> Larger(v[j], mx[e][j])]
  <2>1. mn' = [mn EXCEPT ![e] = l] /\ mx' = [mx EXCEPT ![e] = h]
    BY <1>c, Zenon DEF PlaceRecord, Grid
  <2> HIDE DEF v, l, h
  <2>2. mn'[e] = l /\ mx'[e] = h
    BY <1>0, <2>1 DEF OutputTypes
  <2> QED
    BY <2>2 DEF l, h, v
<1>2. \A r : Grid(r)' = Grid(r)
  BY <1>1 DEF Grid
<1>3. ASSUME NEW j \in Dims
      PROVE  /\ \E r \in Got(e)' : mn'[e][j] = Grid(r)[j]
             /\ \E r \in Got(e)' : mx'[e][j] = Grid(r)[j]
             /\ \A r \in Got(e)' : mn'[e][j] <= Grid(r)[j] /\ Grid(r)[j] <= mx'[e][j]
  <2> DEFINE g(r) == Grid(r)[j]
             lo == mn[e][j]
             hi == mx[e][j]
  <2>1. /\ lo \in Int /\ hi \in Int /\ Int16Max \in Int
        /\ \A r \in Records : g(r) \in Int /\ g(r) <= Int16Max /\ -Int16Max - 1 <= g(r)
    <3>1. FixScale \in Nat /\ Int16Max \in Nat /\ FixScale <= Int16Max
      BY FilesAssumption, ScaleAssumption
    <3>2. lo \in Int /\ hi \in Int
      BY <1>0, <3>1 DEF OutputTypes
    <3>3. \A r \in Records : g(r) \in -FixScale..FixScale
      BY <1>0, GridTypes DEF Coord
    <3> HIDE DEF g
    <3>4. \A r \in Records : g(r) \in Int /\ g(r) <= Int16Max /\ -Int16Max - 1 <= g(r)
      BY <3>1, <3>3
    <3> QED
      BY <3>1, <3>2, <3>4
  <2>2. mn'[e][j] = Smaller(g(i), lo) /\ mx'[e][j] = Larger(g(i), hi)
    BY <1>f
  <2>3. Got(e) \subseteq Records
    BY <1>0, Subsets
  <2>4. CASE Got(e) = {}
    <3>1. lo = Int16Max /\ hi = -Int16Max - 1
      BY <1>1, <2>4 DEF LayoutInv, Tight
    <3>2. Got(e)' = {i}
      BY <1>1, <2>4
    <3> HIDE DEF g, lo, hi
    <3>3. mn'[e][j] = g(i) /\ mx'[e][j] = g(i) /\ g(i) \in Int
      BY <1>1, <2>1, <2>2, <3>1 DEF Smaller, Larger
    <3>4. g(i) <= g(i)
      BY <3>3
    <3> QED
      BY <3>2, <3>3, <3>4 DEF g
  <2>5. CASE Got(e) # {}
    <3>1. /\ \E r \in Got(e) : lo = g(r)
          /\ \E r \in Got(e) : hi = g(r)
          /\ \A r \in Got(e) : lo <= g(r) /\ g(r) <= hi
      BY <1>1, <2>5 DEF LayoutInv, Tight, Touches
    <3> HIDE DEF g, lo, hi
    <3>2. \A r \in Got(e) : g(r) \in Int
      BY <2>1, <2>3
    <3>3. g(i) \in Int
      BY <1>1, <2>1
    <3>4. \E r \in Got(e) \cup {i} : mn'[e][j] = g(r)
      BY <2>2, <3>1 DEF Smaller
    <3>5. \E r \in Got(e) \cup {i} : mx'[e][j] = g(r)
      BY <2>2, <3>1 DEF Larger
    <3>6. \A r \in Got(e) : mn'[e][j] <= g(r) /\ g(r) <= mx'[e][j]
      BY <2>1, <2>2, <3>1, <3>2, <3>3 DEF Smaller, Larger
    <3>7. mn'[e][j] <= g(i) /\ g(i) <= mx'[e][j]
      BY <2>1, <2>2, <3>3 DEF Smaller, Larger
    <3> QED
      BY <1>1, <3>4, <3>5, <3>6, <3>7 DEF g
  <2> QED
    BY <2>4, <2>5
<1>4. \A d \in Clusters \ {e} : \A j \in Dims : Touches(d, j)' = Touches(d, j)
  BY <1>1, <1>e, <1>2 DEF Touches
<1>5. \A j \in Dims : Touches(e, j)'
  BY <1>2, <1>3 DEF Touches
<1>6. Got(e)' # {}
  BY <1>1
<1> QED
  BY <1>1, <1>e, <1>4, <1>5, <1>6 DEF LayoutInv, Tight

\* Every box starts inside out, and no position is filled.
LEMMA BeginLayout ==
  ASSUME IInv, BeginPlacing
  PROVE  LayoutInv'
<1>1. /\ i' = 0 /\ phase' = "place" /\ offsets' = offsets
      /\ writePos' = [e \in Clusters |-> offsets[e]]
      /\ mn' = [e \in Clusters |-> [j \in Dims |-> Int16Max]]
      /\ mx' = [e \in Clusters |-> [j \in Dims |-> -Int16Max - 1]]
  BY DEF BeginPlacing, output
<1>2. \A e \in Clusters : offsets[e] \in Nat
  <2>1. offsets \in [0..K -> Nat]
    BY DEF IInv, Types
  <2>2. \A e \in Clusters : e \in 0..K
    BY ClusterAssumption DEF Clusters
  <2> QED
    BY <2>1, <2>2
<1>3. \A e \in Clusters : Got(e)' = {} /\ Filled(e)' = {}
  BY <1>1, <1>2 DEF Got, Filled
<1>4. Copied'
  BY <1>3 DEF Copied
<1>5. Tight'
  BY <1>1, <1>3 DEF Tight
<1> QED
  BY <1>4, <1>5 DEF LayoutInv

\* Clusters without records have their boxes reset, the others keep theirs.
LEMMA ResetLayout ==
  ASSUME IInv, LayoutInv, ResetEmptyBoxes
  PROVE  LayoutInv'
<1>0. Types /\ OutputTypes /\ Counting
  BY DEF IInv
<1>1. /\ file' = file /\ i' = i /\ i = file.n /\ assign' = assign /\ offsets' = offsets
      /\ writePos' = writePos /\ vec' = vec /\ label' = label /\ id' = id
      /\ phase = "place" /\ phase' = "built" /\ phase \in Late
      /\ mn' = [e \in Clusters |-> [j \in Dims |-> IF counts[e] = 0 THEN 0 ELSE mn[e][j]]]
      /\ mx' = [e \in Clusters |-> [j \in Dims |-> IF counts[e] = 0 THEN 0 ELSE mx[e][j]]]
  BY DEF ResetEmptyBoxes, sizes, Late
<1>2. /\ \A e : Got(e)' = Got(e) /\ Filled(e)' = Filled(e)
      /\ \A r : Grid(r)' = Grid(r) /\ PositionOf(r)' = PositionOf(r)
  BY <1>1 DEF Got, Filled, Grid, PositionOf, Earlier
<1>3. \A e \in Clusters : counts[e] = 0 <=> Got(e) = {}
  <2> TAKE e \in Clusters
  <2>1. counts[e] = Cardinality(Got(e))
    BY <1>0, <1>1 DEF Counting, Early, All, Got, Records
  <2>2. IsFiniteSet(Got(e))
    BY <1>0, RecordsFinite, Subsets
  <2> QED
    BY <2>1, <2>2, FS_EmptySet
<1>4. \A e \in Clusters, j \in Dims :
        /\ Got(e) = {} => mn'[e][j] = 0 /\ mx'[e][j] = 0
        /\ Got(e) # {} => mn'[e][j] = mn[e][j] /\ mx'[e][j] = mx[e][j]
  BY <1>1, <1>3
<1>5. Copied'
  BY <1>1, <1>2 DEF LayoutInv, Copied, Late
<1>6. ASSUME NEW e \in Clusters, NEW j \in Dims, Got(e) # {} PROVE Touches(e, j)'
  <2>1. Touches(e, j)
    BY <1>1, <1>6 DEF LayoutInv, Tight
  <2> QED
    BY <1>2, <1>4, <1>6, <2>1 DEF Touches
<1>7. Tight'
  <2>1. phase' = "built" /\ \A e : Got(e)' = Got(e)
    BY <1>1, <1>2
  <2>2. \A e \in Clusters, j \in Dims : Got(e) = {} => mn'[e][j] = 0 /\ mx'[e][j] = 0
    BY <1>4
  <2>3. \A e \in Clusters, j \in Dims : Got(e) # {} => Touches(e, j)'
    BY <1>6
  <2> QED
    BY <2>1, <2>2, <2>3 DEF Tight
<1> QED
  BY <1>5, <1>7 DEF LayoutInv

LEMMA LayoutStep == IInv /\ LayoutInv /\ [Next]_vars => LayoutInv'
<1> SUFFICES ASSUME IInv, LayoutInv, [Next]_vars PROVE LayoutInv'
  OBVIOUS
<1>1. CASE NoRecords \/ Train \/ AssignRecord \/ BeginOffsets \/ AddOffset
  <2>1. phase' \notin Late
    BY <1>1 DEF NoRecords, Train, AssignRecord, BeginOffsets, AddOffset, Late
  <2> QED
    BY <2>1 DEF LayoutInv, Copied, Tight, Late
<1>2. CASE BeginPlacing
  BY <1>2, BeginLayout
<1>3. CASE PlaceRecord
  BY <1>3, PlaceCopied, PlaceTight DEF LayoutInv
<1>4. CASE ResetEmptyBoxes
  BY <1>4, ResetLayout
<1>5. CASE UNCHANGED vars
  <2>1. /\ file' = file /\ i' = i /\ assign' = assign /\ offsets' = offsets
        /\ writePos' = writePos /\ vec' = vec /\ label' = label /\ id' = id
        /\ phase' = phase /\ mn' = mn /\ mx' = mx
    BY <1>5 DEF vars, loop, sizes, output
  <2>2. /\ \A e : Got(e)' = Got(e) /\ Filled(e)' = Filled(e)
        /\ \A r : Grid(r)' = Grid(r) /\ PositionOf(r)' = PositionOf(r)
    BY <2>1 DEF Got, Filled, Grid, PositionOf, Earlier
  <2>3. \A e, j : Touches(e, j)' = Touches(e, j)
    BY <2>1, <2>2 DEF Touches
  <2>4. Copied'
    BY <2>1, <2>2 DEF LayoutInv, Copied
  <2>5. Tight'
    BY <2>1, <2>2, <2>3 DEF LayoutInv, Tight
  <2> QED
    BY <2>4, <2>5 DEF LayoutInv
<1> QED
  BY <1>1, <1>2, <1>3, <1>4, <1>5 DEF Next

\* The records that precede another in the layout are counted by its position.
LEMMA BeforeCounts ==
  ASSUME Types, Offsets, c = K, NEW r \in Records
  PROVE  Cardinality(Before(assign, file.n, r)) = PositionOf(r)
<1> DEFINE b == Below(assign[r])
           e == Earlier(r)
<1>1. /\ \A q \in Records : assign[q] \in Clusters /\ assign[q] \in Int
      /\ file.n \in Nat /\ assign[r] \in 0..K
  BY FileFacts DEF Clusters
<1>2. \A q : q \in 0..(r - 1) <=> q \in Records /\ q < r
  BY <1>1 DEF Records
<1>3. Before(assign, file.n, r) = b \cup e /\ b \cap e = {}
  BY <1>1, <1>2 DEF Before, Below, Earlier, Records
<1>4. b \subseteq Records /\ e \subseteq Records
  BY <1>2 DEF Below, Earlier
<1>5. /\ IsFiniteSet(b) /\ IsFiniteSet(e) /\ Cardinality(b) \in Nat /\ Cardinality(e) \in Nat
  BY <1>4, RecordsFinite
<1>6. offsets[assign[r]] = Cardinality(b)
  BY <1>1 DEF Offsets
<1> HIDE DEF b, e
<1>7. Cardinality(b \cup e) = Cardinality(b) + Cardinality(e)
  <2>1. Cardinality(b \cup e) = Cardinality(b) + Cardinality(e) - Cardinality(b \cap e)
    BY <1>5, FS_Union
  <2>2. Cardinality(b \cap e) = 0
    BY <1>3, FS_EmptySet
  <2> QED
    BY <1>5, <2>1, <2>2
<1> QED
  BY <1>3, <1>6, <1>7, Zenon DEF PositionOf, e

\* No two records are preceded by equally many.
LEMMA BeforeDiffers ==
  ASSUME Types, NEW r \in Records, NEW s \in Records, r # s
  PROVE  Cardinality(Before(assign, file.n, r)) # Cardinality(Before(assign, file.n, s))
<1> DEFINE B(q) == Before(assign, file.n, q)
<1>1. \A q \in Records : assign[q] \in Int /\ q \in Int
  BY FileFacts DEF Clusters, Records
<1>2. \A q, t \in Records : q \in B(t) <=> assign[q] < assign[t] \/ (assign[q] = assign[t] /\ q < t)
  BY DEF Before, Records
<1>3. \A q : B(q) \subseteq Records
  BY DEF Before, Records
<1> HIDE DEF B
<1>4. \A q \in Records : IsFiniteSet(B(q)) /\ Cardinality(B(q)) \in Nat
  BY <1>3, RecordsFinite
<1>5. ASSUME NEW q \in Records, NEW t \in Records, q \in B(t)
      PROVE  Cardinality(B(q)) # Cardinality(B(t))
  <2>1. B(q) \subseteq B(t) /\ q \notin B(q)
    <3>1. q \notin B(q)
      BY <1>1, <1>2
    <3>2. ASSUME NEW x \in B(q) PROVE x \in B(t)
      <4>1. x \in Records
        BY <1>3
      <4> QED
        BY <1>1, <1>2, <1>5, <4>1
    <3> QED
      BY <3>1, <3>2
  <2>2. B(q) # B(t)
    BY <1>5, <2>1
  <2> QED
    BY <1>4, <2>1, <2>2, FS_Subset
<1>6. r \in B(s) \/ s \in B(r)
  BY <1>1, <1>2
<1>7. Cardinality(B(r)) # Cardinality(B(s))
  BY <1>5, <1>6
<1> QED
  BY <1>7 DEF B

LEMMA LeastIs ==
  ASSUME NEW S \in SUBSET Int, NEW x \in S, \A y \in S : x <= y
  PROVE  Least(S) = x
<1>1. \A z \in S : (\A y \in S : z <= y) => z = x
  OBVIOUS
<1> QED
  BY <1>1 DEF Least

LEMMA GreatestIs ==
  ASSUME NEW S \in SUBSET Int, NEW x \in S, \A y \in S : y <= x
  PROVE  Greatest(S) = x
<1>1. \A z \in S : (\A y \in S : y <= z) => z = x
  OBVIOUS
<1> QED
  BY <1>1 DEF Greatest

\* The loops of cmd/preprocess compute the index that the records and their
\* assignment determine (main.go 74-150).
THEOREM BuildsTheLayout == Spec => []BuiltIsTheLayout
<1>1. IInv /\ LayoutInv => BuiltIsTheLayout
  <2> SUFFICES ASSUME IInv, LayoutInv, phase = "built"
               PROVE  Built = LayoutOf(file.n,
                                [r \in Records |-> [j \in Dims |-> Quantize(file.raw[r][j])]],
                                file.label, assign)
    BY DEF BuiltIsTheLayout
  <2> DEFINE G == [r \in Records |-> [j \in Dims |-> Quantize(file.raw[r][j])]]
             n == file.n
             F == [p \in 0..(n - 1) |-> RecordAt(assign, n, p)]
             C(e, j) == IF Group(assign, n, e) = {} THEN {0}
                        ELSE {G[r][j] : r \in Group(assign, n, e)}
             O == [e \in 0..K |-> Cardinality({r \in 0..(n - 1) : assign[r] < e})]
             V == [p \in 0..(n - 1) |-> G[F[p]]]
             L == [p \in 0..(n - 1) |-> file.label[F[p]]]
             M == [e \in Clusters |-> [j \in Dims |-> Least(C(e, j))]]
             X == [e \in Clusters |-> [j \in Dims |-> Greatest(C(e, j))]]
  <2>0. /\ Types /\ OutputTypes /\ Offsets /\ Writes /\ Placed /\ BoxesOnGrid
        /\ phase \in Late /\ i = file.n /\ c = K /\ Records = 0..(n - 1)
    BY DEF IInv, Types, Late, Records
  <2>1. LayoutOf(n, G, file.label, assign)
          = [n |-> n, offsets |-> O, vec |-> V, label |-> L, id |-> F, mn |-> M, mx |-> X]
    BY DEF LayoutOf
  <2>2. \A p \in Records : /\ id[p] \in Records
                           /\ vec[p] = Grid(id[p]) /\ label[p] = file.label[id[p]]
                           /\ p = PositionOf(id[p])
    <3> TAKE p \in Records
    <3>1. PICK e \in Clusters : p \in Filled(e)
      BY AllFilled
    <3> QED
      BY <2>0, <3>1 DEF Placed, LayoutInv, Copied, Records
  <2>3. id = F
    <3>1. ASSUME NEW p \in Records PROVE RecordAt(assign, n, p) = id[p]
      <4>1. id[p] \in Records /\ Cardinality(Before(assign, n, id[p])) = p
        BY <2>0, <2>2, BeforeCounts
      <4>2. \A r \in Records : Cardinality(Before(assign, n, r)) = p => r = id[p]
        BY <2>0, <4>1, BeforeDiffers
      <4> QED
        BY <2>0, <4>1, <4>2 DEF RecordAt
    <3> QED
      BY <2>0, <3>1 DEF OutputTypes
  <2>4. offsets = O
    <3>1. \A e \in 0..K : offsets[e] = Cardinality({r \in 0..(n - 1) : assign[r] < e})
      BY <2>0 DEF Offsets, Below
    <3> QED
      BY <2>0, <3>1 DEF Types
  <2>5. \A r \in Records : G[r] = Grid(r)
    BY DEF Grid
  <2> HIDE DEF F, G
  <2>6. vec = V
    <3>1. \A p \in Records : vec[p] = G[F[p]]
      BY <2>2, <2>3, <2>5
    <3>2. vec = [p \in Records |-> vec[p]]
      BY <2>0 DEF OutputTypes
    <3> QED
      BY <2>0, <3>1, <3>2
  <2>7. label = L
    BY <2>0, <2>2, <2>3 DEF OutputTypes
  <2>8. ASSUME NEW e \in Clusters, NEW j \in Dims
        PROVE  mn[e][j] = Least(C(e, j)) /\ mx[e][j] = Greatest(C(e, j))
    <3>1. Group(assign, n, e) = Got(e)
      BY <2>0 DEF Group, Got
    <3>2. Got(e) \subseteq Records
      BY <2>0, Subsets
    <3>3. CASE Got(e) = {}
      <4>1. mn[e][j] = 0 /\ mx[e][j] = 0 /\ C(e, j) = {0}
        BY <2>0, <3>1, <3>3 DEF LayoutInv, Tight
      <4>2. {0} \in SUBSET Int /\ 0 \in {0} /\ \A y \in {0} : 0 <= y /\ y <= 0
        OBVIOUS
      <4>3. Least({0}) = 0 /\ Greatest({0}) = 0
        BY <4>2, LeastIs, GreatestIs
      <4> QED
        BY <4>1, <4>3
    <3>4. CASE Got(e) # {}
      <4> DEFINE S == {Grid(r)[j] : r \in Got(e)}
      <4>1. C(e, j) = S
        <5>1. C(e, j) = {G[r][j] : r \in Got(e)}
          BY <3>1, <3>4
        <5>2. \A r \in Got(e) : G[r][j] = Grid(r)[j]
          BY <2>5, <3>2
        <5> QED
          BY <5>1, <5>2
      <4>2. S \in SUBSET Int
        BY <2>0, <3>2, GridTypes
      <4>3. Touches(e, j)
        BY <2>0, <3>4 DEF LayoutInv, Tight
      <4>4. /\ mn[e][j] \in S /\ mx[e][j] \in S
            /\ \A y \in S : mn[e][j] <= y /\ y <= mx[e][j]
        BY <4>3 DEF Touches
      <4> HIDE DEF S
      <4>5. Least(S) = mn[e][j] /\ Greatest(S) = mx[e][j]
        BY <4>2, <4>4, LeastIs, GreatestIs
      <4> QED
        BY <4>1, <4>5
    <3> QED
      BY <3>3, <3>4
  <2> HIDE DEF C, n
  <2>9. mn = M /\ mx = X
    <3>1. /\ mn \in [Clusters -> [Dims -> (-FixScale)..Int16Max]]
          /\ mx \in [Clusters -> [Dims -> (-Int16Max - 1)..FixScale]]
      BY <2>0 DEF OutputTypes
    <3>2. mn = M
      BY <2>8, <3>1
    <3>3. mx = X
      BY <2>8, <3>1
    <3> QED
      BY <3>2, <3>3
  <2> HIDE DEF O, V, L, M, X
  <2>10. Built = [n |-> n, offsets |-> O, vec |-> V, label |-> L, id |-> F, mn |-> M, mx |-> X]
    BY <2>3, <2>4, <2>6, <2>7, <2>9, Zenon DEF Built, n
  <2> QED
    BY <2>1, <2>10, Zenon DEF G, n
<1>2. Init => LayoutInv
  BY DEF Init, LayoutInv, Copied, Tight, Late
<1>3. Spec => []LayoutInv
  BY <1>2, LayoutStep, Invariance, PTL DEF Spec
<1> QED
  BY <1>1, <1>3, Invariance, PTL
=============================================================================
