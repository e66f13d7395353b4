----------------------------- MODULE IvfSearch ------------------------------
(***************************************************************************)
(* One fraud search over the IVF index, step by step: the probe pass scans *)
(* the nprobe clusters with the closest centroids, the repair pass then    *)
(* scans every other cluster whose bounding box comes as close to the      *)
(* query as the worst of the five candidates found so far.                 *)
(*                                                                         *)
(* Three builds of the kernel are modelled, chosen by the input kernel:    *)
(*   "avx2"  C with AVX2: blocks of Lanes records without early exit, the  *)
(*           rest of a cluster by the scalar loop                          *)
(*   "c"     C without AVX2: the scalar loop only                          *)
(*   "go"    the pure Go fallback: the scalar loop, and a different way of *)
(*           choosing the clusters to probe                                *)
(*                                                                         *)
(* The query is the quantised one.  The penalty of a cluster stands for    *)
(* the float distance of its centroid: any function is allowed, because    *)
(* exactness must not depend on how good the centroids are.  FltMax stands *)
(* for any distance that overflows; NaN is not modelled.                   *)
(***************************************************************************)
EXTENDS IvfIndex

CONSTANTS
  Lanes,      \* records per vector block, 8 in the code
  FltMax,     \* FLT_MAX; a penalty that is not below it is never chosen
  Problems,   \* the <<index, query>> pairs searched
  Penalties,  \* the centroid penalties, functions from clusters to numbers
  NProbes,    \* values of SearchOpts.NProbe
  Kernels     \* the builds of the kernel

ASSUME LanesAssumption == Lanes \in Nat \ {0} /\ FltMax \in Nat

\* What the callers pass.  Preprocess shows that its files are well formed.
ASSUME InputAssumption ==
  /\ \A pr \in Problems : WellFormed(pr[1]) /\ pr[2] \in Points
  /\ Penalties \subseteq [Clusters -> 0..FltMax]
  /\ NProbes \subseteq Int
  /\ Kernels \subseteq {"avx2", "c", "go"}

VARIABLES
  problem, penalty, rawNProbe, kernel,   \* inputs of the call
  phase,      \* where the search is
  nprobe,     \* the normalised number of probes
  k,          \* counter of the loop of the current phase
  probes,     \* C only: the nprobe closest clusters so far, closest first
  cur,        \* cluster being scanned, -1 between scans
  i,          \* next record of the scan
  scanned,    \* clusters flagged by the probe pass
  top,        \* the running top five
  clusters, vectors,   \* work statistics
  frauds      \* the answer

inputs == <<problem, penalty, rawNProbe, kernel>>
scan   == <<cur, i>>
stats  == <<clusters, vectors>>
vars   == <<inputs, phase, nprobe, k, probes, scan, scanned, top, stats, frauds>>

Ix    == problem[1]
Query == problem[2]

Start(c) == Ix.offsets[c]
End(c)   == Ix.offsets[c + 1]

-----------------------------------------------------------------------------
(* Choosing the clusters to probe. *)

NormalizeNProbe(n) == IF n < 1 THEN 1 ELSE IF n > K THEN K ELSE n

NoProbe == [c |-> -1, p |-> FltMax]

\* A mutant: no break after the first entry that c beats.
InsertProbeEverywhere(list, n, c, p) ==
  [m \in 0..(n - 1) |-> IF list[m].p <= p THEN list[m] ELSE [c |-> c, p |-> p]]

\* A mutant: the entry that c replaces is dropped, not moved up.
InsertProbeOver(list, n, c, p) ==
  [m \in 0..(n - 1) |->
     IF list[m].p > p /\ (m = 0 \/ list[m - 1].p <= p)
     THEN [c |-> c, p |-> p] ELSE list[m]]

\* insert_probe_cluster: insertion into the sorted list of the n clusters of
\* smallest penalty.  Entries that p does not beat stay, c takes the place of
\* the first one that it beats, the rest moves up by one and the last drops out.
InsertProbe(list, n, c, p) ==
  [m \in 0..(n - 1) |->
     IF list[m].p <= p THEN list[m]
     ELSE IF m = 0 \/ list[m - 1].p <= p THEN [c |-> c, p |-> p]
     ELSE list[m - 1]]

\* closestUnscannedCluster: the first cluster of smallest penalty.
Open == {c \in Clusters : ~scanned[c] /\ penalty[c] < FltMax}

ClosestUnscanned ==
  {c \in Open : \A e \in Open :
     penalty[c] < penalty[e] \/ (penalty[c] = penalty[e] /\ c <= e)}

\* The cluster of probe k, -1 if there is none left.
ProbeTargets ==
  IF kernel # "go" THEN {probes[k].c}
  ELSE IF Open = {} THEN {-1} ELSE ClosestUnscanned

-----------------------------------------------------------------------------
Init ==
  /\ problem \in Problems /\ penalty \in Penalties
  /\ rawNProbe \in NProbes /\ kernel \in Kernels
  /\ phase = "start"
  /\ nprobe = 1 /\ k = 0 /\ probes = <<>>
  /\ cur = -1 /\ i = 0
  /\ scanned = [c \in Clusters |-> FALSE]
  /\ top = ResetTop
  /\ clusters = 0 /\ vectors = 0
  /\ frauds = 0

\* Search and SearchStats answer 0 for an empty index, before the kernel runs.
SearchEmpty ==
  /\ phase = "start" /\ Ix.n = 0
  /\ phase' = "done"
  /\ UNCHANGED <<inputs, nprobe, k, probes, scan, scanned, top, stats, frauds>>

Begin ==
  /\ phase = "start" /\ Ix.n # 0
  /\ phase' = IF kernel = "go" THEN "probe" ELSE "select"
  /\ nprobe' = NormalizeNProbe(rawNProbe)
  /\ probes' = IF kernel = "go" THEN probes
               ELSE [m \in 0..(nprobe' - 1) |-> NoProbe]
  /\ UNCHANGED <<inputs, k, scan, scanned, top, stats, frauds>>

\* One cluster of the loop that fills the probe list.
SelectProbe ==
  /\ phase = "select" /\ k < K
  /\ probes' = InsertProbe(probes, nprobe, k, penalty[k])
  /\ k' = k + 1
  /\ UNCHANGED <<inputs, phase, nprobe, scan, scanned, top, stats, frauds>>

BeginProbe ==
  /\ phase = "select" /\ k = K
  /\ phase' = "probe" /\ k' = 0
  /\ UNCHANGED <<inputs, nprobe, probes, scan, scanned, top, stats, frauds>>

\* A probe of an empty cluster does nothing; only the Go build flags it.  With
\* no cluster left the Go build leaves the loop: its last probes do nothing.
ProbeSkip ==
  /\ phase = "probe" /\ cur = -1 /\ k < nprobe
  /\ \E c \in ProbeTargets :
         /\ c >= 0 => ~NonEmpty(Ix, c)
         /\ scanned' = IF kernel = "go" /\ c >= 0
                       THEN [scanned EXCEPT ![c] = TRUE] ELSE scanned
  /\ k' = k + 1
  /\ UNCHANGED <<inputs, phase, nprobe, probes, scan, top, stats, frauds>>

\* A mutant: the cluster is not flagged.
ProbeScanUnflagged ==
  /\ phase = "probe" /\ cur = -1 /\ k < nprobe
  /\ \E c \in ProbeTargets :
         /\ c >= 0 /\ NonEmpty(Ix, c)
         /\ cur' = c /\ i' = Start(c)
  /\ UNCHANGED <<inputs, phase, nprobe, k, probes, scanned, top, stats, frauds>>

\* The C kernel flags the cluster before it scans it, the Go one right after;
\* nothing reads the flag in between.
ProbeScan ==
  /\ phase = "probe" /\ cur = -1 /\ k < nprobe
  /\ \E c \in ProbeTargets :
         /\ c >= 0 /\ NonEmpty(Ix, c)
         /\ scanned' = [scanned EXCEPT ![c] = TRUE]
         /\ cur' = c /\ i' = Start(c)
  /\ UNCHANGED <<inputs, phase, nprobe, k, probes, top, stats, frauds>>

\* A mutant: the list is reset between the passes.
BeginRepairResetsTop ==
  /\ phase = "probe" /\ cur = -1 /\ k = nprobe
  /\ phase' = "repair" /\ k' = 0 /\ top' = ResetTop
  /\ UNCHANGED <<inputs, nprobe, probes, scan, scanned, stats, frauds>>

\* A mutant: the counter of the probe pass is not reset.
BeginRepairKeepsK ==
  /\ phase = "probe" /\ cur = -1 /\ k = nprobe
  /\ phase' = "repair"
  /\ UNCHANGED <<inputs, nprobe, k, probes, scan, scanned, top, stats, frauds>>

BeginRepair ==
  /\ phase = "probe" /\ cur = -1 /\ k = nprobe
  /\ phase' = "repair" /\ k' = 0
  /\ UNCHANGED <<inputs, nprobe, probes, scan, scanned, top, stats, frauds>>

\* A mutant: a box as far as the worst entry is skipped, ids notwithstanding.
MustHoldBetter(c) ==
  BoxLowerBound(Query, Ix.mn[c], Ix.mx[c]) < top.worstD

\* The box is compared with the worst distance alone, not with its id.
MayHoldBetter(c) ==
  BoxLowerBound(Query, Ix.mn[c], Ix.mx[c]) <= top.worstD

RepairSkip ==
  /\ phase = "repair" /\ cur = -1 /\ k < K
  /\ scanned[k] \/ ~NonEmpty(Ix, k) \/ ~MayHoldBetter(k)
  /\ k' = k + 1
  /\ UNCHANGED <<inputs, phase, nprobe, probes, scan, scanned, top, stats, frauds>>

\* A mutant: clusters that the probe pass scanned are scanned again.
RepairScanAgain ==
  /\ phase = "repair" /\ cur = -1 /\ k < K
  /\ NonEmpty(Ix, k) /\ MayHoldBetter(k)
  /\ cur' = k /\ i' = Start(k)
  /\ UNCHANGED <<inputs, phase, nprobe, k, probes, scanned, top, stats, frauds>>

RepairScan ==
  /\ phase = "repair" /\ cur = -1 /\ k < K
  /\ ~scanned[k] /\ NonEmpty(Ix, k) /\ MayHoldBetter(k)
  /\ cur' = k /\ i' = Start(k)
  /\ UNCHANGED <<inputs, phase, nprobe, k, probes, scanned, top, stats, frauds>>

Finish ==
  /\ phase = "repair" /\ cur = -1 /\ k = K
  /\ phase' = "done" /\ frauds' = Frauds(top)
  /\ UNCHANGED <<inputs, nprobe, k, probes, scan, scanned, top, stats>>

-----------------------------------------------------------------------------
(* Scanning a cluster, one record per step. *)

\* A mutant: the number of blocks is rounded up.
LaneEndRoundedUp(c) ==
  IF kernel = "avx2"
  THEN Start(c) + ((End(c) - Start(c) + Lanes - 1) \div Lanes) * Lanes
  ELSE Start(c)

\* First record that the vector loop leaves to the scalar one.
LaneEnd(c) ==
  IF kernel = "avx2" THEN End(c) - ((End(c) - Start(c)) % Lanes) ELSE Start(c)

ScanLane ==
  /\ cur # -1 /\ i < LaneEnd(cur)
  /\ top' = TryInsert(top, [d  |-> LaneDist(Query, Ix.vec[i]),
                            id |-> Ix.id[i], l |-> Ix.label[i]])
  /\ i' = i + 1
  /\ UNCHANGED <<inputs, phase, nprobe, k, probes, cur, scanned, stats, frauds>>

ScanPrune ==
  /\ cur # -1 /\ i >= LaneEnd(cur) /\ i < End(cur)
  /\ EarlyExit(Terms(Query, Ix.vec[i]), top.worstD)
  /\ i' = i + 1
  /\ UNCHANGED <<inputs, phase, nprobe, k, probes, cur, scanned, top, stats, frauds>>

ScanRecord ==
  /\ cur # -1 /\ i >= LaneEnd(cur) /\ i < End(cur)
  /\ ~EarlyExit(Terms(Query, Ix.vec[i]), top.worstD)
  /\ top' = TryInsert(top, Cand(Ix, Query, i))
  /\ i' = i + 1
  /\ UNCHANGED <<inputs, phase, nprobe, k, probes, cur, scanned, stats, frauds>>

ScanEnd ==
  /\ cur # -1 /\ i = End(cur)
  /\ clusters' = clusters + 1
  /\ vectors' = vectors + (End(cur) - Start(cur))
  /\ cur' = -1 /\ k' = k + 1
  /\ UNCHANGED <<inputs, phase, nprobe, probes, i, scanned, top, frauds>>

Next ==
  \/ SearchEmpty \/ Begin \/ SelectProbe \/ BeginProbe
  \/ ProbeSkip \/ ProbeScan \/ BeginRepair
  \/ RepairSkip \/ RepairScan \/ Finish
  \/ ScanLane \/ ScanPrune \/ ScanRecord \/ ScanEnd

\* The search is a plain loop on the calling goroutine: it runs to its end.
Spec == Init /\ [][Next]_vars /\ WF_vars(Next)

-----------------------------------------------------------------------------
(* Properties. *)

\* Every variable stays in its domain: no slot, cluster number or record
\* position that the loops compute leaves the arrays it is used on.
TypeOK ==
  /\ phase \in {"start", "select", "probe", "repair", "done"}
  /\ nprobe \in 1..K
  /\ k \in 0..(IF phase = "probe" THEN nprobe ELSE K)
  /\ phase = "select" \/ (phase = "probe" /\ kernel # "go") =>
       probes \in [0..(nprobe - 1) -> [c : {-1} \cup Clusters, p : 0..FltMax]]
  /\ cur \in {-1} \cup Clusters
  /\ i \in 0..Ix.n
  /\ cur # -1 => i \in Start(cur)..End(cur)
  /\ scanned \in [Clusters -> BOOLEAN]
  /\ top \in Tops
  /\ clusters \in Nat /\ vectors \in Nat
  /\ frauds \in 0..5

\* A scan belongs to the probe pass and its cluster is flagged, or to the
\* repair pass and its cluster is not.
ScanContext ==
  /\ phase \in {"start", "select"} => scanned = [c \in Clusters |-> FALSE]
  /\ phase = "start" => k = 0
  /\ cur # -1 => \/ phase = "probe" /\ k < nprobe /\ scanned[cur]
                 \/ phase = "repair" /\ k = cur /\ ~scanned[cur]

\* No cluster is probed twice: the C probe list is sorted, names a cluster at
\* most once, and what is left of it is not flagged yet.  A second scan of a
\* cluster would give each of its records a second vote.
NoProbeRepeats ==
  /\ phase = "select" \/ (phase = "probe" /\ kernel # "go") =>
       \A a, b \in 0..(nprobe - 1) :
         /\ a < b => probes[a].p <= probes[b].p
         /\ a # b /\ probes[a].c # -1 => probes[a].c # probes[b].c
  /\ phase = "select" => \A a \in 0..(nprobe - 1) : probes[a].c < k
  /\ phase = "probe" /\ kernel # "go" =>
       \A a \in 0..(nprobe - 1) :
         probes[a].c # -1 /\ (a > k \/ (a = k /\ cur = -1)) => ~scanned[probes[a].c]

\* Records the search is done with: those of clusters already scanned or
\* passed over, and the scanned part of the current cluster.
HandledCluster(c) ==
  \/ phase = "done"
  \/ phase = "repair" /\ c < k
  \/ scanned[c] /\ c # cur

Handled ==
  {p \in Positions(Ix) : \E c \in Clusters :
     p \in Members(Ix, c) /\ (HandledCluster(c) \/ (c = cur /\ p < i))}

\* A filled slot holds a record that was handled, with its own distance.
SlotsAreHandled ==
  \A s \in Slots : \/ top.best[s] = EmptySlot
                   \/ \E p \in Handled : top.best[s] = Cand(Ix, Query, p)

\* No record has two votes.
SlotsAreDistinct ==
  \A s, t \in Slots :
    s # t /\ top.best[s] # EmptySlot => top.best[s].id # top.best[t].id

\* A handled record that is not in the list does not beat its worst entry,
\* also when its cluster was never scanned.
NothingBetterIsLost ==
  \A p \in Handled : \/ \E s \in Slots : top.best[s] = Cand(Ix, Query, p)
                     \/ ~Better(Cand(Ix, Query, p), WorstPair(top))

\* At every step the list is the exact top five of the records handled so far:
\* neither early exit, stale cached worst, lane remainder, cluster order, a
\* cluster met by both passes nor a skipped box loses or doubles a record
\* (search.go:10-12, top5.go:23-25).
TopHoldsTheBest ==
  WorstCached(top) /\ SlotsAreHandled /\ SlotsAreDistinct /\ NothingBetterIsLost

\* The answer is the brute-force answer, for every kernel, number of probes and
\* placement of the centroids (TestSearchMatchesBruteForce).
ExactAnswer == phase = "done" => frauds = BruteForceFrauds(Ix, Query)

\* The probe pass flags exactly the non-empty clusters among the nprobe closest
\* (ties to the smaller number), whether the insertion list of C or the
\* repeated minimum of Go chose them; Go may flag empty ones as well.  The
\* closest is probed whatever the nprobe, and no more than all can be.
Closer(c) ==
  {e \in Clusters : penalty[e] < penalty[c] \/ (penalty[e] = penalty[c] /\ e < c)}

ProbesAreClosest ==
  phase \in {"repair", "done"} /\ Ix.n > 0 =>
    \A c \in Clusters : NonEmpty(Ix, c) =>
      (scanned[c] <=> /\ penalty[c] < FltMax
                      /\ Closer(c) = {} \/ Cardinality(Closer(c)) < rawNProbe)

\* The statistics the profiler adds up count each cluster at most once and never
\* more records than the index has; a search in which every cluster was probed
\* reports all of them.
WorkIsCountedOnce ==
  phase = "done" =>
    /\ clusters <= Cardinality({c \in Clusters : NonEmpty(Ix, c)})
    /\ vectors <= Ix.n
    /\ vectors >= clusters
    /\ (\A c \in Clusters : NonEmpty(Ix, c) => scanned[c]) => vectors = Ix.n

\* The worst entry of the list only ever gets better, also from the probe pass
\* to the repair pass: that is what makes a box skipped once skippable for good.
WorstOnlyImproves == [][~Worse(WorstPair(top'), WorstPair(top))]_vars

\* The search implements the one-step brute-force search, and so it also
\* terminates.
Abstract == INSTANCE BruteForce WITH
  None    <- -1,
  problem <- <<Ix, Query>>,
  answer  <- IF phase = "done" THEN frauds ELSE -1

ImplementsBruteForce == Abstract!Spec
=============================================================================
