------------------------------ MODULE TopFive -------------------------------
(***************************************************************************)
(* The running list of the five best candidates (kernel.Top5 in Go,        *)
(* sketchy_top5_t in C).  The list is not kept sorted: the index of its    *)
(* worst entry and that entry's distance and id are cached, because the    *)
(* hot loop compares every record against them.                            *)
(*                                                                         *)
(* A candidate is a record with its squared distance d, the position id    *)
(* of the vector in references.json.gz, and its label l (1 = fraud).       *)
(***************************************************************************)
EXTENDS Metric, FiniteSets

CONSTANT MaxId   \* UINT32_MAX, the id of an empty slot

ASSUME IdAssumption == MaxId \in Nat

Slots == 0..4

Candidates == [d : 0..MaxDist, id : 0..MaxId, l : {0, 1}]

\* Smaller distance first, then smaller original id.
Better(a, b) == a.d < b.d \/ (a.d = b.d /\ a.id < b.id)
Worse(a, b)  == a.d > b.d \/ (a.d = b.d /\ a.id > b.id)

\* What the hot loop compares with: the cached pair, not the slot itself.
WorstPair(t) == [d |-> t.worstD, id |-> t.worstId]

EmptySlot == [d |-> MaxDist, id |-> MaxId, l |-> 0]

ResetTop == [best    |-> [s \in Slots |-> EmptySlot],
             worst   |-> 0,
             worstD  |-> MaxDist,
             worstId |-> MaxId]

\* Index of the worst entry; the first one on equal pairs.
FindWorst(b) ==
  LET w1 == IF Worse(b[1], b[0])  THEN 1 ELSE 0
      w2 == IF Worse(b[2], b[w1]) THEN 2 ELSE w1
      w3 == IF Worse(b[3], b[w2]) THEN 3 ELSE w2
  IN  IF Worse(b[4], b[w3]) THEN 4 ELSE w3

\* A mutant: the cached worst entry is not refreshed.
TryInsertStale(t, c) ==
  IF Better(c, WorstPair(t))
  THEN [t EXCEPT !.best = [@ EXCEPT ![t.worst] = c]]
  ELSE t

\* Overwrite the worst entry if c beats it, then find the new worst one.
TryInsert(t, c) ==
  IF Better(c, WorstPair(t))
  THEN LET b == [t.best EXCEPT ![t.worst] = c]
           w == FindWorst(b)
       IN  [best |-> b, worst |-> w, worstD |-> b[w].d, worstId |-> b[w].id]
  ELSE t

\* Number of fraud votes in the list.
Frauds(t) == Cardinality({s \in Slots : t.best[s].l = 1})

\* The invariant of the list: the cached pair is that of a slot, and no slot is
\* worse.
WorstCached(t) ==
  /\ t.worstD = t.best[t.worst].d /\ t.worstId = t.best[t.worst].id
  /\ \A s \in Slots : ~Worse(t.best[s], WorstPair(t))

Tops == [best : [Slots -> Candidates], worst : Slots,
         worstD : 0..MaxDist, worstId : 0..MaxId]
=============================================================================
