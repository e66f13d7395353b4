-------------------------- MODULE IvfSearchProofs ---------------------------
(***************************************************************************)
(* The search is exact, for every index, query, placement of centroids,    *)
(* number of probes and kernel, and for every scale, number of clusters    *)
(* and width of the vector blocks that the constants allow.                *)
(*                                                                         *)
(* The inductive invariant has five parts: the inputs are what the caller  *)
(* promised, the types, the context of a scan, the order of the probe      *)
(* list, and the property of interest, that the list holds the best of the *)
(* records handled so far.  The second to the fourth are needed for one    *)
(* fact: a record that is about to be compared has not been handled yet.   *)
(*                                                                         *)
(* First come facts about the operators the search is built from: the      *)
(* vector lanes do not overflow, the scalar loop gives up only on records  *)
(* that are too far away, the distance to a bounding box is a lower bound  *)
(* for every record in the box, and what one insertion does to the running *)
(* top five, for every list and candidate.                                 *)
(***************************************************************************)
EXTENDS IvfSearch, FiniteSetTheorems, FunctionTheorems, WellFoundedInduction, TLAPS

-----------------------------------------------------------------------------
(* Squares. *)

\* Squaring keeps the order of natural numbers.
LEMMA SquareMonotone ==
  ASSUME NEW a \in Nat, NEW b \in Nat, a <= b
  PROVE  a * a <= b * b
<1>1. a * a <= a * b
  BY SMT
<1>2. a * b <= b * b
  BY SMT
<1> QED
  BY <1>1, <1>2, SMT

\* The square of an integer is a natural number, whatever its sign.
LEMMA SquareNat ==
  ASSUME NEW a \in Int
  PROVE  Square(a) \in Nat /\ Square(-a) = Square(a)
<1>1. a * a >= 0
  <2>1. CASE a >= 0
    BY <2>1, SMT
  <2>2. CASE a < 0
    <3>1. -a \in Nat
      BY <2>2
    <3>2. (-a) * (-a) >= 0
      BY <3>1, SMT
    <3> QED
      BY <3>2, SMT
  <2> QED
    BY <2>1, <2>2
<1>2. (-a) * (-a) = a * a
  BY SMT
<1> QED
  BY <1>1, <1>2 DEF Square

\* Two coordinates differ by at most 2 * FixScale: the squared difference fits
\* a 32-bit lane (acc_dim, kernel_amd64.c:194).
LEMMA DifferenceSquare ==
  ASSUME NEW a \in Coord, NEW b \in Coord
  PROVE  /\ SqDiff(a, b) \in 0 .. 4 * (FixScale * FixScale)
         /\ SqDiff(b, a) = SqDiff(a, b)
         /\ LaneSquare(a - b) = SqDiff(a, b)
<1> DEFINE F == FixScale
<1>1. F \in Nat /\ a \in Int /\ b \in Int
  BY ScaleAssumption DEF Coord
<1>2. Square(a - b) \in Nat /\ Square(-(a - b)) = Square(a - b)
  BY <1>1, SquareNat
<1>3. -(a - b) = b - a
  BY <1>1
<1>4. Square(a - b) <= (2 * F) * (2 * F)
  <2>1. CASE a >= b
    <3>1. a - b \in Nat /\ a - b <= 2 * F
      BY <2>1, <1>1 DEF Coord
    <3> QED
      BY <3>1, <1>1, SquareMonotone DEF Square
  <2>2. CASE a < b
    <3>1. b - a \in Nat /\ b - a <= 2 * F
      BY <2>2, <1>1 DEF Coord
    <3>2. Square(b - a) <= (2 * F) * (2 * F)
      BY <3>1, <1>1, SquareMonotone DEF Square
    <3> QED
      BY <3>2, <1>2, <1>3
  <2> QED
    BY <1>1, <2>1, <2>2
<1>5. (2 * F) * (2 * F) = 4 * (F * F)
  BY <1>1, SMT
<1> DEFINE S == Square(a - b)
           B == 4 * (F * F)
<1>6. S \in Nat /\ B \in Nat /\ S <= B /\ B <= Int32Max /\ Int32Max \in Nat
  BY <1>1, <1>2, <1>4, <1>5, ScaleAssumption
<1>7. LaneSquare(a - b) = S
  BY <1>6 DEF LaneSquare
<1>8. S \in 0..B
  <2> HIDE DEF S, B
  <2> QED
    BY <1>6
<1> QED
  BY <1>2, <1>3, <1>7, <1>8 DEF SqDiff

-----------------------------------------------------------------------------
(* Sums of fourteen terms. *)

\* The sum of fourteen natural numbers is one.
LEMMA SumNat ==
  ASSUME NEW t \in [Dims -> Nat]
  PROVE  Sum14(t) \in Nat
<1> DEFINE t0 == t[0]  t1 == t[1]  t2 == t[2]  t3 == t[3]  t4 == t[4]
           t5 == t[5]  t6 == t[6]  t7 == t[7]  t8 == t[8]  t9 == t[9]
           t10 == t[10]  t11 == t[11]  t12 == t[12]  t13 == t[13]
<1>1. \A j \in Dims : t[j] \in Nat
  OBVIOUS
<1>2. /\ t0 \in Nat /\ t1 \in Nat /\ t2 \in Nat /\ t3 \in Nat
      /\ t4 \in Nat /\ t5 \in Nat /\ t6 \in Nat /\ t7 \in Nat
      /\ t8 \in Nat /\ t9 \in Nat /\ t10 \in Nat /\ t11 \in Nat
      /\ t12 \in Nat /\ t13 \in Nat
  BY <1>1 DEF Dims
<1>3. Sum14(t) = t5 + t6 + t2 + t0 + t7 + t8 + t11 + t12
                     + t9 + t10 + t1 + t13 + t3 + t4
  BY DEF Sum14
<1> HIDE DEF t0, t1, t2, t3, t4, t5, t6, t7, t8, t9, t10, t11, t12, t13
<1> QED
  BY <1>2, <1>3

\* The sum is monotone in every term.
LEMMA SumMonotone ==
  ASSUME NEW s \in [Dims -> Nat], NEW t \in [Dims -> Nat],
         \A j \in Dims : s[j] <= t[j]
  PROVE  Sum14(s) <= Sum14(t)
<1> DEFINE s0 == s[0]  s1 == s[1]  s2 == s[2]  s3 == s[3]  s4 == s[4]
           s5 == s[5]  s6 == s[6]  s7 == s[7]  s8 == s[8]  s9 == s[9]
           s10 == s[10]  s11 == s[11]  s12 == s[12]  s13 == s[13]
           t0 == t[0]  t1 == t[1]  t2 == t[2]  t3 == t[3]  t4 == t[4]
           t5 == t[5]  t6 == t[6]  t7 == t[7]  t8 == t[8]  t9 == t[9]
           t10 == t[10]  t11 == t[11]  t12 == t[12]  t13 == t[13]
<1>1. \A j \in Dims : s[j] \in Nat /\ t[j] \in Nat /\ s[j] <= t[j]
  OBVIOUS
<1>2. /\ s0 \in Nat /\ s1 \in Nat /\ s2 \in Nat /\ s3 \in Nat
      /\ s4 \in Nat /\ s5 \in Nat /\ s6 \in Nat /\ s7 \in Nat
      /\ s8 \in Nat /\ s9 \in Nat /\ s10 \in Nat /\ s11 \in Nat
      /\ s12 \in Nat /\ s13 \in Nat
  BY <1>1 DEF Dims
<1>3. /\ t0 \in Nat /\ t1 \in Nat /\ t2 \in Nat /\ t3 \in Nat
      /\ t4 \in Nat /\ t5 \in Nat /\ t6 \in Nat /\ t7 \in Nat
      /\ t8 \in Nat /\ t9 \in Nat /\ t10 \in Nat /\ t11 \in Nat
      /\ t12 \in Nat /\ t13 \in Nat
  BY <1>1 DEF Dims
<1>4. /\ s0 <= t0 /\ s1 <= t1 /\ s2 <= t2 /\ s3 <= t3 /\ s4 <= t4
      /\ s5 <= t5 /\ s6 <= t6 /\ s7 <= t7 /\ s8 <= t8 /\ s9 <= t9
      /\ s10 <= t10 /\ s11 <= t11 /\ s12 <= t12 /\ s13 <= t13
  BY <1>1 DEF Dims
<1>5. Sum14(s) = s5 + s6 + s2 + s0 + s7 + s8 + s11 + s12
                     + s9 + s10 + s1 + s13 + s3 + s4
  BY DEF Sum14
<1>6. Sum14(t) = t5 + t6 + t2 + t0 + t7 + t8 + t11 + t12
                     + t9 + t10 + t1 + t13 + t3 + t4
  BY DEF Sum14
<1> HIDE DEF s0, s1, s2, s3, s4, s5, s6, s7, s8, s9, s10, s11, s12, s13
<1> HIDE DEF t0, t1, t2, t3, t4, t5, t6, t7, t8, t9, t10, t11, t12, t13
<1> QED
  BY <1>2, <1>3, <1>4, <1>5, <1>6

\* Fourteen terms of at most b add up to at most 14 * b.
LEMMA SumBound ==
  ASSUME NEW b \in Nat, NEW t \in [Dims -> 0..b]
  PROVE  Sum14(t) \in 0 .. 14 * b
<1> DEFINE u == [j \in Dims |-> b]
<1>1. t \in [Dims -> Nat] /\ u \in [Dims -> Nat] /\ \A j \in Dims : t[j] <= u[j]
  OBVIOUS
<1>2. Sum14(t) <= Sum14(u) /\ Sum14(t) \in Nat
  BY <1>1, SumMonotone, SumNat
<1>3. Sum14(u) = 14 * b
  BY DEF Sum14, Dims
<1> QED
  BY <1>2, <1>3

-----------------------------------------------------------------------------
(* Distances. *)

\* The terms of a distance, and the distance, fit the ranges the kernels give
\* them; no distance reaches that of an empty slot.
LEMMA DistType ==
  ASSUME NEW q \in Points, NEW v \in Points
  PROVE  /\ Terms(q, v) \in [Dims -> Nat]
         /\ Dist(q, v) \in Nat
         /\ Dist(q, v) < MaxDist
<1> DEFINE B == 4 * (FixScale * FixScale)
<1>1. B \in Nat /\ 14 * B < MaxDist /\ MaxDist \in Nat
  <2>1. FixScale * FixScale \in Nat
    BY ScaleAssumption
  <2> QED
    BY <2>1, ScaleAssumption
<1>2. \A j \in Dims : SqDiff(q[j], v[j]) \in 0..B
  BY DifferenceSquare DEF Points
<1>3. Terms(q, v) \in [Dims -> 0..B]
  BY <1>2 DEF Terms
<1> HIDE DEF B
<1>4. Sum14(Terms(q, v)) \in 0 .. 14 * B
  BY <1>1, <1>3, SumBound
<1> QED
  BY <1>1, <1>3, <1>4 DEF Dist

\* The vector kernel computes the same distance as the scalar one: "the result
\* is bit-identical" (kernel_amd64.c:247-249).
THEOREM LanesAgree ==
  ASSUME NEW q \in Points, NEW v \in Points
  PROVE  LaneDist(q, v) = Dist(q, v)
<1>1. \A j \in Dims : LaneSquare(v[j] - q[j]) = SqDiff(q[j], v[j])
  BY DifferenceSquare DEF Points
<1>2. [j \in Dims |-> LaneSquare(v[j] - q[j])] = Terms(q, v)
  BY <1>1 DEF Terms
<1>3. Sum14(Terms(q, v)) >= 0
  BY DistType DEF Dist
<1> QED
  BY <1>2, <1>3 DEF LaneDist, Dist

\* The scalar loop gives up only on a record that is strictly farther away than
\* the current worst one: one whose distance ties is always compared by id.
THEOREM EarlyExitIsFar ==
  ASSUME NEW t \in [Dims -> Nat], NEW w \in Nat, EarlyExit(t, w)
  PROVE  Sum14(t) > w
<1>1. \A j \in Dims : t[j] \in Nat
  OBVIOUS
<1>2. /\ t[0] \in Nat /\ t[1] \in Nat /\ t[2] \in Nat /\ t[3] \in Nat
      /\ t[4] \in Nat /\ t[5] \in Nat /\ t[6] \in Nat /\ t[7] \in Nat
      /\ t[8] \in Nat /\ t[9] \in Nat /\ t[10] \in Nat /\ t[11] \in Nat
      /\ t[12] \in Nat /\ t[13] \in Nat
  BY <1>1 DEF Dims
<1> QED
  BY <1>2 DEF EarlyExit, Sum14

\* The distance from the query to a box is at most its distance to any point of
\* the box: a cluster skipped by the repair pass holds nothing closer.
THEOREM BoxIsLowerBound ==
  ASSUME NEW q \in Points, NEW v \in Points, NEW mn \in Points, NEW mx \in Points,
         \A j \in Dims : mn[j] <= v[j] /\ v[j] <= mx[j]
  PROVE  /\ BoxLowerBound(q, mn, mx) \in Nat
         /\ BoxLowerBound(q, mn, mx) <= Dist(q, v)
<1> DEFINE g == [j \in Dims |-> Square(Gap(q[j], mn[j], mx[j]))]
<1>1. ASSUME NEW j \in Dims
      PROVE  g[j] \in Nat /\ g[j] <= Terms(q, v)[j]
  <2> DEFINE x == q[j]
             y == v[j]
             lo == mn[j]
             hi == mx[j]
  <2>1. /\ x \in Int /\ y \in Int /\ lo \in Int /\ hi \in Int
        /\ lo <= y /\ y <= hi
    BY ScaleAssumption DEF Points, Coord
  <2>2. Terms(q, v)[j] = Square(x - y)
    BY DEF Terms, SqDiff
  <2>3. g[j] = Square(Gap(x, lo, hi))
    OBVIOUS
  <2> HIDE DEF x, y, lo, hi, g
  <2>4. Square(Gap(x, lo, hi)) \in Nat /\ Square(Gap(x, lo, hi)) <= Square(x - y)
    <3>1. Square(x - y) \in Nat /\ Square(-(x - y)) = Square(x - y)
      BY <2>1, SquareNat
    <3>2. CASE x < lo
      <4>1. Gap(x, lo, hi) = lo - x /\ lo - x \in Nat /\ y - x \in Nat /\ lo - x <= y - x
        BY <3>2, <2>1 DEF Gap
      <4>2. (lo - x) * (lo - x) <= (y - x) * (y - x) /\ (lo - x) * (lo - x) \in Nat
        BY <4>1, SquareMonotone
      <4>3. -(x - y) = y - x
        BY <2>1
      <4> QED
        BY <4>1, <4>2, <4>3, <3>1 DEF Square
    <3>3. CASE ~(x < lo) /\ x > hi
      <4>1. Gap(x, lo, hi) = x - hi /\ x - hi \in Nat /\ x - y \in Nat /\ x - hi <= x - y
        BY <3>3, <2>1 DEF Gap
      <4>2. (x - hi) * (x - hi) <= (x - y) * (x - y) /\ (x - hi) * (x - hi) \in Nat
        BY <4>1, SquareMonotone
      <4> QED
        BY <4>1, <4>2 DEF Square
    <3>4. CASE ~(x < lo) /\ ~(x > hi)
      <4>1. Square(Gap(x, lo, hi)) = 0
        BY <3>4 DEF Gap, Square
      <4> QED
        BY <4>1, <3>1
    <3> QED
      BY <3>2, <3>3, <3>4
  <2> QED
    BY <2>2, <2>3, <2>4
<1>2. g \in [Dims -> Nat] /\ Terms(q, v) \in [Dims -> Nat]
  BY <1>1, DistType
<1>3. BoxLowerBound(q, mn, mx) = Sum14(g)
  BY DEF BoxLowerBound
<1> HIDE DEF g
<1> QED
  BY <1>1, <1>2, <1>3, SumNat, SumMonotone DEF Dist

-----------------------------------------------------------------------------
(* The running top five: try_insert and find_worst5. *)

\* find_worst5 returns a slot, and no slot is worse than it.
LEMMA FindWorstIsWorst ==
  ASSUME NEW b \in [Slots -> Candidates]
  PROVE  /\ FindWorst(b) \in Slots
         /\ \A s \in Slots : ~Worse(b[s], b[FindWorst(b)])
<1> DEFINE w1 == IF Worse(b[1], b[0])  THEN 1 ELSE 0
           w2 == IF Worse(b[2], b[w1]) THEN 2 ELSE w1
           w3 == IF Worse(b[3], b[w2]) THEN 3 ELSE w2
           w4 == IF Worse(b[4], b[w3]) THEN 4 ELSE w3
<1>1. FindWorst(b) = w4
  BY DEF FindWorst
<1>2. \A s \in Slots : b[s].d \in Int /\ b[s].id \in Int
  BY ScaleAssumption, IdAssumption DEF Candidates
<1>3. \A x, y, z \in Slots :
        ~Worse(b[x], b[y]) /\ ~Worse(b[y], b[z]) => ~Worse(b[x], b[z])
  BY <1>2 DEF Worse
<1>4. \A x, y \in Slots : Worse(b[x], b[y]) => ~Worse(b[y], b[x])
  BY <1>2 DEF Worse
<1>5. \A x \in Slots : ~Worse(b[x], b[x])
  BY <1>2 DEF Worse
<1>6. 0 \in Slots /\ 1 \in Slots /\ 2 \in Slots /\ 3 \in Slots /\ 4 \in Slots
  BY DEF Slots
<1>7. w1 \in Slots /\ ~Worse(b[0], b[w1]) /\ ~Worse(b[1], b[w1])
  BY <1>4, <1>5, <1>6
<1> HIDE DEF w1
<1>8. w2 \in Slots /\ ~Worse(b[w1], b[w2]) /\ ~Worse(b[2], b[w2])
  BY <1>4, <1>5, <1>6, <1>7
<1> HIDE DEF w2
<1>9. w3 \in Slots /\ ~Worse(b[w2], b[w3]) /\ ~Worse(b[3], b[w3])
  BY <1>4, <1>5, <1>6, <1>8
<1> HIDE DEF w3
<1>10. w4 \in Slots /\ ~Worse(b[w3], b[w4]) /\ ~Worse(b[4], b[w4])
  BY <1>4, <1>5, <1>6, <1>9
<1> HIDE DEF w4
<1>11. ~Worse(b[0], b[w4]) /\ ~Worse(b[1], b[w4])
       /\ ~Worse(b[2], b[w4]) /\ ~Worse(b[3], b[w4])
  <2>1. ~Worse(b[w2], b[w4])
    BY <1>3, <1>8, <1>9, <1>10
  <2>2. ~Worse(b[w1], b[w4])
    BY <1>3, <1>7, <1>8, <1>10, <2>1
  <2> QED
    BY <1>3, <1>6, <1>7, <1>8, <1>9, <1>10, <2>1, <2>2
<1>12. \A s \in Slots : s = 0 \/ s = 1 \/ s = 2 \/ s = 3 \/ s = 4
  BY DEF Slots
<1> QED
  BY <1>1, <1>10, <1>11, <1>12

\* An empty list satisfies the invariant of the list.
LEMMA ResetIsCached ==
  ResetTop \in Tops /\ WorstCached(ResetTop)
<1>1. EmptySlot \in Candidates
  BY ScaleAssumption, IdAssumption DEF EmptySlot, Candidates
<1>2. ResetTop \in Tops
  BY <1>1, ScaleAssumption, IdAssumption DEF ResetTop, Tops, Slots
<1>3. \A s \in Slots : ResetTop.best[s] = EmptySlot
  BY DEF ResetTop
<1> QED
  BY <1>2, <1>3, ScaleAssumption, IdAssumption
  DEF ResetTop, WorstCached, WorstPair, Worse, EmptySlot, Slots

\* try_insert keeps the list well formed with its worst entry cached.  Only the
\* slot of the worst entry changes, and only to the new candidate; a candidate
\* that is not taken and an entry that is dropped do not beat the new worst
\* entry, which is never worse than the old one.
THEOREM TryInsertKeepsTheBest ==
  ASSUME NEW t \in Tops, NEW c \in Candidates, WorstCached(t)
  PROVE  LET u == TryInsert(t, c)
         IN  /\ u \in Tops
             /\ WorstCached(u)
             /\ ~Worse(WorstPair(u), WorstPair(t))
             /\ u.best = t.best \/ u.best = [t.best EXCEPT ![t.worst] = c]
             /\ (\E s \in Slots : u.best[s] = c) \/ ~Better(c, WorstPair(u))
             /\ \A s \in Slots :
                  u.best[s] = t.best[s] \/ ~Better(t.best[s], WorstPair(u))
<1> DEFINE u == TryInsert(t, c)
<1> SUFFICES /\ u \in Tops
             /\ WorstCached(u)
             /\ ~Worse(WorstPair(u), WorstPair(t))
             /\ u.best = t.best \/ u.best = [t.best EXCEPT ![t.worst] = c]
             /\ (\E s \in Slots : u.best[s] = c) \/ ~Better(c, WorstPair(u))
             /\ \A s \in Slots :
                  u.best[s] = t.best[s] \/ ~Better(t.best[s], WorstPair(u))
  OBVIOUS
<1>1. /\ t.best \in [Slots -> Candidates] /\ t.worst \in Slots
      /\ t.worstD \in 0..MaxDist /\ t.worstId \in 0..MaxId
  BY DEF Tops
<1>2. \A x \in Candidates : x.d \in 0..MaxDist /\ x.id \in 0..MaxId
                            /\ x.d \in Int /\ x.id \in Int
  BY ScaleAssumption, IdAssumption DEF Candidates
<1>3. t.worstD \in Int /\ t.worstId \in Int
  BY <1>1, ScaleAssumption, IdAssumption
<1>4. CASE ~Better(c, WorstPair(t))
  <2>1. u = t
    BY <1>4 DEF TryInsert
  <2>2. ~Worse(WorstPair(t), WorstPair(t))
    BY <1>3 DEF Worse, WorstPair
  <2> QED
    BY <1>4, <2>1, <2>2
<1>5. CASE Better(c, WorstPair(t))
  <2> DEFINE b == [t.best EXCEPT ![t.worst] = c]
             w == FindWorst(b)
  <2>1. b \in [Slots -> Candidates]
    BY <1>1
  <2>2. w \in Slots /\ \A s \in Slots : ~Worse(b[s], b[w])
    BY <2>1, FindWorstIsWorst
  <2>3. u = [best |-> b, worst |-> w, worstD |-> b[w].d, worstId |-> b[w].id]
    BY <1>5 DEF TryInsert
  <2> HIDE DEF w, u
  <2>4. /\ u.best = b /\ u.worst = w /\ u.worstD = b[w].d /\ u.worstId = b[w].id
    BY <2>3
  <2>5. u \in Tops
    <3>1. b[w] \in Candidates
      BY <2>1, <2>2
    <3>2. b[w].d \in 0..MaxDist /\ b[w].id \in 0..MaxId
      BY <3>1, <1>2
    <3> HIDE DEF b
    <3> QED
      BY <2>1, <2>2, <2>3, <3>2 DEF Tops
  <2>6. WorstPair(u) = [d |-> b[w].d, id |-> b[w].id]
    BY <2>4 DEF WorstPair
  <2>7. WorstCached(u)
    <3>1. \A s \in Slots : ~Worse(b[s], WorstPair(u))
      BY <2>2, <2>6 DEF Worse
    <3> QED
      BY <2>4, <3>1 DEF WorstCached
  <2>8. \A s \in Slots : s # t.worst => b[s] = t.best[s]
    BY <1>1
  <2>9. b[t.worst] = c
    BY <1>1
  <2>10. ~Worse(c, WorstPair(t))
    BY <1>2, <1>3, <1>5 DEF Better, Worse, WorstPair
  <2>11. \A s \in Slots : ~Worse(b[s], WorstPair(t))
    BY <2>8, <2>9, <2>10 DEF WorstCached
  <2>12. ~Worse(WorstPair(u), WorstPair(t))
    BY <2>2, <2>6, <2>11 DEF Worse
  <2>13. ASSUME NEW s \in Slots
         PROVE  u.best[s] = t.best[s] \/ ~Better(t.best[s], WorstPair(u))
    <3>1. CASE s # t.worst
      BY <3>1, <2>4, <2>8
    <3>2. CASE s = t.worst
      <4>1. t.best[s].d = t.worstD /\ t.best[s].id = t.worstId
        BY <3>2 DEF WorstCached
      <4>2. b[w] \in Candidates
        BY <2>1, <2>2
      <4>3. b[w].d \in Int /\ b[w].id \in Int
        BY <4>2, <1>2
      <4> QED
        BY <4>1, <4>3, <1>3, <2>6, <2>12 DEF Better, Worse, WorstPair
    <3> QED
      BY <3>1, <3>2
  <2> QED
    BY <1>1, <2>4, <2>5, <2>7, <2>9, <2>12, <2>13
<1> QED
  BY <1>4, <1>5

-----------------------------------------------------------------------------
(* The invariant. *)

InputsOK ==
  /\ WellFormed(Ix) /\ Query \in Points
  /\ penalty \in [Clusters -> 0..FltMax]
  /\ rawNProbe \in Int
  /\ kernel \in {"avx2", "c", "go"}

IInv == InputsOK /\ TypeOK /\ ScanContext /\ NoProbeRepeats /\ TopHoldsTheBest

-----------------------------------------------------------------------------
(* Facts about well-formed indexes. *)

\* The offsets cut the positions into the members of the clusters.
LEMMA OffsetTypes ==
  ASSUME NEW ix, WellFormed(ix), NEW c \in Clusters
  PROVE  /\ ix.n \in Nat
         /\ ix.offsets[c] \in 0..ix.n /\ ix.offsets[c + 1] \in 0..ix.n
         /\ ix.offsets[c] <= ix.offsets[c + 1]
         /\ Members(ix, c) \subseteq Positions(ix)
<1>1. c \in 0..K /\ c + 1 \in 0..K /\ c <= c + 1
  BY ClusterAssumption DEF Clusters
<1>2. ix.n \in Nat /\ ix.offsets \in [0..K -> 0..ix.n]
  BY IdAssumption DEF WellFormed, IndexShape
<1>3. ix.offsets[c] <= ix.offsets[c + 1]
  BY <1>1 DEF WellFormed, Partitioned
<1> DEFINE a == ix.offsets[c]
           b == ix.offsets[c + 1]
           n == ix.n
<1>4. n \in Nat /\ a \in 0..n /\ b \in 0..n
  BY <1>1, <1>2
<1>5. Members(ix, c) = a..(b - 1) /\ Positions(ix) = 0..(n - 1)
  BY DEF Members, Positions
<1> HIDE DEF a, b, n
<1>6. a..(b - 1) \subseteq 0..(n - 1)
  BY <1>4
<1> QED
  BY <1>3, <1>4, <1>5, <1>6 DEF a, b, n

\* Two clusters share no position.
LEMMA MembersAreDisjoint ==
  ASSUME NEW ix, WellFormed(ix), NEW c \in Clusters, NEW e \in Clusters,
         NEW p, p \in Members(ix, c), p \in Members(ix, e)
  PROVE  c = e
<1>1. ASSUME NEW a \in Clusters, NEW b \in Clusters, a < b,
             p \in Members(ix, a), p \in Members(ix, b)
      PROVE  FALSE
  <2>1. a + 1 \in 0..K /\ b \in 0..K /\ a + 1 <= b
    BY <1>1, ClusterAssumption DEF Clusters
  <2>2. ix.offsets[a + 1] <= ix.offsets[b]
    BY <2>1 DEF WellFormed, Partitioned
  <2>3. /\ ix.offsets[a + 1] \in Int /\ ix.offsets[b] \in Int
        /\ ix.offsets[a] \in Int /\ ix.offsets[b + 1] \in Int
    BY OffsetTypes
  <2> QED
    BY <1>1, <2>2, <2>3 DEF Members
<1>2. c \in Int /\ e \in Int
  BY ClusterAssumption DEF Clusters
<1> QED
  BY <1>1, <1>2

\* Records are candidates, closer than an empty slot and with a smaller id.
LEMMA CandType ==
  ASSUME NEW ix, WellFormed(ix), NEW q \in Points, NEW p \in Positions(ix)
  PROVE  /\ ix.vec[p] \in Points
         /\ Cand(ix, q, p) \in Candidates
         /\ Cand(ix, q, p) # EmptySlot
         /\ Cand(ix, q, p).d = Dist(q, ix.vec[p])
         /\ Cand(ix, q, p).id = ix.id[p]
         /\ Cand(ix, q, p).id < MaxId
         /\ Dist(q, ix.vec[p]) \in Nat
<1>1. ix.vec[p] \in Points /\ ix.label[p] \in {0, 1} /\ ix.id[p] \in 0..(MaxId - 1)
  BY DEF WellFormed, IndexShape
<1>2. Dist(q, ix.vec[p]) \in Nat /\ Dist(q, ix.vec[p]) < MaxDist
  BY <1>1, DistType
<1>3. Dist(q, ix.vec[p]) \in 0..MaxDist /\ ix.id[p] \in 0..MaxId /\ ix.id[p] < MaxId
  BY <1>1, <1>2, ScaleAssumption, IdAssumption
<1>4. /\ Cand(ix, q, p).d = Dist(q, ix.vec[p])
      /\ Cand(ix, q, p).id = ix.id[p]
      /\ Cand(ix, q, p) \in Candidates
  BY <1>1, <1>3 DEF Cand, Candidates
<1>5. EmptySlot.d = MaxDist
  BY DEF EmptySlot
<1>6. Cand(ix, q, p) # EmptySlot
  BY <1>2, <1>4, <1>5, ScaleAssumption
<1> QED
  BY <1>1, <1>2, <1>3, <1>4, <1>6

-----------------------------------------------------------------------------
(* The inputs. *)

\* The inputs are well formed at the start.
LEMMA InputsInit ==
  Init => InputsOK
BY InputAssumption DEF Init, InputsOK, Ix, Query

\* No step changes an input.
LEMMA InputsFixed ==
  [Next]_vars => inputs' = inputs /\ Ix' = Ix /\ Query' = Query
BY DEF Next, vars, inputs, Ix, Query, SearchEmpty, Begin, SelectProbe, BeginProbe,
       ProbeSkip, ProbeScan, BeginRepair, RepairSkip, RepairScan, Finish,
       ScanLane, ScanPrune, ScanRecord, ScanEnd

\* Hence they stay well formed.
LEMMA InputsStep ==
  InputsOK /\ [Next]_vars => InputsOK'
BY InputsFixed DEF InputsOK, inputs

-----------------------------------------------------------------------------
(* Types. *)

\* Five slots, four without a given one.
LEMMA SlotCount ==
  /\ IsFiniteSet(Slots) /\ Cardinality(Slots) = 5
  /\ \A s \in Slots : IsFiniteSet(Slots \ {s}) /\ Cardinality(Slots \ {s}) = 4
<1>1. 0 \in Int /\ 4 \in Int
  OBVIOUS
<1>2. IsFiniteSet(0..4) /\ Cardinality(0..4) = IF 0 > 4 THEN 0 ELSE 4 - 0 + 1
  BY <1>1, FS_Interval, Zenon
<1>3. IsFiniteSet(Slots) /\ Cardinality(Slots) = 5
  BY <1>2 DEF Slots
<1>4. ASSUME NEW s \in Slots
      PROVE  IsFiniteSet(Slots \ {s}) /\ Cardinality(Slots \ {s}) = 4
  <2>1. IsFiniteSet(Slots \ {s})
        /\ Cardinality(Slots \ {s}) = IF s \in Slots THEN Cardinality(Slots) - 1
                                      ELSE Cardinality(Slots)
    BY <1>3, FS_RemoveElement
  <2> QED
    BY <1>3, <2>1
<1> QED
  BY <1>3, <1>4

\* A list has at most five votes.
LEMMA FraudsRange ==
  ASSUME NEW t
  PROVE  Frauds(t) \in 0..5
<1> DEFINE S == {s \in Slots : t.best[s].l = 1}
<1>1. S \in SUBSET Slots
  OBVIOUS
<1>2. Cardinality(S) \in Nat /\ Cardinality(S) <= 5
  BY <1>1, SlotCount, FS_Subset, FS_CardinalityType
<1> QED
  BY <1>2 DEF Frauds

\* The vector loop stays inside the cluster.
LEMMA LaneEndBound ==
  ASSUME InputsOK, TypeOK, NEW c \in Clusters
  PROVE  i \in Int /\ End(c) \in Int /\ LaneEnd(c) \in Int /\ LaneEnd(c) <= End(c)
<1>1. Start(c) \in Int /\ End(c) \in Int /\ Start(c) <= End(c)
  BY OffsetTypes DEF InputsOK, Start, End
<1>2. (End(c) - Start(c)) % Lanes \in Nat
  BY <1>1, LanesAssumption
<1>3. LaneEnd(c) \in Int /\ LaneEnd(c) <= End(c)
  BY <1>1, <1>2 DEF LaneEnd
<1>4. i \in Int
  BY DEF TypeOK
<1> QED
  BY <1>1, <1>3, <1>4

\* The record that a scan compares next is a member of the cluster it scans,
\* and both kernels compare the same candidate for it.
LEMMA ScannedRecord ==
  ASSUME InputsOK, TypeOK, cur # -1, i < End(cur)
  PROVE  /\ cur \in Clusters
         /\ i \in Members(Ix, cur)
         /\ i \in Positions(Ix)
         /\ i + 1 \in Start(cur)..End(cur) /\ i + 1 \in 0..Ix.n
         /\ [d |-> LaneDist(Query, Ix.vec[i]), id |-> Ix.id[i], l |-> Ix.label[i]]
              = Cand(Ix, Query, i)
<1>1. cur \in Clusters /\ i \in Start(cur)..End(cur)
  BY DEF TypeOK
<1>2. WellFormed(Ix) /\ Query \in Points
  BY DEF InputsOK
<1>3. /\ Start(cur) \in 0..Ix.n /\ End(cur) \in 0..Ix.n /\ Ix.n \in Nat
      /\ Members(Ix, cur) \subseteq Positions(Ix)
  BY <1>1, <1>2, OffsetTypes DEF Start, End
<1>4. i \in Members(Ix, cur)
  BY <1>1, <1>3 DEF Members, Start, End
<1>5. i + 1 \in Start(cur)..End(cur) /\ i + 1 \in 0..Ix.n
  BY <1>1, <1>3
<1>6. Ix.vec[i] \in Points
  BY <1>2, <1>3, <1>4, CandType
<1>7. LaneDist(Query, Ix.vec[i]) = Dist(Query, Ix.vec[i])
  BY <1>2, <1>6, LanesAgree
<1> QED
  BY <1>1, <1>3, <1>4, <1>5, <1>7 DEF Cand

\* Insertion into the probe list keeps its type.
LEMMA InsertProbeType ==
  ASSUME NEW n \in 1..K, NEW c \in Clusters, NEW p \in 0..FltMax,
         NEW list \in [0..(n - 1) -> [c : {-1} \cup Clusters, p : 0..FltMax]]
  PROVE  InsertProbe(list, n, c, p)
           \in [0..(n - 1) -> [c : {-1} \cup Clusters, p : 0..FltMax]]
<1>1. ASSUME NEW m \in 0..(n - 1), m # 0
      PROVE  m - 1 \in 0..(n - 1)
  BY <1>1, ClusterAssumption
<1> QED
  BY <1>1 DEF InsertProbe

\* A cluster to probe is a cluster, or -1.
LEMMA ProbeTargetsType ==
  ASSUME TypeOK, InputsOK, phase = "probe", k < nprobe
  PROVE  ProbeTargets \subseteq {-1} \cup Clusters
<1>1. CASE kernel # "go"
  <2>1. k \in 0..(nprobe - 1)
    BY ClusterAssumption DEF TypeOK
  <2>2. probes[k].c \in {-1} \cup Clusters
    BY <1>1, <2>1 DEF TypeOK
  <2> QED
    BY <1>1, <2>2 DEF ProbeTargets
<1>2. CASE kernel = "go"
  BY <1>2 DEF ProbeTargets, ClosestUnscanned, Open
<1> QED
  BY <1>1, <1>2

\* Types hold at the start.
LEMMA TypeInit ==
  Init => TypeOK
<1> SUFFICES ASSUME Init PROVE TypeOK
  OBVIOUS
<1>1. InputsOK
  BY InputsInit
<1>2. Ix.n \in Nat
  BY <1>1, IdAssumption DEF InputsOK, WellFormed, IndexShape
<1> QED
  BY <1>2, ResetIsCached, ClusterAssumption DEF Init, TypeOK

\* Every step keeps the types.
LEMMA TypeStep ==
  ASSUME InputsOK, TypeOK, ScanContext, WorstCached(top), [Next]_vars
  PROVE  TypeOK'
<1>1. /\ Ix' = Ix /\ kernel' = kernel
      /\ WellFormed(Ix) /\ Ix.n \in Nat
  BY InputsFixed, IdAssumption DEF InputsOK, inputs, WellFormed, IndexShape
<1>2. ASSUME NEW c \in Clusters
      PROVE  Start(c)' = Start(c) /\ End(c)' = End(c)
  BY <1>1 DEF Start, End
<1>3. nprobe \in Nat /\ k \in Nat /\ nprobe \in 1..K /\ K \in Nat
  BY ClusterAssumption DEF TypeOK
<1>4. CASE SearchEmpty
  BY <1>1, <1>2, <1>4 DEF SearchEmpty, TypeOK, scan, stats, inputs
<1>5. CASE Begin
  <2>1. nprobe' \in 1..K
    BY <1>5, ClusterAssumption DEF Begin, NormalizeNProbe, InputsOK
  <2>2. NoProbe \in [c : {-1} \cup Clusters, p : 0..FltMax]
    BY LanesAssumption DEF NoProbe
  <2>3. k = 0
    BY <1>5 DEF Begin, ScanContext
  <2> QED
    BY <1>1, <1>2, <1>3, <1>5, <2>1, <2>2, <2>3
    DEF Begin, TypeOK, scan, stats, inputs
<1>6. CASE SelectProbe
  <2>1. k \in Clusters /\ k + 1 \in 0..K
    BY <1>3, <1>6 DEF SelectProbe, Clusters
  <2>2. penalty[k] \in 0..FltMax
    BY <2>1, LanesAssumption DEF InputsOK
  <2>3. probes' \in [0..(nprobe - 1) -> [c : {-1} \cup Clusters, p : 0..FltMax]]
    BY <1>3, <1>6, <2>1, <2>2, InsertProbeType DEF SelectProbe, TypeOK
  <2> QED
    BY <1>1, <1>2, <1>6, <2>1, <2>3 DEF SelectProbe, TypeOK, scan, stats, inputs
<1>7. CASE BeginProbe
  BY <1>1, <1>2, <1>3, <1>7 DEF BeginProbe, TypeOK, scan, stats, inputs
<1>8. CASE ProbeSkip
  <2>1. scanned' \in [Clusters -> BOOLEAN]
    BY <1>8 DEF ProbeSkip, TypeOK
  <2>2. phase = "probe" /\ k' = k + 1 /\ k + 1 \in 0..nprobe /\ cur = -1
    BY <1>3, <1>8 DEF ProbeSkip
  <2>3. UNCHANGED <<inputs, phase, nprobe, probes, scan, top, stats, frauds>>
    BY <1>8 DEF ProbeSkip
  <2> QED
    BY <1>1, <1>2, <2>1, <2>2, <2>3 DEF TypeOK, scan, stats, inputs
<1>9. CASE ProbeScan
  <2>1. PICK c \in ProbeTargets :
          c >= 0 /\ scanned' = [scanned EXCEPT ![c] = TRUE] /\ cur' = c /\ i' = Start(c)
    BY <1>9 DEF ProbeScan
  <2>2. c \in Clusters
    BY <1>9, <2>1, ProbeTargetsType DEF ProbeScan
  <2>3. Start(c) \in 0..Ix.n /\ Start(c) \in Start(c)..End(c)
    BY <1>1, <2>2, OffsetTypes DEF Start, End
  <2>4. scanned' \in [Clusters -> BOOLEAN]
    BY <2>1, <2>2 DEF TypeOK
  <2> QED
    BY <1>1, <1>2, <1>9, <2>1, <2>2, <2>3, <2>4 DEF ProbeScan, TypeOK, stats, inputs
<1>10. CASE BeginRepair
  BY <1>1, <1>2, <1>3, <1>10 DEF BeginRepair, TypeOK, scan, stats, inputs
<1>11. CASE RepairSkip
  BY <1>1, <1>2, <1>3, <1>11 DEF RepairSkip, TypeOK, scan, stats, inputs
<1>12. CASE RepairScan
  <2>1. k \in Clusters
    BY <1>3, <1>12 DEF RepairScan, Clusters
  <2>2. Start(k) \in 0..Ix.n /\ Start(k) \in Start(k)..End(k)
    BY <1>1, <2>1, OffsetTypes DEF Start, End
  <2> QED
    BY <1>1, <1>2, <1>12, <2>1, <2>2 DEF RepairScan, TypeOK, stats, inputs
<1>13. CASE Finish
  BY <1>1, <1>2, <1>3, <1>13, FraudsRange DEF Finish, TypeOK, scan, stats, inputs
<1>14. ASSUME ScanLane \/ ScanPrune \/ ScanRecord
       PROVE  TypeOK'
  <2>1. cur # -1 /\ cur \in Clusters /\ i \in Int /\ Start(cur) \in Int /\ End(cur) \in Int
    BY <1>1, <1>14, OffsetTypes
    DEF TypeOK, Start, End, ScanLane, ScanPrune, ScanRecord
  <2>2. i < End(cur)
    BY <1>14, <2>1, LaneEndBound DEF ScanLane, ScanPrune, ScanRecord
  <2>3. /\ i \in Positions(Ix)
        /\ i + 1 \in Start(cur)..End(cur) /\ i + 1 \in 0..Ix.n
        /\ [d |-> LaneDist(Query, Ix.vec[i]), id |-> Ix.id[i], l |-> Ix.label[i]]
             = Cand(Ix, Query, i)
    BY <2>1, <2>2, ScannedRecord
  <2>4. Cand(Ix, Query, i) \in Candidates
    BY <2>3, CandType DEF InputsOK
  <2>5. TryInsert(top, Cand(Ix, Query, i)) \in Tops /\ top \in Tops
    BY <2>4, TryInsertKeepsTheBest DEF TypeOK
  <2>6. top' \in Tops
    BY <1>14, <2>3, <2>5 DEF ScanLane, ScanPrune, ScanRecord
  <2> QED
    BY <1>1, <1>2, <1>14, <2>1, <2>3, <2>6
    DEF ScanLane, ScanPrune, ScanRecord, TypeOK, stats, inputs
<1>15. CASE ScanEnd
  <2>1. cur \in Clusters /\ cur # -1
    BY <1>15 DEF ScanEnd, TypeOK
  <2>2. End(cur) - Start(cur) \in Nat
    BY <1>1, <2>1, OffsetTypes DEF Start, End
  <2>3. k + 1 \in 0..(IF phase = "probe" THEN nprobe ELSE K)
    BY <1>3, <2>1, ClusterAssumption DEF ScanContext, Clusters
  <2>4. clusters' \in Nat /\ vectors' \in Nat /\ cur' = -1 /\ k' = k + 1
    <3>1. clusters \in Nat /\ vectors \in Nat
      BY DEF TypeOK
    <3> HIDE DEF TypeOK
    <3> QED
      BY <1>15, <2>2, <3>1 DEF ScanEnd
  <2>5. UNCHANGED <<inputs, phase, nprobe, probes, i, scanned, top, frauds>>
    BY <1>15 DEF ScanEnd
  <2> QED
    BY <1>1, <2>3, <2>4, <2>5 DEF TypeOK, inputs
<1>16. CASE UNCHANGED vars
  BY <1>1, <1>2, <1>16 DEF vars, TypeOK, scan, stats, inputs
<1> QED
  BY <1>4, <1>5, <1>6, <1>7, <1>8, <1>9, <1>10, <1>11, <1>12, <1>13, <1>14,
     <1>15, <1>16 DEF Next

-----------------------------------------------------------------------------
(* The context of a scan and the probe list. *)

\* Every step keeps the context of a scan.
LEMMA ContextStep ==
  ASSUME InputsOK, TypeOK, ScanContext, [Next]_vars
  PROVE  ScanContext'
<1>1. CASE SearchEmpty \/ Begin \/ SelectProbe \/ BeginProbe
  BY <1>1 DEF SearchEmpty, Begin, SelectProbe, BeginProbe, ScanContext, scan
<1>2. CASE ProbeSkip \/ BeginRepair \/ RepairSkip \/ Finish
  BY <1>2 DEF ProbeSkip, BeginRepair, RepairSkip, Finish, ScanContext, scan
<1>3. CASE ProbeScan
  <2>1. PICK c \in ProbeTargets :
          c >= 0 /\ scanned' = [scanned EXCEPT ![c] = TRUE] /\ cur' = c
    BY <1>3 DEF ProbeScan
  <2>2. c \in Clusters
    BY <1>3, <2>1, ProbeTargetsType DEF ProbeScan
  <2>3. scanned'[cur']
    BY <2>1, <2>2 DEF TypeOK
  <2> QED
    BY <1>3, <2>3 DEF ProbeScan, ScanContext
<1>4. CASE RepairScan
  BY <1>4 DEF RepairScan, ScanContext
<1>5. CASE ScanLane \/ ScanPrune \/ ScanRecord \/ ScanEnd
  BY <1>5 DEF ScanLane, ScanPrune, ScanRecord, ScanEnd, ScanContext
<1>6. CASE UNCHANGED vars
  BY <1>6 DEF vars, scan, ScanContext
<1> QED
  BY <1>1, <1>2, <1>3, <1>4, <1>5, <1>6 DEF Next

\* Inserting a new cluster keeps the list sorted and without repetitions.
LEMMA InsertProbeSorted ==
  ASSUME NEW n \in 1..K, NEW c \in Clusters, NEW p \in 0..FltMax,
         NEW list \in [0..(n - 1) -> [c : {-1} \cup Clusters, p : 0..FltMax]],
         \A a, b \in 0..(n - 1) :
           /\ a < b => list[a].p <= list[b].p
           /\ a # b /\ list[a].c # -1 => list[a].c # list[b].c,
         \A a \in 0..(n - 1) : list[a].c < c
  PROVE  LET new == InsertProbe(list, n, c, p)
         IN  /\ \A a, b \in 0..(n - 1) :
                  /\ a < b => new[a].p <= new[b].p
                  /\ a # b /\ new[a].c # -1 => new[a].c # new[b].c
             /\ \A a \in 0..(n - 1) : new[a].c < c + 1
<1> DEFINE new == InsertProbe(list, n, c, p)
           Keeps(m) == list[m].p <= p
           Takes(m) == ~Keeps(m) /\ (m = 0 \/ Keeps(m - 1))
           Moves(m) == ~Keeps(m) /\ m # 0 /\ ~Keeps(m - 1)
<1>1. /\ n \in Nat /\ p \in Int /\ c \in Int /\ c # -1
      /\ \A m \in 0..(n - 1) : m \in Int /\ list[m].p \in Int /\ list[m].c \in Int
      /\ \A m \in 0..(n - 1) : m # 0 => m - 1 \in 0..(n - 1)
  BY ClusterAssumption, LanesAssumption DEF Clusters
<1>2. ASSUME NEW m \in 0..(n - 1)
      PROVE  /\ Keeps(m) => new[m] = list[m]
             /\ Takes(m) => new[m].c = c /\ new[m].p = p
             /\ Moves(m) => new[m] = list[m - 1]
             /\ Keeps(m) \/ Takes(m) \/ Moves(m)
  BY DEF InsertProbe
<1>3. ASSUME NEW a \in 0..(n - 1), NEW b \in 0..(n - 1), a <= b, Keeps(b)
      PROVE  Keeps(a)
  <2>1. a = b \/ a < b
    BY <1>1, <1>3
  <2>2. list[a].p <= list[b].p
    <3>1. CASE a = b
      BY <1>1, <3>1
    <3>2. CASE a < b
      BY <3>2
    <3> QED
      BY <2>1, <3>1, <3>2
  <2>3. list[a].p \in Int /\ list[b].p \in Int /\ p \in Int
    BY <1>1
  <2> QED
    BY <1>3, <2>2, <2>3
<1> HIDE DEF new
<1>4. ASSUME NEW a \in 0..(n - 1)
      PROVE  new[a].c < c + 1
  <2>1. CASE Keeps(a)
    <3>1. new[a].c = list[a].c /\ list[a].c \in Int /\ list[a].c < c
      BY <1>1, <1>2, <2>1
    <3> QED
      BY <1>1, <3>1
  <2>2. CASE Takes(a)
    <3>1. new[a].c = c
      BY <1>2, <2>2
    <3> QED
      BY <1>1, <3>1
  <2>3. CASE Moves(a)
    <3>1. a - 1 \in 0..(n - 1)
      BY <1>1, <2>3
    <3>2. new[a].c = list[a - 1].c /\ list[a - 1].c \in Int /\ list[a - 1].c < c
      BY <1>1, <1>2, <2>3, <3>1
    <3> QED
      BY <1>1, <3>2
  <2> QED
    BY <1>2, <2>1, <2>2, <2>3
<1>5. ASSUME NEW a \in 0..(n - 1), NEW b \in 0..(n - 1), a < b
      PROVE  new[a].p <= new[b].p /\ (new[a].c # -1 => new[a].c # new[b].c)
                /\ (new[b].c # -1 => new[a].c # new[b].c)
  <2>1. b # 0 /\ b - 1 \in 0..(n - 1) /\ a <= b - 1
    BY <1>1, <1>5
  <2>2. CASE Keeps(b)
    <3>1. Keeps(a)
      BY <1>3, <1>5, <2>2, <1>1
    <3> QED
      BY <1>2, <1>5, <2>2, <3>1
  <2>3. CASE Takes(b)
    <3>1. Keeps(a)
      BY <1>3, <2>1, <2>3
    <3>2. new[a] = list[a] /\ list[a].p <= p
      BY <1>2, <3>1
    <3>3. new[b].c = c /\ new[b].p = p
      BY <1>2, <2>3
    <3>4. list[a].c # c /\ c # -1
      BY <1>1
    <3> QED
      BY <3>2, <3>3, <3>4
  <2>4. CASE Moves(b)
    <3>1. new[b] = list[b - 1]
      BY <1>2, <2>4
    <3>2. CASE Keeps(a)
      <4>a. new[a] = list[a]
        BY <1>2, <3>2
      <4>b. a # b - 1
        BY <2>4, <3>2
      <4>c. a \in Int /\ b \in Int /\ a < b
        BY <1>1, <2>1
      <4>1. new[a] = list[a] /\ a # b - 1 /\ a < b - 1
        BY <4>a, <4>b, <4>c
      <4>2. /\ list[a].p <= list[b - 1].p
            /\ list[a].c # -1 => list[a].c # list[b - 1].c
            /\ list[b - 1].c # -1 => list[b - 1].c # list[a].c
        BY <2>1, <4>1
      <4> QED
        BY <3>1, <4>1, <4>2
    <3>3. CASE Takes(a)
      <4>1. new[a].c = c /\ new[a].p = p
        BY <1>2, <3>3
      <4>2. list[b - 1].p \in Int /\ list[b - 1].c \in Int /\ list[b - 1].c < c
        BY <1>1, <2>1
      <4>3. p <= list[b - 1].p
        BY <1>1, <2>4, <4>2
      <4>4. new[b].c = list[b - 1].c /\ new[b].p = list[b - 1].p
        BY <3>1
      <4>5. list[b - 1].c # c
        BY <4>2, <1>1
      <4> QED
        BY <4>1, <4>3, <4>4, <4>5
    <3>4. CASE Moves(a)
      <4>1. new[a] = list[a - 1] /\ a - 1 \in 0..(n - 1) /\ a - 1 < b - 1
        BY <1>1, <1>2, <1>5, <3>4
      <4> QED
        BY <2>1, <3>1, <4>1
    <3> QED
      BY <1>2, <3>2, <3>3, <3>4
  <2> QED
    BY <1>2, <2>2, <2>3, <2>4
<1>6. ASSUME NEW a \in 0..(n - 1), NEW b \in 0..(n - 1)
      PROVE  /\ a < b => new[a].p <= new[b].p
             /\ a # b /\ new[a].c # -1 => new[a].c # new[b].c
  <2>1. a < b \/ b < a \/ a = b
    BY <1>1
  <2>2. a < b => a # b
    BY <1>1
  <2>3. b < a => ~(a < b)
    BY <1>1
  <2> QED
    BY <1>5, <2>1, <2>2, <2>3
<1> QED
  BY <1>4, <1>6 DEF new

\* Every step keeps the probe list free of repetitions.
LEMMA ProbesStep ==
  ASSUME InputsOK, TypeOK, ScanContext, NoProbeRepeats, [Next]_vars
  PROVE  NoProbeRepeats'
<1>1. kernel' = kernel
  BY InputsFixed DEF inputs
<1>2. nprobe \in Nat /\ k \in Nat /\ nprobe \in 1..K
  BY ClusterAssumption DEF TypeOK
<1>3. CASE SearchEmpty \/ BeginRepair \/ RepairSkip \/ RepairScan \/ Finish
  BY <1>3 DEF SearchEmpty, BeginRepair, RepairSkip, RepairScan, Finish, NoProbeRepeats
<1>4. CASE Begin
  <2>1. k = 0 /\ k' = 0
    BY <1>4 DEF Begin, ScanContext
  <2>2. kernel # "go" => \A a \in 0..(nprobe' - 1) : probes'[a] = NoProbe
    BY <1>4 DEF Begin
  <2>3. NoProbe.c = -1 /\ NoProbe.p <= NoProbe.p
    BY LanesAssumption DEF NoProbe
  <2>4. phase' = "select" <=> kernel # "go"
    BY <1>4 DEF Begin
  <2> QED
    BY <1>1, <1>4, <2>1, <2>2, <2>3, <2>4 DEF Begin, NoProbeRepeats
<1>5. CASE SelectProbe
  <2>1. k \in Clusters /\ penalty[k] \in 0..FltMax
    <3>1. k \in Clusters
      BY <1>2, <1>5, ClusterAssumption DEF SelectProbe, Clusters
    <3> QED
      BY <3>1, LanesAssumption DEF InputsOK
  <2>2. /\ probes \in [0..(nprobe - 1) -> [c : {-1} \cup Clusters, p : 0..FltMax]]
        /\ \A a, b \in 0..(nprobe - 1) :
             /\ a < b => probes[a].p <= probes[b].p
             /\ a # b /\ probes[a].c # -1 => probes[a].c # probes[b].c
        /\ \A a \in 0..(nprobe - 1) : probes[a].c < k
    BY <1>5 DEF SelectProbe, TypeOK, NoProbeRepeats
  <2>3. /\ \A a, b \in 0..(nprobe - 1) :
             /\ a < b => probes'[a].p <= probes'[b].p
             /\ a # b /\ probes'[a].c # -1 => probes'[a].c # probes'[b].c
        /\ \A a \in 0..(nprobe - 1) : probes'[a].c < k + 1
    <3> DEFINE new == InsertProbe(probes, nprobe, k, penalty[k])
    <3>1. /\ \A a, b \in 0..(nprobe - 1) :
               /\ a < b => new[a].p <= new[b].p
               /\ a # b /\ new[a].c # -1 => new[a].c # new[b].c
          /\ \A a \in 0..(nprobe - 1) : new[a].c < k + 1
      BY <1>2, <2>1, <2>2, InsertProbeSorted
    <3>2. probes' = new
      BY <1>5 DEF SelectProbe
    <3> QED
      BY <3>1, <3>2
  <2> QED
    BY <1>1, <1>5, <2>3 DEF SelectProbe, NoProbeRepeats
<1>6. CASE BeginProbe
  <2>1. \A a \in 0..(nprobe - 1) :
          probes[a].c \in {-1} \cup Clusters
    BY <1>6 DEF BeginProbe, TypeOK
  <2>2. \A c \in Clusters : ~scanned[c]
    BY <1>6 DEF BeginProbe, ScanContext
  <2> QED
    BY <1>1, <1>6, <2>1, <2>2 DEF BeginProbe, NoProbeRepeats, scan
<1>7. CASE ProbeSkip
  <2>1. CASE kernel = "go"
    BY <1>1, <1>7, <2>1 DEF ProbeSkip, NoProbeRepeats
  <2>2. CASE kernel # "go"
    <3>1. scanned' = scanned /\ k' = k + 1 /\ cur' = cur /\ cur = -1
      BY <1>7, <2>2 DEF ProbeSkip, scan
    <3> QED
      BY <1>1, <1>2, <1>7, <2>2, <3>1 DEF ProbeSkip, NoProbeRepeats
  <2> QED
    BY <2>1, <2>2
<1>8. CASE ProbeScan
  <2>1. CASE kernel = "go"
    BY <1>1, <1>8, <2>1 DEF ProbeScan, NoProbeRepeats
  <2>2. CASE kernel # "go"
    <3>1. /\ scanned' = [scanned EXCEPT ![probes[k].c] = TRUE]
          /\ cur' = probes[k].c /\ probes[k].c >= 0
      BY <1>8, <2>2 DEF ProbeScan, ProbeTargets
    <3>2. k \in 0..(nprobe - 1) /\ cur = -1 /\ phase = "probe"
      BY <1>2, <1>8 DEF ProbeScan
    <3>3. probes[k].c # -1
      BY <3>1
    <3>4. ASSUME NEW a \in 0..(nprobe - 1), probes[a].c # -1, a > k
          PROVE  ~scanned'[probes[a].c]
      <4>1. ~scanned[probes[a].c]
        BY <2>2, <3>2, <3>4 DEF NoProbeRepeats
      <4>2. a # k /\ probes[a].c # probes[k].c
        BY <1>2, <2>2, <3>2, <3>3, <3>4 DEF NoProbeRepeats
      <4>3. probes[a].c \in Clusters
        BY <2>2, <3>2, <3>4 DEF TypeOK
      <4> QED
        BY <3>1, <4>1, <4>2, <4>3 DEF TypeOK
    <3>5. UNCHANGED <<kernel, phase, nprobe, k, probes>>
      BY <1>1, <1>8 DEF ProbeScan
    <3>6. cur' # -1
      BY <3>1
    <3> QED
      BY <2>2, <3>2, <3>4, <3>5, <3>6 DEF NoProbeRepeats
  <2> QED
    BY <2>1, <2>2
<1>9. CASE ScanLane \/ ScanPrune \/ ScanRecord
  BY <1>1, <1>9 DEF ScanLane, ScanPrune, ScanRecord, NoProbeRepeats
<1>10. CASE ScanEnd
  <2>1. /\ phase' = phase /\ nprobe' = nprobe /\ probes' = probes
        /\ scanned' = scanned /\ k' = k + 1 /\ cur # -1 /\ phase # "select"
    BY <1>10 DEF ScanEnd, ScanContext
  <2>2. ASSUME NEW a \in 0..(nprobe - 1), a > k' \/ a = k'
        PROVE  a > k
    BY <1>2, <2>1, <2>2
  <2> QED
    BY <1>1, <2>1, <2>2 DEF NoProbeRepeats
<1>11. CASE UNCHANGED vars
  BY <1>11 DEF vars, inputs, scan, NoProbeRepeats
<1> QED
  BY <1>3, <1>4, <1>5, <1>6, <1>7, <1>8, <1>9, <1>10, <1>11 DEF Next

-----------------------------------------------------------------------------
(* The list holds the best of the handled records. *)

\* At the start nothing is handled and the list is empty.
LEMMA TopInit ==
  Init => TopHoldsTheBest
<1> SUFFICES ASSUME Init PROVE TopHoldsTheBest
  OBVIOUS
<1>1. Handled = {}
  BY DEF Init, Handled, HandledCluster
<1>2. \A s \in Slots : top.best[s] = EmptySlot
  BY DEF Init, ResetTop
<1>3. WorstCached(top)
  BY ResetIsCached DEF Init
<1> QED
  BY <1>1, <1>2, <1>3
  DEF TopHoldsTheBest, SlotsAreHandled, SlotsAreDistinct, NothingBetterIsLost

\* A step that leaves the list alone may declare more records handled, if none
\* of them beats the worst entry.
LEMMA TopUntouched ==
  ASSUME TopHoldsTheBest, top' = top, Ix' = Ix, Query' = Query,
         Handled \subseteq Handled',
         \A p \in Handled' \ Handled : ~Better(Cand(Ix, Query, p), WorstPair(top))
  PROVE  TopHoldsTheBest'
<1>1. WorstCached(top)'
  BY DEF TopHoldsTheBest, WorstCached, WorstPair
<1>2. SlotsAreHandled'
  BY DEF TopHoldsTheBest, SlotsAreHandled
<1>3. SlotsAreDistinct'
  BY DEF TopHoldsTheBest, SlotsAreDistinct
<1>4. NothingBetterIsLost'
  BY DEF TopHoldsTheBest, NothingBetterIsLost
<1> QED
  BY <1>1, <1>2, <1>3, <1>4 DEF TopHoldsTheBest

\* Not being better carries over to a worst entry that has become better.
LEMMA NotBetterStays ==
  ASSUME NEW c \in Candidates, NEW t \in Tops, NEW u \in Tops,
         ~Better(c, WorstPair(t)), ~Worse(WorstPair(u), WorstPair(t))
  PROVE  ~Better(c, WorstPair(u))
<1>1. /\ c.d \in Int /\ c.id \in Int /\ t.worstD \in Int /\ t.worstId \in Int
      /\ u.worstD \in Int /\ u.worstId \in Int
  BY ScaleAssumption, IdAssumption DEF Candidates, Tops
<1> QED
  BY <1>1 DEF Better, Worse, WorstPair

\* Handling one more record by inserting it keeps the list the best.
LEMMA TopInserted ==
  ASSUME InputsOK, TypeOK, TopHoldsTheBest, Ix' = Ix, Query' = Query,
         NEW r \in Positions(Ix), r \notin Handled,
         top' = TryInsert(top, Cand(Ix, Query, r)),
         Handled' = Handled \cup {r}
  PROVE  TopHoldsTheBest'
<1> DEFINE c == Cand(Ix, Query, r)
<1>1. /\ c \in Candidates /\ c.id = Ix.id[r] /\ c # EmptySlot
      /\ top \in Tops /\ WorstCached(top)
  BY CandType DEF InputsOK, TypeOK, TopHoldsTheBest
<1>2. /\ top' \in Tops /\ WorstCached(top)'
      /\ ~Worse(WorstPair(top'), WorstPair(top))
      /\ top'.best = top.best \/ top'.best = [top.best EXCEPT ![top.worst] = c]
      /\ (\E s \in Slots : top'.best[s] = c) \/ ~Better(c, WorstPair(top'))
      /\ \A s \in Slots :
           top'.best[s] = top.best[s] \/ ~Better(top.best[s], WorstPair(top'))
  <2> HIDE DEF c
  <2> DEFINE u == TryInsert(top, c)
  <2>1. /\ u \in Tops /\ WorstCached(u)
        /\ ~Worse(WorstPair(u), WorstPair(top))
        /\ u.best = top.best \/ u.best = [top.best EXCEPT ![top.worst] = c]
        /\ (\E s \in Slots : u.best[s] = c) \/ ~Better(c, WorstPair(u))
        /\ \A s \in Slots : u.best[s] = top.best[s] \/ ~Better(top.best[s], WorstPair(u))
    BY <1>1, TryInsertKeepsTheBest
  <2>2. top' = u
    BY DEF c
  <2>3. WorstCached(top)' <=> WorstCached(top')
    BY DEF WorstCached, WorstPair
  <2> HIDE DEF u
  <2> QED
    BY <2>1, <2>2, <2>3
<1>3. \A p \in Handled : p \in Positions(Ix)
  BY DEF Handled
<1>4. \A p \in Handled : Cand(Ix, Query, p).id # c.id
  <2> TAKE p \in Handled
  <2>1. p \in Positions(Ix) /\ p # r
    BY <1>3
  <2>2. Ix.id[p] # Ix.id[r]
    BY <2>1 DEF InputsOK, WellFormed, DistinctIds
  <2> QED
    BY <1>1, <2>1, <2>2, CandType DEF InputsOK
<1>5. \A s \in Slots : top'.best[s] = top.best[s] \/ top'.best[s] = c
  BY <1>1, <1>2 DEF Tops
<1>6. \A s, t \in Slots : s # t /\ top'.best[s] = c => top'.best[t] = top.best[t]
  <2>1. CASE top'.best = top.best
    BY <2>1
  <2>2. CASE top'.best = [top.best EXCEPT ![top.worst] = c]
    <3> SUFFICES ASSUME NEW s \in Slots, NEW t \in Slots, s # t,
                        top'.best[s] = c, t = top.worst, s # top.worst
                 PROVE  FALSE
      BY <1>1, <2>2 DEF Tops
    <3>1. top.best[s] = c
      BY <1>1, <2>2 DEF Tops
    <3>2. PICK p \in Handled : top.best[s] = Cand(Ix, Query, p)
      BY <1>1, <3>1 DEF TopHoldsTheBest, SlotsAreHandled
    <3> QED
      BY <1>4, <3>1, <3>2
  <2> QED
    BY <1>2, <2>1, <2>2
<1>7. \A s \in Slots : top.best[s] = EmptySlot
                         \/ \E p \in Handled : top.best[s] = Cand(Ix, Query, p)
  BY DEF TopHoldsTheBest, SlotsAreHandled
<1>8. SlotsAreHandled'
  <2> SUFFICES ASSUME NEW s \in Slots
               PROVE  top'.best[s] = EmptySlot
                        \/ \E p \in Handled \cup {r} : top'.best[s] = Cand(Ix, Query, p)
    BY DEF SlotsAreHandled
  <2> QED
    BY <1>5, <1>7
<1>9. \A s \in Slots : top.best[s] # EmptySlot => top.best[s].id # c.id
  BY <1>4, <1>7
<1>10. c.id < MaxId /\ EmptySlot.id = MaxId
  BY CandType DEF EmptySlot, InputsOK
<1>11. SlotsAreDistinct'
  <2> SUFFICES ASSUME NEW s \in Slots, NEW t \in Slots, s # t,
                      top'.best[s] # EmptySlot
               PROVE  top'.best[s].id # top'.best[t].id
    BY DEF SlotsAreDistinct
  <2>1. CASE top'.best[s] = c
    <3>1. top'.best[t] = top.best[t]
      BY <1>6, <2>1
    <3>2. CASE top.best[t] = EmptySlot
      BY <1>10, <2>1, <3>1, <3>2, IdAssumption
    <3>3. CASE top.best[t] # EmptySlot
      BY <1>9, <2>1, <3>1, <3>3
    <3> QED
      BY <3>2, <3>3
  <2>2. CASE top'.best[s] = top.best[s] /\ top'.best[t] = top.best[t]
    BY <2>2 DEF TopHoldsTheBest, SlotsAreDistinct
  <2>3. CASE top'.best[s] = top.best[s] /\ top'.best[t] = c
    BY <1>9, <2>3
  <2> QED
    BY <1>5, <2>1, <2>2, <2>3
<1>12. NothingBetterIsLost'
  <2> SUFFICES ASSUME NEW p \in Handled \cup {r}
               PROVE  \/ \E s \in Slots : top'.best[s] = Cand(Ix, Query, p)
                      \/ ~Better(Cand(Ix, Query, p), WorstPair(top'))
    BY DEF NothingBetterIsLost
  <2>1. CASE p = r
    BY <1>2, <2>1
  <2>2. CASE p \in Handled
    <3>1. Cand(Ix, Query, p) \in Candidates
      BY <1>3, <2>2, CandType DEF InputsOK
    <3>2. CASE \E s \in Slots : top.best[s] = Cand(Ix, Query, p)
      BY <1>2, <3>2
    <3>3. CASE ~Better(Cand(Ix, Query, p), WorstPair(top))
      BY <1>1, <1>2, <3>1, <3>3, NotBetterStays
    <3> QED
      BY <2>2, <3>2, <3>3 DEF TopHoldsTheBest, NothingBetterIsLost
  <2> QED
    BY <2>1, <2>2
<1> QED
  BY <1>2, <1>8, <1>11, <1>12 DEF TopHoldsTheBest

\* A step that changes neither the list nor the set of handled records.
LEMMA TopSame ==
  ASSUME TopHoldsTheBest, top' = top, Ix' = Ix, Query' = Query, Handled' = Handled
  PROVE  TopHoldsTheBest'
BY TopUntouched

\* The next probe is not flagged yet.
LEMMA NextProbeIsOpen ==
  ASSUME InputsOK, TypeOK, NoProbeRepeats, phase = "probe", cur = -1, k < nprobe,
         NEW c \in ProbeTargets, c >= 0
  PROVE  c \in Clusters /\ ~scanned[c]
<1>1. c \in Clusters
  BY ProbeTargetsType
<1>2. CASE kernel = "go"
  BY <1>2, <1>1 DEF ProbeTargets, ClosestUnscanned, Open
<1>3. CASE kernel # "go"
  <2>1. k \in 0..(nprobe - 1) /\ c = probes[k].c /\ probes[k].c # -1
    BY <1>3, ClusterAssumption DEF TypeOK, ProbeTargets
  <2> QED
    BY <1>1, <1>3, <2>1 DEF NoProbeRepeats
<1> QED
  BY <1>1, <1>2, <1>3

\* The record a scan is about to compare has not been handled.
LEMMA NextIsFresh ==
  ASSUME InputsOK, TypeOK, ScanContext, cur # -1, i < End(cur)
  PROVE  i \notin Handled
<1>1. cur \in Clusters /\ i \in Members(Ix, cur)
  BY ScannedRecord
<1>2. ~HandledCluster(cur)
  <2>1. cur \in Int
    BY <1>1 DEF Clusters
  <2> QED
    BY <2>1 DEF ScanContext, HandledCluster
<1>3. \A c \in Clusters : i \in Members(Ix, c) => c = cur
  BY <1>1, MembersAreDisjoint DEF InputsOK
<1>4. i \in Int
  BY DEF TypeOK
<1> QED
  BY <1>2, <1>3, <1>4 DEF Handled

\* Every step keeps the list the best of the handled records.
LEMMA TopStep ==
  ASSUME InputsOK, TypeOK, ScanContext, NoProbeRepeats, TopHoldsTheBest, [Next]_vars
  PROVE  TopHoldsTheBest'
<1>1. Ix' = Ix /\ Query' = Query /\ WellFormed(Ix) /\ Query \in Points
  BY InputsFixed DEF InputsOK
<1>2. Positions(Ix)' = Positions(Ix) /\ \A c \in Clusters : Members(Ix, c)' = Members(Ix, c)
  BY <1>1
<1>3. /\ nprobe \in Nat /\ k \in Nat /\ K \in Nat /\ i \in Int
      /\ \A c \in Clusters : c \in Int /\ c # -1 /\ 0 <= c /\ c < K
  BY ClusterAssumption DEF TypeOK, Clusters
<1>4. \A c \in Clusters : \A p \in Members(Ix, c) :
        p \in Int /\ Start(c) <= p /\ p < End(c)
  BY <1>1, OffsetTypes DEF Members, Start, End
<1>5. \A c \in Clusters : ~NonEmpty(Ix, c) => Members(Ix, c) = {}
  BY <1>1, OffsetTypes DEF Members, NonEmpty
<1>6. CASE SearchEmpty
  <2>1. Positions(Ix) = {}
    BY <1>6 DEF SearchEmpty, Positions
  <2>2. Handled = {} /\ Handled' = {}
    BY <1>2, <2>1 DEF Handled
  <2> QED
    BY <1>1, <1>6, <2>2, TopSame DEF SearchEmpty
<1>7. CASE Begin \/ SelectProbe \/ BeginProbe
  <2>1. Handled' = Handled
    BY <1>1, <1>7 DEF Begin, SelectProbe, BeginProbe, Handled, HandledCluster, scan
  <2> QED
    BY <1>1, <1>7, <2>1, TopSame DEF Begin, SelectProbe, BeginProbe
<1>8. CASE ProbeSkip
  <2>1. PICK c \in ProbeTargets :
          /\ c >= 0 => ~NonEmpty(Ix, c)
          /\ scanned' = IF kernel = "go" /\ c >= 0
                        THEN [scanned EXCEPT ![c] = TRUE] ELSE scanned
    BY <1>8 DEF ProbeSkip
  <2>2. c \in {-1} \cup Clusters
    BY <1>8, ProbeTargetsType DEF ProbeSkip
  <2>3. \A e \in Clusters : e # c => scanned'[e] = scanned[e]
    BY <2>1, <2>2 DEF TypeOK
  <2>4. \A e \in Clusters : e = c => Members(Ix, e) = {}
    BY <1>3, <1>5, <2>1
  <2>5. phase = "probe" /\ phase' = "probe" /\ cur' = cur /\ i' = i /\ top' = top
    BY <1>8 DEF ProbeSkip, scan
  <2>6. Handled' = Handled
    BY <1>1, <2>3, <2>4, <2>5 DEF Handled, HandledCluster
  <2> QED
    BY <1>1, <2>5, <2>6, TopSame
<1>9. CASE ProbeScan
  <2>1. PICK c \in ProbeTargets :
          c >= 0 /\ scanned' = [scanned EXCEPT ![c] = TRUE] /\ cur' = c /\ i' = Start(c)
    BY <1>9 DEF ProbeScan
  <2>2. c \in Clusters /\ ~scanned[c]
    BY <1>9, <2>1, NextProbeIsOpen DEF ProbeScan
  <2>3. phase = "probe" /\ phase' = "probe" /\ cur = -1 /\ top' = top
    BY <1>9 DEF ProbeScan
  <2>4. \A e \in Clusters : e # c => scanned'[e] = scanned[e]
    BY <2>1, <2>2 DEF TypeOK
  <2>5. \A p \in Members(Ix, c) : ~(p < i')
    BY <1>4, <2>1, <2>2, <1>1, OffsetTypes DEF Start
  <2>6. Handled' = Handled
    BY <1>1, <1>3, <2>1, <2>2, <2>3, <2>4, <2>5 DEF Handled, HandledCluster
  <2> QED
    BY <1>1, <2>3, <2>6, TopSame
<1>10. CASE BeginRepair
  <2>1. Handled' = Handled
    BY <1>1, <1>3, <1>10 DEF BeginRepair, Handled, HandledCluster, scan
  <2> QED
    BY <1>1, <1>10, <2>1, TopSame DEF BeginRepair
<1>11. CASE RepairSkip
  <2>1. /\ phase = "repair" /\ phase' = "repair" /\ cur = -1 /\ cur' = -1 /\ k \in Clusters
        /\ k' = k + 1 /\ i' = i /\ top' = top /\ scanned' = scanned
    BY <1>3, <1>11 DEF RepairSkip, scan, Clusters
  <2>2. \A c \in Clusters : c < k' <=> c < k \/ c = k
    BY <1>3, <2>1
  <2>3. Handled \subseteq Handled'
    BY <1>1, <2>1, <2>2 DEF Handled, HandledCluster
  <2>4. ASSUME NEW p \in Handled' \ Handled
        PROVE  p \in Positions(Ix) /\ p \in Members(Ix, k) /\ ~scanned[k]
    BY <1>1, <1>3, <2>1, <2>2 DEF Handled, HandledCluster
  <2>5. ASSUME NEW p \in Handled' \ Handled
        PROVE  ~Better(Cand(Ix, Query, p), WorstPair(top))
    <3>1. p \in Positions(Ix) /\ p \in Members(Ix, k) /\ ~scanned[k]
      BY <2>4
    <3>2. ~MayHoldBetter(k)
      BY <1>5, <1>11, <2>1, <3>1 DEF RepairSkip
    <3> DEFINE L == BoxLowerBound(Query, Ix.mn[k], Ix.mx[k])
               d == Dist(Query, Ix.vec[p])
    <3>3. /\ Ix.vec[p] \in Points /\ Cand(Ix, Query, p).d = d /\ d \in Nat
      BY <1>1, <3>1, CandType
    <3>4. Ix.mn[k] \in Points /\ Ix.mx[k] \in Points /\ InBox(Ix.vec[p], Ix.mn[k], Ix.mx[k])
      BY <1>1, <2>1, <3>1 DEF WellFormed, IndexShape, BoxesCover
    <3>5. L \in Nat /\ L <= d
      BY <1>1, <3>3, <3>4, BoxIsLowerBound DEF InBox
    <3>6. top.worstD \in Int /\ ~(L <= top.worstD)
      BY <3>2, ScaleAssumption DEF MayHoldBetter, TypeOK, Tops
    <3> HIDE DEF L, d
    <3> QED
      BY <3>3, <3>5, <3>6 DEF Better, WorstPair
  <2> QED
    BY <1>1, <2>1, <2>3, <2>5, TopUntouched
<1>12. CASE RepairScan
  <2>1. /\ phase = "repair" /\ phase' = "repair" /\ cur = -1 /\ cur' = k /\ k \in Clusters
        /\ k' = k /\ i' = Start(k) /\ top' = top /\ scanned' = scanned /\ ~scanned[k]
    BY <1>3, <1>12 DEF RepairScan, Clusters
  <2>2. \A p \in Members(Ix, k) : ~(p < i')
    BY <1>4, <2>1, <1>1, OffsetTypes DEF Start
  <2>3. Handled' = Handled
    BY <1>1, <1>3, <2>1, <2>2 DEF Handled, HandledCluster
  <2> QED
    BY <1>1, <2>1, <2>3, TopSame
<1>13. CASE Finish
  <2>1. \A c \in Clusters : HandledCluster(c) /\ HandledCluster(c)'
    BY <1>3, <1>13 DEF Finish, HandledCluster
  <2>2. Handled' = Handled
    BY <1>1, <2>1 DEF Handled
  <2> QED
    BY <1>1, <1>13, <2>2, TopSame DEF Finish
<1>14. ASSUME ScanLane \/ ScanPrune \/ ScanRecord
       PROVE  TopHoldsTheBest'
  <2>1. /\ cur # -1 /\ cur \in Clusters /\ cur' = cur /\ phase' = phase /\ k' = k
        /\ scanned' = scanned /\ i' = i + 1
    BY <1>14 DEF TypeOK, ScanLane, ScanPrune, ScanRecord
  <2>2. i < End(cur)
    BY <1>14, <2>1, LaneEndBound DEF ScanLane, ScanPrune, ScanRecord
  <2>3. /\ i \in Members(Ix, cur) /\ i \in Positions(Ix) /\ i \notin Handled
        /\ [d |-> LaneDist(Query, Ix.vec[i]), id |-> Ix.id[i], l |-> Ix.label[i]]
             = Cand(Ix, Query, i)
    BY <2>1, <2>2, ScannedRecord, NextIsFresh
  <2>4. Handled' = Handled \cup {i}
    <3>1. \A c \in Clusters : HandledCluster(c)' <=> HandledCluster(c)
      BY <2>1 DEF HandledCluster
    <3>2. \A p \in Positions(Ix) : p < i' <=> p < i \/ p = i
      BY <1>1, <1>3, <2>1, IdAssumption DEF Positions, WellFormed, IndexShape
    <3>3. ASSUME NEW p \in Positions(Ix), p \in Handled'
          PROVE  p \in Handled \cup {i}
      BY <1>1, <2>1, <3>1, <3>2, <3>3 DEF Handled
    <3>4. ASSUME NEW p \in Positions(Ix), p \in Handled \cup {i}
          PROVE  p \in Handled'
      BY <1>1, <2>1, <2>3, <3>1, <3>2, <3>4 DEF Handled
    <3>5. Handled' \subseteq Positions(Ix) /\ Handled \subseteq Positions(Ix)
      BY <1>1 DEF Handled
    <3> QED
      BY <2>3, <3>3, <3>4, <3>5
  <2>5. CASE ScanPrune
    <3> DEFINE w == top.worstD
               d == Dist(Query, Ix.vec[i])
    <3>1. Ix.vec[i] \in Points /\ Cand(Ix, Query, i).d = d /\ d \in Nat
      BY <1>1, <2>3, CandType
    <3>2. Terms(Query, Ix.vec[i]) \in [Dims -> Nat] /\ w \in Nat
      BY <1>1, <3>1, DistType, ScaleAssumption DEF TypeOK, Tops
    <3>3. d > w
      BY <2>5, <3>2, EarlyExitIsFar DEF ScanPrune, Dist
    <3> HIDE DEF d, w
    <3>4. ~Better(Cand(Ix, Query, i), WorstPair(top))
      BY <3>1, <3>2, <3>3 DEF Better, WorstPair, w
    <3> QED
      BY <1>1, <2>4, <2>5, <3>4, TopUntouched DEF ScanPrune
  <2>6. CASE ScanLane \/ ScanRecord
    <3>1. top' = TryInsert(top, Cand(Ix, Query, i))
      BY <2>3, <2>6 DEF ScanLane, ScanRecord
    <3> QED
      BY <1>1, <2>3, <2>4, <3>1, TopInserted
  <2> QED
    BY <1>14, <2>5, <2>6
<1>15. CASE ScanEnd
  <2>1. /\ cur \in Clusters /\ cur # -1 /\ cur' = -1 /\ phase' = phase /\ i' = i
        /\ scanned' = scanned /\ k' = k + 1 /\ top' = top /\ i = End(cur)
    BY <1>15 DEF ScanEnd, TypeOK
  <2>2. \A p \in Members(Ix, cur) : p < i
    BY <1>4, <2>1
  <2>3. \A c \in Clusters : c # cur => (HandledCluster(c)' <=> HandledCluster(c))
    BY <1>3, <2>1 DEF HandledCluster, ScanContext
  <2>4. ASSUME NEW c \in Clusters, c = cur
        PROVE  HandledCluster(c)'
    <3>1. CASE phase = "probe"
      BY <1>3, <2>1, <2>4, <3>1 DEF HandledCluster, ScanContext
    <3>2. CASE phase = "repair"
      BY <1>3, <2>1, <2>4, <3>2 DEF HandledCluster, ScanContext
    <3> QED
      BY <2>1, <3>1, <3>2 DEF ScanContext
  <2>5. \A p \in Positions(Ix), c \in Clusters : p \in Members(Ix, c) =>
          ((HandledCluster(c)' \/ (c = cur' /\ p < i')) <=>
             (HandledCluster(c) \/ (c = cur /\ p < i)))
    <3> TAKE p \in Positions(Ix), c \in Clusters
    <3>1. c # cur'
      BY <1>3, <2>1
    <3>2. CASE c = cur
      <4>1. HandledCluster(c)'
        BY <2>4, <3>2
      <4> QED
        BY <2>2, <3>2, <4>1
    <3>3. CASE c # cur
      BY <2>3, <3>1, <3>3
    <3> QED
      BY <3>2, <3>3
  <2>6. Handled' = Handled
    BY <1>1, <2>5 DEF Handled
  <2> QED
    BY <1>1, <2>1, <2>6, TopSame
<1>16. CASE UNCHANGED vars
  <2>1. Handled' = Handled
    BY <1>1, <1>16 DEF vars, scan, Handled, HandledCluster
  <2> QED
    BY <1>1, <1>16, <2>1, TopSame DEF vars
<1> QED
  BY <1>6, <1>7, <1>8, <1>9, <1>10, <1>11, <1>12, <1>13, <1>14, <1>15, <1>16 DEF Next

-----------------------------------------------------------------------------
(* The theorems. *)

\* The five parts together are an invariant of the search.
LEMMA Invariant ==
  Spec => []IInv
<1>1. Init => IInv
  <2> SUFFICES ASSUME Init PROVE IInv
    OBVIOUS
  <2>1. ScanContext /\ NoProbeRepeats
    BY DEF Init, ScanContext, NoProbeRepeats
  <2> QED
    BY <2>1, InputsInit, TypeInit, TopInit DEF IInv
<1>2. IInv /\ [Next]_vars => IInv'
  <2> SUFFICES ASSUME IInv, [Next]_vars PROVE IInv'
    OBVIOUS
  <2>1. /\ InputsOK /\ TypeOK /\ ScanContext /\ NoProbeRepeats /\ TopHoldsTheBest
        /\ WorstCached(top)
    BY DEF IInv, TopHoldsTheBest
  <2> QED
    BY <2>1, InputsStep, TypeStep, ContextStep, ProbesStep, TopStep DEF IInv
<1> QED
  BY <1>1, <1>2, PTL DEF Spec

\* No loop of the search leaves the arrays it works on, and the answer is in 0..5.
THEOREM TypeCorrect ==
  Spec => []TypeOK
<1>1. IInv => TypeOK
  BY DEF IInv
<1> QED
  BY <1>1, Invariant, PTL

\* A scan belongs to one pass, and its cluster is flagged only by the probe pass.
THEOREM ScansInContext ==
  Spec => []ScanContext
<1>1. IInv => ScanContext
  BY DEF IInv
<1> QED
  BY <1>1, Invariant, PTL

\* No cluster is probed twice.
THEOREM ProbesDoNotRepeat ==
  Spec => []NoProbeRepeats
<1>1. IInv => NoProbeRepeats
  BY DEF IInv
<1> QED
  BY <1>1, Invariant, PTL

\* At every step of every search, the running list is the exact top five of the
\* records handled so far.
THEOREM TopAlwaysExact ==
  Spec => []TopHoldsTheBest
<1>1. IInv => TopHoldsTheBest
  BY DEF IInv
<1> QED
  BY <1>1, Invariant, PTL

-----------------------------------------------------------------------------
(***************************************************************************)
(* From the running list to the answer: when every record is handled, the  *)
(* votes in the list are those of the exact five nearest neighbours, and   *)
(* so every step of the search is a step of BruteForce or a stutter.       *)
(*                                                                         *)
(* The list is matched with the neighbours by counting.  A record in the   *)
(* list is beaten by at most four others, for they are all in the list; a  *)
(* record that is not in the list is beaten by the five that are.          *)
(***************************************************************************)

-----------------------------------------------------------------------------
(* Every position belongs to a cluster. *)

\* A non-empty set of natural numbers has a least element.
LEMMA LeastNatural ==
  ASSUME NEW S \in SUBSET Nat, S # {}
  PROVE  \E m \in S : \A n \in S : m <= n
<1> DEFINE R == OpToRel(<, Nat)
<1>1. IsWellFoundedOn(R, Nat)
  BY NatLessThanWellFounded
<1>2. PICK m \in S : \A n \in S : <<n, m>> \notin R
  BY <1>1, WFMin
<1>3. \A n \in S : ~(n < m)
  BY <1>2 DEF OpToRel
<1>4. m \in Nat /\ \A n \in S : n \in Nat
  BY <1>2
<1>5. \A n \in S : m <= n
  BY <1>3, <1>4
<1> QED
  BY <1>2, <1>5

\* The offsets leave no gap: every position is a member of some cluster.
LEMMA EveryPositionHasACluster ==
  ASSUME NEW ix, WellFormed(ix), NEW p \in Positions(ix)
  PROVE  \E c \in Clusters : p \in Members(ix, c)
<1> DEFINE S == {c \in 0..K : p < ix.offsets[c]}
<1>1. /\ p \in Int /\ 0 <= p /\ p < ix.n /\ ix.n \in Nat /\ K \in Nat \ {0}
      /\ ix.offsets[0] = 0 /\ ix.offsets[K] = ix.n
      /\ \A c \in 0..K : ix.offsets[c] \in Int
  BY IdAssumption, ClusterAssumption DEF WellFormed, IndexShape, Partitioned, Positions
<1>2. S \in SUBSET Nat /\ K \in S
  BY <1>1
<1>3. PICK m \in S : \A n \in S : m <= n
  BY <1>2, LeastNatural
<1>4. m \in 0..K /\ m # 0 /\ p < ix.offsets[m]
  BY <1>1, <1>3
<1>5. m - 1 \in Clusters /\ m - 1 \in 0..K
  BY <1>1, <1>4 DEF Clusters
<1>6. m - 1 \notin S
  BY <1>1, <1>3, <1>4
<1>7. ix.offsets[m - 1] <= p
  BY <1>1, <1>5, <1>6
<1>8. (m - 1) + 1 = m
  BY <1>1, <1>4
<1>9. p \in Members(ix, m - 1)
  BY <1>1, <1>4, <1>5, <1>7, <1>8 DEF Members
<1> QED
  BY <1>5, <1>9

-----------------------------------------------------------------------------
(* Counting. *)

\* A set that maps one-to-one into a finite set is no larger.
LEMMA OneToOne ==
  ASSUME NEW S, NEW T, NEW f \in [S -> T], IsFiniteSet(T),
         \A x, y \in S : f[x] = f[y] => x = y
  PROVE  IsFiniteSet(S) /\ Cardinality(S) <= Cardinality(T)
<1>1. f \in Injection(S, T)
  BY DEF Injection, IsInjective
<1> QED
  BY <1>1, FS_Injection

\* The records that have a vote in the list.
Voters == {p \in Positions(Ix) : \E s \in Slots : top.best[s] = Cand(Ix, Query, p)}

\* Distances and ids are numbers, for records and for slots, and two records
\* are never equal in both.
LEMMA CandNumbers ==
  ASSUME InputsOK, TypeOK
  PROVE  /\ \A p \in Positions(Ix) :
              /\ Cand(Ix, Query, p).d \in Int /\ Cand(Ix, Query, p).id \in Int
              /\ Cand(Ix, Query, p).id < MaxId
              /\ Cand(Ix, Query, p).d < MaxDist
              /\ Cand(Ix, Query, p) # EmptySlot
         /\ \A p, r \in Positions(Ix) :
              Cand(Ix, Query, p).id = Cand(Ix, Query, r).id => p = r
         /\ top.worstD \in Int /\ top.worstId \in Int
         /\ MaxDist \in Int /\ MaxId \in Int
         /\ IsFiniteSet(Positions(Ix))
<1>1. WellFormed(Ix) /\ Query \in Points
  BY DEF InputsOK
<1>2. ASSUME NEW p \in Positions(Ix)
      PROVE  /\ Cand(Ix, Query, p).d \in Int /\ Cand(Ix, Query, p).id \in Int
             /\ Cand(Ix, Query, p).id < MaxId /\ Cand(Ix, Query, p).id = Ix.id[p]
             /\ Cand(Ix, Query, p).d < MaxDist
             /\ Cand(Ix, Query, p) # EmptySlot
  <2>1. Cand(Ix, Query, p) \in Candidates /\ Ix.vec[p] \in Points
    BY <1>1, CandType
  <2>2. Dist(Query, Ix.vec[p]) < MaxDist
    BY <1>1, <2>1, DistType
  <2> QED
    BY <1>1, <2>1, <2>2, CandType, ScaleAssumption, IdAssumption DEF Candidates
<1>3. \A p, r \in Positions(Ix) :
        Cand(Ix, Query, p).id = Cand(Ix, Query, r).id => p = r
  BY <1>1, <1>2 DEF WellFormed, DistinctIds
<1>4. top.worstD \in Int /\ top.worstId \in Int /\ MaxDist \in Int /\ MaxId \in Int
  BY ScaleAssumption, IdAssumption DEF TypeOK, Tops
<1>5. IsFiniteSet(Positions(Ix))
  <2>1. 0 \in Int /\ Ix.n - 1 \in Int
    BY <1>1, IdAssumption DEF WellFormed, IndexShape
  <2> QED
    BY <2>1, FS_Interval DEF Positions
<1> QED
  BY <1>2, <1>3, <1>4, <1>5

\* Each voter has one slot, and each filled slot one voter.
LEMMA VotersAndSlots ==
  ASSUME InputsOK, TypeOK, TopHoldsTheBest
  PROVE  /\ \A s \in Slots : top.best[s] # EmptySlot =>
              \E p \in Voters : top.best[s] = Cand(Ix, Query, p)
         /\ \A s, t \in Slots, p \in Positions(Ix) :
              top.best[s] = Cand(Ix, Query, p) /\ top.best[t] = Cand(Ix, Query, p)
                => s = t
<1>1. \A s \in Slots : top.best[s] # EmptySlot =>
        \E p \in Voters : top.best[s] = Cand(Ix, Query, p)
  BY DEF TopHoldsTheBest, SlotsAreHandled, Handled, Voters
<1>2. \A p \in Positions(Ix) : Cand(Ix, Query, p) # EmptySlot
  BY CandNumbers
<1> QED
  BY <1>1, <1>2 DEF TopHoldsTheBest, SlotsAreDistinct

\* When every record is handled, a voter is beaten by voters only, of which
\* there are at most four others.
LEMMA VotersAreNearest ==
  ASSUME InputsOK, TypeOK, TopHoldsTheBest, Handled = Positions(Ix), NEW p \in Voters
  PROVE  p \in Nearest(Ix, Query)
<1> DEFINE B == Beaters(Ix, Query, p)
<1>1. PICK s \in Slots : top.best[s] = Cand(Ix, Query, p)
  BY DEF Voters
<1>2. p \in Positions(Ix)
  BY DEF Voters
<1>3. ASSUME NEW r \in B
      PROVE  \E t \in Slots \ {s} : top.best[t] = Cand(Ix, Query, r)
  <2>1. r \in Positions(Ix) /\ Better(Cand(Ix, Query, r), Cand(Ix, Query, p))
    BY DEF Beaters
  <2>2. ~Worse(Cand(Ix, Query, p), WorstPair(top))
    BY <1>1 DEF TopHoldsTheBest, WorstCached
  <2>3. Better(Cand(Ix, Query, r), WorstPair(top))
    BY <1>2, <2>1, <2>2, CandNumbers DEF Better, Worse, WorstPair
  <2>4. PICK t \in Slots : top.best[t] = Cand(Ix, Query, r)
    BY <2>1, <2>3 DEF TopHoldsTheBest, NothingBetterIsLost
  <2>5. Cand(Ix, Query, r) # Cand(Ix, Query, p)
    BY <1>2, <2>1, CandNumbers DEF Better
  <2> QED
    BY <1>1, <2>4, <2>5
<1> DEFINE f == [r \in B |-> CHOOSE t \in Slots \ {s} : top.best[t] = Cand(Ix, Query, r)]
<1>4. \A r \in B : f[r] \in Slots \ {s} /\ top.best[f[r]] = Cand(Ix, Query, r)
  BY <1>3
<1>5. f \in [B -> Slots \ {s}]
  BY <1>4
<1>6. \A x, y \in B : f[x] = f[y] => x = y
  <2>1. \A x \in B : x \in Positions(Ix)
    BY DEF Beaters
  <2> HIDE DEF f, B
  <2> QED
    BY <1>4, <2>1, CandNumbers
<1> HIDE DEF f, B
<1>7. IsFiniteSet(B) /\ Cardinality(B) <= 4
  <2>1. IsFiniteSet(Slots \ {s}) /\ Cardinality(Slots \ {s}) = 4
    BY SlotCount
  <2>2. IsFiniteSet(B) /\ Cardinality(B) <= Cardinality(Slots \ {s})
    BY <1>5, <1>6, <2>1, OneToOne
  <2> QED
    BY <2>1, <2>2
<1>8. Cardinality(B) < 5
  BY <1>7, FS_CardinalityType
<1> QED
  BY <1>2, <1>8 DEF Nearest, B

\* When every record is handled, a record without a vote is beaten by the
\* voters of all five slots.
LEMMA NearestAreVoters ==
  ASSUME InputsOK, TypeOK, TopHoldsTheBest, Handled = Positions(Ix),
         NEW p \in Nearest(Ix, Query)
  PROVE  p \in Voters
<1> SUFFICES ASSUME p \notin Voters PROVE FALSE
  OBVIOUS
<1> DEFINE B == Beaters(Ix, Query, p)
<1>1. p \in Positions(Ix) /\ Cardinality(B) < 5
  BY DEF Nearest
<1>2. ~Better(Cand(Ix, Query, p), WorstPair(top))
  BY <1>1 DEF Voters, TopHoldsTheBest, NothingBetterIsLost
<1>3. ASSUME NEW s \in Slots
      PROVE  \E r \in B : top.best[s] = Cand(Ix, Query, r)
  <2>1. ~Worse(top.best[s], WorstPair(top))
    BY DEF TopHoldsTheBest, WorstCached
  <2>2. top.best[s] # EmptySlot
    <3>1. EmptySlot.d = MaxDist /\ EmptySlot.id = MaxId
      BY DEF EmptySlot
    <3> QED
      BY <1>1, <1>2, <2>1, <3>1, CandNumbers DEF Better, Worse, WorstPair
  <2>3. PICK r \in Voters : top.best[s] = Cand(Ix, Query, r)
    BY <2>2, VotersAndSlots
  <2>4. r \in Positions(Ix) /\ r # p
    BY DEF Voters
  <2>5. Cand(Ix, Query, r).id # Cand(Ix, Query, p).id
    BY <1>1, <2>4, CandNumbers
  <2>6. Better(Cand(Ix, Query, r), Cand(Ix, Query, p))
    BY <1>1, <1>2, <2>1, <2>3, <2>4, <2>5, CandNumbers DEF Better, Worse, WorstPair
  <2> QED
    BY <2>3, <2>4, <2>6 DEF Beaters
<1> DEFINE f == [s \in Slots |-> CHOOSE r \in B : top.best[s] = Cand(Ix, Query, r)]
<1>4. \A s \in Slots : f[s] \in B /\ top.best[s] = Cand(Ix, Query, f[s])
  BY <1>3
<1>5. f \in [Slots -> B]
  BY <1>4
<1>6. \A x, y \in Slots : f[x] = f[y] => x = y
  <2>1. \A r \in B : r \in Positions(Ix)
    BY DEF Beaters
  <2> HIDE DEF f, B
  <2> QED
    BY <1>4, <2>1, VotersAndSlots
<1>7. IsFiniteSet(B)
  <2>1. B \in SUBSET Positions(Ix) /\ IsFiniteSet(Positions(Ix))
    BY CandNumbers DEF Beaters
  <2> QED
    BY <2>1, FS_Subset
<1> HIDE DEF f, B
<1>8. 5 <= Cardinality(B)
  BY <1>5, <1>6, <1>7, OneToOne, SlotCount
<1>9. Cardinality(B) \in Nat
  BY <1>7, FS_CardinalityType
<1> QED
  BY <1>1, <1>8, <1>9 DEF B

\* When every record is handled, the votes in the list are the brute-force answer.
LEMMA VotesAreExact ==
  ASSUME InputsOK, TypeOK, TopHoldsTheBest, Handled = Positions(Ix)
  PROVE  Frauds(top) = BruteForceFrauds(Ix, Query)
<1> DEFINE S == {s \in Slots : top.best[s].l = 1}
           T == {p \in Nearest(Ix, Query) : Ix.label[p] = 1}
<1>1. Nearest(Ix, Query) = Voters
  <2>1. Nearest(Ix, Query) \subseteq Voters
    BY NearestAreVoters
  <2>2. Voters \subseteq Nearest(Ix, Query)
    BY VotersAreNearest
  <2> QED
    BY <2>1, <2>2
<1>2. ASSUME NEW s \in S
      PROVE  \E p \in T : top.best[s] = Cand(Ix, Query, p)
  <2>1. top.best[s] # EmptySlot
    BY DEF EmptySlot
  <2>2. PICK p \in Voters : top.best[s] = Cand(Ix, Query, p)
    BY <2>1, VotersAndSlots
  <2>3. Ix.label[p] = 1
    BY <2>2 DEF Cand
  <2> QED
    BY <1>1, <2>2, <2>3
<1>3. ASSUME NEW p \in T
      PROVE  \E s \in S : top.best[s] = Cand(Ix, Query, p)
  <2>1. p \in Voters /\ Ix.label[p] = 1
    BY <1>1
  <2>2. PICK s \in Slots : top.best[s] = Cand(Ix, Query, p)
    BY <2>1 DEF Voters
  <2>3. top.best[s].l = 1
    BY <2>1, <2>2 DEF Cand
  <2> QED
    BY <2>2, <2>3
<1> DEFINE f == [s \in S |-> CHOOSE p \in T : top.best[s] = Cand(Ix, Query, p)]
<1>4. \A s \in S : f[s] \in T /\ top.best[s] = Cand(Ix, Query, f[s])
  BY <1>2
<1>5. f \in [S -> T]
  BY <1>4
<1>6. \A p \in T : p \in Positions(Ix)
  BY DEF Nearest
<1>7. \A s \in S : s \in Slots
  OBVIOUS
<1> HIDE DEF f, S, T
<1>8. f \in Injection(S, T)
  <2>1. \A x, y \in S : f[x] = f[y] => x = y
    BY <1>4, <1>6, <1>7, VotersAndSlots
  <2> QED
    BY <1>5, <2>1 DEF Injection, IsInjective
<1>9. f \in Surjection(S, T)
  <2>1. ASSUME NEW p \in T
        PROVE  \E s \in S : f[s] = p
    <3>1. PICK s \in S : top.best[s] = Cand(Ix, Query, p)
      BY <1>3
    <3>2. f[s] \in T /\ Cand(Ix, Query, f[s]) = Cand(Ix, Query, p)
      BY <1>4, <3>1
    <3>3. f[s] = p
      BY <1>6, <3>2, CandNumbers
    <3> QED
      BY <3>3
  <2> QED
    BY <1>5, <2>1 DEF Surjection
<1>10. IsFiniteSet(S)
  <2>1. S \in SUBSET Slots
    BY DEF S
  <2> QED
    BY <2>1, SlotCount, FS_Subset
<1>11. Cardinality(S) = Cardinality(T)
  BY <1>8, <1>9, <1>10, FS_Surjection
<1> QED
  BY <1>11 DEF Frauds, BruteForceFrauds, S, T

-----------------------------------------------------------------------------
(* The answer. *)

\* No answer is given before the end, and the answer at the end is exact.
AnswerInv == (phase = "start" => frauds = 0) /\ ExactAnswer

\* An empty index has no frauds.
LEMMA EmptyIndex ==
  ASSUME Ix.n = 0
  PROVE  BruteForceFrauds(Ix, Query) = 0
<1>1. Positions(Ix) = {}
  BY DEF Positions
<1>2. {p \in Nearest(Ix, Query) : Ix.label[p] = 1} = {}
  BY <1>1 DEF Nearest
<1> QED
  BY <1>2, FS_EmptySet DEF BruteForceFrauds

\* At the end of the repair pass every record has been handled.
LEMMA AllHandled ==
  ASSUME InputsOK, TypeOK, phase = "repair", cur = -1, k = K
  PROVE  Handled = Positions(Ix)
<1>1. \A c \in Clusters : HandledCluster(c)
  BY ClusterAssumption DEF HandledCluster, Clusters
<1>2. \A p \in Positions(Ix) : \E c \in Clusters : p \in Members(Ix, c)
  BY EveryPositionHasACluster DEF InputsOK
<1> QED
  BY <1>1, <1>2 DEF Handled

\* Every step keeps the answer exact.
LEMMA AnswerStep ==
  ASSUME IInv, AnswerInv, [Next]_vars
  PROVE  AnswerInv'
<1>1. Ix' = Ix /\ Query' = Query
  BY InputsFixed
<1>2. InputsOK /\ TypeOK /\ TopHoldsTheBest
  BY DEF IInv
<1>3. CASE SearchEmpty
  BY <1>1, <1>3, EmptyIndex DEF SearchEmpty, AnswerInv, ExactAnswer
<1>4. CASE Finish
  <2>1. Frauds(top) = BruteForceFrauds(Ix, Query)
    BY <1>2, <1>4, AllHandled, VotesAreExact DEF Finish
  <2> QED
    BY <1>1, <1>4, <2>1 DEF Finish, AnswerInv, ExactAnswer
<1>5. CASE Begin \/ SelectProbe \/ BeginProbe \/ ProbeSkip \/ ProbeScan
             \/ BeginRepair \/ RepairSkip \/ RepairScan
  BY <1>5 DEF AnswerInv, ExactAnswer, Begin, SelectProbe, BeginProbe, ProbeSkip,
              ProbeScan, BeginRepair, RepairSkip, RepairScan
<1>6. CASE ScanLane \/ ScanPrune \/ ScanRecord \/ ScanEnd
  BY <1>2, <1>6 DEF IInv, ScanContext, AnswerInv, ExactAnswer,
                    ScanLane, ScanPrune, ScanRecord, ScanEnd
<1>7. CASE UNCHANGED vars
  BY <1>1, <1>7 DEF vars, AnswerInv, ExactAnswer
<1> QED
  BY <1>3, <1>4, <1>5, <1>6, <1>7 DEF Next

\* The two invariants hold together.
LEMMA AnswerInvariant ==
  Spec => [](IInv /\ AnswerInv)
<1>1. Init => AnswerInv
  BY DEF Init, AnswerInv, ExactAnswer
<1>2. IInv /\ AnswerInv /\ [Next]_vars => AnswerInv'
  BY AnswerStep
<1> QED
  BY <1>1, <1>2, Invariant, PTL DEF Spec

\* The search returns the brute-force answer: no choice of centroids, number of
\* probes, kernel or cluster sizes changes it.
THEOREM SearchIsExact ==
  Spec => []ExactAnswer
<1>1. AnswerInv => ExactAnswer
  BY DEF AnswerInv
<1> QED
  BY <1>1, AnswerInvariant, PTL

\* The worst entry of the list never gets worse.
THEOREM WorstNeverWorsens ==
  Spec => WorstOnlyImproves
<1>1. IInv /\ [Next]_vars => ~Worse(WorstPair(top'), WorstPair(top))
  <2> SUFFICES ASSUME IInv, [Next]_vars
               PROVE  ~Worse(WorstPair(top'), WorstPair(top))
    OBVIOUS
  <2>1. /\ InputsOK /\ TypeOK /\ ScanContext /\ WorstCached(top)
        /\ top \in Tops
    BY DEF IInv, TopHoldsTheBest, TypeOK
  <2>2. CASE top' = top
    BY <2>1, <2>2, ScaleAssumption, IdAssumption DEF Worse, WorstPair, Tops
  <2>3. CASE ScanLane \/ ScanRecord
    <3>1. cur # -1 /\ cur \in Clusters
      BY <2>1, <2>3 DEF ScanLane, ScanRecord, TypeOK
    <3>2. i < End(cur)
      BY <2>1, <2>3, <3>1, LaneEndBound DEF ScanLane, ScanRecord
    <3>3. /\ i \in Positions(Ix)
          /\ [d |-> LaneDist(Query, Ix.vec[i]), id |-> Ix.id[i], l |-> Ix.label[i]]
               = Cand(Ix, Query, i)
      BY <2>1, <3>1, <3>2, ScannedRecord
    <3>4. top' = TryInsert(top, Cand(Ix, Query, i)) /\ Cand(Ix, Query, i) \in Candidates
      BY <2>1, <2>3, <3>3, CandType DEF ScanLane, ScanRecord, InputsOK
    <3> QED
      BY <2>1, <3>4, TryInsertKeepsTheBest
  <2> QED
    BY <2>2, <2>3
    DEF Next, vars, SearchEmpty, Begin, SelectProbe, BeginProbe, ProbeSkip, ProbeScan,
        BeginRepair, RepairSkip, RepairScan, Finish, ScanPrune, ScanEnd
<1> QED
  BY <1>1, Invariant, PTL DEF Spec, WorstOnlyImproves

-----------------------------------------------------------------------------
(* Refinement. *)

\* The safety part of BruteForce's specification, under the mapping of IvfSearch.
AbstractSafety == Abstract!Init /\ [][Abstract!Next]_(Abstract!vars)

\* BruteForce speaks of the same indexes and the same answers.
LEMMA SameIndexes ==
  /\ Abstract!Points = Points
  /\ \A ix : Abstract!WellFormed(ix) = WellFormed(ix)
<1>1. Abstract!Points = Points
  BY DEF Abstract!Points, Abstract!Dims, Abstract!Coord, Points, Dims, Coord
<1>2. ASSUME NEW ix
      PROVE  Abstract!IndexShape(ix) = IndexShape(ix)
  BY <1>1 DEF Abstract!IndexShape, Abstract!Positions, Abstract!Clusters,
              IndexShape, Positions, Clusters
<1>3. ASSUME NEW ix
      PROVE  Abstract!BoxesCover(ix) = BoxesCover(ix)
  BY DEF Abstract!BoxesCover, Abstract!Clusters, Abstract!Members, Abstract!InBox,
         Abstract!Dims, BoxesCover, Clusters, Members, InBox, Dims
<1>4. ASSUME NEW ix
      PROVE  /\ Abstract!Partitioned(ix) = Partitioned(ix)
             /\ Abstract!DistinctIds(ix) = DistinctIds(ix)
  BY DEF Abstract!Partitioned, Abstract!DistinctIds, Abstract!Positions,
         Partitioned, DistinctIds, Positions
<1> QED
  BY <1>1, <1>2, <1>3, <1>4 DEF Abstract!WellFormed, WellFormed

\* The reference answer is the same one too.
LEMMA SameAnswers ==
  \A ix, q : Abstract!BruteForceFrauds(ix, q) = BruteForceFrauds(ix, q)
<1> SUFFICES ASSUME NEW ix, NEW q
             PROVE  Abstract!BruteForceFrauds(ix, q) = BruteForceFrauds(ix, q)
  OBVIOUS
<1>1. \A p : Abstract!Cand(ix, q, p) = Cand(ix, q, p)
  BY DEF Abstract!Cand, Abstract!Dist, Abstract!Terms, Abstract!SqDiff, Abstract!Square,
         Abstract!Sum14, Abstract!Dims, Cand, Dist, Terms, SqDiff, Square, Sum14, Dims
<1>2. \A p : Abstract!Beaters(ix, q, p) = Beaters(ix, q, p)
  BY <1>1 DEF Abstract!Beaters, Abstract!Positions, Abstract!Better,
              Beaters, Positions, Better
<1>3. \A S : Abstract!Cardinality(S) = Cardinality(S)
  BY DEF Abstract!Cardinality, Cardinality, Abstract!IsFiniteSet, IsFiniteSet
<1>4. Abstract!Nearest(ix, q) = Nearest(ix, q)
  BY <1>2, <1>3 DEF Abstract!Nearest, Abstract!Positions, Nearest, Positions
<1>5. {p \in Abstract!Nearest(ix, q) : ix.label[p] = 1}
        = {p \in Nearest(ix, q) : ix.label[p] = 1}
  BY <1>4
<1> QED
  BY <1>5, <1>3 DEF Abstract!BruteForceFrauds, BruteForceFrauds

\* Every search is a brute-force search: the only step that shows is the one that
\* publishes the exact answer.
THEOREM SearchRefinesBruteForce ==
  Spec => AbstractSafety
<1>1. Init => Abstract!Init
  <2> SUFFICES ASSUME Init PROVE Abstract!Init
    OBVIOUS
  <2>1. InputsOK
    BY InputsInit
  <2>2. <<Ix, Query>>[1] = Ix /\ <<Ix, Query>>[2] = Query
    OBVIOUS
  <2> QED
    BY <2>1, <2>2, SameIndexes DEF Init, InputsOK, Abstract!Init
<1>2. IInv /\ AnswerInv /\ [Next]_vars => [Abstract!Next]_(Abstract!vars)
  <2> SUFFICES ASSUME IInv, AnswerInv, [Next]_vars
               PROVE  [Abstract!Next]_(Abstract!vars)
    OBVIOUS
  <2>1. Ix' = Ix /\ Query' = Query /\ AnswerInv'
    BY InputsFixed, AnswerStep
  <2>2. CASE phase' = "done" /\ phase # "done"
    <3>1. frauds' = BruteForceFrauds(Ix, Query)
      BY <2>1, <2>2 DEF AnswerInv, ExactAnswer
    <3>2. frauds' = Abstract!BruteForceFrauds(<<Ix, Query>>[1], <<Ix, Query>>[2])
      BY <3>1, SameAnswers
    <3> QED
      BY <2>1, <2>2, <3>2 DEF Abstract!Next, Abstract!Answer
  <2>3. CASE phase' # "done" /\ phase # "done"
    BY <2>1, <2>3 DEF Abstract!vars
  <2>4. CASE phase = "done"
    <3>1. phase' = "done" /\ frauds' = frauds
      BY <2>4 DEF IInv, ScanContext, Next, vars, SearchEmpty, Begin, SelectProbe,
         BeginProbe, ProbeSkip, ProbeScan, BeginRepair, RepairSkip, RepairScan,
         Finish, ScanLane, ScanPrune, ScanRecord, ScanEnd
    <3> QED
      BY <2>1, <2>4, <3>1 DEF Abstract!vars
  <2> QED
    BY <2>2, <2>3, <2>4
<1> QED
  BY <1>1, <1>2, AnswerInvariant, PTL DEF Spec, AbstractSafety

-----------------------------------------------------------------------------
(* The statistics. *)

Records(S) == {p \in Positions(Ix) : \E c \in S : p \in Members(Ix, c)}

\* Scans that are over are of clusters flagged or passed by the repair loop;
\* those of the flagged ones are over except the current one.
Flagged == {c \in Clusters : NonEmpty(Ix, c) /\ scanned[c] /\ c # cur}

Passed == {c \in Clusters : NonEmpty(Ix, c) /\ (phase = "done" \/ (phase = "repair" /\ c < k))}

\* The statistics are those of a set of clusters.
Counts(S) ==
  /\ Flagged \subseteq S /\ S \subseteq Flagged \cup Passed
  /\ clusters = Cardinality(S) /\ vectors = Cardinality(Records(S))
  /\ clusters <= vectors

StatsInv ==
  /\ cur # -1 => NonEmpty(Ix, cur)
  /\ \E S \in SUBSET Clusters : Counts(S)

LEMMA FlaggedAndPassed ==
  Flagged \subseteq Clusters /\ Passed \subseteq Clusters
BY DEF Flagged, Passed

\* The records of a cluster more.
LEMMA CountedOnce ==
  ASSUME WellFormed(Ix), NEW S \in SUBSET Clusters, NEW c \in Clusters, c \notin S
  PROVE  /\ Cardinality(S \cup {c}) = Cardinality(S) + 1
         /\ Cardinality(Records(S \cup {c})) = Cardinality(Records(S)) + (End(c) - Start(c))
<1>1. IsFiniteSet(S)
  <2>1. IsFiniteSet(Clusters)
    BY ClusterAssumption, FS_Interval DEF Clusters
  <2> QED
    BY <2>1, FS_Subset
<1>2. Cardinality(S \cup {c}) = Cardinality(S) + 1
  BY <1>1, FS_AddElement
<1> DEFINE m == Members(Ix, c)
           r == Records(S)
<1>3. IsFiniteSet(r)
  <2>1. IsFiniteSet(Positions(Ix))
    <3>1. Ix.n \in Nat
      BY OffsetTypes
    <3> QED
      BY <3>1, FS_Interval DEF Positions
  <2>2. r \subseteq Positions(Ix)
    BY DEF Records
  <2> QED
    BY <2>1, <2>2, FS_Subset
<1>4. IsFiniteSet(m) /\ Cardinality(m) = End(c) - Start(c)
  <2>1. Start(c) \in Int /\ End(c) \in Int /\ Start(c) <= End(c)
    BY OffsetTypes DEF Start, End
  <2>2. m = Start(c)..(End(c) - 1)
    BY DEF Members, Start, End
  <2> HIDE DEF m
  <2>3. /\ IsFiniteSet(m)
        /\ Cardinality(m) = IF Start(c) > End(c) - 1 THEN 0 ELSE End(c) - 1 - Start(c) + 1
    BY <2>1, <2>2, FS_Interval
  <2> QED
    BY <2>1, <2>3
<1>5. r \cap m = {}
  BY MembersAreDisjoint DEF Records
<1>6. Records(S \cup {c}) = r \cup m
  <2>1. m \subseteq Positions(Ix)
    BY OffsetTypes
  <2> QED
    BY <2>1 DEF Records
<1> HIDE DEF r, m
<1>7. Cardinality(r \cup m) = Cardinality(r) + Cardinality(m)
  <2>1. Cardinality(r \cup m) = Cardinality(r) + Cardinality(m) - Cardinality({})
    BY <1>3, <1>4, <1>5, FS_Union
  <2>2. Cardinality({}) = 0 /\ Cardinality(r) \in Nat /\ Cardinality(m) \in Nat
    BY <1>3, <1>4, FS_EmptySet, FS_CardinalityType
  <2> QED
    BY <2>1, <2>2
<1> QED
  BY <1>2, <1>4, <1>6, <1>7 DEF r

\* At the start no cluster is counted.
LEMMA StatsInit == Init => StatsInv
<1> SUFFICES ASSUME Init PROVE StatsInv
  OBVIOUS
<1>1. cur = -1 /\ clusters = 0 /\ vectors = 0
  BY DEF Init
<1>2. Flagged = {}
  BY DEF Init, Flagged
<1>3. Records({}) = {} /\ Cardinality({}) = 0
  BY FS_EmptySet DEF Records
<1>4. Counts({})
  BY <1>1, <1>2, <1>3 DEF Counts
<1> QED
  BY <1>1, <1>4 DEF StatsInv

\* A step that ends no scan counts no cluster.
LEMMA SameCount ==
  ASSUME StatsInv, cur' # -1 => NonEmpty(Ix', cur'), Ix' = Ix,
         Flagged' = Flagged, Passed \subseteq Passed', clusters' = clusters, vectors' = vectors
  PROVE  StatsInv'
<1>1. PICK S \in SUBSET Clusters : Counts(S)
  BY DEF StatsInv
<1>2. Records(S)' = Records(S)
  BY DEF Records
<1>3. Counts(S)'
  BY <1>1, <1>2 DEF Counts
<1> QED
  BY <1>3 DEF StatsInv

LEMMA StatsStep == IInv /\ StatsInv /\ [Next]_vars => StatsInv'
<1> SUFFICES ASSUME IInv, StatsInv, [Next]_vars PROVE StatsInv'
  OBVIOUS
<1>1. /\ InputsOK /\ TypeOK /\ ScanContext /\ NoProbeRepeats
      /\ Ix' = Ix /\ WellFormed(Ix)
  BY InputsFixed DEF IInv, InputsOK, inputs, Ix
<1>2. scanned \in [Clusters -> BOOLEAN] /\ k \in Int
  BY <1>1, ClusterAssumption DEF TypeOK
<1>3. CASE SearchEmpty \/ Begin \/ SelectProbe \/ BeginProbe
  <2>1. /\ scanned' = scanned /\ cur' = cur /\ clusters' = clusters /\ vectors' = vectors
        /\ phase \in {"start", "select"} /\ cur = -1
    BY <1>1, <1>3 DEF SearchEmpty, Begin, SelectProbe, BeginProbe, scan, stats, ScanContext
  <2>2. Flagged' = Flagged /\ Passed \subseteq Passed'
    BY <1>1, <2>1 DEF Flagged, Passed
  <2> QED
    BY <1>1, <2>1, <2>2, SameCount
<1>4. CASE ProbeSkip
  <2>1. /\ phase' = phase /\ phase = "probe" /\ cur' = cur /\ cur = -1 /\ clusters' = clusters
        /\ vectors' = vectors
    BY <1>4 DEF ProbeSkip, scan, stats
  <2>2. PICK c \in ProbeTargets :
          /\ c >= 0 => ~NonEmpty(Ix, c)
          /\ scanned' = IF kernel = "go" /\ c >= 0 THEN [scanned EXCEPT ![c] = TRUE]
                        ELSE scanned
    BY <1>4 DEF ProbeSkip
  <2>3. \A e \in Clusters : NonEmpty(Ix, e) => scanned'[e] = scanned[e]
    BY <1>2, <2>2
  <2>4. Flagged' = Flagged /\ Passed \subseteq Passed'
    BY <1>1, <2>1, <2>3 DEF Flagged, Passed
  <2> QED
    BY <1>1, <2>1, <2>4, SameCount
<1>5. CASE ProbeScan
  <2>1. /\ phase' = phase /\ phase = "probe" /\ cur = -1 /\ k < nprobe /\ clusters' = clusters
        /\ vectors' = vectors
    BY <1>5 DEF ProbeScan, stats
  <2>2. PICK c \in ProbeTargets :
          /\ c >= 0 /\ NonEmpty(Ix, c) /\ scanned' = [scanned EXCEPT ![c] = TRUE]
          /\ cur' = c
    BY <1>5 DEF ProbeScan
  <2>3. c \in Clusters /\ ~scanned[c] /\ c # -1
    BY <1>1, <2>1, <2>2, NextProbeIsOpen
  <2>4. Flagged' = Flagged /\ Passed \subseteq Passed'
    BY <1>1, <1>2, <2>1, <2>2, <2>3 DEF Flagged, Passed, Clusters
  <2> QED
    BY <1>1, <2>1, <2>2, <2>4, SameCount
<1>6. CASE BeginRepair \/ RepairSkip \/ Finish
  <2>1. /\ scanned' = scanned /\ cur' = cur /\ cur = -1 /\ clusters' = clusters
        /\ vectors' = vectors
    BY <1>6 DEF BeginRepair, RepairSkip, Finish, scan, stats
  <2>2. Flagged' = Flagged
    BY <1>1, <2>1 DEF Flagged
  <2>3. \/ phase = "probe"
        \/ phase = "repair" /\ phase' = "repair" /\ k' = k + 1
        \/ phase' = "done"
    BY <1>6 DEF BeginRepair, RepairSkip, Finish
  <2>4. Passed \subseteq Passed'
    BY <1>1, <1>2, <2>3 DEF Passed, Clusters
  <2> QED
    BY <1>1, <2>1, <2>2, <2>4, SameCount
<1>7. CASE RepairScan
  <2>1. /\ scanned' = scanned /\ cur' = k /\ cur = -1 /\ clusters' = clusters
        /\ vectors' = vectors /\ ~scanned[k] /\ NonEmpty(Ix, k) /\ phase' = phase /\ k' = k
    BY <1>7 DEF RepairScan, stats
  <2>2. Flagged' = Flagged /\ Passed \subseteq Passed'
    BY <1>1, <1>2, <2>1 DEF Flagged, Passed, Clusters
  <2> QED
    BY <1>1, <2>1, <2>2, SameCount
<1>8. CASE ScanLane \/ ScanPrune \/ ScanRecord \/ UNCHANGED vars
  <2>1. UNCHANGED <<phase, k, cur, scanned, clusters, vectors>>
    BY <1>8 DEF ScanLane, ScanPrune, ScanRecord, vars, scan, stats
  <2>2. Flagged' = Flagged /\ Passed \subseteq Passed' /\ (cur' # -1 => NonEmpty(Ix', cur'))
    BY <1>1, <2>1 DEF Flagged, Passed, StatsInv
  <2> QED
    BY <1>1, <2>1, <2>2, SameCount
<1>9. CASE ScanEnd
  <2>1. /\ cur # -1 /\ cur' = -1 /\ k' = k + 1 /\ phase' = phase /\ scanned' = scanned
        /\ clusters' = clusters + 1 /\ vectors' = vectors + (End(cur) - Start(cur))
    BY <1>9 DEF ScanEnd
  <2>2. cur \in Clusters /\ NonEmpty(Ix, cur)
    BY <1>1, <2>1 DEF TypeOK, StatsInv
  <2>3. PICK S \in SUBSET Clusters : Counts(S)
    BY DEF StatsInv
  <2>4. \/ phase = "probe" /\ scanned[cur]
        \/ phase = "repair" /\ k = cur
    BY <1>1, <2>1 DEF ScanContext
  <2>5. cur \notin S
    BY <1>2, <2>3, <2>4 DEF Counts, Flagged, Passed
  <2> DEFINE T == S \cup {cur}
  <2>6. Flagged' \subseteq T
    BY <1>1, <2>1, <2>3 DEF Flagged, Counts
  <2>7. T \subseteq Flagged' \cup Passed'
    <3>1. ASSUME NEW c \in S PROVE c \in Flagged' \cup Passed'
      <4>1. c \in Flagged \/ c \in Passed
        BY <2>3 DEF Counts
      <4>2. c \in Flagged => c \in Flagged'
        BY <1>1, <2>1 DEF Flagged, Clusters
      <4>3. c \in Passed => c \in Passed'
        BY <1>1, <1>2, <2>1 DEF Passed, Clusters
      <4> QED
        BY <4>1, <4>2, <4>3
    <3>2. cur \in Flagged' \cup Passed'
      BY <1>1, <1>2, <2>1, <2>2, <2>4 DEF Flagged, Passed
    <3> QED
      BY <3>1, <3>2
  <2>8. /\ Cardinality(T) = clusters + 1
        /\ Cardinality(Records(T)) = vectors + (End(cur) - Start(cur))
    BY <1>1, <2>2, <2>3, <2>5, CountedOnce DEF Counts
  <2>9. clusters + 1 <= vectors + (End(cur) - Start(cur))
    <3>1. clusters <= vectors /\ clusters \in Nat /\ vectors \in Nat
      BY <1>1, <2>3 DEF Counts, TypeOK
    <3>2. End(cur) \in Int /\ Start(cur) \in Int /\ Start(cur) < End(cur)
      BY <1>1, <2>2, OffsetTypes DEF Start, End, NonEmpty
    <3> QED
      BY <3>1, <3>2
  <2>10. PICK W \in SUBSET Clusters : W = T
    BY <2>2
  <2> HIDE DEF T
  <2>11. Records(W)' = Records(W)
    BY <1>1 DEF Records
  <2>12. Counts(W)'
    BY <2>1, <2>6, <2>7, <2>8, <2>9, <2>10, <2>11 DEF Counts
  <2> QED
    BY <2>1, <2>12 DEF StatsInv
<1> QED
  BY <1>3, <1>4, <1>5, <1>6, <1>7, <1>8, <1>9 DEF Next

\* The statistics that the profiler adds up count no cluster twice, no more
\* records than there are, and all of them when every cluster was probed.
THEOREM StatsAreOfDistinctClusters == Spec => []WorkIsCountedOnce
<1>1. IInv /\ StatsInv => WorkIsCountedOnce
  <2> SUFFICES ASSUME IInv, StatsInv, phase = "done"
               PROVE  /\ clusters <= Cardinality({c \in Clusters : NonEmpty(Ix, c)})
                      /\ vectors <= Ix.n
                      /\ vectors >= clusters
                      /\ (\A c \in Clusters : NonEmpty(Ix, c) => scanned[c]) => vectors = Ix.n
    BY DEF WorkIsCountedOnce
  <2> DEFINE F == {c \in Clusters : NonEmpty(Ix, c)}
             P == Positions(Ix)
  <2>1. PICK S \in SUBSET Clusters : Counts(S)
    BY DEF StatsInv
  <2>2. WellFormed(Ix) /\ cur = -1 /\ clusters \in Nat /\ vectors \in Nat
    BY DEF IInv, InputsOK, ScanContext, TypeOK
  <2>3. S \subseteq F /\ IsFiniteSet(F)
    <3>1. IsFiniteSet(Clusters)
      BY ClusterAssumption, FS_Interval DEF Clusters
    <3> QED
      BY <2>1, <3>1, FS_Subset DEF Counts, Flagged, Passed
  <2>4. IsFiniteSet(P) /\ Cardinality(P) = Ix.n
    <3>1. Ix.n \in Nat /\ P = 0..(Ix.n - 1)
      BY <2>2, OffsetTypes, ClusterAssumption DEF Positions, WellFormed, IndexShape
    <3> HIDE DEF P
    <3>2. IsFiniteSet(P) /\ Cardinality(P) = IF 0 > Ix.n - 1 THEN 0 ELSE Ix.n - 1 - 0 + 1
      BY <3>1, FS_Interval, SMTT(30)
    <3> QED
      BY <3>1, <3>2
  <2>5. Records(S) \subseteq P
    BY DEF Records
  <2>6. clusters <= Cardinality(F)
    BY <2>1, <2>3, FS_Subset DEF Counts
  <2>7. vectors <= Ix.n
    BY <2>1, <2>4, <2>5, FS_Subset DEF Counts
  <2>8. vectors >= clusters
    BY <2>1, <2>2 DEF Counts
  <2>9. ASSUME \A c \in Clusters : NonEmpty(Ix, c) => scanned[c]
        PROVE  vectors = Ix.n
    <3>1. F \subseteq S
      <4>1. \A c \in Clusters : c # cur
        BY <2>2 DEF Clusters
      <4> QED
        BY <2>1, <2>9, <4>1 DEF Counts, Flagged
    <3>2. P \subseteq Records(S)
      <4> SUFFICES ASSUME NEW p \in P PROVE p \in Records(S)
        OBVIOUS
      <4>1. PICK c \in Clusters : p \in Members(Ix, c)
        BY <2>2, EveryPositionHasACluster
      <4>2. NonEmpty(Ix, c)
        <5>1. Ix.offsets[c] \in Int /\ Ix.offsets[c + 1] \in Int
          BY <2>2, OffsetTypes
        <5> QED
          BY <4>1, <5>1 DEF Members, NonEmpty
      <4> QED
        BY <3>1, <4>1, <4>2 DEF Records
    <3> QED
      BY <2>1, <2>4, <2>5, <3>2 DEF Counts
  <2> QED
    BY <2>6, <2>7, <2>8, <2>9
<1>2. Spec => []StatsInv
  BY StatsInit, StatsStep, Invariant, PTL DEF Spec
<1> QED
  BY <1>1, <1>2, Invariant, PTL

-----------------------------------------------------------------------------
(* The clusters probed. *)

\* How many probes are over or under way.
Probed == IF cur # -1 THEN k + 1 ELSE k

\* The C list holds the first clusters of those looked at, in their order: who
\* is not in it comes after everyone who is.
FirstOf(list, n, m) ==
  /\ \A a \in 0..(n - 1) :
       /\ list[a].c = -1 => list[a].p = FltMax
       /\ list[a].c # -1 => list[a].p = penalty[list[a].c] /\ list[a].p < FltMax
  /\ \A a, b \in 0..(n - 1) :
       a < b /\ list[b].c # -1 => list[a].c # -1 /\ list[a].c \in Closer(list[b].c)
  /\ \A c \in Clusters : c < m /\ penalty[c] < FltMax =>
       \/ \E a \in 0..(n - 1) : list[a].c = c
       \/ \A a \in 0..(n - 1) : list[a].c # -1 /\ list[a].c \in Closer(c)

ListIsFirst ==
  /\ phase \in {"select", "probe"} => nprobe = NormalizeNProbe(rawNProbe)
  /\ phase = "select" => kernel # "go" /\ FirstOf(probes, nprobe, k)
  /\ phase = "probe" /\ kernel # "go" => FirstOf(probes, nprobe, K)

\* The C kernel has flagged the non-empty clusters of its list so far.
FlagsFollowList ==
  phase = "probe" /\ kernel # "go" =>
    \A c \in Clusters : NonEmpty(Ix, c) =>
      (scanned[c] <=> \E a \in 0..(nprobe - 1) : a < Probed /\ probes[a].c = c)

\* The Go kernel has flagged the first clusters, one per probe or all there are.
FlagsInOrder ==
  \A c \in Clusters : scanned[c] => penalty[c] < FltMax /\ \A e \in Closer(c) : scanned[e]

FlagCount == Cardinality({c \in Clusters : scanned[c]})

FlagsFollowOrder ==
  phase = "probe" /\ kernel = "go" =>
    FlagsInOrder /\ FlagCount <= Probed /\ (Open # {} => FlagCount = Probed)

\* ProbesAreClosest, said of the number of probes that the search is given.
ProbesFollowNProbe ==
  phase \in {"repair", "done"} /\ Ix.n > 0 =>
    \A c \in Clusters : NonEmpty(Ix, c) =>
      (scanned[c] <=> /\ penalty[c] < FltMax
                      /\ Cardinality(Closer(c)) < NormalizeNProbe(rawNProbe))

ProbeInv == ListIsFirst /\ FlagsFollowList /\ FlagsFollowOrder /\ ProbesFollowNProbe

\* The order in which clusters are to be probed is total.
LEMMA CloserIsAnOrder ==
  ASSUME InputsOK, NEW c \in Clusters, NEW e \in Clusters
  PROVE  /\ e \in Closer(c) <=> \/ penalty[e] < penalty[c]
                                \/ penalty[e] = penalty[c] /\ e < c
         /\ e \in Closer(c) => c \notin Closer(e) /\ e # c
         /\ e # c => e \in Closer(c) \/ c \in Closer(e)
         /\ e \in Closer(c) => penalty[e] <= penalty[c]
         /\ \A d \in Clusters : d \in Closer(e) /\ e \in Closer(c) => d \in Closer(c)
<1>1. \A d \in Clusters : penalty[d] \in Int /\ d \in Int
  BY LanesAssumption, ClusterAssumption DEF InputsOK, Clusters
<1>2. \A a, b \in Clusters :
        b \in Closer(a) <=> (penalty[b] < penalty[a] \/ (penalty[b] = penalty[a] /\ b < a))
  BY DEF Closer
<1> QED
  BY <1>1, <1>2

\* A list of first clusters stays one when the next cluster is inserted.
LEMMA InsertProbeFirst ==
  ASSUME InputsOK, NEW n \in 1..K, NEW c \in Clusters,
         NEW list \in [0..(n - 1) -> [c : {-1} \cup Clusters, p : 0..FltMax]],
         \A a, b \in 0..(n - 1) : a < b => list[a].p <= list[b].p,
         \A a \in 0..(n - 1) : list[a].c < c,
         FirstOf(list, n, c)
  PROVE  FirstOf(InsertProbe(list, n, c, penalty[c]), n, c + 1)
<1> DEFINE p == penalty[c]
           new == InsertProbe(list, n, c, p)
           Keeps(m) == list[m].p <= p
           Takes(m) == ~Keeps(m) /\ (m = 0 \/ Keeps(m - 1))
           Moves(m) == ~Keeps(m) /\ m # 0 /\ ~Keeps(m - 1)
<1>1. /\ n \in Nat /\ p \in Int /\ c \in Int /\ c # -1 /\ p <= FltMax /\ FltMax \in Int
      /\ \A m \in 0..(n - 1) : m \in Int /\ list[m].p \in Int /\ list[m].c \in Int
      /\ \A m \in 0..(n - 1) : list[m].c \in {-1} \cup Clusters /\ list[m].p <= FltMax
      /\ \A m \in 0..(n - 1) : m # 0 => m - 1 \in 0..(n - 1)
  BY ClusterAssumption, LanesAssumption DEF Clusters, InputsOK
<1>2. ASSUME NEW m \in 0..(n - 1)
      PROVE  /\ Keeps(m) => new[m] = list[m]
             /\ Takes(m) => new[m].c = c /\ new[m].p = p
             /\ Moves(m) => new[m] = list[m - 1]
             /\ Keeps(m) \/ Takes(m) \/ Moves(m)
  BY DEF InsertProbe
<1>3. ASSUME NEW a \in 0..(n - 1), NEW b \in 0..(n - 1), a < b, Keeps(b)
      PROVE  Keeps(a)
  <2>1. list[a].p <= list[b].p
    BY <1>3
  <2>2. list[a].p \in Int /\ list[b].p \in Int /\ p \in Int
    BY <1>1
  <2> QED
    BY <1>3, <2>1, <2>2
<1>4. \A a \in 0..(n - 1) :
        /\ list[a].c = -1 => list[a].p = FltMax
        /\ list[a].c # -1 => /\ list[a].c \in Clusters
                             /\ list[a].p = penalty[list[a].c] /\ list[a].p < FltMax
  BY <1>1 DEF FirstOf
<1>5. \A a, b \in 0..(n - 1) :
        a < b /\ list[b].c # -1 => list[a].c # -1 /\ list[a].c \in Closer(list[b].c)
  BY DEF FirstOf
\* What stays comes before c, what makes room comes after it.
<1>6. ASSUME NEW a \in 0..(n - 1), Keeps(a), p < FltMax
      PROVE  list[a].c # -1 /\ list[a].c \in Closer(c)
  <2>1. list[a].p # FltMax
    BY <1>1, <1>6
  <2>2. list[a].c \in Clusters /\ list[a].p = penalty[list[a].c] /\ list[a].c # -1
    BY <1>4, <2>1
  <2>3. list[a].c < c
    OBVIOUS
  <2>4. penalty[list[a].c] <= p /\ penalty[list[a].c] \in Int
    BY <1>1, <1>6, <2>2
  <2> QED
    BY <1>1, <2>2, <2>3, <2>4, CloserIsAnOrder
<1>7. ASSUME NEW a \in 0..(n - 1), ~Keeps(a)
      PROVE  p < FltMax /\ (list[a].c # -1 => c \in Closer(list[a].c))
  <2>1. p < list[a].p
    BY <1>1, <1>7
  <2>2. p < FltMax
    BY <1>1, <2>1
  <2>3. list[a].c # -1 => c \in Closer(list[a].c)
    BY <1>4, <2>1, CloserIsAnOrder
  <2> QED
    BY <2>2, <2>3
<1> HIDE DEF new
<1>8. ASSUME NEW a \in 0..(n - 1)
      PROVE  /\ new[a].c = -1 => new[a].p = FltMax
             /\ new[a].c # -1 => new[a].p = penalty[new[a].c] /\ new[a].p < FltMax
  <2>1. CASE Keeps(a)
    BY <1>2, <1>4, <2>1
  <2>2. CASE Takes(a)
    <3>1. new[a].c = c /\ new[a].p = p /\ p < FltMax
      BY <1>2, <1>7, <2>2
    <3> QED
      BY <1>1, <3>1
  <2>3. CASE Moves(a)
    <3>1. a - 1 \in 0..(n - 1) /\ new[a] = list[a - 1]
      BY <1>1, <1>2, <2>3
    <3> QED
      BY <1>4, <3>1
  <2> QED
    BY <1>2, <2>1, <2>2, <2>3
<1>9. ASSUME NEW a \in 0..(n - 1), NEW b \in 0..(n - 1), a < b, new[b].c # -1
      PROVE  new[a].c # -1 /\ new[a].c \in Closer(new[b].c)
  <2>1. b # 0 /\ b - 1 \in 0..(n - 1) /\ a <= b - 1
    BY <1>1, <1>9
  <2>2. CASE Keeps(b)
    <3>1. Keeps(a)
      BY <1>3, <1>9, <2>2
    <3> QED
      BY <1>2, <1>5, <1>9, <2>2, <3>1
  <2>3. CASE Takes(b)
    <3>1. Keeps(a)
      <4>1. a = b - 1 \/ a < b - 1
        BY <1>1, <2>1
      <4> QED
        BY <1>3, <2>1, <2>3, <4>1
    <3>2. new[a] = list[a] /\ new[b].c = c /\ p < FltMax
      BY <1>2, <1>7, <2>3, <3>1
    <3> QED
      BY <1>6, <3>1, <3>2
  <2>4. CASE Moves(b)
    <3>1. new[b] = list[b - 1]
      BY <1>2, <2>4
    <3>2. CASE Keeps(a)
      <4>1. new[a] = list[a] /\ a # b - 1
        BY <1>2, <2>4, <3>2
      <4>2. a < b - 1
        BY <1>1, <2>1, <4>1
      <4> QED
        BY <1>5, <1>9, <2>1, <3>1, <4>1, <4>2
    <3>3. CASE Takes(a)
      BY <1>1, <1>2, <1>7, <1>9, <2>1, <2>4, <3>1, <3>3, SMTT(30)
    <3>4. CASE Moves(a)
      <4>1. new[a] = list[a - 1] /\ a - 1 \in 0..(n - 1) /\ a - 1 < b - 1
        BY <1>1, <1>2, <1>9, <3>4
      <4> QED
        BY <1>5, <1>9, <2>1, <3>1, <4>1
    <3> QED
      BY <1>2, <3>2, <3>3, <3>4
  <2> QED
    BY <1>2, <2>2, <2>3, <2>4
<1>10. ASSUME NEW e \in Clusters, e < c + 1, penalty[e] < FltMax
       PROVE  \/ \E a \in 0..(n - 1) : new[a].c = e
              \/ \A a \in 0..(n - 1) : new[a].c # -1 /\ new[a].c \in Closer(e)
  <2>1. CASE e = c
    <3>1. CASE \A a \in 0..(n - 1) : Keeps(a)
      BY <1>2, <1>6, <1>10, <2>1, <3>1
    <3>2. CASE \E a \in 0..(n - 1) : ~Keeps(a)
      <4> DEFINE S == {a \in 0..(n - 1) : ~Keeps(a)}
      <4>0. 0..(n - 1) \subseteq Nat /\ S \subseteq 0..(n - 1)
        BY <1>1
      <4>1. S \in SUBSET Nat /\ S # {}
        <5>1. S # {}
          BY <3>2
        <5> QED
          BY <4>0, <5>1
      <4>2. PICK m \in S : \A a \in S : m <= a
        BY <4>1, LeastNatural
      <4>3. Takes(m)
        <5>1. m # 0 => m - 1 \in 0..(n - 1) /\ ~(m <= m - 1)
          BY <1>1, <4>2
        <5> QED
          BY <4>2, <5>1
      <4> QED
        BY <1>2, <2>1, <4>2, <4>3
    <3> QED
      BY <3>1, <3>2
  <2>2. CASE e < c
    <3>1. \/ \E a \in 0..(n - 1) : list[a].c = e
          \/ \A a \in 0..(n - 1) : list[a].c # -1 /\ list[a].c \in Closer(e)
      BY <1>10, <2>2 DEF FirstOf
    <3>2. ASSUME NEW a \in 0..(n - 1), list[a].c = e
          PROVE  \/ \E b \in 0..(n - 1) : new[b].c = e
                 \/ \A b \in 0..(n - 1) : new[b].c # -1 /\ new[b].c \in Closer(e)
      <4>0. e # -1
        BY ClusterAssumption DEF Clusters
      <4>1. CASE Keeps(a)
        BY <1>2, <3>2, <4>1
      <4>2. CASE ~Keeps(a) /\ a + 1 \in 0..(n - 1)
        <5>1. a < a + 1 /\ a + 1 # 0 /\ a + 1 - 1 = a
          BY <1>1
        <5>2. ~Keeps(a + 1)
          BY <1>3, <4>2, <5>1
        <5>3. Moves(a + 1)
          BY <4>2, <5>1, <5>2
        <5> QED
          BY <1>2, <3>2, <4>2, <5>1, <5>3
      <4>3. CASE ~Keeps(a) /\ a + 1 \notin 0..(n - 1)
        <5>1. a = n - 1
          BY <1>1, <4>3
        <5>2. ASSUME NEW b \in 0..(n - 1), b < a
              PROVE  list[b].c # -1 /\ list[b].c \in Closer(e)
          BY <1>5, <3>2, <4>0, <5>2
        <5>3. c \in Closer(e)
          BY <1>7, <3>2, <4>0, <4>3
        <5>4. ASSUME NEW b \in 0..(n - 1)
              PROVE  new[b].c # -1 /\ new[b].c \in Closer(e)
          <6>1. CASE Keeps(b)
            <7>1. b # a
              BY <4>3, <6>1
            <7>2. b < a
              BY <1>1, <5>1, <7>1
            <7> QED
              BY <1>2, <5>2, <6>1, <7>2
          <6>2. CASE Takes(b)
            BY <1>1, <1>2, <5>3, <6>2
          <6>3. CASE Moves(b)
            <7>1. b - 1 \in 0..(n - 1) /\ b - 1 < a
              BY <1>1, <5>1, <6>3
            <7> QED
              BY <1>2, <5>2, <6>3, <7>1
          <6> QED
            BY <1>2, <6>1, <6>2, <6>3
        <5> QED
          BY <5>4
      <4> QED
        BY <4>1, <4>2, <4>3
    <3>3. ASSUME \A a \in 0..(n - 1) : list[a].c # -1 /\ list[a].c \in Closer(e),
                 NEW b \in 0..(n - 1)
          PROVE  new[b].c # -1 /\ new[b].c \in Closer(e)
      <4>1. CASE Keeps(b)
        BY <1>2, <3>3, <4>1
      <4>2. CASE Takes(b)
        <5>1. c \in Closer(list[b].c) /\ list[b].c \in Clusters /\ list[b].c \in Closer(e)
          BY <1>4, <1>7, <3>3, <4>2
        <5>2. c \in Closer(e)
          BY <5>1, CloserIsAnOrder
        <5> QED
          BY <1>1, <1>2, <4>2, <5>2
      <4>3. CASE Moves(b)
        BY <1>1, <1>2, <3>3, <4>3, SMTT(30)
      <4> QED
        BY <1>2, <4>1, <4>2, <4>3
    <3>4. CASE \E a \in 0..(n - 1) : list[a].c = e
      BY <3>2, <3>4
    <3>5. CASE \A a \in 0..(n - 1) : list[a].c # -1 /\ list[a].c \in Closer(e)
      BY <3>3, <3>5
    <3> QED
      BY <3>1, <3>4, <3>5
  <2>3. e = c \/ e < c
    <3>1. e \in Int /\ c \in Int
      BY ClusterAssumption DEF Clusters
    <3> QED
      BY <1>10, <3>1
  <2> QED
    BY <2>1, <2>2, <2>3
<1>11. FirstOf(new, n, c + 1)
  BY <1>8, <1>9, <1>10 DEF FirstOf
<1> QED
  BY <1>11 DEF new

\* There are n slots below n.
LEMMA SlotsAreCounted ==
  ASSUME NEW n \in Nat
  PROVE  IsFiniteSet(0..(n - 1)) /\ Cardinality(0..(n - 1)) = n
<1>1. n - 1 \in Int /\ 0 \in Int /\ (IF 0 > n - 1 THEN 0 ELSE n - 1 - 0 + 1) = n
  OBVIOUS
<1> DEFINE e == n - 1
<1>2. e \in Int /\ (IF 0 > e THEN 0 ELSE e - 0 + 1) = n
  BY <1>1
<1> HIDE DEF e
<1>3. IsFiniteSet(0..e)
  BY <1>2, FS_Interval
<1>4. Cardinality(0..e) = IF 0 > e THEN 0 ELSE e - 0 + 1
  BY <1>2, FS_Interval
<1> QED
  BY <1>2, <1>3, <1>4 DEF e

\* No more than finitely many clusters come before another.
LEMMA CloserIsFinite ==
  ASSUME NEW c \in Clusters
  PROVE  IsFiniteSet(Closer(c)) /\ Cardinality(Closer(c)) \in Nat
<1>1. IsFiniteSet(Clusters)
  BY ClusterAssumption, FS_Interval DEF Clusters
<1>2. Closer(c) \subseteq Clusters
  BY DEF Closer
<1>3. IsFiniteSet(Closer(c))
  BY <1>1, <1>2, FS_Subset
<1> QED
  BY <1>3, FS_CardinalityType

\* A list of the n first of all clusters names those that fewer than n precede.
LEMMA FirstAreClosest ==
  ASSUME InputsOK, NEW n \in 1..K, NEW c \in Clusters,
         NEW list \in [0..(n - 1) -> [c : {-1} \cup Clusters, p : 0..FltMax]],
         FirstOf(list, n, K)
  PROVE  (\E a \in 0..(n - 1) : list[a].c = c)
           <=> penalty[c] < FltMax /\ Cardinality(Closer(c)) < n
<1>1. /\ n \in Nat /\ c # -1 /\ c < K /\ K \in Int /\ Cardinality(Closer(c)) \in Nat
      /\ \A e \in Clusters : penalty[e] \in Int /\ e < K
      /\ FltMax \in Int
  BY ClusterAssumption, LanesAssumption, CloserIsFinite DEF Clusters, InputsOK
<1>2. \A a, b \in 0..(n - 1) :
        a < b /\ list[b].c # -1 => list[a].c # -1 /\ list[a].c \in Closer(list[b].c)
  BY DEF FirstOf
<1>3. \A e \in Clusters : penalty[e] < FltMax =>
        \/ \E a \in 0..(n - 1) : list[a].c = e
        \/ \A a \in 0..(n - 1) : list[a].c # -1 /\ list[a].c \in Closer(e)
  BY <1>1 DEF FirstOf
<1>4. \A a \in 0..(n - 1) : list[a].c \in {-1} \cup Clusters
  OBVIOUS
<1>5. ASSUME NEW a \in 0..(n - 1), list[a].c = c
      PROVE  penalty[c] < FltMax /\ Cardinality(Closer(c)) < n
  <2>1. penalty[c] < FltMax
    BY <1>1, <1>5 DEF FirstOf
  <2> DEFINE f == [x \in 0..(a - 1) |-> list[x].c]
  <2>2. a \in Nat /\ a < n /\ \A x \in 0..(a - 1) : x \in 0..(n - 1) /\ x < a
    BY <1>1
  <2>3. ASSUME NEW x \in 0..(a - 1) PROVE f[x] \in Closer(c)
    BY <1>1, <1>2, <1>5, <2>2
  <2>4. ASSUME NEW e \in Closer(c) PROVE \E x \in 0..(a - 1) : f[x] = e
    <3>1. e \in Clusters
      BY DEF Closer
    <3>2. e # c /\ c \notin Closer(e) /\ penalty[e] <= penalty[c]
      BY <3>1, CloserIsAnOrder
    <3>3. penalty[e] < FltMax
      BY <1>1, <2>1, <3>1, <3>2
    <3>4. PICK b \in 0..(n - 1) : list[b].c = e
      BY <1>3, <1>5, <3>1, <3>2, <3>3
    <3>5. ~(a < b)
      <4>1. e # -1
        BY <3>1, ClusterAssumption DEF Clusters
      <4> QED
        BY <1>2, <1>5, <3>2, <3>4, <4>1
    <3>6. b \in 0..(a - 1)
      BY <1>5, <2>2, <3>2, <3>4, <3>5
    <3> QED
      BY <3>4, <3>6
  <2>5. f \in Surjection(0..(a - 1), Closer(c))
    BY <2>3, <2>4 DEF Surjection
  <2>6. IsFiniteSet(0..(a - 1)) /\ Cardinality(0..(a - 1)) = a
    BY <2>2, SlotsAreCounted
  <2> HIDE DEF f
  <2>7. Cardinality(Closer(c)) <= Cardinality(0..(a - 1))
    BY <2>5, <2>6, FS_Surjection
  <2>8. Cardinality(Closer(c)) < n
    BY <1>1, <2>2, <2>6, <2>7
  <2> QED
    BY <2>1, <2>8
<1>6. ASSUME penalty[c] < FltMax, ~\E a \in 0..(n - 1) : list[a].c = c
      PROVE  n <= Cardinality(Closer(c))
  <2> DEFINE g == [x \in 0..(n - 1) |-> list[x].c]
  <2>1. \A x \in 0..(n - 1) : list[x].c # -1 /\ list[x].c \in Closer(c)
    BY <1>3, <1>6
  <2>2. ASSUME NEW x \in 0..(n - 1), NEW y \in 0..(n - 1), x < y
        PROVE  list[x].c # list[y].c
    <3>1. list[x].c \in Closer(list[y].c) /\ list[x].c \in Clusters /\ list[y].c \in Clusters
      BY <1>2, <1>4, <2>1, <2>2
    <3> QED
      BY <3>1, CloserIsAnOrder
  <2>3. \A x, y \in 0..(n - 1) : list[x].c = list[y].c => x = y
    <3>1. \A x, y \in 0..(n - 1) : x < y \/ y < x \/ x = y
      BY <1>1
    <3> QED
      BY <2>2, <3>1
  <2>4. g \in Injection(0..(n - 1), Closer(c))
    BY <2>1, <2>3 DEF Injection, IsInjective
  <2>5. Cardinality(0..(n - 1)) = n
    BY <1>1, SlotsAreCounted
  <2> HIDE DEF g
  <2>6. Cardinality(0..(n - 1)) <= Cardinality(Closer(c))
    BY <2>4, CloserIsFinite, FS_Injection
  <2> QED
    BY <2>5, <2>6
<1> QED
  BY <1>1, <1>5, <1>6

LEMMA FlagsAreFinite ==
  IsFiniteSet({c \in Clusters : scanned[c]}) /\ FlagCount \in Nat
<1>1. IsFiniteSet(Clusters)
  BY ClusterAssumption, FS_Interval DEF Clusters
<1>2. {c \in Clusters : scanned[c]} \subseteq Clusters
  OBVIOUS
<1>3. IsFiniteSet({c \in Clusters : scanned[c]})
  BY <1>1, <1>2, FS_Subset
<1> QED
  BY <1>3, FS_CardinalityType DEF FlagCount

\* Flagging the closest open cluster keeps the flags in order.
LEMMA FlagClosest ==
  ASSUME InputsOK, scanned \in [Clusters -> BOOLEAN], FlagsInOrder,
         penalty' = penalty, NEW c \in ClosestUnscanned,
         scanned' = [scanned EXCEPT ![c] = TRUE]
  PROVE  FlagsInOrder' /\ FlagCount' = FlagCount + 1
<1>1. c \in Clusters /\ ~scanned[c] /\ penalty[c] < FltMax
  BY DEF ClosestUnscanned, Open
<1>2. \A e \in Clusters : scanned'[e] <=> (scanned[e] \/ e = c)
  BY <1>1
<1>3. Closer(c) \subseteq Clusters /\ \A e \in Clusters : Closer(e)' = Closer(e)
  BY DEF Closer
<1>4. ASSUME NEW e \in Closer(c) PROVE scanned[e]
  <2>1. e \in Clusters /\ e # c /\ (penalty[e] < penalty[c] \/ (penalty[e] = penalty[c] /\ e < c))
    BY <1>1, <1>3, CloserIsAnOrder
  <2>2. /\ penalty[e] \in Int /\ penalty[c] \in Int /\ FltMax \in Int
        /\ e \in Int /\ c \in Int
    BY <1>1, <2>1, LanesAssumption, ClusterAssumption DEF InputsOK, Clusters
  <2>3. ~(penalty[c] < penalty[e] \/ (penalty[c] = penalty[e] /\ c <= e))
    BY <2>1, <2>2
  <2>4. e \notin Open
    BY <2>3 DEF ClosestUnscanned
  <2>5. penalty[e] < FltMax
    BY <1>1, <2>1, <2>2
  <2> QED
    BY <2>1, <2>4, <2>5 DEF Open
<1>5. FlagsInOrder'
  <2> SUFFICES ASSUME NEW d \in Clusters, scanned'[d]
               PROVE  penalty[d] < FltMax /\ \A e \in Closer(d) : scanned'[e]
    BY <1>3 DEF FlagsInOrder
  <2>1. Closer(d) \subseteq Clusters
    BY DEF Closer
  <2>2. CASE d = c
    BY <1>1, <1>2, <1>4, <2>1, <2>2
  <2>3. CASE d # c
    BY <1>2, <2>1, <2>3 DEF FlagsInOrder
  <2> QED
    BY <2>2, <2>3
<1>6. FlagCount' = FlagCount + 1
  <2> DEFINE F == {e \in Clusters : scanned[e]}
             G == {e \in Clusters : scanned'[e]}
  <2>1. G = F \cup {c} /\ c \notin F
    BY <1>1, <1>2
  <2>2. IsFiniteSet(F)
    BY FlagsAreFinite
  <2>3. FlagCount = Cardinality(F) /\ FlagCount' = Cardinality(G)
    BY DEF FlagCount
  <2> HIDE DEF F, G
  <2>4. Cardinality(F \cup {c}) = Cardinality(F) + 1
    BY <2>1, <2>2, FS_AddElement
  <2> QED
    BY <2>1, <2>3, <2>4
<1> QED
  BY <1>5, <1>6

\* Flags in order, n of them or all there can be, are the n closest.
LEMMA FlagsAreClosest ==
  ASSUME InputsOK, scanned \in [Clusters -> BOOLEAN], FlagsInOrder,
         NEW n \in Nat, FlagCount <= n, Open # {} => FlagCount = n,
         NEW c \in Clusters
  PROVE  scanned[c] <=> penalty[c] < FltMax /\ Cardinality(Closer(c)) < n
<1> DEFINE F == {e \in Clusters : scanned[e]}
<1>1. IsFiniteSet(F) /\ FlagCount = Cardinality(F) /\ FlagCount \in Nat
  BY FlagsAreFinite DEF FlagCount
<1>2. Cardinality(Closer(c)) \in Nat /\ IsFiniteSet(Closer(c)) /\ Closer(c) \subseteq Clusters
  BY CloserIsFinite DEF Closer
<1>3. ASSUME scanned[c] PROVE penalty[c] < FltMax /\ Cardinality(Closer(c)) < n
  <2>1. penalty[c] < FltMax /\ Closer(c) \subseteq F
    BY <1>2, <1>3 DEF FlagsInOrder
  <2>2. c \in F /\ c \notin Closer(c)
    BY <1>3, CloserIsAnOrder
  <2> HIDE DEF F
  <2>3. Cardinality(Closer(c)) <= Cardinality(F)
        /\ (Cardinality(Closer(c)) = Cardinality(F) => Closer(c) = F)
    BY <1>1, <2>1, FS_Subset
  <2>4. Cardinality(Closer(c)) < n
    <3>1. Cardinality(Closer(c)) # Cardinality(F)
      BY <2>2, <2>3
    <3> QED
      BY <1>1, <1>2, <2>3, <3>1
  <2> QED
    BY <2>1, <2>4
<1>4. ASSUME ~scanned[c], penalty[c] < FltMax PROVE n <= Cardinality(Closer(c))
  <2>1. c \in Open
    BY <1>4 DEF Open
  <2>2. F \subseteq Closer(c)
    <3> SUFFICES ASSUME NEW e \in Clusters, scanned[e] PROVE e \in Closer(c)
      OBVIOUS
    <3>1. e # c /\ c \notin Closer(e)
      BY <1>4 DEF FlagsInOrder
    <3> QED
      BY <3>1, CloserIsAnOrder
  <2> HIDE DEF F
  <2>3. Cardinality(F) <= Cardinality(Closer(c))
    BY <1>2, <2>2, FS_Subset
  <2> QED
    BY <1>1, <2>1, <2>3
<1> QED
  BY <1>2, <1>3, <1>4

\* Before the probe pass nothing is claimed.
LEMMA ProbeInit == Init => ProbeInv
BY DEF Init, ProbeInv, ListIsFirst, FlagsFollowList, FlagsFollowOrder, ProbesFollowNProbe

\* A step that neither flags a cluster nor changes the list keeps the claims.
LEMMA SameProbes ==
  ASSUME ProbeInv, UNCHANGED <<inputs, phase, nprobe, probes, scanned>>,
         Ix' = Ix, k' = k \/ phase # "select", Probed' = Probed
  PROVE  ProbeInv'
<1>1. /\ phase' = phase /\ nprobe' = nprobe /\ probes' = probes /\ scanned' = scanned
      /\ penalty' = penalty /\ rawNProbe' = rawNProbe /\ kernel' = kernel
  BY DEF inputs
<1>2. \A c \in Clusters : Closer(c)' = Closer(c) /\ NonEmpty(Ix, c)' = NonEmpty(Ix, c)
  BY <1>1 DEF Closer, NonEmpty
<1>3. ListIsFirst'
  <2>1. FirstOf(probes, nprobe, k)' = FirstOf(probes, nprobe, k) \/ phase # "select"
    BY <1>1 DEF FirstOf, Closer
  <2>2. FirstOf(probes, nprobe, K)' = FirstOf(probes, nprobe, K)
    BY <1>1 DEF FirstOf, Closer
  <2>3. NormalizeNProbe(rawNProbe)' = NormalizeNProbe(rawNProbe)
    BY <1>1 DEF NormalizeNProbe
  <2> QED
    BY <1>1, <2>1, <2>2, <2>3 DEF ProbeInv, ListIsFirst
<1>4. FlagsFollowList'
  BY <1>1, <1>2 DEF ProbeInv, FlagsFollowList
<1>5. FlagsFollowOrder'
  <2>1. FlagsInOrder' = FlagsInOrder /\ FlagCount' = FlagCount /\ Open' = Open
    BY <1>1 DEF FlagsInOrder, FlagCount, Open, Closer
  <2> QED
    BY <1>1, <2>1 DEF ProbeInv, FlagsFollowOrder
<1>6. ProbesFollowNProbe'
  <2>1. NormalizeNProbe(rawNProbe)' = NormalizeNProbe(rawNProbe)
    BY <1>1 DEF NormalizeNProbe
  <2> QED
    BY <1>1, <1>2, <2>1 DEF ProbeInv, ProbesFollowNProbe
<1> QED
  BY <1>3, <1>4, <1>5, <1>6 DEF ProbeInv

\* A probe of C flags the cluster of its slot if it has records.
LEMMA ListProbe ==
  ASSUME TypeOK, ListIsFirst, FlagsFollowList, phase = "probe", cur = -1, k < nprobe,
         kernel # "go", UNCHANGED <<inputs, phase, nprobe, probes>>, Ix' = Ix,
         Probed' = k + 1,
         \A c \in Clusters : NonEmpty(Ix, c) =>
           (scanned'[c] <=> scanned[c] \/ c = probes[k].c)
  PROVE  ListIsFirst' /\ FlagsFollowList'
<1>1. /\ phase' = phase /\ nprobe' = nprobe /\ probes' = probes
      /\ penalty' = penalty /\ rawNProbe' = rawNProbe /\ kernel' = kernel
  BY DEF inputs
<1>2. ListIsFirst'
  <2>1. FirstOf(probes, nprobe, K)' = FirstOf(probes, nprobe, K)
    BY <1>1 DEF FirstOf, Closer
  <2>2. NormalizeNProbe(rawNProbe)' = NormalizeNProbe(rawNProbe)
    BY <1>1 DEF NormalizeNProbe
  <2> QED
    BY <1>1, <2>1, <2>2 DEF ListIsFirst
<1>3. FlagsFollowList'
  <2>1. /\ k \in 0..(nprobe - 1) /\ k \in Int /\ Probed = k
        /\ \A a \in 0..(nprobe - 1) : a < k + 1 <=> (a < k \/ a = k)
    BY ClusterAssumption DEF TypeOK, Probed
  <2>2. \A c \in Clusters : NonEmpty(Ix, c) =>
          (scanned[c] <=> \E a \in 0..(nprobe - 1) : a < k /\ probes[a].c = c)
    BY <2>1 DEF FlagsFollowList
  <2>3. \A c \in Clusters : NonEmpty(Ix, c) =>
          (scanned'[c] <=> \E a \in 0..(nprobe - 1) : a < k + 1 /\ probes[a].c = c)
    BY <2>1, <2>2
  <2>4. \A c \in Clusters : NonEmpty(Ix, c)' = NonEmpty(Ix, c)
    BY DEF NonEmpty
  <2> QED
    BY <1>1, <2>3, <2>4 DEF FlagsFollowList
<1> QED
  BY <1>2, <1>3

\* A probe of Go flags the closest cluster that is left.
LEMMA OrderProbe ==
  ASSUME InputsOK, TypeOK, FlagsFollowOrder, phase = "probe", cur = -1, k < nprobe,
         kernel = "go", penalty' = penalty, Probed' = k + 1,
         \/ Open = {} /\ scanned' = scanned
         \/ \E c \in ClosestUnscanned : scanned' = [scanned EXCEPT ![c] = TRUE]
  PROVE  FlagsFollowOrder'
<1>1. /\ FlagsInOrder /\ FlagCount <= k /\ (Open # {} => FlagCount = k)
      /\ FlagCount \in Nat /\ k \in Int /\ scanned \in [Clusters -> BOOLEAN]
  BY FlagsAreFinite, ClusterAssumption DEF FlagsFollowOrder, Probed, TypeOK
<1>2. CASE Open = {} /\ scanned' = scanned
  <2>1. FlagsInOrder' = FlagsInOrder /\ FlagCount' = FlagCount /\ Open' = Open
    BY <1>2 DEF FlagsInOrder, FlagCount, Open, Closer
  <2>2. FlagCount <= k + 1
    BY <1>1
  <2> QED
    BY <1>1, <1>2, <2>1, <2>2 DEF FlagsFollowOrder
<1>3. CASE \E c \in ClosestUnscanned : scanned' = [scanned EXCEPT ![c] = TRUE]
  <2>1. PICK c \in ClosestUnscanned : scanned' = [scanned EXCEPT ![c] = TRUE]
    BY <1>3
  <2>2. FlagsInOrder' /\ FlagCount' = FlagCount + 1
    BY <1>1, <2>1, FlagClosest
  <2>3. FlagCount = k
    BY <1>1, <2>1 DEF ClosestUnscanned
  <2>4. FlagCount' = k + 1 /\ FlagCount' <= k + 1
    BY <1>1, <2>2, <2>3
  <2> QED
    BY <2>2, <2>4 DEF FlagsFollowOrder
<1> QED
  BY <1>2, <1>3

\* When the probe pass ends, the closest clusters are those flagged.
LEMMA ProbesEnd ==
  ASSUME InputsOK, TypeOK, ProbeInv, phase = "probe", cur = -1, k = nprobe,
         NEW c \in Clusters, NonEmpty(Ix, c)
  PROVE  scanned[c] <=> /\ penalty[c] < FltMax
                        /\ Cardinality(Closer(c)) < NormalizeNProbe(rawNProbe)
<1>1. nprobe \in 1..K /\ nprobe \in Nat /\ nprobe = NormalizeNProbe(rawNProbe) /\ Probed = nprobe
  BY ClusterAssumption DEF TypeOK, ProbeInv, ListIsFirst, Probed
<1>2. CASE kernel # "go"
  <2>1. /\ FirstOf(probes, nprobe, K)
        /\ probes \in [0..(nprobe - 1) -> [c : {-1} \cup Clusters, p : 0..FltMax]]
    BY <1>2 DEF TypeOK, ProbeInv, ListIsFirst
  <2>2. scanned[c] <=> \E a \in 0..(nprobe - 1) : a < nprobe /\ probes[a].c = c
    BY <1>1, <1>2 DEF ProbeInv, FlagsFollowList
  <2>3. \A a \in 0..(nprobe - 1) : a < nprobe
    BY <1>1
  <2>4. (\E a \in 0..(nprobe - 1) : probes[a].c = c)
          <=> penalty[c] < FltMax /\ Cardinality(Closer(c)) < nprobe
    BY <1>1, <2>1, FirstAreClosest
  <2>5. scanned[c] <=> penalty[c] < FltMax /\ Cardinality(Closer(c)) < nprobe
    BY <2>2, <2>3, <2>4
  <2> QED
    BY <1>1, <2>5
<1>3. CASE kernel = "go"
  <2>1. /\ FlagsInOrder /\ FlagCount <= nprobe /\ (Open # {} => FlagCount = nprobe)
        /\ scanned \in [Clusters -> BOOLEAN]
    BY <1>1, <1>3 DEF TypeOK, ProbeInv, FlagsFollowOrder
  <2>2. scanned[c] <=> penalty[c] < FltMax /\ Cardinality(Closer(c)) < nprobe
    BY <1>1, <2>1, FlagsAreClosest
  <2> QED
    BY <1>1, <2>2
<1> QED
  BY <1>2, <1>3

\* The list starts with no cluster, and no cluster was looked at.
LEMMA BeginProbes ==
  ASSUME InputsOK, TypeOK, ScanContext, Begin, Ix' = Ix
  PROVE  ProbeInv'
<1>1. /\ phase = "start" /\ phase' = IF kernel = "go" THEN "probe" ELSE "select"
      /\ nprobe' = NormalizeNProbe(rawNProbe)
      /\ penalty' = penalty /\ rawNProbe' = rawNProbe /\ kernel' = kernel
      /\ k' = 0 /\ cur' = -1 /\ scanned' = [c \in Clusters |-> FALSE]
  BY DEF Begin, inputs, scan, ScanContext
<1>2. ProbesFollowNProbe'
  BY <1>1 DEF ProbesFollowNProbe
<1>3. NormalizeNProbe(rawNProbe)' = NormalizeNProbe(rawNProbe)
  BY <1>1 DEF NormalizeNProbe
<1>4. CASE kernel # "go"
  <2>1. phase' = "select" /\ probes' = [m \in 0..(nprobe' - 1) |-> NoProbe]
    BY <1>1, <1>4 DEF Begin
  <2>2. \A c \in Clusters : ~(c < 0)
    BY ClusterAssumption DEF Clusters
  <2>3. FirstOf(probes, nprobe, k)'
    BY <1>1, <2>1, <2>2 DEF FirstOf, NoProbe
  <2>4. ListIsFirst'
    BY <1>1, <1>3, <1>4, <2>1, <2>3 DEF ListIsFirst
  <2>5. FlagsFollowList' /\ FlagsFollowOrder'
    BY <2>1 DEF FlagsFollowList, FlagsFollowOrder
  <2> QED
    BY <1>2, <2>4, <2>5 DEF ProbeInv
<1>5. CASE kernel = "go"
  <2>1. ListIsFirst' /\ FlagsFollowList'
    BY <1>1, <1>3, <1>5 DEF ListIsFirst, FlagsFollowList
  <2>2. FlagsInOrder' /\ FlagCount' = 0
    <3>1. {c \in Clusters : scanned'[c]} = {}
      BY <1>1
    <3> QED
      BY <1>1, <3>1, FS_EmptySet DEF FlagsInOrder, FlagCount
  <2>3. Probed' = 0
    BY <1>1 DEF Probed
  <2>4. FlagsFollowOrder'
    BY <2>2, <2>3 DEF FlagsFollowOrder
  <2> QED
    BY <1>2, <2>1, <2>4 DEF ProbeInv
<1> QED
  BY <1>4, <1>5

LEMMA SelectProbes ==
  ASSUME InputsOK, TypeOK, NoProbeRepeats, ProbeInv, SelectProbe, Ix' = Ix
  PROVE  ProbeInv'
<1>1. /\ phase = "select" /\ phase' = "select" /\ k < K /\ k' = k + 1 /\ nprobe' = nprobe
      /\ probes' = InsertProbe(probes, nprobe, k, penalty[k])
      /\ penalty' = penalty /\ rawNProbe' = rawNProbe /\ kernel' = kernel
  BY DEF SelectProbe, inputs
<1>2. nprobe \in 1..K /\ k \in Clusters
  BY <1>1, ClusterAssumption DEF TypeOK, Clusters
<1>3. /\ probes \in [0..(nprobe - 1) -> [c : {-1} \cup Clusters, p : 0..FltMax]]
      /\ \A a, b \in 0..(nprobe - 1) : a < b => probes[a].p <= probes[b].p
      /\ \A a \in 0..(nprobe - 1) : probes[a].c < k
      /\ kernel # "go" /\ FirstOf(probes, nprobe, k)
  BY <1>1 DEF TypeOK, NoProbeRepeats, ProbeInv, ListIsFirst
<1>4. FirstOf(probes', nprobe, k + 1)
  BY <1>1, <1>2, <1>3, InsertProbeFirst
<1>5. FirstOf(probes, nprobe, k)'
  BY <1>1, <1>4 DEF FirstOf, Closer
<1>6. ListIsFirst'
  <2>1. NormalizeNProbe(rawNProbe)' = NormalizeNProbe(rawNProbe)
    BY <1>1 DEF NormalizeNProbe
  <2> QED
    BY <1>1, <1>3, <1>5, <2>1 DEF ProbeInv, ListIsFirst
<1>7. FlagsFollowList' /\ FlagsFollowOrder' /\ ProbesFollowNProbe'
  BY <1>1 DEF FlagsFollowList, FlagsFollowOrder, ProbesFollowNProbe
<1> QED
  BY <1>6, <1>7 DEF ProbeInv

LEMMA ListProbes ==
  ASSUME InputsOK, TypeOK, ScanContext, ProbeInv, BeginProbe, Ix' = Ix
  PROVE  ProbeInv'
<1>1. /\ phase = "select" /\ phase' = "probe" /\ k = K /\ k' = 0 /\ nprobe' = nprobe
      /\ probes' = probes /\ cur' = -1 /\ scanned' = [c \in Clusters |-> FALSE]
      /\ penalty' = penalty /\ rawNProbe' = rawNProbe /\ kernel' = kernel
  BY DEF BeginProbe, inputs, scan, ScanContext
<1>2. kernel # "go" /\ FirstOf(probes, nprobe, K) /\ nprobe = NormalizeNProbe(rawNProbe)
  BY <1>1 DEF ProbeInv, ListIsFirst
<1>3. FirstOf(probes, nprobe, K)'
  BY <1>1, <1>2 DEF FirstOf, Closer
<1>4. ListIsFirst'
  <2>1. NormalizeNProbe(rawNProbe)' = NormalizeNProbe(rawNProbe)
    BY <1>1 DEF NormalizeNProbe
  <2> QED
    BY <1>1, <1>2, <1>3, <2>1 DEF ListIsFirst
<1>5. FlagsFollowList'
  <2>1. \A a \in 0..(nprobe - 1) : ~(a < 0)
    OBVIOUS
  <2>2. Probed' = 0
    BY <1>1 DEF Probed
  <2> QED
    BY <1>1, <2>1, <2>2 DEF FlagsFollowList
<1>6. FlagsFollowOrder' /\ ProbesFollowNProbe'
  BY <1>1, <1>2 DEF FlagsFollowOrder, ProbesFollowNProbe
<1> QED
  BY <1>4, <1>5, <1>6 DEF ProbeInv

\* One probe, of a cluster with or without records, whatever the kernel.
LEMMA OneProbe ==
  ASSUME InputsOK, TypeOK, NoProbeRepeats, ProbeInv, ProbeSkip \/ ProbeScan, Ix' = Ix
  PROVE  ProbeInv'
<1>1. /\ phase = "probe" /\ phase' = phase /\ cur = -1 /\ k < nprobe
      /\ nprobe' = nprobe /\ probes' = probes
      /\ penalty' = penalty /\ rawNProbe' = rawNProbe /\ kernel' = kernel
      /\ UNCHANGED <<inputs, phase, nprobe, probes>>
  BY DEF ProbeSkip, ProbeScan, inputs
<1>2. PICK c \in ProbeTargets :
        \/ /\ c >= 0 => ~NonEmpty(Ix, c)
           /\ scanned' = IF kernel = "go" /\ c >= 0
                         THEN [scanned EXCEPT ![c] = TRUE] ELSE scanned
           /\ k' = k + 1 /\ cur' = -1
        \/ /\ c >= 0 /\ NonEmpty(Ix, c) /\ scanned' = [scanned EXCEPT ![c] = TRUE]
           /\ k' = k /\ cur' = c
  BY <1>1 DEF ProbeSkip, ProbeScan, scan
<1>3. c \in {-1} \cup Clusters /\ (c \in Clusters <=> c >= 0) /\ (c = -1 <=> ~(c >= 0))
  <2>1. c \in {-1} \cup Clusters
    BY <1>1, ProbeTargetsType
  <2> QED
    BY <2>1, ClusterAssumption DEF Clusters
<1>4. Probed' = k + 1
  BY <1>2, <1>3 DEF Probed
<1>5. scanned \in [Clusters -> BOOLEAN]
  BY DEF TypeOK
<1>6. ProbesFollowNProbe'
  BY <1>1 DEF ProbesFollowNProbe
<1>7. CASE kernel # "go"
  <2>1. c = probes[k].c
    BY <1>7 DEF ProbeTargets
  <2>2. \A d \in Clusters : NonEmpty(Ix, d) => (scanned'[d] <=> scanned[d] \/ d = probes[k].c)
    BY <1>2, <1>3, <1>5, <1>7, <2>1
  <2>3. ListIsFirst' /\ FlagsFollowList'
    BY <1>1, <1>4, <1>7, <2>2, ListProbe DEF ProbeInv
  <2>4. FlagsFollowOrder'
    BY <1>1, <1>7 DEF FlagsFollowOrder
  <2> QED
    BY <1>6, <2>3, <2>4 DEF ProbeInv
<1>8. CASE kernel = "go"
  <2>1. \/ Open = {} /\ scanned' = scanned
        \/ \E d \in ClosestUnscanned : scanned' = [scanned EXCEPT ![d] = TRUE]
    <3>1. CASE Open = {}
      <4>1. c = -1
        BY <1>8, <3>1 DEF ProbeTargets
      <4> QED
        BY <1>2, <1>3, <3>1, <4>1
    <3>2. CASE Open # {}
      <4>1. c \in ClosestUnscanned
        BY <1>8, <3>2 DEF ProbeTargets
      <4>2. c >= 0
        BY <1>3, <4>1 DEF ClosestUnscanned, Open
      <4> QED
        BY <1>2, <1>8, <4>1, <4>2
    <3> QED
      BY <3>1, <3>2
  <2>2. FlagsFollowOrder'
    BY <1>1, <1>4, <1>8, <2>1, OrderProbe DEF ProbeInv
  <2>3. ListIsFirst' /\ FlagsFollowList'
    <3>1. NormalizeNProbe(rawNProbe)' = NormalizeNProbe(rawNProbe)
      BY <1>1 DEF NormalizeNProbe
    <3> QED
      BY <1>1, <1>8, <3>1 DEF ProbeInv, ListIsFirst, FlagsFollowList
  <2> QED
    BY <1>6, <2>2, <2>3 DEF ProbeInv
<1> QED
  BY <1>7, <1>8

LEMMA ProbeStep == IInv /\ ProbeInv /\ [Next]_vars => ProbeInv'
<1> SUFFICES ASSUME IInv, ProbeInv, [Next]_vars PROVE ProbeInv'
  OBVIOUS
<1>1. /\ InputsOK /\ TypeOK /\ ScanContext /\ NoProbeRepeats
      /\ inputs' = inputs /\ Ix' = Ix
  BY InputsFixed DEF IInv
<1>2. CASE SearchEmpty
  <2>1. /\ phase' = "done" /\ Ix.n = 0
    BY <1>2 DEF SearchEmpty
  <2>2. ProbesFollowNProbe'
    BY <1>1, <2>1 DEF ProbesFollowNProbe
  <2> QED
    BY <2>1, <2>2 DEF ProbeInv, ListIsFirst, FlagsFollowList, FlagsFollowOrder
<1>3. CASE Begin
  BY <1>1, <1>3, BeginProbes
<1>4. CASE SelectProbe
  BY <1>1, <1>4, SelectProbes
<1>5. CASE BeginProbe
  BY <1>1, <1>5, ListProbes
<1>6. CASE ProbeSkip \/ ProbeScan
  BY <1>1, <1>6, OneProbe
<1>7. CASE BeginRepair \/ Finish
  <2>1. /\ phase' \in {"repair", "done"} /\ scanned' = scanned /\ penalty' = penalty
        /\ rawNProbe' = rawNProbe
    BY <1>7 DEF BeginRepair, Finish, inputs
  <2>2. \/ phase = "probe" /\ cur = -1 /\ k = nprobe
        \/ phase = "repair"
    BY <1>7 DEF BeginRepair, Finish
  <2>3. ASSUME Ix.n > 0, NEW c \in Clusters, NonEmpty(Ix, c)
        PROVE  scanned[c] <=> /\ penalty[c] < FltMax
                              /\ Cardinality(Closer(c)) < NormalizeNProbe(rawNProbe)
    <3>1. CASE phase = "repair"
      BY <2>3, <3>1 DEF ProbeInv, ProbesFollowNProbe
    <3>2. CASE phase = "probe" /\ cur = -1 /\ k = nprobe
      BY <1>1, <2>3, <3>2, ProbesEnd
    <3> QED
      BY <2>2, <3>1, <3>2
  <2>4. \A c \in Clusters : Closer(c)' = Closer(c) /\ NonEmpty(Ix, c)' = NonEmpty(Ix, c)
    BY <1>1, <2>1 DEF Closer, NonEmpty
  <2>5. NormalizeNProbe(rawNProbe)' = NormalizeNProbe(rawNProbe)
    BY <2>1 DEF NormalizeNProbe
  <2>6. ProbesFollowNProbe'
    BY <1>1, <2>1, <2>3, <2>4, <2>5 DEF ProbesFollowNProbe
  <2>7. phase' \notin {"select", "probe"}
    BY <2>1
  <2> QED
    BY <2>6, <2>7 DEF ProbeInv, ListIsFirst, FlagsFollowList, FlagsFollowOrder
<1>8. CASE RepairSkip \/ RepairScan
  <2>1. /\ phase = "repair" /\ phase' = "repair" /\ scanned' = scanned /\ penalty' = penalty
        /\ rawNProbe' = rawNProbe
    BY <1>8 DEF RepairSkip, RepairScan, inputs
  <2>2. \A c \in Clusters : Closer(c)' = Closer(c) /\ NonEmpty(Ix, c)' = NonEmpty(Ix, c)
    BY <1>1, <2>1 DEF Closer, NonEmpty
  <2>3. NormalizeNProbe(rawNProbe)' = NormalizeNProbe(rawNProbe)
    BY <2>1 DEF NormalizeNProbe
  <2>4. ProbesFollowNProbe'
    BY <1>1, <2>1, <2>2, <2>3 DEF ProbeInv, ProbesFollowNProbe
  <2> QED
    BY <2>1, <2>4 DEF ProbeInv, ListIsFirst, FlagsFollowList, FlagsFollowOrder
<1>9. CASE ScanLane \/ ScanPrune \/ ScanRecord \/ UNCHANGED vars
  <2>1. UNCHANGED <<inputs, phase, nprobe, probes, scanned>> /\ k' = k /\ cur' = cur
    BY <1>9 DEF ScanLane, ScanPrune, ScanRecord, vars, scan
  <2>2. Probed' = Probed
    BY <2>1 DEF Probed
  <2> QED
    BY <1>1, <2>1, <2>2, SameProbes
<1>10. CASE ScanEnd
  <2>1. /\ UNCHANGED <<inputs, phase, nprobe, probes, scanned>>
        /\ cur # -1 /\ cur' = -1 /\ k' = k + 1
    BY <1>10 DEF ScanEnd
  <2>2. Probed' = Probed /\ phase # "select"
    BY <1>1, <2>1 DEF Probed, ScanContext
  <2> QED
    BY <1>1, <2>1, <2>2, SameProbes
<1> QED
  BY <1>2, <1>3, <1>4, <1>5, <1>6, <1>7, <1>8, <1>9, <1>10 DEF Next

\* Raising nprobe to 1 and cutting it to K changes nothing but that the closest
\* cluster is always probed.
LEMMA ClampIsHarmless ==
  ASSUME InputsOK, NEW c \in Clusters
  PROVE  Cardinality(Closer(c)) < NormalizeNProbe(rawNProbe)
           <=> Closer(c) = {} \/ Cardinality(Closer(c)) < rawNProbe
<1>1. K \in Nat \ {0} /\ rawNProbe \in Int /\ c \in 0..(K - 1)
  BY ClusterAssumption DEF InputsOK, Clusters
<1>2. /\ IsFiniteSet(0..(K - 1)) /\ Cardinality(0..(K - 1)) = K
      /\ Closer(c) \subseteq (0..(K - 1)) \ {c}
  <2>1. IsFiniteSet(0..(K - 1)) /\ Cardinality(0..(K - 1)) = K
    BY <1>1, FS_Interval
  <2>2. c \notin Closer(c)
    BY CloserIsAnOrder
  <2> QED
    BY <2>1, <2>2 DEF Closer, Clusters
<1>3. /\ IsFiniteSet(Closer(c)) /\ Cardinality(Closer(c)) \in Nat
      /\ Cardinality(Closer(c)) <= K - 1
  <2>1. IsFiniteSet((0..(K - 1)) \ {c}) /\ Cardinality((0..(K - 1)) \ {c}) = K - 1
    BY <1>1, <1>2, FS_RemoveElement
  <2> QED
    BY <1>2, <2>1, FS_Subset, FS_CardinalityType
<1>4. Cardinality(Closer(c)) = 0 <=> Closer(c) = {}
  BY <1>3, FS_EmptySet
<1> QED
  BY <1>1, <1>3, <1>4 DEF NormalizeNProbe

\* The probe pass scans the non-empty clusters among the nprobe closest and no
\* other, whether the list of C or the repeated minimum of Go chooses them.
THEOREM ProbesAreTheClosest == Spec => []ProbesAreClosest
<1>1. Spec => []ProbeInv
  BY ProbeInit, ProbeStep, Invariant, PTL DEF Spec
<1>2. IInv /\ ProbeInv => ProbesAreClosest
  BY ClampIsHarmless DEF IInv, ProbeInv, ProbesFollowNProbe, ProbesAreClosest
<1> QED
  BY <1>1, <1>2, Invariant, PTL
=============================================================================
