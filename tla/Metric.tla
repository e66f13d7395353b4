------------------------------- MODULE Metric -------------------------------
(***************************************************************************)
(* Distances in the quantised space of the index.                          *)
(*                                                                         *)
(* A vector has 14 coordinates, each an int16 in -FixScale..FixScale once  *)
(* quantised.  The kernel never takes a square root: candidates are        *)
(* compared by the sum of the 14 squared differences, accumulated in the   *)
(* fixed order 5, 6, 2, 0, 7, 8, 11, 12, 9, 10, 1, 13, 3, 4.  The order    *)
(* matters to the scalar kernel only, which gives up on a record as soon   *)
(* as a partial sum is too large.                                          *)
(***************************************************************************)
EXTENDS Integers

CONSTANTS
  FixScale,   \* quantisation scale, 10000 in the code
  Int32Max,   \* largest value of one lane of the vector multiply, 2^31 - 1
  MaxDist     \* UINT64_MAX, the distance of an empty top-5 slot

\* The largest difference of two coordinates squares into a 32-bit lane, and
\* fourteen such squares stay below the distance of an empty slot.
ASSUME ScaleAssumption ==
  /\ FixScale \in Nat \ {0} /\ Int32Max \in Nat /\ MaxDist \in Nat
  /\ 4 * (FixScale * FixScale) <= Int32Max
  /\ 56 * (FixScale * FixScale) < MaxDist

Dims   == 0..13
Coord  == -FixScale..FixScale
Points == [Dims -> Coord]

\* Fourteen terms, added in the order in which the kernels add them.
Sum14(t) == t[5] + t[6] + t[2] + t[0] + t[7] + t[8] + t[11] + t[12]
              + t[9] + t[10] + t[1] + t[13] + t[3] + t[4]

Square(a) == a * a
SqDiff(a, b) == Square(a - b)
Terms(q, v) == [j \in Dims |-> SqDiff(q[j], v[j])]

\* Squared distance between a query and a record.
Dist(q, v) == Sum14(Terms(q, v))

\* The scalar kernel's pruning: one of the first thirteen partial sums is
\* already larger than the current worst distance w.  There is no test after
\* the last term.
EarlyExit(t, w) ==
  LET s1 == t[5]           s2 == s1 + t[6]    s3 == s2 + t[2]
      s4 == s3 + t[0]      s5 == s4 + t[7]    s6 == s5 + t[8]
      s7 == s6 + t[11]     s8 == s7 + t[12]   s9 == s8 + t[9]
      s10 == s9 + t[10]    s11 == s10 + t[1]  s12 == s11 + t[13]
      s13 == s12 + t[3]
  IN  \/ s1 > w \/ s2 > w \/ s3 > w \/ s4 > w \/ s5 > w \/ s6 > w \/ s7 > w
      \/ s8 > w \/ s9 > w \/ s10 > w \/ s11 > w \/ s12 > w \/ s13 > w

\* One lane of the vector kernel: the square is a 32-bit product, so a value
\* above Int32Max comes out negative; it is then widened to 64 bits.
LaneSquare(a) ==
  IF Square(a) <= Int32Max THEN Square(a) ELSE Square(a) - 2 * (Int32Max + 1)

\* The vector kernel's distance: lane squares accumulated in a signed 64-bit
\* lane that is finally read back as an unsigned number.
LaneDist(q, v) ==
  LET s == Sum14([j \in Dims |-> LaneSquare(v[j] - q[j])])
  IN  IF s >= 0 THEN s ELSE MaxDist + 1 + s

\* How far coordinate x lies outside the interval lo..hi.
Gap(x, lo, hi) ==
  IF x < lo THEN lo - x ELSE IF x > hi THEN x - hi ELSE 0

\* Smallest squared distance from q to any point of the box mn..mx.
BoxLowerBound(q, mn, mx) ==
  Sum14([j \in Dims |-> Square(Gap(q[j], mn[j], mx[j]))])
=============================================================================
