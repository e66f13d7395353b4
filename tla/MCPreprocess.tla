---------------------------- MODULE MCPreprocess ----------------------------
(***************************************************************************)
(* Small instances of Preprocess: up to four records that differ in two    *)
(* coordinates, every assignment to three clusters.                        *)
(***************************************************************************)
EXTENDS Preprocess

\* Two coordinates: x in the first, y in the last one.
At(x, y) == [j \in Dims |-> IF j = 0 THEN x ELSE IF j = 13 THEN y ELSE 0]

\* With Fine = 2 and FixScale = 2: beyond either end, on a half step of either
\* sign, below a half step, and the sentinel -1.0.
Raws == {At(-5, 1), At(4, -3), At(-1, -4)}

Labels(n) == [r \in 0..(n - 1) |-> IF r = 1 THEN 1 ELSE 0]

FewRecords ==
  UNION {{[n |-> n, raw |-> v, label |-> Labels(n)] : v \in [0..(n - 1) -> Raws]}
         : n \in 0..4}
=============================================================================
