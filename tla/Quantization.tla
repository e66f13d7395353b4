---------------------------- MODULE Quantization ----------------------------
(***************************************************************************)
(* The map from float coordinates to the int16 grid of the index.  The     *)
(* same code runs in cmd/preprocess for the records and in the kernels for *)
(* the query, so a query equal to a record lands on the record.            *)
(*                                                                         *)
(* A float is an integer number of steps of size 1 / (Fine * FixScale):    *)
(* Fine of them make one step of the grid.  Rounding errors of the float   *)
(* arithmetic itself are below one such step and not modelled.             *)
(***************************************************************************)
EXTENDS Metric

CONSTANT Fine

ASSUME FineAssumption == Fine \in Nat \ {0}

One == Fine * FixScale   \* the float 1.0

Clamp(x) == IF x < -One THEN -One ELSE IF x > One THEN One ELSE x

\* Add one half and truncate.
HalfUp(a) == (2 * a + Fine) \div (2 * Fine)

\* A mutant: no clamping.
QuantizeUnclamped(x) == IF x >= 0 THEN HalfUp(x) ELSE -HalfUp(-x)

\* Clamp to -1.0 .. 1.0, scale, round half away from zero.
Quantize(x) ==
  IF Clamp(x) >= 0 THEN HalfUp(Clamp(x)) ELSE -HalfUp(-Clamp(x))
=============================================================================
