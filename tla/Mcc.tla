--------------------------------- MODULE Mcc ---------------------------------
(***************************************************************************)
(* The merchant-category risk table (package mcc).  A table is a function  *)
(* from the codes that are set to risks in hundredths; a key is the        *)
(* sequence of its characters, a digit standing for itself.                *)
(***************************************************************************)
EXTENDS Integers, Sequences

DefaultRisk == 50

DefaultCodes == {5411, 5812, 5912, 5944, 7801, 7802, 7995, 4511, 5311, 5999}

LoadDefaults == [code \in DefaultCodes |->
  CASE code = 5411 -> 15 [] code = 5812 -> 30 [] code = 5912 -> 20 [] code = 5944 -> 45
    [] code = 7801 -> 80 [] code = 7802 -> 75 [] code = 7995 -> 85 [] code = 4511 -> 35
    [] code = 5311 -> 25 [] code = 5999 -> 50]

NoCode == -1

\* The code of a key is in its first four characters; what follows is ignored.
Code4(s) ==
  IF Len(s) >= 4 /\ \A i \in 1..4 : s[i] \in 0..9
  THEN s[1] * 1000 + s[2] * 100 + s[3] * 10 + s[4] ELSE NoCode

\* The function f with the value v for x, which need not be in its domain.
With(f, x, v) == [y \in DOMAIN f \cup {x} |-> IF y = x THEN v ELSE f[y]]

\* A mutant: an entry that is set already is kept.
ApplyUnlessSet(table, key, risk) ==
  IF Code4(key) = NoCode \/ Code4(key) \in DOMAIN table THEN table
  ELSE With(table, Code4(key), risk)

Apply(table, key, risk) ==
  IF Code4(key) = NoCode THEN table ELSE With(table, Code4(key), risk)

Get(table, s) == IF Code4(s) \in DOMAIN table THEN table[Code4(s)] ELSE DefaultRisk
=============================================================================
