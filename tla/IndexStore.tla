----------------------------- MODULE IndexStore -----------------------------
(***************************************************************************)
(* What the index file promises to cmd/preprocess and to the API server,   *)
(* said without bytes: the file stores a whole index or none, replacing    *)
(* it begins by giving up the old one, and a starting server serves what   *)
(* is stored or does not start.                                            *)
(***************************************************************************)
CONSTANTS Indexes, None

VARIABLES
  stored,   \* the index in the file, or None
  being,    \* the index preprocess is writing, or None
  served    \* the index the server has in memory, or None

vars == <<stored, being, served>>

Init == stored \in Indexes \cup {None} /\ being = None /\ served = None

Replace ==
  /\ being = None
  /\ being' \in Indexes
  /\ stored' = None
  /\ UNCHANGED served

\* The last byte of the index reaches the file.
Commit ==
  /\ being # None
  /\ stored' = being
  /\ being' \in {being, None}
  /\ UNCHANGED served

\* preprocess is gone, with an error, killed, or after the commit.
End ==
  /\ being # None
  /\ being' = None
  /\ UNCHANGED <<stored, served>>

Start == being = None /\ stored # None /\ served' = stored /\ UNCHANGED <<stored, being>>

Stop == served' = None /\ UNCHANGED <<stored, being>>

Next == Replace \/ Commit \/ End \/ Start \/ Stop

Spec == Init /\ [][Next]_vars
=============================================================================
