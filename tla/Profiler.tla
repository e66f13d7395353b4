------------------------------ MODULE Profiler ------------------------------
(***************************************************************************)
(* The profiler of the server: the goroutines of all connections add each  *)
(* answered request to shared counters, one atomic addition after the      *)
(* other, and the one that counts a multiple of Every reads them back, one *)
(* by one, to log cumulative averages.  A log entry keeps the sums that    *)
(* were read; the averages are these sums divided by the request number.   *)
(*                                                                         *)
(* A request that is rejected by vectorize is recorded as well: it adds    *)
(* nothing to the counters of the search.  One whose reply cannot be       *)
(* written is not recorded and does not occur here.                        *)
(***************************************************************************)
EXTENDS Integers, Sequences, FiniteSets

CONSTANTS
  Conns,         \* the goroutines
  Every,         \* log at each multiple of this (profiling is off without it)
  Counters,      \* the sums, in the order they are updated and read in
  OfSearch,      \* those a rejected request adds nothing to
  MaxRequests    \* bound on the requests

ASSUME ProfilerAssumption ==
  /\ Every \in Nat \ {0} /\ MaxRequests \in Nat
  /\ Counters \in Seq({Counters[i] : i \in 1..Len(Counters)}) /\ Len(Counters) > 0
  /\ \A i, j \in 1..Len(Counters) : Counters[i] = Counters[j] => i = j
  /\ OfSearch \subseteq {Counters[i] : i \in 1..Len(Counters)}
  /\ IsFiniteSet(Conns)

VARIABLES
  requests,      \* the number of requests
  sums,          \* counter -> sum
  pc,            \* what a goroutine does: "serve", "add", "check", "load"
  at,            \* which counter it does that to
  num,           \* the number of its request
  accepted,      \* did its request reach the search?
  read,          \* the sums it has read so far
  log,           \* the entries written: [n, sums]
  searched       \* requests recorded so far that reached the search (history)

local == <<pc, at, num, accepted, read>>
vars  == <<requests, sums, local, log, searched>>

Names == {Counters[i] : i \in 1..Len(Counters)}

Init ==
  /\ requests = 0 /\ sums = [c \in Names |-> 0] /\ log = {} /\ searched = 0
  /\ pc = [p \in Conns |-> "serve"] /\ at = [p \in Conns |-> 1]
  /\ num = [p \in Conns |-> 0] /\ accepted = [p \in Conns |-> FALSE]
  /\ read = [p \in Conns |-> <<>>]

\* A mutant: the number is read before the addition.
CountFirstRead(p) ==
  /\ pc[p] = "serve" /\ requests < MaxRequests
  /\ requests' = requests + 1
  /\ num' = [num EXCEPT ![p] = requests]
  /\ \E a \in BOOLEAN : /\ accepted' = [accepted EXCEPT ![p] = a]
                        /\ searched' = searched + (IF a THEN 1 ELSE 0)
  /\ pc' = [pc EXCEPT ![p] = "add"] /\ at' = [at EXCEPT ![p] = 1]
  /\ UNCHANGED <<sums, read, log>>

\* A reply has been written: requests.Add(1) returns the new value.
Count(p) ==
  /\ pc[p] = "serve" /\ requests < MaxRequests
  /\ requests' = requests + 1
  /\ num' = [num EXCEPT ![p] = requests']
  /\ \E a \in BOOLEAN : /\ accepted' = [accepted EXCEPT ![p] = a]
                        /\ searched' = searched + (IF a THEN 1 ELSE 0)
  /\ pc' = [pc EXCEPT ![p] = "add"] /\ at' = [at EXCEPT ![p] = 1]
  /\ UNCHANGED <<sums, read, log>>

\* A mutant: one counter too many.
LastTooLate(p) == at[p] = Len(Counters) + 1

Last(p) == at[p] = Len(Counters)

\* A mutant: a rejected request is counted but its time is not.
AmountOfSearches(p, c) == IF accepted[p] THEN 1 ELSE 0

\* What the request of p adds to a counter, in units.
Amount(p, c) == IF accepted[p] \/ c \notin OfSearch THEN 1 ELSE 0

\* A mutant: a rejected request counts as a search.
AddRegardless(p) ==
  /\ pc[p] = "add"
  /\ sums' = [sums EXCEPT ![Counters[at[p]]] = @ + 1]
  /\ IF Last(p) THEN pc' = [pc EXCEPT ![p] = "check"] /\ at' = [at EXCEPT ![p] = 1]
     ELSE at' = [at EXCEPT ![p] = @ + 1] /\ UNCHANGED pc
  /\ UNCHANGED <<requests, num, accepted, read, log, searched>>

Add(p) ==
  /\ pc[p] = "add"
  /\ sums' = [sums EXCEPT ![Counters[at[p]]] = @ + Amount(p, Counters[at[p]])]
  /\ IF Last(p) THEN pc' = [pc EXCEPT ![p] = "check"] /\ at' = [at EXCEPT ![p] = 1]
     ELSE at' = [at EXCEPT ![p] = @ + 1] /\ UNCHANGED pc
  /\ UNCHANGED <<requests, num, accepted, read, log, searched>>

\* A mutant: the number of requests is read again.
CheckReloaded(p) ==
  /\ pc[p] = "check"
  /\ pc' = [pc EXCEPT ![p] = IF requests % Every = 0 THEN "load" ELSE "serve"]
  /\ num' = [num EXCEPT ![p] = requests]
  /\ read' = [read EXCEPT ![p] = <<>>]
  /\ UNCHANGED <<requests, sums, at, accepted, log, searched>>

Check(p) ==
  /\ pc[p] = "check"
  /\ pc' = [pc EXCEPT ![p] = IF num[p] % Every = 0 THEN "load" ELSE "serve"]
  /\ read' = [read EXCEPT ![p] = <<>>]
  /\ UNCHANGED <<requests, sums, at, num, accepted, log, searched>>

Load(p) ==
  /\ pc[p] = "load"
  /\ read' = [read EXCEPT ![p] = Append(@, sums[Counters[at[p]]])]
  /\ IF Last(p) THEN /\ log' = log \cup {[n |-> num[p], sums |-> read'[p]]}
                     /\ pc' = [pc EXCEPT ![p] = "serve"] /\ at' = [at EXCEPT ![p] = 1]
     ELSE at' = [at EXCEPT ![p] = @ + 1] /\ UNCHANGED <<pc, log>>
  /\ UNCHANGED <<requests, sums, num, accepted, searched>>

Step(p) == Add(p) \/ Check(p) \/ Load(p)
Next == \E p \in Conns : Count(p) \/ Step(p)

\* A goroutine that has begun to record goes on; requests need not come.
Fairness == \A p \in Conns : WF_vars(Step(p))

Spec == Init /\ [][Next]_vars /\ Fairness

-----------------------------------------------------------------------------
(* Properties. *)

\* Every variable stays in its domain.
TypeOK ==
  /\ requests \in 0..MaxRequests /\ sums \in [Names -> 0..requests]
  /\ pc \in [Conns -> {"serve", "add", "check", "load"}]
  /\ at \in [Conns -> 1..Len(Counters)]
  /\ num \in [Conns -> 0..requests] /\ accepted \in [Conns -> BOOLEAN]
  /\ \A p \in Conns : pc[p] = "load" => Len(read[p]) = at[p] - 1
  /\ \A e \in log : e.n \in 1..requests /\ Len(e.sums) = Len(Counters)
  /\ searched \in 0..requests

\* Nothing is lost or counted twice: when no goroutine is recording, each sum
\* is that of all requests, or of those that reached the search.
SumsSettle ==
  (\A p \in Conns : pc[p] = "serve") =>
    \A c \in Names : sums[c] = IF c \in OfSearch THEN searched ELSE requests

\* Each log entry is for a multiple of Every, and no multiple has two, however
\* the goroutines overtake each other between their additions.
NoMultipleTwice ==
  \A e, f \in log : e.n % Every = 0 /\ (e.n = f.n => e = f)

\* The sums divided by n are not those of the first n requests: they may miss
\* what the other goroutines are adding just then, but never more than one
\* request of each, and whatever they have beyond that came after.
AveragesMissAtMostTheOthers ==
  \A e \in log : \A i \in 1..Len(Counters) :
    Counters[i] \notin OfSearch =>
      e.sums[i] >= e.n - (Cardinality(Conns) - 1) /\ e.sums[i] <= requests

\* Every multiple of Every that is reached is logged in the end.
EveryMultipleIsLogged ==
  \A n \in 1..MaxRequests :
    n % Every = 0 => (requests >= n ~> \E e \in log : e.n = n)
=============================================================================
