--------------------------- MODULE ProfilerProofs ---------------------------
(***************************************************************************)
(* Profiler for any number of goroutines, requests and counters.           *)
(*                                                                         *)
(* The heart is Balance: what a sum lacks is owed by the goroutines that   *)
(* have counted their request and not yet reached that counter.  From it   *)
(* follow the sums at rest and the bound on what an average misses, as the *)
(* goroutine that reads the sums owes nothing itself.                      *)
(***************************************************************************)
EXTENDS Profiler, FiniteSetTheorems, TLAPS

Owed(c) ==
  {p \in Conns : /\ pc[p] = "add"
                 /\ \E j \in at[p]..Len(Counters) : Counters[j] = c
                 /\ c \in OfSearch => accepted[p]}

Types ==
  /\ requests \in 0..MaxRequests /\ searched \in 0..requests
  /\ sums \in [Names -> Nat]
  /\ pc \in [Conns -> {"serve", "add", "check", "load"}]
  /\ at \in [Conns -> 1..Len(Counters)]
  /\ num \in [Conns -> 0..requests] /\ accepted \in [Conns -> BOOLEAN]
  /\ read \in [Conns -> Seq(Nat)]
  /\ \A p \in Conns : pc[p] = "check" => at[p] = 1

Balance ==
  \A c \in Names : sums[c] + Cardinality(Owed(c)) = IF c \in OfSearch THEN searched ELSE requests

\* No two goroutines record the same request, nor one that is in the log.
Numbers ==
  /\ \A p \in Conns : pc[p] # "serve" => num[p] >= 1
  /\ \A p, r \in Conns : pc[p] # "serve" /\ pc[r] # "serve" /\ p # r => num[p] # num[r]
  /\ \A p \in Conns : pc[p] = "load" => num[p] % Every = 0
  /\ \A e \in log : /\ e.n \in 1..requests /\ e.n % Every = 0
                    /\ \A p \in Conns : pc[p] # "serve" => e.n # num[p]
  /\ \A e, f \in log : e.n = f.n => e = f

\* The sums s, read by a goroutine that records request n.
Fair(s, n) ==
  \A i \in 1..Len(s) :
    Counters[i] \notin OfSearch => s[i] >= n - (Cardinality(Conns) - 1) /\ s[i] <= requests

Reads ==
  /\ \A p \in Conns : pc[p] = "load" => Len(read[p]) = at[p] - 1 /\ Fair(read[p], num[p])
  /\ \A e \in log : e.sums \in Seq(Nat) /\ Len(e.sums) = Len(Counters) /\ Fair(e.sums, e.n)

IInv == Types /\ Balance /\ Numbers /\ Reads

-----------------------------------------------------------------------------
LEMMA CountersFacts ==
  /\ Len(Counters) \in Nat \ {0} /\ Every \in Nat \ {0} /\ MaxRequests \in Nat
  /\ \A j \in 1..Len(Counters) : Counters[j] \in Names
  /\ \A i, j \in 1..Len(Counters) : Counters[i] = Counters[j] => i = j
BY ProfilerAssumption DEF Names

LEMMA OwedFinite ==
  \A c : IsFiniteSet(Owed(c)) /\ Cardinality(Owed(c)) \in Nat
<1> TAKE c
<1>1. Owed(c) \subseteq Conns
  BY DEF Owed
<1> QED
  BY <1>1, ProfilerAssumption, FS_Subset, FS_CardinalityType

LEMMA InitInv == Init => IInv
<1> SUFFICES ASSUME Init PROVE IInv
  OBVIOUS
<1>1. Types
  BY CountersFacts DEF Init, Types
<1>2. Balance
  <2> SUFFICES ASSUME NEW c \in Names
               PROVE  sums[c] + Cardinality(Owed(c)) = IF c \in OfSearch THEN searched ELSE requests
    BY DEF Balance
  <2>1. Owed(c) = {}
    BY DEF Owed, Init
  <2> QED
    BY <2>1, FS_EmptySet DEF Init
<1>3. Numbers /\ Reads
  BY DEF Init, Numbers, Reads
<1> QED
  BY <1>1, <1>2, <1>3 DEF IInv

\* Count: the new request is owed to the counters it adds to, all of them.
LEMMA CountInv ==
  ASSUME IInv, NEW p \in Conns, Count(p)
  PROVE  IInv'
<1> USE CountersFacts
<1>0. Types /\ Balance /\ Numbers /\ Reads
  BY DEF IInv
<1>1. requests' = requests + 1 /\ requests \in Nat /\ searched \in Nat
  BY <1>0 DEF Count, Types
<1>2. PICK a \in BOOLEAN : /\ accepted' = [accepted EXCEPT ![p] = a]
                          /\ searched' = searched + (IF a THEN 1 ELSE 0)
  BY DEF Count
<1>3. Types'
  BY <1>0, <1>1, <1>2, SMT DEF Types, Count
<1>4. \A r \in Conns \ {p} : /\ pc'[r] = pc[r] /\ at'[r] = at[r] /\ num'[r] = num[r]
                            /\ accepted'[r] = accepted[r] /\ read'[r] = read[r]
  BY <1>0, <1>2 DEF Types, Count
<1>5. pc[p] = "serve" /\ pc'[p] = "add" /\ at'[p] = 1 /\ num'[p] = requests + 1
      /\ accepted'[p] = a
  BY <1>0, <1>1, <1>2 DEF Types, Count
<1>6a. (a => searched' = searched + 1) /\ (~a => searched' = searched)
  <2>1. ~a => searched' = searched + 0
    BY <1>2, Zenon
  <2>2. a => searched' = searched + 1
    BY <1>2, Zenon
  <2> QED
    BY <1>1, <2>1, <2>2, SMT
<1>6. Balance'
  <2> SUFFICES ASSUME NEW c \in Names
               PROVE  (sums[c] + Cardinality(Owed(c)) = IF c \in OfSearch THEN searched ELSE requests)'
    BY DEF Balance, Names
  <2>1. sums' = sums /\ sums[c] \in Nat
    BY <1>0 DEF Count, Types
  <2>2. sums[c] + Cardinality(Owed(c)) = IF c \in OfSearch THEN searched ELSE requests
    BY <1>0 DEF Balance
  <2>3. p \notin Owed(c) /\ IsFiniteSet(Owed(c)) /\ Cardinality(Owed(c)) \in Nat
    BY <1>5, OwedFinite DEF Owed
  <2>4. \E j \in 1..Len(Counters) : Counters[j] = c
    BY DEF Names
  <2>5. CASE c \in OfSearch /\ ~a
    <3>1. Owed(c)' = Owed(c)
      BY <1>4, <1>5, <2>3, <2>5 DEF Owed
    <3>2. searched' = searched
      BY <1>6a, <2>5, Zenon
    <3> QED
      BY <2>1, <2>2, <2>5, <3>1, <3>2, Zenon
  <2>6. CASE ~(c \in OfSearch /\ ~a)
    <3>1. Owed(c)' = Owed(c) \cup {p}
      BY <1>4, <1>5, <2>3, <2>4, <2>6 DEF Owed
    <3>2. Cardinality(Owed(c)') = Cardinality(Owed(c)) + 1
      BY <2>3, <3>1, FS_AddElement
    <3>3. sums'[c] + Cardinality(Owed(c)') = (sums[c] + Cardinality(Owed(c))) + 1
      BY <2>1, <2>3, <3>2, SMT
    <3>4. CASE c \in OfSearch
      <4>1. searched' = searched + 1
        BY <1>6a, <2>6, <3>4, Zenon
      <4> QED
        BY <2>2, <3>3, <3>4, <4>1, Zenon
    <3>5. CASE c \notin OfSearch
      BY <1>1, <2>2, <3>3, <3>5, Zenon
    <3> QED
      BY <3>4, <3>5
  <2> QED
    BY <2>5, <2>6
<1>7. Numbers'
  <2>1. \A r \in Conns : num[r] \in Nat /\ num[r] <= requests
    BY <1>0, <1>1 DEF Types
  <2>2. log' = log
    BY DEF Count
  <2>3. \A r \in Conns : r # p => num'[r] = num[r] /\ pc'[r] = pc[r]
    BY <1>4
  <2>4. \A r \in Conns : pc'[r] # "serve" => num'[r] >= 1
    BY <1>0, <1>1, <1>5, <2>3, SMT DEF Numbers
  <2>5. \A r, t \in Conns : pc'[r] # "serve" /\ pc'[t] # "serve" /\ r # t => num'[r] # num'[t]
    BY <1>0, <1>1, <1>5, <2>1, <2>3, SMT DEF Numbers
  <2>6. \A r \in Conns : pc'[r] = "load" => num'[r] % Every = 0
    BY <1>0, <1>5, <2>3, ZenonT(40) DEF Numbers
  <2>7. ASSUME NEW e \in log
        PROVE  e.n \in 1..requests' /\ \A r \in Conns : pc'[r] # "serve" => e.n # num'[r]
    BY <1>0, <1>1, <1>5, <2>1, <2>3, SMT DEF Numbers
  <2> QED
    BY <1>0, <2>2, <2>4, <2>5, <2>6, <2>7, Zenon DEF Numbers
<1>8. Reads'
  <2>1. log' = log
    BY DEF Count
  <2>2. \A s \in Seq(Nat), n \in Nat : Fair(s, n) => Fair(s, n)'
    BY <1>1, SMT DEF Fair
  <2>3. \A r \in Conns : read[r] \in Seq(Nat) /\ num[r] \in Nat
    BY <1>0, <1>1 DEF Types
  <2>4. \A e \in log : e.n \in Nat
    BY <1>0, <1>1 DEF Numbers
  <2>5. ASSUME NEW r \in Conns, pc'[r] = "load"
        PROVE  Len(read'[r]) = at'[r] - 1 /\ Fair(read[r], num[r])'
    <3>1. r # p /\ pc[r] = "load"
      BY <1>4, <1>5, <2>5
    <3>3. Len(read[r]) = at[r] - 1 /\ Fair(read[r], num[r])
      BY <1>0, <3>1 DEF Reads
    <3> QED
      BY <1>1, <1>4, <2>3, <3>1, <3>3, SMT DEF Fair
  <2> QED
    BY <1>0, <2>1, <2>2, <2>4, <2>5 DEF Reads
<1> QED
  BY <1>3, <1>6, <1>7, <1>8 DEF IInv

\* Add: the goroutine pays what it owes to one counter, and only to that one.
LEMMA AddInv ==
  ASSUME IInv, NEW p \in Conns, Add(p)
  PROVE  IInv'
<1> USE CountersFacts
<1> DEFINE d == Counters[at[p]]
<1>0. Types /\ Balance /\ Numbers /\ Reads
  BY DEF IInv
<1>1. /\ requests' = requests /\ searched' = searched /\ requests \in Nat /\ searched \in Nat
      /\ num' = num /\ accepted' = accepted /\ read' = read /\ log' = log
  BY <1>0 DEF Add, Types
<1>2. at[p] \in 1..Len(Counters) /\ d \in Names /\ pc[p] = "add" /\ accepted[p] \in BOOLEAN
  BY <1>0 DEF Types, Add
<1>3. sums' = [sums EXCEPT ![d] = @ + Amount(p, d)]
  BY DEF Add
<1>4. Amount(p, d) \in {0, 1} /\ sums[d] \in Nat
  BY <1>0, <1>2 DEF Amount, Types
<1>5. \A r \in Conns \ {p} : pc'[r] = pc[r] /\ at'[r] = at[r]
  BY <1>0, SMT DEF Types, Add
<1>6. \/ at[p] = Len(Counters) /\ pc'[p] = "check" /\ at'[p] = 1
      \/ at[p] < Len(Counters) /\ pc'[p] = "add" /\ at'[p] = at[p] + 1
  BY <1>0, <1>2, SMT DEF Types, Add, Last
<1>7. Types'
  <2>1. sums' \in [Names -> Nat]
    BY <1>0, <1>2, <1>3, <1>4, SMT DEF Types
  <2>2. pc' \in [Conns -> {"serve", "add", "check", "load"}] /\ at' \in [Conns -> 1..Len(Counters)]
    <3>1. pc \in [Conns -> {"serve", "add", "check", "load"}] /\ at \in [Conns -> 1..Len(Counters)]
      BY <1>0 DEF Types
    <3>2. CASE Last(p)
      BY <3>1, <3>2 DEF Add
    <3>3. CASE ~Last(p)
      <4>1. at[p] + 1 \in 1..Len(Counters)
        BY <1>2, <3>3 DEF Last
      <4> QED
        BY <3>1, <3>3, <4>1 DEF Add
    <3> QED
      BY <3>2, <3>3
  <2>3. \A r \in Conns : pc'[r] = "check" => at'[r] = 1
    BY <1>0, <1>5, <1>6 DEF Types
  <2> QED
    BY <1>0, <1>1, <2>1, <2>2, <2>3, Zenon DEF Types
<1>8. Balance'
  <2> SUFFICES ASSUME NEW c \in Names
               PROVE  (sums[c] + Cardinality(Owed(c)) = IF c \in OfSearch THEN searched ELSE requests)'
    BY DEF Balance, Names
  <2>1. sums[c] + Cardinality(Owed(c)) = IF c \in OfSearch THEN searched ELSE requests
    BY <1>0 DEF Balance
  <2>2. IsFiniteSet(Owed(c)) /\ Cardinality(Owed(c)) \in Nat /\ sums[c] \in Nat
    BY <1>0, OwedFinite DEF Types
  <2>3. CASE c # d
    <3>1. p \in Owed(c)' <=> p \in Owed(c)
      BY <1>1, <1>2, <1>6, <2>3, SMT DEF Owed
    <3>2. \A r \in Conns \ {p} : r \in Owed(c)' <=> r \in Owed(c)
      BY <1>1, <1>5 DEF Owed
    <3>3. Owed(c)' = Owed(c)
      BY <3>1, <3>2 DEF Owed
    <3>4. sums'[c] = sums[c]
      BY <1>0, <1>3, <2>3 DEF Types
    <3> QED
      BY <1>1, <2>1, <3>3, <3>4, Zenon
  <2>4. CASE c = d
    <3>1. p \notin Owed(c)'
      BY <1>1, <1>2, <1>6, <2>4, SMT DEF Owed
    <3>2. \A r \in Conns \ {p} : r \in Owed(c)' <=> r \in Owed(c)
      BY <1>1, <1>5 DEF Owed
    <3>3. Owed(c)' = Owed(c) \ {p}
      BY <3>1, <3>2 DEF Owed
    <3>4. p \in Owed(c) <=> Amount(p, c) = 1
      BY <1>2, <2>4, SMT DEF Owed, Amount
    <3>5. sums'[c] = sums[c] + Amount(p, c)
      BY <1>0, <1>2, <1>3, <2>4 DEF Types
    <3>6. Cardinality(Owed(c)') = Cardinality(Owed(c)) - Amount(p, c)
      <4>1. CASE p \in Owed(c)
        <5>1. Cardinality(Owed(c)') = Cardinality(Owed(c)) - 1
          BY <2>2, <3>3, <4>1, FS_RemoveElement, ZenonT(40)
        <5> QED
          BY <3>4, <4>1, <5>1
      <4>2. CASE p \notin Owed(c)
        <5>1. Owed(c)' = Owed(c) /\ Amount(p, c) = 0
          BY <1>4, <2>4, <3>3, <3>4, <4>2
        <5> QED
          BY <2>2, <5>1
      <4> QED
        BY <4>1, <4>2
    <3>7. sums'[c] + Cardinality(Owed(c)') = sums[c] + Cardinality(Owed(c))
      BY <1>4, <2>2, <2>4, <3>5, <3>6, SMT
    <3> QED
      BY <1>1, <2>1, <3>7, Zenon
  <2> QED
    BY <2>3, <2>4
<1>9. \A r \in Conns : /\ pc'[r] # "serve" <=> pc[r] # "serve"
                       /\ pc'[r] = "load" <=> pc[r] = "load" /\ r # p
                       /\ pc'[r] = "load" => at'[r] = at[r]
  BY <1>2, <1>5, <1>6
<1>10. Numbers'
  BY <1>0, <1>1, <1>9, Zenon DEF Numbers
<1>11. Reads'
  BY <1>0, <1>1, <1>9, SMT DEF Reads, Fair
<1> QED
  BY <1>7, <1>8, <1>10, <1>11 DEF IInv

\* Check: what is owed does not change, and nothing has been read yet.
LEMMA CheckInv ==
  ASSUME IInv, NEW p \in Conns, Check(p)
  PROVE  IInv'
<1> USE CountersFacts
<1>0. Types /\ Balance /\ Numbers /\ Reads
  BY DEF IInv
<1>1. /\ requests' = requests /\ searched' = searched /\ sums' = sums
      /\ num' = num /\ accepted' = accepted /\ at' = at /\ log' = log
  BY DEF Check
<1>2. pc[p] = "check" /\ read'[p] = <<>> /\ pc'[p] \in {"load", "serve"}
      /\ (pc'[p] = "load" => num[p] % Every = 0)
  BY <1>0 DEF Check, Types
<1>3. \A r \in Conns \ {p} : pc'[r] = pc[r] /\ read'[r] = read[r]
  BY <1>0 DEF Check, Types
<1>4. Types'
  <2>1. \A r \in Conns : pc'[r] = "check" => at'[r] = 1
    BY <1>0, <1>1, <1>2, <1>3 DEF Types
  <2>2. pc' \in [Conns -> {"serve", "add", "check", "load"}] /\ read' \in [Conns -> Seq(Nat)]
    BY <1>0 DEF Types, Check
  <2> QED
    BY <1>0, <1>1, <2>1, <2>2 DEF Types
<1>5. Balance'
  <2> SUFFICES ASSUME NEW c \in Names
               PROVE  (sums[c] + Cardinality(Owed(c)) = IF c \in OfSearch THEN searched ELSE requests)'
    BY DEF Balance, Names
  <2>1. Owed(c)' = Owed(c)
    BY <1>1, <1>2, <1>3 DEF Owed
  <2> QED
    BY <1>0, <1>1, <2>1, Zenon DEF Balance
<1>6. Numbers'
  <2>1. \A r \in Conns : pc'[r] # "serve" => pc[r] # "serve"
    BY <1>2, <1>3
  <2>2. \A r \in Conns : pc'[r] = "load" => num[r] % Every = 0
    BY <1>0, <1>2, <1>3, Zenon DEF Numbers
  <2> QED
    BY <1>0, <1>1, <2>1, <2>2, Zenon DEF Numbers
<1>7. Reads'
  <2>1. at[p] = 1
    BY <1>0, <1>2 DEF Types
  <2> QED
    BY <1>0, <1>1, <1>2, <1>3, <2>1, SMT DEF Reads, Fair
<1> QED
  BY <1>4, <1>5, <1>6, <1>7 DEF IInv

\* What a goroutine reads is at most one request of each other short.
LEMMA ReadIsFair ==
  ASSUME IInv, NEW p \in Conns, pc[p] = "load", NEW c \in Names, c \notin OfSearch
  PROVE  sums[c] \in Nat /\ sums[c] >= num[p] - (Cardinality(Conns) - 1) /\ sums[c] <= requests
<1>1. sums[c] + Cardinality(Owed(c)) = requests
  BY DEF IInv, Balance
<1>2. Owed(c) \subseteq Conns \ {p}
  BY DEF Owed
<1>3. IsFiniteSet(Conns) /\ Cardinality(Conns) \in Nat
  BY ProfilerAssumption, FS_CardinalityType
<1>4. IsFiniteSet(Conns \ {p}) /\ Cardinality(Conns \ {p}) = Cardinality(Conns) - 1
  BY <1>3, FS_RemoveElement
<1>5. Cardinality(Owed(c)) <= Cardinality(Conns) - 1
  BY <1>2, <1>4, FS_Subset
<1>6. sums[c] \in Nat /\ Cardinality(Owed(c)) \in Nat /\ requests \in Nat /\ num[p] \in Nat
      /\ num[p] <= requests
  BY CountersFacts, OwedFinite DEF IInv, Types
<1> QED
  BY <1>1, <1>3, <1>5, <1>6, SMT

\* Load: one sum more has been read, or all of them and the entry is written.
LEMMA LoadInv ==
  ASSUME IInv, NEW p \in Conns, Load(p)
  PROVE  IInv'
<1> USE CountersFacts
<1> DEFINE d == Counters[at[p]]
<1>0. Types /\ Balance /\ Numbers /\ Reads
  BY DEF IInv
<1>1. /\ requests' = requests /\ searched' = searched /\ sums' = sums
      /\ num' = num /\ accepted' = accepted /\ requests \in Nat
  BY <1>0 DEF Load, Types
<1>2. pc[p] = "load" /\ at[p] \in 1..Len(Counters) /\ d \in Names /\ sums[d] \in Nat
      /\ read[p] \in Seq(Nat) /\ num[p] \in 1..requests
  BY <1>0 DEF Load, Types, Numbers
<1>3. read' = [read EXCEPT ![p] = Append(@, sums[d])] /\ read'[p] = Append(read[p], sums[d])
  BY <1>0 DEF Load, Types
<1>4. \A r \in Conns \ {p} : pc'[r] = pc[r] /\ at'[r] = at[r] /\ read'[r] = read[r]
  <2>1. CASE Last(p)
    BY <1>0, <2>1 DEF Load, Types
  <2>2. CASE ~Last(p)
    BY <1>0, <2>2 DEF Load, Types
  <2> QED
    BY <2>1, <2>2
<1>5. \/ /\ at[p] = Len(Counters) /\ pc'[p] = "serve" /\ at'[p] = 1
         /\ log' = log \cup {[n |-> num[p], sums |-> read'[p]]}
      \/ at[p] < Len(Counters) /\ pc'[p] = "load" /\ at'[p] = at[p] + 1 /\ log' = log
  <2>1. CASE Last(p)
    BY <1>0, <2>1 DEF Load, Types, Last
  <2>2. CASE ~Last(p)
    BY <1>0, <1>2, <2>2 DEF Load, Types, Last
  <2> QED
    BY <2>1, <2>2
<1>6. Types'
  <2>1. pc' \in [Conns -> {"serve", "add", "check", "load"}] /\ at' \in [Conns -> 1..Len(Counters)]
    <3>1. pc \in [Conns -> {"serve", "add", "check", "load"}] /\ at \in [Conns -> 1..Len(Counters)]
      BY <1>0 DEF Types
    <3>2. CASE Last(p)
      BY <3>1, <3>2 DEF Load
    <3>3. CASE ~Last(p)
      <4>1. at[p] + 1 \in 1..Len(Counters)
        BY <1>2, <3>3 DEF Last
      <4> QED
        BY <3>1, <3>3, <4>1 DEF Load
    <3> QED
      BY <3>2, <3>3
  <2>2. read' \in [Conns -> Seq(Nat)]
    BY <1>0, <1>2, <1>3 DEF Types
  <2>3. \A r \in Conns : pc'[r] = "check" => at'[r] = 1
    BY <1>0, <1>4, <1>5 DEF Types
  <2> QED
    BY <1>0, <1>1, <2>1, <2>2, <2>3, Zenon DEF Types
<1>7. Balance'
  <2> SUFFICES ASSUME NEW c \in Names
               PROVE  (sums[c] + Cardinality(Owed(c)) = IF c \in OfSearch THEN searched ELSE requests)'
    BY DEF Balance, Names
  <2>1. Owed(c)' = Owed(c)
    BY <1>1, <1>2, <1>4, <1>5 DEF Owed
  <2> QED
    BY <1>0, <1>1, <2>1, Zenon DEF Balance
<1>8. Numbers'
  <2> DEFINE new == [n |-> num[p], sums |-> read'[p]]
  <2>1. \A r \in Conns : /\ pc'[r] # "serve" => pc[r] # "serve"
                         /\ pc'[r] = "load" => pc[r] = "load"
    BY <1>2, <1>4, <1>5
  <2>2. /\ \A r \in Conns : pc'[r] # "serve" => num[r] >= 1
        /\ \A r, t \in Conns : pc'[r] # "serve" /\ pc'[t] # "serve" /\ r # t => num[r] # num[t]
        /\ \A r \in Conns : pc'[r] = "load" => num[r] % Every = 0
    BY <1>0, <2>1, Zenon DEF Numbers
  <2>3. CASE log' = log
    BY <1>0, <1>1, <2>1, <2>2, <2>3, Zenon DEF Numbers
  <2>4. CASE log' = log \cup {new} /\ pc'[p] = "serve"
    <3>1. new.n = num[p] /\ num[p] % Every = 0 /\ \A e \in log : e.n # num[p]
      BY <1>0, <1>2 DEF Numbers
    <3>2. \A r \in Conns : pc'[r] # "serve" => num[r] # num[p]
      BY <1>0, <1>2, <2>1, <2>4 DEF Numbers
    <3> HIDE DEF new
    <3>3. \A e \in log' : /\ e.n \in 1..requests /\ e.n % Every = 0
                          /\ \A r \in Conns : pc'[r] # "serve" => e.n # num[r]
      BY <1>0, <1>2, <2>1, <2>4, <3>1, <3>2 DEF Numbers
    <3>4. \A e, f \in log' : e.n = f.n => e = f
      BY <1>0, <2>4, <3>1 DEF Numbers
    <3> QED
      BY <1>1, <2>2, <3>3, <3>4, Zenon DEF Numbers
  <2> QED
    BY <1>5, <2>3, <2>4
<1>9. Reads'
  <2>1. \A s, n : Fair(s, n)' <=> Fair(s, n)
    BY <1>1 DEF Fair
  <2>2. Len(read[p]) = at[p] - 1 /\ Fair(read[p], num[p])
    BY <1>0, <1>2 DEF Reads
  <2>3. /\ read'[p] \in Seq(Nat) /\ Len(read'[p]) = at[p] /\ read'[p][at[p]] = sums[d]
        /\ \A i \in 1..(at[p] - 1) : read'[p][i] = read[p][i]
    BY <1>2, <1>3, <2>2
  <2>4. Fair(read'[p], num[p])
    <3> SUFFICES ASSUME NEW i \in 1..at[p], Counters[i] \notin OfSearch
                 PROVE  /\ read'[p][i] >= num[p] - (Cardinality(Conns) - 1)
                        /\ read'[p][i] <= requests
      BY <2>3 DEF Fair
    <3>1. CASE i = at[p]
      <4>1. d \notin OfSearch
        BY <3>1
      <4> QED
        BY <1>2, <2>3, <3>1, <4>1, ReadIsFair
    <3>2. CASE i # at[p]
      <4>1. i \in 1..Len(read[p])
        BY <1>2, <2>2, <3>2
      <4> QED
        BY <1>2, <2>2, <2>3, <3>2, <4>1 DEF Fair
    <3> QED
      BY <3>1, <3>2
  <2>5. \A r \in Conns : pc'[r] = "load" => Len(read'[r]) = at'[r] - 1 /\ Fair(read'[r], num[r])
    <3> SUFFICES ASSUME NEW r \in Conns, pc'[r] = "load"
                 PROVE  Len(read'[r]) = at'[r] - 1 /\ Fair(read'[r], num[r])
      OBVIOUS
    <3>1. CASE r = p
      BY <1>2, <1>5, <2>3, <2>4, <3>1
    <3>2. CASE r # p
      BY <1>0, <1>4, <3>2 DEF Reads
    <3> QED
      BY <3>1, <3>2
  <2>6. \A e \in log' : e.sums \in Seq(Nat) /\ Len(e.sums) = Len(Counters) /\ Fair(e.sums, e.n)
    BY <1>0, <1>5, <2>3, <2>4 DEF Reads
  <2> QED
    BY <1>1, <2>1, <2>5, <2>6 DEF Reads
<1> QED
  BY <1>6, <1>7, <1>8, <1>9 DEF IInv

LEMMA NextInv == IInv /\ [Next]_vars => IInv'
<1> SUFFICES ASSUME IInv, [Next]_vars PROVE IInv'
  OBVIOUS
<1>1. CASE Next
  BY <1>1, CountInv, AddInv, CheckInv, LoadInv DEF Next, Step
<1>2. CASE UNCHANGED vars
  BY <1>2 DEF IInv, Types, Balance, Owed, Numbers, Reads, Fair, vars, local
<1> QED
  BY <1>1, <1>2

\* The invariant holds in every behaviour.
LEMMA Invariance == Spec => []IInv
BY InitInv, NextInv, PTL DEF Spec

-----------------------------------------------------------------------------
(* Theorems. *)

\* No sum runs ahead of the number of requests, as a counter that lacks
\* nothing is at that number (server.go 92-98).
THEOREM TypeCorrect == Spec => []TypeOK
<1>1. IInv => TypeOK
  <2> SUFFICES ASSUME IInv PROVE TypeOK
    OBVIOUS
  <2>1. sums \in [Names -> 0..requests]
    <3> SUFFICES ASSUME NEW c \in Names PROVE sums[c] \in 0..requests
      BY DEF IInv, Types
    <3>1. sums[c] \in Nat /\ Cardinality(Owed(c)) \in Nat /\ requests \in Nat /\ searched \in 0..requests
      BY CountersFacts, OwedFinite DEF IInv, Types
    <3>2. CASE c \in OfSearch
      <4>1. sums[c] + Cardinality(Owed(c)) = searched
        BY <3>2 DEF IInv, Balance
      <4> QED
        BY <3>1, <4>1
    <3>3. CASE c \notin OfSearch
      <4>1. sums[c] + Cardinality(Owed(c)) = requests
        BY <3>3 DEF IInv, Balance
      <4> QED
        BY <3>1, <4>1
    <3> QED
      BY <3>2, <3>3
  <2> QED
    BY <2>1 DEF IInv, Types, Reads, Numbers, TypeOK
<1> QED
  BY <1>1, Invariance, PTL

\* When no goroutine is recording, nothing is owed to any counter.
THEOREM SumsAreComplete == Spec => []SumsSettle
<1>1. IInv => SumsSettle
  <2> SUFFICES ASSUME IInv, \A p \in Conns : pc[p] = "serve", NEW c \in Names
               PROVE  sums[c] = IF c \in OfSearch THEN searched ELSE requests
    BY DEF SumsSettle
  <2>1. Owed(c) = {}
    BY DEF Owed
  <2>2. sums[c] + 0 = IF c \in OfSearch THEN searched ELSE requests
    BY <2>1, FS_EmptySet, Zenon DEF IInv, Balance
  <2>3. sums[c] \in Nat
    BY DEF IInv, Types
  <2>4. sums[c] + 0 = sums[c]
    BY <2>3
  <2> QED
    BY <2>2, <2>4, Zenon
<1> QED
  BY <1>1, Invariance, PTL

\* No multiple of Every is logged twice: requests.Add hands out each number
\* once, and the number tested and logged is the one handed out.
THEOREM OneEntryPerMultiple == Spec => []NoMultipleTwice
<1>1. IInv => NoMultipleTwice
  BY DEF IInv, Numbers, NoMultipleTwice
<1> QED
  BY <1>1, Invariance, PTL

\* A logged sum misses at most one request of every other goroutine, however
\* many requests, goroutines and counters there are.
THEOREM AveragesAreFair == Spec => []AveragesMissAtMostTheOthers
<1>1. IInv => AveragesMissAtMostTheOthers
  BY DEF IInv, Reads, Fair, AveragesMissAtMostTheOthers
<1> QED
  BY <1>1, Invariance, PTL
=============================================================================
