-------------------------- MODULE ConnectionProofs --------------------------
(***************************************************************************)
(* One connection, for every script, capacity and segmentation: the types, *)
(* where the buffer starts, and the refinement of RequestReply.            *)
(*                                                                         *)
(* The chain that BufferStartsAtRequest speaks of, each byte the successor *)
(* of the one before, does not survive a proof of the shift: that the byte *)
(* before the end of the first request is its last would take an           *)
(* induction along the chain.  The inductive invariant therefore says of   *)
(* every byte where all the bytes of its request are.                      *)
(***************************************************************************)
EXTENDS Connection, SequenceTheorems, TLAPS

Bytes == Nat \X Nat

\* The sizes of the requests of the script.
Sizes == [m \in 1..Len(script) |-> Size(m)]

\* Request m, of size sz[m], lies in s from behind position p on: all its bytes,
\* up to the end of s, and the first one of the next request after them.
LiesAt(s, sz, p, m) ==
  /\ \A k \in 1..sz[m] : p + k <= Len(s) => s[p + k] = <<m, k>>
  /\ p + sz[m] < Len(s) => s[p + sz[m] + 1] = <<m + 1, 1>>

\* Every byte of s belongs to one of n requests, and this request lies there.
InPlace(s, sz, n) ==
  \A i \in 1..Len(s) : \E m \in 1..n, j \in Nat :
    j \in 1..sz[m] /\ s[i] = <<m, j>> /\ j <= i /\ LiesAt(s, sz, i - j, m)

\* s is the stream of the requests a, a + 1, ..., n, or its beginning.
Stream(s, sz, a, n) ==
  /\ s \in Seq(Bytes)
  /\ InPlace(s, sz, n)
  /\ s # <<>> => s[1] = <<a, 1>>

\* Byte i of s is followed by its successor.
Follows(s, sz, i) ==
  s[i + 1] = IF s[i][2] < sz[s[i][1]] THEN <<s[i][1], s[i][2] + 1>>
                                      ELSE <<s[i][1] + 1, 1>>

\* The stream ends with the last byte of request n.
Complete(s, sz, a, n) ==
  IF s = <<>> THEN a = n + 1 ELSE s[Len(s)] = <<n, sz[n]>>

Replies ==
  [status : {200, 400, 404, 413}, frauds : -1..5, close : BOOLEAN]

Typed ==
  /\ script \in Scripts
  /\ sent \in 0..Len(script)
  /\ client \in {"open", "shut", "gone"}
  /\ pc \in {"read", "write", "closed"}
  /\ buf \in Seq(Bytes) /\ Len(buf) <= Cap
  /\ wire \in Seq(Bytes)
  /\ resp \in Replies
  /\ msgEnd \in 0..Cap
  /\ replies \in Seq(Replies) /\ Len(replies) <= sent

Pending == Len(replies) + 1

StreamInOrder ==
  pc # "closed" =>
    /\ Stream(Rest, Sizes, Pending, sent)
    /\ client # "gone" => Complete(Rest, Sizes, Pending, sent)

\* The reply about to be written is that of the first request in the buffer,
\* and the shift after it drops this request and nothing else.
ReplyIsNext ==
  pc = "write" =>
    /\ Pending <= sent
    /\ resp = ReplyTo(script[Pending])
    /\ ~resp.close => msgEnd = Size(Pending) /\ msgEnd <= Len(buf)

\* A full buffer without a complete request holds one that is too large.
FullIsTooLarge ==
  pc = "read" /\ Len(buf) >= Cap =>
    Pending <= sent /\ ReplyTo(script[Pending]) = TooLarge

IInv == Typed /\ StreamInOrder /\ ReplyIsNext /\ FullIsTooLarge

-----------------------------------------------------------------------------
(* Streams. *)

\* The elements of a sequence from behind position e on.
LEMMA Suffix ==
  ASSUME NEW S, NEW s \in Seq(S), NEW e \in 0..Len(s)
  PROVE  /\ SubSeq(s, e + 1, Len(s)) \in Seq(S)
         /\ Len(SubSeq(s, e + 1, Len(s))) = Len(s) - e
         /\ \A i \in 1..(Len(s) - e) : SubSeq(s, e + 1, Len(s))[i] = s[i + e]
<1>1. Len(s) \in Nat /\ e \in Nat /\ e + 1 \in Int /\ Len(s) \in Int /\ e <= Len(s)
  OBVIOUS
<1>2. \A i \in (e + 1)..Len(s) : s[i] \in S
  BY <1>1
<1> DEFINE t == SubSeq(s, e + 1, Len(s))
<1>3. /\ t \in Seq(S)
      /\ Len(t) = IF e + 1 <= Len(s) THEN Len(s) - (e + 1) + 1 ELSE 0
      /\ \A i \in 1..(Len(s) - (e + 1) + 1) : t[i] = s[(e + 1) + i - 1]
  BY <1>1, <1>2, SubSeqProperties
<1> HIDE DEF t
<1>4. ASSUME NEW i \in 1..(Len(s) - e) PROVE t[i] = s[i + e]
  <2>1. i \in 1..(Len(s) - (e + 1) + 1) /\ (e + 1) + i - 1 = i + e
    BY <1>1
  <2> QED
    BY <1>3, <2>1
<1>5. Len(t) = Len(s) - e
  BY <1>1, <1>3
<1> QED
  BY <1>3, <1>4, <1>5 DEF t

\* The first request of a stream lies at its front.
LEMMA FirstRequest ==
  ASSUME NEW N \in Nat, NEW sz \in [1..N -> Nat \ {0}], NEW a \in Nat,
         NEW n \in 0..N, NEW s, Stream(s, sz, a, n), s # <<>>
  PROVE  a \in 1..n /\ LiesAt(s, sz, 0, a)
<1>1. Len(s) \in Nat /\ 1 \in 1..Len(s) /\ s[1] = <<a, 1>>
  BY DEF Stream
<1>2. PICK m \in 1..n, j \in Nat :
        j \in 1..sz[m] /\ s[1] = <<m, j>> /\ j <= 1 /\ LiesAt(s, sz, 1 - j, m)
  BY <1>1 DEF Stream, InPlace
<1>3. m = a /\ j = 1 /\ 1 - j = 0
  BY <1>1, <1>2
<1> QED
  BY <1>2, <1>3

\* In a stream every byte is followed by its successor.
LEMMA StreamIsChain ==
  ASSUME NEW N \in Nat, NEW sz \in [1..N -> Nat \ {0}], NEW a \in Nat,
         NEW n \in 0..N, NEW s, Stream(s, sz, a, n),
         NEW i \in 1..(Len(s) - 1)
  PROVE  s[i][1] \in 1..n /\ Follows(s, sz, i)
<1> USE DEF Follows
<1>1. Len(s) \in Nat /\ i \in 1..Len(s)
  BY DEF Stream
<1>2. PICK m \in 1..n, j \in Nat :
        j \in 1..sz[m] /\ s[i] = <<m, j>> /\ j <= i /\ LiesAt(s, sz, i - j, m)
  BY <1>1 DEF Stream, InPlace
<1>3. sz[m] \in Nat \ {0} /\ s[i][1] = m /\ s[i][2] = j
  BY <1>2
<1>4. CASE j < sz[m]
  <2>1. i - j + (j + 1) = i + 1 /\ j + 1 \in 1..sz[m]
    BY <1>1, <1>2, <1>3, <1>4
  <2>2. s[i + 1] = <<m, j + 1>>
    BY <1>1, <1>2, <2>1, SMTT(30) DEF LiesAt
  <2> QED
    BY <1>3, <1>4, <2>2
<1>5. CASE ~(j < sz[m])
  <2>1. j = sz[m] /\ i - j + sz[m] = i
    BY <1>1, <1>2, <1>3, <1>5
  <2>2. i - j + sz[m] < Len(s) => s[i - j + sz[m] + 1] = <<m + 1, 1>>
    BY <1>2 DEF LiesAt
  <2> QED
    <3>1. i - j + sz[m] + 1 = i + 1 /\ i - j + sz[m] < Len(s)
      BY <1>1, <2>1
    <3>2. s[i + 1] = <<m + 1, 1>>
      BY <2>2, <3>1
    <3> QED
      BY <1>3, <1>5, <3>2
<1> QED
  BY <1>4, <1>5, <1>3

\* What is left of a stream cut short is a stream.
LEMMA StreamPrefix ==
  ASSUME NEW N \in Nat, NEW sz \in [1..N -> Nat \ {0}], NEW a \in Nat,
         NEW n \in 0..N, NEW s, Stream(s, sz, a, n), NEW l \in 0..Len(s)
  PROVE  Stream(SubSeq(s, 1, l), sz, a, n)
<1> DEFINE t == SubSeq(s, 1, l)
<1>1. Len(s) \in Nat /\ t \in Seq(Bytes) /\ Len(t) = l /\ l <= Len(s)
      /\ \A i \in 1..l : t[i] = s[i]
  BY SubSeqProperties DEF Stream
<1>2. ASSUME NEW i \in 1..Len(t)
      PROVE  \E m \in 1..n, j \in Nat :
               j \in 1..sz[m] /\ t[i] = <<m, j>> /\ j <= i /\ LiesAt(t, sz, i - j, m)
  <2>0. i \in 1..Len(s)
    BY <1>1
  <2>1. PICK m \in 1..n, j \in Nat :
          j \in 1..sz[m] /\ s[i] = <<m, j>> /\ j <= i /\ LiesAt(s, sz, i - j, m)
    BY <2>0 DEF Stream, InPlace
  <2>2. i - j \in Nat /\ sz[m] \in Nat \ {0}
    BY <1>1, <2>1
  <2>3. LiesAt(t, sz, i - j, m)
    <3> DEFINE p == i - j
    <3>1. p \in Nat /\ LiesAt(s, sz, p, m)
      BY <2>1, <2>2
    <3>2. ASSUME NEW k \in 1..sz[m], p + k <= Len(t)
          PROVE  t[p + k] = <<m, k>>
      <4> HIDE DEF p, t
      <4>1. p + k \in 1..l /\ p + k <= Len(s)
        BY <1>1, <2>2, <3>1, <3>2
      <4> QED
        BY <1>1, <3>1, <4>1 DEF LiesAt
    <3>3. ASSUME p + sz[m] < Len(t)
          PROVE  t[p + sz[m] + 1] = <<m + 1, 1>>
      <4> HIDE DEF p, t
      <4>1. p + sz[m] + 1 \in 1..l /\ p + sz[m] < Len(s)
        BY <1>1, <2>2, <3>1, <3>3
      <4> QED
        BY <1>1, <3>1, <4>1 DEF LiesAt
    <3> QED
      BY <3>2, <3>3 DEF LiesAt
  <2> QED
    BY <1>1, <2>1, <2>3, <2>0
<1>3. t # <<>> => t[1] = <<a, 1>>
  BY <1>1 DEF Stream
<1> QED
  BY <1>1, <1>2, <1>3 DEF Stream, InPlace

\* A stream without its first request, if that is all there, is the stream of
\* the requests after it.
LEMMA StreamShift ==
  ASSUME NEW N \in Nat, NEW sz \in [1..N -> Nat \ {0}], NEW a \in Nat,
         NEW n \in 0..N, NEW s, Stream(s, sz, a, n), s # <<>>,
         sz[a] <= Len(s)
  PROVE  LET t == SubSeq(s, sz[a] + 1, Len(s))
         IN  /\ Stream(t, sz, a + 1, n)
             /\ Complete(s, sz, a, n) => Complete(t, sz, a + 1, n)
<1> DEFINE e == sz[a]
           t == SubSeq(s, e + 1, Len(s))
<1>1. a \in 1..n /\ LiesAt(s, sz, 0, a)
  BY FirstRequest
<1>2. Len(s) \in Nat /\ e \in Nat \ {0} /\ e <= Len(s)
  BY <1>1 DEF Stream
<1>3. /\ t \in Seq(Bytes) /\ Len(t) = Len(s) - e
      /\ \A i \in 1..(Len(s) - e) : t[i] = s[i + e]
  <2>1. s \in Seq(Bytes) /\ e \in 0..Len(s)
    BY <1>2 DEF Stream
  <2> HIDE DEF e
  <2> QED
    BY <2>1, Suffix
<1>4. \A k \in 1..e : s[k] = <<a, k>>
  BY <1>1, <1>2 DEF LiesAt
<1>5. e < Len(s) => s[e + 1] = <<a + 1, 1>>
  BY <1>1, <1>2 DEF LiesAt
<1>6. ASSUME NEW i \in 1..Len(t)
      PROVE  \E m \in 1..n, j \in Nat :
               j \in 1..sz[m] /\ t[i] = <<m, j>> /\ j <= i /\ LiesAt(t, sz, i - j, m)
  <2> HIDE DEF t, e
  <2> DEFINE q == i + e
  <2>0. q \in 1..Len(s) /\ t[i] = s[q] /\ i \in Nat \ {0} /\ q = i + e
    BY <1>2, <1>3, <1>6
  <2> HIDE DEF q
  <2>1. PICK m \in 1..n, j \in Nat :
          j \in 1..sz[m] /\ s[q] = <<m, j>> /\ j <= q /\ LiesAt(s, sz, q - j, m)
    BY <2>0 DEF Stream, InPlace
  <2>2. sz[m] \in Nat \ {0}
    BY <2>1
  <2>3. j <= i
    <3> SUFFICES ASSUME i < j PROVE FALSE
      BY <2>0
    <3> DEFINE p == q - j
    <3>1. p \in Nat /\ p + 1 \in 1..e /\ p + 1 <= Len(s) /\ 1 \in 1..sz[m]
      BY <1>2, <2>0, <2>1, <2>2, SMTT(30)
    <3>2. s[p + 1] = <<m, 1>> /\ s[p + 1] = <<a, p + 1>>
      BY <1>4, <2>1, <3>1 DEF LiesAt
    <3>3. m = a /\ p = 0
      <4> HIDE DEF p
      <4> QED
        BY <3>1, <3>2
    <3>4. j \in 1..e /\ j = i + e
      BY <1>2, <2>0, <2>1, <3>3 DEF e
    <3> QED
      BY <1>2, <2>0, <3>4
  <2>4. LiesAt(t, sz, i - j, m)
    <3> DEFINE p == i - j
    <3>1. p \in Nat /\ LiesAt(s, sz, p + e, m)
      <4>1. p \in Nat /\ q - j = p + e
        BY <1>2, <2>0, <2>1, <2>3
      <4> QED
        BY <2>1, <4>1
    <3>2. ASSUME NEW k \in 1..sz[m], p + k <= Len(t)
          PROVE  t[p + k] = <<m, k>>
      <4> HIDE DEF p
      <4>1. p + k \in 1..(Len(s) - e) /\ p + k + e = p + e + k /\ p + e + k <= Len(s)
        BY <1>2, <1>3, <2>2, <3>1, <3>2
      <4>2. s[p + e + k] = <<m, k>>
        BY <3>1, <4>1 DEF LiesAt
      <4> QED
        BY <1>3, <4>1, <4>2
    <3>3. ASSUME p + sz[m] < Len(t)
          PROVE  t[p + sz[m] + 1] = <<m + 1, 1>>
      <4> HIDE DEF p
      <4>1. /\ p + sz[m] + 1 \in 1..(Len(s) - e)
            /\ p + sz[m] + 1 + e = p + e + sz[m] + 1 /\ p + e + sz[m] < Len(s)
        <5> DEFINE z == sz[m]
        <5>1. z \in Nat /\ p \in Nat /\ e \in Nat /\ Len(s) \in Nat /\ p + z < Len(s) - e
          BY <1>2, <1>3, <2>2, <3>1, <3>3
        <5> HIDE DEF z
        <5>2. /\ p + z + 1 \in 1..(Len(s) - e)
              /\ p + z + 1 + e = p + e + z + 1 /\ p + e + z < Len(s)
          BY <5>1
        <5> QED
          BY <5>2 DEF z
      <4>2. s[p + e + sz[m] + 1] = <<m + 1, 1>>
        BY <3>1, <4>1 DEF LiesAt
      <4> QED
        BY <1>3, <4>1, <4>2
    <3> QED
      BY <3>2, <3>3 DEF LiesAt
  <2> QED
    BY <2>0, <2>1, <2>3, <2>4
<1>7. t # <<>> => t[1] = <<a + 1, 1>>
  <2> HIDE DEF t, e
  <2> SUFFICES ASSUME t # <<>> PROVE t[1] = <<a + 1, 1>>
    OBVIOUS
  <2>1. Len(t) # 0
    BY <1>3, EmptySeq
  <2>2. e < Len(s) /\ 1 \in 1..(Len(s) - e) /\ 1 + e = e + 1
    BY <1>2, <1>3, <2>1
  <2> QED
    BY <1>3, <1>5, <2>2
<1>8. Stream(t, sz, a + 1, n)
  BY <1>3, <1>6, <1>7 DEF Stream, InPlace
<1>9. ASSUME Complete(s, sz, a, n)
      PROVE  Complete(t, sz, a + 1, n)
  <2> HIDE DEF t, e
  <2>1. s[Len(s)] = <<n, sz[n]>>
    BY <1>9 DEF Complete
  <2>2. CASE Len(s) = e
    <3>1. t = <<>> /\ s[e] = <<a, e>>
      BY <1>2, <1>3, <1>4, <2>2
    <3>2. a = n
      BY <2>1, <2>2, <3>1
    <3> QED
      BY <3>1, <3>2 DEF Complete
  <2>3. CASE e < Len(s)
    <3>1. Len(t) \in 1..(Len(s) - e) /\ Len(t) + e = Len(s) /\ t # <<>>
      BY <1>2, <1>3, <2>3
    <3>2. t[Len(t)] = s[Len(s)]
      BY <1>3, <3>1
    <3> QED
      BY <2>1, <3>1, <3>2 DEF Complete
  <2> QED
    BY <1>2, <2>2, <2>3
<1> QED
  BY <1>8, <1>9

\* A complete stream goes on with the bytes of the next request.
LEMMA StreamGrows ==
  ASSUME NEW N \in Nat, NEW sz \in [1..N -> Nat \ {0}], NEW a \in Nat \ {0},
         NEW n \in 0..(N - 1), NEW s, Stream(s, sz, a, n), Complete(s, sz, a, n)
  PROVE  LET u == [j \in 1..sz[n + 1] |-> <<n + 1, j>>]
         IN  /\ u \in Seq(Bytes)
             /\ Stream(s \o u, sz, a, n + 1) /\ Complete(s \o u, sz, a, n + 1)
<1> DEFINE e == sz[n + 1]
           u == [j \in 1..e |-> <<n + 1, j>>]
           t == s \o u
           l == Len(s)
<1>1. n \in Nat /\ n + 1 \in 1..N /\ e \in Nat \ {0} /\ l \in Nat /\ s \in Seq(Bytes)
  BY DEF Stream
<1>2. u \in Seq(Bytes) /\ Len(u) = e /\ \A j \in 1..e : u[j] = <<n + 1, j>>
  <2> HIDE DEF e
  <2>1. \A j \in 1..e : <<n + 1, j>> \in Bytes
    BY <1>1 DEF Bytes
  <2> QED
    BY <1>1, <2>1, IsASeq
<1>3. /\ t \in Seq(Bytes) /\ Len(t) = l + e
      /\ \A i \in 1..(l + e) : t[i] = IF i <= l THEN s[i] ELSE u[i - l]
  <2> HIDE DEF u, e
  <2> QED
    BY <1>1, <1>2, ConcatProperties, ZenonT(40)
<1> HIDE DEF u, t, e
<1>4. \A i \in 1..l : t[i] = s[i]
  BY <1>1, <1>3
<1>5. \A k \in 1..e : l + k \in 1..(l + e) /\ t[l + k] = <<n + 1, k>>
  <2> TAKE k \in 1..e
  <2>1. l + k \in 1..(l + e) /\ ~(l + k <= l) /\ (l + k) - l = k
    BY <1>1
  <2>2. t[l + k] = u[(l + k) - l]
    BY <1>3, <2>1
  <2> QED
    BY <1>2, <2>1, <2>2
<1> HIDE DEF l
<1>6. LiesAt(t, sz, l, n + 1)
  <2>1. ~(l + e < Len(t))
    BY <1>1, <1>3
  <2> QED
    BY <1>5, <2>1 DEF LiesAt, e
\* A request of s that reaches the end of s is request n, and ends there.
<1>7. ASSUME NEW m \in 1..n, NEW p \in Nat, LiesAt(s, sz, p, m), p < l,
             p + sz[m] >= l
      PROVE  m = n /\ p + sz[m] = l
  <2>1. sz[m] \in Nat \ {0} /\ l # 0 /\ s # <<>>
    BY <1>1, <1>7 DEF l
  <2>2. s[l] = <<n, sz[n]>>
    BY <2>1 DEF Complete, l
  <2>3. l - p \in 1..sz[m] /\ p + (l - p) = l
    BY <1>1, <1>7, <2>1
  <2>4. s[p + (l - p)] = <<m, l - p>>
    BY <1>1, <1>7, <2>3 DEF LiesAt, l
  <2>5. m = n /\ l - p = sz[n]
    BY <2>2, <2>3, <2>4
  <2> QED
    BY <1>1, <2>1, <2>5
<1>8. ASSUME NEW i \in 1..l
      PROVE  \E m \in 1..(n + 1), j \in Nat :
               j \in 1..sz[m] /\ t[i] = <<m, j>> /\ j <= i /\ LiesAt(t, sz, i - j, m)
  <2>1. PICK m \in 1..n, j \in Nat :
          j \in 1..sz[m] /\ s[i] = <<m, j>> /\ j <= i /\ LiesAt(s, sz, i - j, m)
    BY DEF Stream, InPlace, l
  <2> DEFINE p == i - j
  <2>2. p \in Nat /\ p < l /\ sz[m] \in Nat \ {0} /\ m \in 1..(n + 1) /\ LiesAt(s, sz, p, m)
    BY <1>1, <2>1
  <2> HIDE DEF p
  <2>3. p + sz[m] <= l
    BY <1>1, <1>7, <2>2
  <2>4. ASSUME NEW k \in 1..sz[m]
        PROVE  t[p + k] = <<m, k>>
    <3>1. p + k \in 1..l /\ p + k <= l
      BY <1>1, <2>2, <2>3
    <3>2. s[p + k] = <<m, k>>
      BY <2>2, <3>1 DEF LiesAt, l
    <3> QED
      BY <1>4, <3>1, <3>2
  <2>5. t[p + sz[m] + 1] = <<m + 1, 1>>
    <3>1. CASE p + sz[m] < l
      <4>1. p + sz[m] + 1 \in 1..l
        BY <1>1, <2>2, <3>1
      <4>2. s[p + sz[m] + 1] = <<m + 1, 1>>
        BY <2>2, <3>1 DEF LiesAt, l
      <4> QED
        BY <1>4, <4>1, <4>2
    <3>2. CASE p + sz[m] = l
      <4>1. m = n /\ 1 \in 1..e
        BY <1>1, <1>7, <2>2, <3>2
      <4> QED
        BY <1>5, <3>2, <4>1
    <3>3. p + sz[m] < l \/ p + sz[m] = l
      BY <1>1, <2>2, <2>3
    <3> QED
      BY <3>1, <3>2, <3>3
  <2>6. LiesAt(t, sz, p, m)
    BY <2>4, <2>5 DEF LiesAt
  <2> QED
    BY <1>4, <2>1, <2>2, <2>6 DEF p
<1>9. ASSUME NEW i \in (l + 1)..(l + e)
      PROVE  \E m \in 1..(n + 1), j \in Nat :
               j \in 1..sz[m] /\ t[i] = <<m, j>> /\ j <= i /\ LiesAt(t, sz, i - j, m)
  <2> DEFINE j == i - l
  <2>1. j \in 1..e /\ j \in Nat /\ i = l + j /\ i - j = l /\ j <= i
    BY <1>1
  <2> HIDE DEF j
  <2>2. t[i] = <<n + 1, j>>
    BY <1>5, <2>1
  <2>3. n + 1 \in 1..(n + 1)
    BY <1>1
  <2> QED
    BY <1>6, <2>1, <2>2, <2>3 DEF e
<1>10. InPlace(t, sz, n + 1)
  <2>1. \A i \in 1..Len(t) : i \in 1..l \/ i \in (l + 1)..(l + e)
    BY <1>1, <1>3
  <2> QED
    BY <1>8, <1>9, <2>1 DEF InPlace
<1>11. t[1] = <<a, 1>>
  <2>1. CASE s = <<>>
    <3>1. l = 0 /\ a = n + 1 /\ 1 \in 1..e
      BY <1>1, <2>1 DEF l, Complete
    <3> QED
      BY <1>5, <3>1
  <2>2. CASE s # <<>>
    <3>1. 1 \in 1..l
      BY <1>1, <2>2, EmptySeq DEF l
    <3> QED
      BY <1>4, <2>2, <3>1 DEF Stream
  <2> QED
    BY <2>1, <2>2
<1>12. Complete(t, sz, a, n + 1)
  <2>1. e \in 1..e /\ t # <<>> /\ Len(t) = l + e
    BY <1>1, <1>3
  <2>2. t[l + e] = <<n + 1, e>>
    BY <1>5, <2>1
  <2> QED
    BY <2>1, <2>2 DEF Complete, e
<1>13. Stream(t, sz, a, n + 1)
  BY <1>3, <1>10, <1>11 DEF Stream
<1> QED
  BY <1>2, <1>12, <1>13 DEF t, u, e

-----------------------------------------------------------------------------
(* Parsing. *)

LEMMA RequestType ==
  ASSUME Typed, NEW m \in 1..Len(script)
  PROVE  /\ script[m] \in Requests
         /\ script[m].line = "GET /ready" => script[m].body = 0
         /\ script[m].length \in {NoLength, script[m].body, -1}
         /\ script[m].valid => script[m].body > 0
         /\ Size(m) \in Nat \ {0} /\ script[m].head <= Size(m)
<1>1. script \in Seq(Requests) /\ DOMAIN script = 1..Len(script)
  BY ScriptsAssumption, LenProperties DEF Typed
<1>2. script[m] \in Requests
  BY <1>1, ElementOfSeq
<1>3. /\ script[m].line = "GET /ready" => script[m].body = 0
      /\ script[m].length \in {NoLength, script[m].body, -1}
      /\ script[m].valid => script[m].body > 0
  BY <1>1, ScriptsAssumption DEF Typed
<1>4. script[m].head \in Nat \ {0} /\ script[m].body \in Nat
  BY <1>2 DEF Requests
<1>5. Size(m) \in Nat \ {0} /\ script[m].head <= Size(m)
  BY <1>4 DEF Size
<1> QED
  BY <1>2, <1>3, <1>5

LEMMA SizesType ==
  ASSUME Typed
  PROVE  /\ Len(script) \in Nat
         /\ Sizes \in [1..Len(script) -> Nat \ {0}]
         /\ \A m \in 1..Len(script) : Sizes[m] = Size(m)
<1>1. \A m \in 1..Len(script) : Size(m) \in Nat \ {0}
  BY RequestType
<1>2. Len(script) \in Nat
  BY ScriptsAssumption, LenProperties DEF Typed
<1> QED
  BY <1>1, <1>2 DEF Sizes

\* The end of the header block of the first request is the first end of a
\* header block in the buffer.
LEMMA FirstHead ==
  ASSUME Typed, NEW b, Len(b) \in Nat, NEW a \in 1..Len(script),
         \A p \in 1..Len(b) : p <= Size(a) => b[p] = <<a, p>>
  PROVE  LET heads == {p \in 1..Len(b) : EndsHead(b[p])}
         IN  IF Len(b) < script[a].head THEN heads = {}
             ELSE heads # {} /\ Min(heads) = script[a].head
<1> DEFINE heads == {p \in 1..Len(b) : EndsHead(b[p])}
           h     == script[a].head
<1>1. h \in Nat \ {0} /\ Size(a) \in Nat \ {0} /\ h <= Size(a)
  BY RequestType DEF Requests
<1>2. ASSUME NEW p \in 1..Len(b), p <= h
      PROVE  EndsHead(b[p]) <=> p = h
  <2>1. b[p] = <<a, p>>
    BY <1>1, <1>2
  <2>2. b[p][1] = a /\ b[p][2] = p
    BY <2>1
  <2> QED
    BY <2>2 DEF EndsHead
<1>3. ASSUME Len(b) < h
      PROVE  heads = {}
  <2>1. \A p \in 1..Len(b) : p <= h /\ p # h
    BY <1>1, <1>3
  <2> QED
    BY <1>2, <2>1
<1>4. ASSUME ~(Len(b) < h)
      PROVE  heads # {} /\ Min(heads) = h
  <2>1. h \in 1..Len(b) /\ h <= h
    BY <1>1, <1>4
  <2>2. h \in heads
    BY <1>2, <2>1
  <2>3. \A p \in heads : h <= p /\ p \in Nat
    <3> TAKE p \in heads
    <3>1. p \in 1..Len(b) /\ EndsHead(b[p])
      OBVIOUS
    <3>2. ~(p < h)
      BY <1>1, <1>2, <3>1
    <3> QED
      BY <1>1, <3>1, <3>2
  <2> HIDE DEF heads, h
  <2>4. /\ Min(heads) \in heads /\ \A y \in heads : Min(heads) <= y
    BY <2>2, <2>3 DEF Min
  <2>5. Min(heads) <= h /\ h <= Min(heads) /\ Min(heads) \in Nat
    BY <2>2, <2>3, <2>4
  <2>6. h \in Nat
    BY <2>2, <2>3
  <2>7. Min(heads) = h
    BY <2>5, <2>6
  <2> QED
    BY <2>2, <2>7
<1> QED
  BY <1>3, <1>4

LEMMA ReplyTypes ==
  /\ Ready \in Replies /\ ~Ready.close
  /\ NotFound \in Replies /\ NotFound.close
  /\ BadRequest \in Replies /\ BadRequest.close
  /\ TooLarge \in Replies /\ TooLarge.close
  /\ \A f \in 0..5 : Score(f) \in Replies /\ ~Score(f).close
BY DEF Replies, Ready, NotFound, BadRequest, TooLarge, Score

LEMMA HeadTooLarge ==
  ASSUME NEW r, r.head > Cap, ~(r.head <= Cap)
  PROVE  ReplyTo(r) = TooLarge
BY DEF ReplyTo

LEMMA HeadFits ==
  ASSUME NEW r, ~(r.head > Cap), r.head <= Cap
  PROVE  /\ ~r.headers => ReplyTo(r) = BadRequest
         /\ r.headers /\ r.line = "GET /ready" => ReplyTo(r) = Ready
         /\ r.headers /\ r.line = "other" => ReplyTo(r) = NotFound
         /\ r.headers /\ r.line = "POST /fraud-score" =>
              ReplyTo(r) =
                IF r.length = NoLength THEN BadRequest
                ELSE IF r.length < 0 \/ r.head + r.length > Cap THEN TooLarge
                ELSE IF r.valid THEN Score(r.frauds) ELSE BadRequest
<1>1. ASSUME ~r.headers PROVE ReplyTo(r) = BadRequest
  BY <1>1 DEF ReplyTo
<1>2. ASSUME r.headers, r.line = "GET /ready" PROVE ReplyTo(r) = Ready
  BY <1>2 DEF ReplyTo
<1>3. ASSUME r.headers, r.line = "other" PROVE ReplyTo(r) = NotFound
  BY <1>3 DEF ReplyTo
<1>4. ASSUME r.headers, r.line = "POST /fraud-score"
      PROVE  ReplyTo(r) =
               IF r.length = NoLength THEN BadRequest
               ELSE IF r.length < 0 \/ r.head + r.length > Cap THEN TooLarge
               ELSE IF r.valid THEN Score(r.frauds) ELSE BadRequest
  BY <1>4 DEF ReplyTo
<1> QED
  BY <1>1, <1>2, <1>3, <1>4

\* What the inner loop makes of a buffer that starts with a request that is not
\* answered yet: its reply and its end, or another read.
LEMMA ParseFirst ==
  ASSUME Typed, NEW a \in 1..Len(script),
         NEW b \in Seq(Bytes), Len(b) \in 1..Cap,
         \A p \in 1..Len(b) : p <= Size(a) => b[p] = <<a, p>>,
         Parse(b)
  PROVE  \/ /\ ReadMore
            /\ Len(b) >= Cap => ReplyTo(script[a]) = TooLarge
         \/ /\ pc' = "write" /\ resp' = ReplyTo(script[a]) /\ resp' \in Replies
            /\ msgEnd' \in 0..Cap
            /\ ~resp'.close => msgEnd' = Size(a) /\ msgEnd' <= Len(b)
<1> DEFINE heads     == {p \in 1..Len(b) : EndsHead(b[p])}
           bodyStart == Min(heads)
           r         == script[a]
           size      == Size(a)
<1>1. r.head \in Nat \ {0} /\ r.body \in Nat
  BY RequestType DEF Requests
<1>2. size = r.head + r.body
  BY DEF Size
<1>3. Len(b) \in Nat /\ Len(b) <= Cap /\ Cap \in Nat
  <2>1. Cap \in Nat
    BY ScriptsAssumption
  <2> QED
    BY <2>1
<1>4. IF Len(b) < r.head THEN heads = {} ELSE heads # {} /\ bodyStart = r.head
  BY <1>3, FirstHead
<1>5. CASE Len(b) < r.head
  <2>1. ReadMore
    BY <1>4, <1>5 DEF Parse
  <2>2. Len(b) >= Cap => r.head > Cap /\ ~(r.head <= Cap)
    BY <1>1, <1>3, <1>5
  <2> QED
    BY <2>1, <2>2, HeadTooLarge
<1>6. CASE ~(Len(b) < r.head)
  <2>1. r.head <= Len(b) /\ ~(r.head > Cap) /\ r.head <= Cap /\ r.head \in 0..Cap
        /\ 1 \in 1..Len(b) /\ r.head \in 1..Len(b) /\ 1 <= size /\ r.head <= size
    BY <1>1, <1>2, <1>3, <1>6
  <2>2. b[r.head] = <<a, r.head>> /\ b[1] = <<a, 1>>
    BY <2>1
  <2>3. heads # {} /\ bodyStart = r.head
    BY <1>4, <1>6
  <2>4. b[bodyStart][1] = a
    BY <2>2, <2>3
  <2> DEFINE fits == r.length >= 0 /\ r.length <= Cap - r.head
             end  == r.head + r.length
  <2>5. \/ ~r.headers /\ Answer(BadRequest, 0)
        \/ r.headers /\ r.line = "GET /ready" /\ Answer(Ready, r.head)
        \/ r.headers /\ r.line = "other" /\ Answer(NotFound, r.head)
        \/ /\ r.headers /\ r.line = "POST /fraud-score"
           /\ r.length = NoLength /\ Answer(BadRequest, r.head)
        \/ /\ r.headers /\ r.line = "POST /fraud-score" /\ r.length # NoLength
           /\ \/ ~fits /\ Answer(TooLarge, r.head)
              \/ fits /\ ~(Len(b) >= end) /\ ReadMore
              \/ /\ fits /\ Len(b) >= end
                 /\ Answer(IF r.valid THEN Score(r.frauds) ELSE BadRequest, end)
    <3>1. b[1] = <<b[bodyStart][1], 1>>
      BY <2>2, <2>4
    <3> HIDE DEF heads
    <3> QED
      BY <2>3, <2>4, <3>1 DEF Parse, BodyArrived, heads
  <2> HIDE DEF heads, bodyStart
  <2>6. CASE ~r.headers /\ Answer(BadRequest, 0)
    <3>1. ReplyTo(r) = BadRequest
      BY <2>1, <2>6, HeadFits
    <3>2. 0 \in 0..Cap
      BY <1>3
    <3> QED
      BY <2>6, <3>1, <3>2, ReplyTypes DEF Answer
  <2>7. CASE r.headers /\ r.line = "GET /ready" /\ Answer(Ready, r.head)
    <3>1. ReplyTo(r) = Ready
      BY <2>1, <2>7, HeadFits
    <3>2. r.body = 0
      BY <2>7, RequestType
    <3>3. r.head = size
      BY <1>1, <1>2, <3>2
    <3> QED
      BY <2>1, <2>7, <3>1, <3>3, ReplyTypes DEF Answer
  <2>8. CASE r.headers /\ r.line = "other" /\ Answer(NotFound, r.head)
    <3>1. ReplyTo(r) = NotFound
      BY <2>1, <2>8, HeadFits
    <3> QED
      BY <2>1, <2>8, <3>1, ReplyTypes DEF Answer
  <2>9. CASE /\ r.headers /\ r.line = "POST /fraud-score"
             /\ r.length = NoLength /\ Answer(BadRequest, r.head)
    <3>1. ReplyTo(r) = BadRequest
      BY <2>1, <2>9, HeadFits
    <3> QED
      BY <2>1, <2>9, <3>1, ReplyTypes DEF Answer
  <2>10. CASE /\ r.headers /\ r.line = "POST /fraud-score" /\ r.length # NoLength
              /\ \/ ~fits /\ Answer(TooLarge, r.head)
                 \/ fits /\ ~(Len(b) >= end) /\ ReadMore
                 \/ /\ fits /\ Len(b) >= end
                    /\ Answer(IF r.valid THEN Score(r.frauds) ELSE BadRequest, end)
    <3>1. r.length = r.body \/ r.length = -1
      BY <2>10, RequestType
    <3>2. fits <=> ~(r.length < 0 \/ r.head + r.length > Cap)
      BY <1>1, <1>3, <3>1
    <3>3. fits => end = size /\ end \in 0..Cap
      BY <1>1, <1>2, <1>3, <3>1
    <3> HIDE DEF fits, end
    <3>4. ReplyTo(r) = IF ~fits THEN TooLarge
                       ELSE IF r.valid THEN Score(r.frauds) ELSE BadRequest
      BY <2>1, <2>10, <3>2, HeadFits
    <3>5. Score(r.frauds) \in Replies
      <4>1. r.frauds \in 0..5
        BY RequestType DEF Requests
      <4> QED
        BY <4>1, ReplyTypes
    <3>6. CASE ~fits
      <4>1. Answer(TooLarge, r.head) /\ ReplyTo(r) = TooLarge
        BY <2>10, <3>4, <3>6
      <4> QED
        BY <2>1, <4>1, ReplyTypes DEF Answer
    <3>7. CASE fits
      <4>1. CASE ~(Len(b) >= end) /\ ReadMore
        BY <1>3, <3>3, <3>7, <4>1
      <4>2. CASE /\ Len(b) >= end
                 /\ Answer(IF r.valid THEN Score(r.frauds) ELSE BadRequest, end)
        <5>1. end = size /\ end \in 0..Cap /\ end <= Len(b)
          BY <1>3, <3>3, <3>7, <4>2
        <5>2. pc' = "write" /\ resp' = ReplyTo(r) /\ msgEnd' = end
          BY <3>4, <3>7, <4>2 DEF Answer
        <5>3. ReplyTo(r) \in Replies
          BY <3>4, <3>5, <3>7, ReplyTypes
        <5> QED
          BY <5>1, <5>2, <5>3
      <4> QED
        BY <2>10, <3>7, <4>1, <4>2
    <3> QED
      BY <3>6, <3>7
  <2> QED
    BY <2>5, <2>6, <2>7, <2>8, <2>9, <2>10
<1> QED
  BY <1>5, <1>6

-----------------------------------------------------------------------------
(* The inductive invariant. *)

LEMMA Reassociate ==
  \A x, y, z \in Seq(Bytes) : (x \o y) \o z = x \o (y \o z)
<1> TAKE x, y, z \in Seq(Bytes)
<1> QED
  BY ConcatAssociative

LEMMA InvInit == Init => IInv
<1> SUFFICES ASSUME Init PROVE IInv
  OBVIOUS
<1>1. Cap \in Nat \ {0} /\ script \in Seq(Requests) /\ Len(script) \in Nat
  BY ScriptsAssumption, LenProperties DEF Init
<1>2. <<>> \in Seq(Bytes) /\ <<>> \in Seq(Replies) /\ Len(<<>>) = 0
  BY EmptySeq
<1>3. Typed
  BY <1>1, <1>2, ReplyTypes DEF Init, Typed
<1>4. Rest = <<>>
  BY <1>2, ConcatEmptySeq DEF Init, Rest
<1>5. Pending = sent + 1
  BY <1>2 DEF Pending, Init
<1>6. Stream(Rest, Sizes, Pending, sent) /\ Complete(Rest, Sizes, Pending, sent)
  BY <1>2, <1>4, <1>5 DEF Stream, InPlace, Complete
<1>7. ~(Len(buf) >= Cap)
  BY <1>1, <1>2 DEF Init
<1> QED
  BY <1>3, <1>6, <1>7 DEF IInv, StreamInOrder, ReplyIsNext, FullIsTooLarge, Init

\* Facts used with every step.
LEMMA InvFacts ==
  ASSUME IInv
  PROVE  /\ Len(script) \in Nat /\ Sizes \in [1..Len(script) -> Nat \ {0}]
         /\ Len(replies) \in Nat /\ Pending \in Nat \ {0}
         /\ Len(buf) \in Nat /\ Len(wire) \in Nat
         /\ Rest \in Seq(Bytes) /\ Len(Rest) = Len(buf) + Len(wire)
         /\ \A i \in 1..Len(buf) : Rest[i] = buf[i]
<1>1. Typed
  BY DEF IInv
<1>2. Len(script) \in Nat /\ Sizes \in [1..Len(script) -> Nat \ {0}]
  BY <1>1, SizesType
<1>3. buf \in Seq(Bytes) /\ wire \in Seq(Bytes) /\ replies \in Seq(Replies)
  BY <1>1 DEF Typed
<1>4. Len(replies) \in Nat /\ Len(buf) \in Nat /\ Len(wire) \in Nat
  BY <1>3, LenProperties
<1>5. Rest \in Seq(Bytes) /\ Len(Rest) = Len(buf) + Len(wire)
  BY <1>3, ConcatProperties DEF Rest
<1>6. \A i \in 1..Len(buf) : Rest[i] = buf[i]
  <2> TAKE i \in 1..Len(buf)
  <2>1. i \in 1..(Len(buf) + Len(wire)) /\ i <= Len(buf)
    BY <1>4
  <2> QED
    BY <1>3, <2>1, ConcatProperties DEF Rest
<1>7. Pending \in Nat \ {0}
  BY <1>4 DEF Pending
<1> QED
  BY <1>2, <1>4, <1>5, <1>6, <1>7

LEMMA SendKeepsInv ==
  ASSUME IInv, Send
  PROVE  IInv'
<1>1. /\ Len(script) \in Nat /\ Sizes \in [1..Len(script) -> Nat \ {0}]
      /\ Pending \in Nat \ {0} /\ Typed /\ sent \in 0..Len(script)
      /\ sent < Len(script) /\ sent' = sent + 1 /\ Rest \in Seq(Bytes)
  BY InvFacts DEF IInv, Typed, Send
<1>2. sent \in 0..(Len(script) - 1) /\ sent + 1 \in 1..Len(script)
  BY <1>1
<1> DEFINE u == [j \in 1..Sizes[sent + 1] |-> <<sent + 1, j>>]
<1>3. Units(sent') = u
  BY <1>1, <1>2, SizesType DEF Units, Size
<1>4. Sizes' = Sizes /\ Pending' = Pending
  BY DEF Sizes, Pending, Size, Send
<1>5. u \in Seq(Bytes)
  <2>1. Sizes[sent + 1] \in Nat
    BY <1>1, <1>2
  <2>2. \A j \in 1..Sizes[sent + 1] : <<sent + 1, j>> \in Bytes
    BY <1>1, <2>1 DEF Bytes
  <2> DEFINE e == Sizes[sent + 1]
             n == sent + 1
  <2> HIDE DEF e, n
  <2>3. e \in Nat /\ \A j \in 1..e : <<n, j>> \in Bytes
    BY <2>1, <2>2 DEF e, n
  <2>4. [j \in 1..e |-> <<n, j>>] \in Seq(Bytes)
    BY <2>3, IsASeq
  <2> QED
    BY <2>4 DEF e, n
<1>6. wire' = wire \o u /\ buf' = buf
  BY <1>3 DEF Send
<1> HIDE DEF u
<1>7. wire' \in Seq(Bytes) /\ Rest' = Rest \o u
  <2>1. buf \in Seq(Bytes) /\ wire \in Seq(Bytes)
    BY <1>1 DEF Typed
  <2> QED
    BY <1>5, <1>6, <2>1, ConcatProperties, ConcatAssociative, SMTT(30) DEF Rest
<1>8. Typed'
  BY <1>1, <1>2, <1>7 DEF Typed, Send
<1>9. StreamInOrder'
  <2> SUFFICES ASSUME pc # "closed"
               PROVE  /\ Stream(Rest', Sizes, Pending, sent + 1)
                      /\ Complete(Rest', Sizes, Pending, sent + 1)
    BY <1>1, <1>4 DEF StreamInOrder, Send
  <2>1. Stream(Rest, Sizes, Pending, sent) /\ Complete(Rest, Sizes, Pending, sent)
    BY DEF IInv, StreamInOrder, Send
  <2> DEFINE s == Rest
             sz == Sizes
             a == Pending
             n == sent
             N == Len(script)
  <2> HIDE DEF s, sz, a, n, N
  <2>2. /\ N \in Nat /\ sz \in [1..N -> Nat \ {0}] /\ a \in Nat \ {0}
        /\ n \in 0..(N - 1) /\ Stream(s, sz, a, n) /\ Complete(s, sz, a, n)
    BY <1>1, <1>2, <2>1 DEF s, sz, a, n, N
  <2>3. LET v == [j \in 1..sz[n + 1] |-> <<n + 1, j>>]
        IN  Stream(s \o v, sz, a, n + 1) /\ Complete(s \o v, sz, a, n + 1)
    BY <2>2, StreamGrows
  <2> QED
    BY <1>7, <2>3 DEF s, sz, a, n, u
<1>10. ReplyIsNext' /\ FullIsTooLarge'
  <2>1. ReplyIsNext /\ FullIsTooLarge
    BY DEF IInv
  <2>2. \A q \in Nat : q <= sent => q <= sent + 1
    BY <1>1
  <2>3. /\ pc' = pc /\ buf' = buf /\ resp' = resp /\ msgEnd' = msgEnd
        /\ script' = script /\ Size(Pending)' = Size(Pending)
    BY <1>4 DEF Send, Size
  <2> QED
    BY <1>1, <1>4, <2>1, <2>2, <2>3 DEF ReplyIsNext, FullIsTooLarge
<1> QED
  BY <1>8, <1>9, <1>10 DEF IInv

\* A step that leaves the bytes, the script and the replies alone keeps the
\* stream.
LEMMA StreamKept ==
  ASSUME UNCHANGED <<script, sent, buf, wire, replies>>
  PROVE  Rest' = Rest /\ Sizes' = Sizes /\ Pending' = Pending
BY DEF Rest, Sizes, Size, Pending

LEMMA VanishKeepsInv ==
  ASSUME IInv, Vanish
  PROVE  IInv'
<1>1. Typed /\ Len(wire) \in Nat /\ Len(buf) \in Nat
  BY InvFacts DEF IInv
<1>2. PICK n \in 0..Len(wire) : wire' = SubSeq(wire, 1, n)
  BY DEF Vanish
<1>3. buf \in Seq(Bytes) /\ wire \in Seq(Bytes)
  BY <1>1 DEF Typed
<1>4. /\ wire' \in Seq(Bytes) /\ Len(wire') = n
      /\ \A i \in 1..n : wire'[i] = wire[i]
  <2>1. n \in Int /\ 1 \in Int /\ \A i \in 1..n : wire[i] \in Bytes
    BY <1>1, <1>3
  <2> DEFINE t == SubSeq(wire, 1, n)
  <2>2. /\ t \in Seq(Bytes) /\ Len(t) = IF 1 <= n THEN n - 1 + 1 ELSE 0
        /\ \A i \in 1..(n - 1 + 1) : t[i] = wire[1 + i - 1]
    BY <2>1, SubSeqProperties
  <2> HIDE DEF t
  <2>3. Len(t) = n /\ n - 1 + 1 = n /\ \A i \in 1..n : 1 + i - 1 = i
    BY <1>1, <2>2
  <2>4. \A i \in 1..n : t[i] = wire[i]
    BY <2>2, <2>3
  <2> QED
    BY <1>2, <2>2, <2>3, <2>4 DEF t
<1>5. Typed'
  BY <1>1, <1>4 DEF Typed, Vanish
<1>6. StreamInOrder'
  <2> SUFFICES ASSUME pc # "closed"
               PROVE  Stream(Rest', Sizes, Pending, sent)
    BY DEF StreamInOrder, Vanish, Sizes, Pending, Size
  <2> DEFINE l == Len(buf) + n
             t == SubSeq(Rest, 1, l)
  <2>1. l \in 0..Len(Rest) /\ Rest \in Seq(Bytes)
    BY <1>1, InvFacts
  <2>2. Stream(t, Sizes, Pending, sent)
    <3>1. Stream(Rest, Sizes, Pending, sent)
      BY DEF IInv, StreamInOrder
    <3>2. sent \in 0..Len(script)
      BY <1>1 DEF Typed
    <3> QED
      BY <2>1, <3>1, <3>2, InvFacts, StreamPrefix
  <2>3. Rest' = t
    <3>1. Rest' = buf \o wire' /\ Rest = buf \o wire
      BY DEF Rest, Vanish
    <3>2. /\ Rest' \in Seq(Bytes) /\ Len(Rest') = l
          /\ \A i \in 1..l : Rest'[i] = IF i <= Len(buf) THEN buf[i]
                                        ELSE wire'[i - Len(buf)]
      <4> DEFINE w == wire'
                 v == buf \o w
      <4>1. w \in Seq(Bytes) /\ Len(w) = n /\ Rest' = v
        BY <1>4, <3>1
      <4> HIDE DEF w
      <4>2. /\ v \in Seq(Bytes) /\ Len(v) = Len(buf) + Len(w)
            /\ \A i \in 1..(Len(buf) + Len(w)) :
                 v[i] = IF i <= Len(buf) THEN buf[i] ELSE w[i - Len(buf)]
        BY <1>3, <4>1, ConcatProperties
      <4> HIDE DEF v
      <4> QED
        BY <4>1, <4>2 DEF w
    <3>3. /\ t \in Seq(Bytes) /\ Len(t) = l /\ \A i \in 1..l : t[i] = Rest[i]
      BY <2>1, SubSeqProperties
    <3>4. \A i \in 1..(Len(buf) + Len(wire)) :
            Rest[i] = IF i <= Len(buf) THEN buf[i] ELSE wire[i - Len(buf)]
      BY <1>3, <3>1, ConcatProperties
    <3> HIDE DEF t
    <3>5. \A i \in 1..l : Rest'[i] = t[i]
      <4> TAKE i \in 1..l
      <4>1. i \in 1..(Len(buf) + Len(wire)) /\ ~(i <= Len(buf)) => i - Len(buf) \in 1..n
        BY <1>1
      <4>2. i \in 1..(Len(buf) + Len(wire))
        BY <1>1
      <4>3. Rest'[i] = IF i <= Len(buf) THEN buf[i] ELSE wire[i - Len(buf)]
        BY <1>4, <3>2, <4>1, <4>2
      <4> QED
        BY <3>3, <3>4, <4>2, <4>3
    <3> QED
      BY <3>2, <3>3, <3>5, SeqEqual
  <2> QED
    BY <2>2, <2>3
<1>7. ReplyIsNext' /\ FullIsTooLarge'
  BY DEF IInv, ReplyIsNext, FullIsTooLarge, Vanish, Pending, Size
<1> QED
  BY <1>5, <1>6, <1>7 DEF IInv

\* The requests in the buffer are unanswered ones, the first of them in front.
LEMMA BufferFront ==
  ASSUME IInv, pc # "closed", buf \o wire # <<>>
  PROVE  /\ Pending \in 1..sent /\ Pending \in 1..Len(script)
         /\ Sizes[Pending] = Size(Pending) /\ Size(Pending) \in Nat \ {0}
         /\ \A p \in 1..Len(Rest) : p <= Size(Pending) => Rest[p] = <<Pending, p>>
<1>1. /\ Typed /\ Stream(Rest, Sizes, Pending, sent)
      /\ sent \in 0..Len(script) /\ Rest # <<>>
  BY DEF IInv, StreamInOrder, Typed, Rest
<1>2. Pending \in 1..sent /\ LiesAt(Rest, Sizes, 0, Pending)
  BY <1>1, InvFacts, FirstRequest
<1>3. Pending \in 1..Len(script)
  BY <1>1, <1>2, InvFacts
<1>4. Sizes[Pending] = Size(Pending) /\ Size(Pending) \in Nat \ {0}
  BY <1>1, <1>3, SizesType, RequestType
<1>5. \A k \in 1..Size(Pending) : k <= Len(Rest) => Rest[k] = <<Pending, k>>
  BY <1>2, <1>4 DEF LiesAt
<1> QED
  BY <1>2, <1>3, <1>4, <1>5, InvFacts

LEMMA OverflowKeepsInv ==
  ASSUME IInv, Overflow
  PROVE  IInv'
<1>1. Typed /\ pc = "read" /\ Len(buf) >= Cap /\ Cap \in Nat
  BY ScriptsAssumption DEF IInv, Overflow
<1>2. pc' = "write" /\ resp' = TooLarge /\ msgEnd' = 0
  BY DEF Overflow, Answer
<1>3. Typed'
  BY <1>1, <1>2, ReplyTypes DEF Typed, Overflow
<1>4. StreamInOrder'
  BY <1>1, StreamKept DEF IInv, StreamInOrder, Overflow
<1>5. Pending <= sent /\ ReplyTo(script[Pending]) = TooLarge
  BY <1>1 DEF IInv, FullIsTooLarge
<1>6. ReplyIsNext' /\ FullIsTooLarge'
  BY <1>2, <1>5, ReplyTypes, StreamKept DEF ReplyIsNext, FullIsTooLarge, Overflow
<1> QED
  BY <1>3, <1>4, <1>6 DEF IInv

LEMMA ReceiveKeepsInv ==
  ASSUME IInv, Receive
  PROVE  IInv'
<1>1. /\ Typed /\ Len(wire) \in Nat /\ Len(buf) \in Nat /\ Cap \in Nat
      /\ buf \in Seq(Bytes) /\ wire \in Seq(Bytes) /\ Len(buf) < Cap /\ pc = "read"
  BY InvFacts, ScriptsAssumption DEF IInv, Typed, Receive
<1>2. PICK n \in 1..Min({Len(wire), Cap - Len(buf)}) :
        /\ buf' = buf \o SubSeq(wire, 1, n)
        /\ wire' = SubSeq(wire, n + 1, Len(wire))
  BY DEF Receive
<1>3. n \in 1..Len(wire) /\ Len(buf) + n <= Cap
  <2> DEFINE free == Cap - Len(buf)
             lim  == Min({Len(wire), free})
  <2>1. free \in Nat
    BY <1>1
  <2> HIDE DEF free
  <2>2. lim \in {Len(wire), free} /\ \A y \in {Len(wire), free} : lim <= y
    <3>1. \E x \in {Len(wire), free} : \A y \in {Len(wire), free} : x <= y
      BY <1>1, <2>1
    <3> QED
      BY <3>1 DEF Min
  <2>3. lim \in Nat /\ lim <= Len(wire) /\ lim <= free /\ n \in 1..lim
    BY <1>1, <1>2, <2>1, <2>2 DEF free
  <2> HIDE DEF lim
  <2> QED
    BY <1>1, <2>1, <2>3 DEF free
<1> DEFINE d == SubSeq(wire, 1, n)
<1>4. d \in Seq(Bytes) /\ Len(d) = n
  BY <1>1, <1>3, SubSeqProperties
<1>5. wire' \in Seq(Bytes)
  <2>1. n \in 0..Len(wire)
    BY <1>1, <1>3
  <2> QED
    BY <1>1, <1>2, <2>1, Suffix
<1>6. d \o wire' = wire
  <2>1. /\ 1 \in 1..(Len(wire) + 1) /\ n \in (1 - 1)..Len(wire)
        /\ Len(wire) \in n..Len(wire)
    BY <1>1, <1>3
  <2>2. SubSeq(wire, 1, n) \o SubSeq(wire, n + 1, Len(wire)) = SubSeq(wire, 1, Len(wire))
    BY <1>1, <2>1, ConcatAdjacentSubSeq
  <2> QED
    BY <1>1, <1>2, <2>2, SubSeqFull
<1>7. buf' = buf \o d
  BY <1>2
<1> HIDE DEF d
<1>8. Rest' = Rest
  <2>1. Rest' = (buf \o d) \o wire' /\ Rest = buf \o (d \o wire')
    BY <1>6, <1>7 DEF Rest
  <2> DEFINE w == wire'
  <2>2. w \in Seq(Bytes) /\ Rest' = (buf \o d) \o w /\ Rest = buf \o (d \o w)
    BY <1>5, <2>1
  <2> HIDE DEF w
  <2>3. (buf \o d) \o w = buf \o (d \o w)
    BY <1>1, <1>4, <2>2, Reassociate, ZenonT(40)
  <2> QED
    BY <2>2, <2>3
<1>9. buf' \in Seq(Bytes) /\ Len(buf') = Len(buf) + n
  BY <1>1, <1>4, <1>7, ConcatProperties
<1>10. Len(buf') \in 1..Cap /\ Len(buf') <= Len(Rest)
  BY <1>1, <1>3, <1>9, InvFacts
<1>11. \A i \in 1..Len(buf') : Rest[i] = buf'[i]
  <2> TAKE i \in 1..Len(buf')
  <2>1. i \in 1..(Len(buf') + Len(wire')) /\ i <= Len(buf')
    <3>1. Len(buf') \in Nat /\ Len(wire') \in Nat
      BY <1>5, <1>9, LenProperties
    <3> QED
      BY <3>1
  <2>2. Rest' = buf' \o wire'
    BY DEF Rest
  <2>3. (buf' \o wire')[i] = buf'[i]
    BY <1>5, <1>9, <2>1, ConcatProperties
  <2> QED
    BY <1>8, <2>2, <2>3
<1>12. /\ Pending \in 1..sent /\ Pending \in 1..Len(script)
       /\ Sizes[Pending] = Size(Pending) /\ Size(Pending) \in Nat \ {0}
       /\ \A p \in 1..Len(Rest) : p <= Size(Pending) => Rest[p] = <<Pending, p>>
  <2>1. Rest # <<>>
    BY <1>10, InvFacts, EmptySeq
  <2> QED
    BY <1>1, <2>1, BufferFront DEF Rest
<1>13. \A p \in 1..Len(buf') : p <= Size(Pending) => buf'[p] = <<Pending, p>>
  <2> TAKE p \in 1..Len(buf')
  <2>1. p \in 1..Len(Rest)
    BY <1>10, InvFacts
  <2> QED
    BY <1>11, <1>12, <2>1
<1>14. \/ /\ ReadMore
          /\ Len(buf') >= Cap => ReplyTo(script[Pending]) = TooLarge
       \/ /\ pc' = "write" /\ resp' = ReplyTo(script[Pending]) /\ resp' \in Replies
          /\ msgEnd' \in 0..Cap
          /\ ~resp'.close => msgEnd' = Size(Pending) /\ msgEnd' <= Len(buf')
  <2>1. Parse(buf')
    BY DEF Receive
  <2> QED
    BY <1>1, <1>9, <1>10, <1>12, <1>13, <2>1, ParseFirst
<1>15. Pending' = Pending /\ Sizes' = Sizes /\ script' = script /\ sent' = sent
       /\ client' = client /\ replies' = replies /\ Size(Pending)' = Size(Pending)
  BY DEF Receive, Pending, Sizes, Size
<1>16. Typed'
  BY <1>1, <1>5, <1>9, <1>10, <1>14, <1>15 DEF Typed, ReadMore
<1>17. StreamInOrder'
  BY <1>1, <1>8, <1>15 DEF IInv, StreamInOrder
<1>18. Pending <= sent
  BY <1>12, InvFacts
<1>19. ReplyIsNext' /\ FullIsTooLarge'
  BY <1>1, <1>14, <1>15, <1>18 DEF ReplyIsNext, FullIsTooLarge, ReadMore
<1> QED
  BY <1>16, <1>17, <1>19 DEF IInv

LEMMA WriteKeepsInv ==
  ASSUME IInv, Write
  PROVE  IInv'
<1>1. /\ Typed /\ pc = "write" /\ Len(wire) \in Nat /\ Len(buf) \in Nat
      /\ buf \in Seq(Bytes) /\ wire \in Seq(Bytes) /\ replies \in Seq(Replies)
      /\ sent \in 0..Len(script) /\ Len(script) \in Nat /\ Len(replies) \in Nat
      /\ Cap \in Nat /\ resp \in Replies /\ Pending \in Nat \ {0}
  BY InvFacts, ScriptsAssumption DEF IInv, Typed, Write
<1>2. /\ Pending <= sent /\ Pending \in 1..Len(script)
      /\ ~resp.close => msgEnd = Size(Pending) /\ msgEnd <= Len(buf)
  <2>1. /\ Pending <= sent
        /\ ~resp.close => msgEnd = Size(Pending) /\ msgEnd <= Len(buf)
    BY <1>1 DEF IInv, ReplyIsNext
  <2> QED
    BY <1>1, <2>1
<1>3. /\ script' = script /\ sent' = sent /\ client' = client /\ wire' = wire
      /\ resp' = resp /\ msgEnd' = msgEnd /\ Sizes' = Sizes
      /\ replies' \in Seq(Replies) /\ Len(replies') = Len(replies) + 1
      /\ Pending' = Pending + 1
  <2>1. replies' = Append(replies, resp)
    BY DEF Write
  <2>2. replies' \in Seq(Replies) /\ Len(replies') = Len(replies) + 1
    BY <1>1, <2>1
  <2> QED
    BY <1>1, <2>2 DEF Write, Sizes, Size, Pending
<1>4. Len(replies') <= sent
  BY <1>1, <1>2, <1>3 DEF Pending
<1>5. CASE resp.close
  <2>1. pc' = "closed" /\ buf' = buf
    BY <1>5 DEF Write
  <2>2. Typed'
    BY <1>1, <1>3, <1>4, <2>1 DEF Typed
  <2> QED
    BY <2>1, <2>2 DEF IInv, StreamInOrder, ReplyIsNext, FullIsTooLarge
<1>6. CASE ~resp.close
  <2>1. pc' = "read" /\ buf' = SubSeq(buf, msgEnd + 1, Len(buf))
    BY <1>6 DEF Write
  <2> DEFINE e == Size(Pending)
             s == Rest
             t == SubSeq(s, e + 1, Len(s))
  <2>2. msgEnd = e /\ e <= Len(buf) /\ e \in Nat \ {0} /\ Sizes[Pending] = e
    BY <1>1, <1>2, <1>6, SizesType, RequestType
  <2> HIDE DEF e, s
  <2>3. /\ buf' \in Seq(Bytes) /\ Len(buf') = Len(buf) - e
        /\ \A i \in 1..(Len(buf) - e) : buf'[i] = buf[i + e]
    <3>1. e \in 0..Len(buf)
      BY <1>1, <2>2
    <3> QED
      BY <1>1, <2>1, <2>2, <3>1, Suffix, ZenonT(40)
  <2>4. Len(buf') \in Nat /\ Len(buf') <= Cap /\ Len(buf') < Cap
    <3>1. Len(buf) <= Cap
      BY <1>1 DEF Typed
    <3> QED
      BY <1>1, <2>2, <2>3, <3>1
  <2>5. Typed'
    BY <1>1, <1>3, <1>4, <2>1, <2>3, <2>4 DEF Typed
  <2>6. /\ s \in Seq(Bytes) /\ Len(s) = Len(buf) + Len(wire)
        /\ \A q \in 1..(Len(buf) + Len(wire)) :
             /\ q <= Len(buf) => s[q] = buf[q]
             /\ ~(q <= Len(buf)) => s[q] = wire[q - Len(buf)]
    BY <1>1, ConcatProperties DEF s, Rest
  <2>7. Rest' = t
    <3>1. e \in 0..Len(s) /\ Len(s) \in Nat
      BY <1>1, <2>2, <2>6
    <3>2. /\ t \in Seq(Bytes) /\ Len(t) = Len(s) - e
          /\ \A i \in 1..(Len(s) - e) : t[i] = s[i + e]
      BY <2>6, <3>1, Suffix
    <3> HIDE DEF t
    <3> DEFINE b == buf'
               v == b \o wire
    <3>3. Rest' = v /\ b \in Seq(Bytes) /\ Len(b) = Len(buf) - e
          /\ \A i \in 1..(Len(buf) - e) : b[i] = buf[i + e]
      BY <1>3, <2>3 DEF Rest
    <3> HIDE DEF b
    <3>4. /\ v \in Seq(Bytes) /\ Len(v) = Len(b) + Len(wire)
          /\ \A i \in 1..(Len(b) + Len(wire)) :
               v[i] = IF i <= Len(b) THEN b[i] ELSE wire[i - Len(b)]
      BY <1>1, <3>3, ConcatProperties
    <3> HIDE DEF v
    <3>5. Len(v) = Len(t)
      BY <1>1, <2>2, <2>6, <3>2, <3>3, <3>4
    <3>6. ASSUME NEW i \in 1..Len(v)
          PROVE  v[i] = t[i]
      <4>1. /\ i + e \in 1..(Len(buf) + Len(wire)) /\ i \in 1..(Len(s) - e)
            /\ i \in 1..(Len(b) + Len(wire)) /\ i \in Nat /\ Len(b) \in Nat
        BY <1>1, <2>2, <2>6, <3>3, <3>4
      <4>2. /\ i + e <= Len(buf) => t[i] = buf[i + e]
            /\ ~(i + e <= Len(buf)) => t[i] = wire[i + e - Len(buf)]
        <5> DEFINE q == i + e
        <5>1. q \in 1..(Len(buf) + Len(wire)) /\ q = i + e
          BY <4>1
        <5>2. t[i] = s[i + e]
          BY <3>2, <4>1
        <5> HIDE DEF q
        <5>3. t[i] = s[q]
          BY <5>1, <5>2
        <5>4. /\ q <= Len(buf) => t[i] = buf[q]
              /\ ~(q <= Len(buf)) => t[i] = wire[q - Len(buf)]
          BY <2>6, <5>1, <5>3
        <5> QED
          BY <1>1, <2>2, <4>1, <5>1, <5>4
      <4>3. CASE i <= Len(b)
        <5>1. i \in 1..(Len(buf) - e) /\ i + e <= Len(buf)
          BY <1>1, <2>2, <3>3, <4>1, <4>3
        <5>2. v[i] = b[i] /\ t[i] = buf[i + e]
          BY <3>4, <4>1, <4>2, <4>3, <5>1
        <5> QED
          BY <3>3, <5>1, <5>2
      <4>4. CASE ~(i <= Len(b))
        <5>1. ~(i + e <= Len(buf)) /\ i - Len(b) = i + e - Len(buf)
          BY <1>1, <2>2, <3>3, <4>1, <4>4
        <5> QED
          BY <3>4, <4>1, <4>2, <4>4, <5>1
      <4> QED
        BY <4>3, <4>4
    <3> QED
      BY <3>2, <3>3, <3>4, <3>5, <3>6, SeqEqual
  <2>8. /\ Stream(s, Sizes, Pending, sent)
        /\ client # "gone" => Complete(s, Sizes, Pending, sent)
    BY <1>1 DEF IInv, StreamInOrder, s
  <2>9. s # <<>> /\ Sizes[Pending] <= Len(s)
    BY <1>1, <2>2, <2>6
  <2>10. /\ Stream(t, Sizes, Pending + 1, sent)
         /\ client # "gone" => Complete(t, Sizes, Pending + 1, sent)
    <3>1. Pending \in Nat /\ Sizes \in [1..Len(script) -> Nat \ {0}]
      BY <1>1, SizesType
    <3>2. LET w == SubSeq(s, Sizes[Pending] + 1, Len(s))
          IN  /\ Stream(w, Sizes, Pending + 1, sent)
              /\ Complete(s, Sizes, Pending, sent) =>
                   Complete(w, Sizes, Pending + 1, sent)
      BY <1>1, <2>8, <2>9, <3>1, StreamShift
    <3> QED
      BY <2>2, <2>8, <3>2
  <2>11. StreamInOrder'
    BY <1>3, <2>7, <2>10 DEF StreamInOrder
  <2>12. ReplyIsNext' /\ FullIsTooLarge'
    <3>1. ~(Len(buf') >= Cap)
      BY <1>1, <2>4
    <3> QED
      BY <2>1, <3>1 DEF ReplyIsNext, FullIsTooLarge
  <2> QED
    BY <2>5, <2>11, <2>12 DEF IInv
<1> QED
  BY <1>5, <1>6

LEMMA InvNext == IInv /\ [Next]_vars => IInv'
<1> SUFFICES ASSUME IInv, [Next]_vars PROVE IInv'
  OBVIOUS
<1>1. CASE Send
  BY <1>1, SendKeepsInv
<1>2. CASE Shut
  <2>1. Rest' = Rest /\ Sizes' = Sizes /\ Pending' = Pending
    BY <1>2, StreamKept DEF Shut
  <2>2. Typed'
    BY <1>2 DEF IInv, Typed, Shut
  <2>3. StreamInOrder'
    BY <1>2, <2>1 DEF IInv, StreamInOrder, Shut
  <2>4. ReplyIsNext' /\ FullIsTooLarge'
    BY <1>2, <2>1 DEF IInv, ReplyIsNext, FullIsTooLarge, Shut, Size
  <2> QED
    BY <2>2, <2>3, <2>4 DEF IInv
<1>3. CASE Vanish
  BY <1>3, VanishKeepsInv
<1>4. CASE Overflow
  BY <1>4, OverflowKeepsInv
<1>5. CASE Receive
  BY <1>5, ReceiveKeepsInv
<1>6. CASE ReadFails \/ WriteFails
  <2>1. Typed'
    BY <1>6 DEF IInv, Typed, ReadFails, WriteFails
  <2>2. pc' = "closed"
    BY <1>6 DEF ReadFails, WriteFails
  <2> QED
    BY <2>1, <2>2 DEF IInv, StreamInOrder, ReplyIsNext, FullIsTooLarge
<1>7. CASE Write
  BY <1>7, WriteKeepsInv
<1>8. CASE UNCHANGED vars
  <2>1. Rest' = Rest /\ Sizes' = Sizes /\ Pending' = Pending
    BY <1>8, StreamKept DEF vars
  <2> QED
    BY <1>8, <2>1 DEF IInv, Typed, StreamInOrder, ReplyIsNext, FullIsTooLarge, vars, Size
<1> QED
  BY <1>1, <1>2, <1>3, <1>4, <1>5, <1>6, <1>7, <1>8 DEF Next, Server

LEMMA Invariance == Spec => []IInv
BY InvInit, InvNext, PTL DEF Spec

-----------------------------------------------------------------------------
(* The theorems. *)

\* Every variable of a connection stays in its domain: the buffer never outgrows
\* its capacity, the end of the request answered lies within it, and there are
\* never more replies than requests.
THEOREM TypeCorrect == Spec => []TypeOK
<1>1. IInv => TypeOK
  <2> SUFFICES ASSUME IInv PROVE TypeOK
    OBVIOUS
  <2>1. pc = "write" /\ ~resp.close => msgEnd \in 1..Len(buf)
    <3> SUFFICES ASSUME pc = "write", ~resp.close PROVE msgEnd \in 1..Len(buf)
      OBVIOUS
    <3>1. /\ Pending <= sent /\ msgEnd = Size(Pending) /\ msgEnd <= Len(buf)
          /\ sent \in 0..Len(script) /\ Typed
      BY DEF IInv, ReplyIsNext, Typed
    <3>2. Pending \in 1..Len(script)
      BY <3>1, InvFacts
    <3>3. msgEnd \in Nat \ {0}
      BY <3>1, <3>2, RequestType
    <3> QED
      BY <3>1, <3>3, InvFacts
  <2> QED
    BY <2>1 DEF IInv, Typed, TypeOK
<1> QED
  BY <1>1, Invariance, PTL

\* Whatever the segmentation and the pipelining, buffer and socket hold the
\* unanswered requests, from the first byte of the first one on: the shift after
\* a reply loses, repeats and leaves over nothing.
THEOREM BufferStartsAtRequestAlways == Spec => []BufferStartsAtRequest
<1>1. IInv => BufferStartsAtRequest
  <2> SUFFICES ASSUME IInv, pc # "closed"
               PROVE  /\ Rest # <<>> => Rest[1] = <<Len(replies) + 1, 1>>
                      /\ \A i \in DOMAIN Rest : Rest[i][1] <= sent
                      /\ \A i \in 1..(Len(Rest) - 1) : Rest[i + 1] = NextByte(Rest[i])
                      /\ client = "gone" \/ IF Rest = <<>> THEN sent = Len(replies)
                                            ELSE Last(Rest) = <<sent, Size(sent)>>
    BY DEF BufferStartsAtRequest
  <2>1. /\ Stream(Rest, Sizes, Pending, sent)
        /\ client # "gone" => Complete(Rest, Sizes, Pending, sent)
        /\ Typed /\ sent \in 0..Len(script) /\ Len(script) \in Nat
        /\ Sizes \in [1..Len(script) -> Nat \ {0}]
        /\ Len(replies) \in Nat /\ Pending \in Nat /\ Rest \in Seq(Bytes)
    BY InvFacts DEF IInv, StreamInOrder, Typed
  <2>2. Rest # <<>> => Rest[1] = <<Len(replies) + 1, 1>>
    BY <2>1 DEF Stream, Pending
  <2>3. \A i \in DOMAIN Rest : Rest[i][1] <= sent
    <3> TAKE i \in DOMAIN Rest
    <3>1. i \in 1..Len(Rest)
      BY <2>1, LenProperties
    <3>2. PICK m \in 1..sent, j \in Nat : Rest[i] = <<m, j>>
      BY <2>1, <3>1 DEF Stream, InPlace
    <3> QED
      BY <2>1, <3>2
  <2>4. ASSUME NEW i \in 1..(Len(Rest) - 1)
        PROVE  Rest[i + 1] = NextByte(Rest[i])
    <3> DEFINE x == Rest[i]
    <3>1. x[1] \in 1..sent /\ Follows(Rest, Sizes, i)
      BY <2>1, StreamIsChain
    <3>2. Sizes[x[1]] = Size(x[1])
      <4>1. x[1] \in 1..Len(script)
        BY <2>1, <3>1
      <4> QED
        BY <2>1, <4>1, SizesType
    <3> QED
      BY <3>1, <3>2 DEF NextByte, Follows
  <2>5. ASSUME client # "gone"
        PROVE  IF Rest = <<>> THEN sent = Len(replies)
               ELSE Last(Rest) = <<sent, Size(sent)>>
    <3>1. Complete(Rest, Sizes, Pending, sent)
      BY <2>1, <2>5
    <3>2. CASE Rest = <<>>
      BY <2>1, <3>1, <3>2 DEF Complete, Pending
    <3>3. CASE Rest # <<>>
      <4>1. Pending \in 1..sent /\ Rest[Len(Rest)] = <<sent, Sizes[sent]>>
        BY <2>1, <3>1, <3>3, FirstRequest DEF Complete
      <4>2. sent \in 1..Len(script)
        BY <2>1, <4>1
      <4> QED
        BY <2>1, <3>3, <4>1, <4>2, SizesType DEF Last
    <3> QED
      BY <3>2, <3>3
  <2> QED
    BY <2>2, <2>3, <2>4, <2>5
<1> QED
  BY <1>1, Invariance, PTL

\* The module of requests and replies is the same for both specifications.
LEMMA SameReply == \A r : Abstract!ReplyTo(r) = ReplyTo(r)
BY DEF Abstract!ReplyTo, ReplyTo, Abstract!TooLarge, TooLarge, Abstract!BadRequest,
       BadRequest, Abstract!Ready, Ready, Abstract!NotFound, NotFound,
       Abstract!Score, Score

\* A connection implements RequestReply: one reply per request, in order, each
\* the one its request deserves by itself, until one side hangs up.
THEOREM ConnectionImplementsRequestReply == Spec => ImplementsRequestReply
<1>1. Init => Abstract!Init
  BY DEF Init, Abstract!Init
<1>2. IInv /\ [Next]_vars => [Abstract!Next]_(Abstract!vars)
  <2> SUFFICES ASSUME IInv, [Next]_vars
               PROVE  Abstract!Next \/ UNCHANGED Abstract!vars
    OBVIOUS
  <2>1. CASE Send
    <3>1. Abstract!Send
      BY <2>1 DEF Send, Abstract!Send
    <3> QED
      BY <3>1 DEF Abstract!Next
  <2>2. CASE Shut \/ Vanish \/ UNCHANGED vars
    BY <2>2 DEF Shut, Vanish, vars, Abstract!vars
  <2>3. CASE Overflow
    BY <2>3 DEF Overflow, Answer, Abstract!vars
  <2>4. CASE Receive
    <3>1. pc = "read" /\ pc' \in {"read", "write"}
      BY <2>4 DEF Receive, Parse, Answer, ReadMore
    <3> QED
      BY <2>4, <3>1 DEF Receive, Abstract!vars
  <2>5. CASE ReadFails \/ WriteFails
    <3>1. Abstract!HangUp
      BY <2>5 DEF ReadFails, WriteFails, Abstract!HangUp
    <3> QED
      BY <3>1 DEF Abstract!Next
  <2>6. CASE Write
    <3>1. pc = "write" /\ Pending <= sent /\ resp = ReplyTo(script[Pending])
          /\ resp.close \in BOOLEAN
      BY <2>6 DEF IInv, ReplyIsNext, Typed, Write, Replies
    <3>2. Len(replies) < sent
      <4>1. Len(replies) \in Nat /\ sent \in Nat
        BY InvFacts DEF IInv, Typed
      <4> QED
        BY <3>1, <4>1 DEF Pending
    <3>3. replies' = Append(replies, resp) /\ UNCHANGED <<script, sent>>
      BY <2>6 DEF Write
    <3>4. pc' = IF resp.close THEN "closed" ELSE "read"
      BY <2>6 DEF Write
    <3>5. (pc' # "closed") = ~resp.close
      BY <3>1, <3>4
    <3>6. Abstract!Reply
      <4>1. pc # "closed" /\ Len(replies) < sent /\ UNCHANGED <<script, sent>>
        BY <3>1, <3>2, <3>3
      <4>2. replies' = Append(replies, ReplyTo(script[Len(replies) + 1]))
        BY <3>1, <3>3 DEF Pending
      <4>3. (pc' # "closed") = ~ReplyTo(script[Len(replies) + 1]).close
        BY <3>1, <3>5 DEF Pending
      <4>4. /\ script' = script /\ sent' = sent
        BY <4>1
      <4> QED
        BY <4>1, <4>2, <4>3, <4>4, SameReply, Zenon DEF Abstract!Reply
    <3> QED
      BY <3>6 DEF Abstract!Next
  <2> QED
    BY <2>1, <2>2, <2>3, <2>4, <2>5, <2>6 DEF Next, Server
<1> QED
  BY <1>1, <1>2, Invariance, PTL DEF Spec, ImplementsRequestReply, Abstract!Spec
=============================================================================
