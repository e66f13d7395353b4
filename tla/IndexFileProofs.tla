--------------------------- MODULE IndexFileProofs ---------------------------
(***************************************************************************)
(* The index file, for every index, buffer, chunk and earlier content of   *)
(* the path: the types, that success means stored, that Load refuses no    *)
(* index, and the refinement of IndexStore.                                *)
(*                                                                         *)
(* While preprocess writes, the file and the buffer together begin as the  *)
(* encoding of the index does, up to the end of a section (WriterInOrder); *)
(* a beginning of an encoding that is not all of it holds no index.  While *)
(* a server reads, what it has in memory is a function of the file and of  *)
(* the number of vectors transposed (ReaderInOrder).                       *)
(***************************************************************************)
EXTENDS IndexFile, SequenceTheorems, TLAPS

\* How many words of the file of x come before section m.
Before(x, m) ==
  << 0, 1, 2, 3, 4, 5, 6, 6 + K * D, 6 + K * D + K * D, 6 + K * D + K * D + K * D, VectorsAfter,
     VectorsAfter + x.n * D, VectorsAfter + x.n * D + x.n, EndAfter(x.n) >>[m]

Begins(s, e) == Len(s) <= Len(e) /\ \A i \in 1..Len(s) : e[i] = s[i]

\* The contents the file can have.
Contents(d) == d \in Seq(Int) /\ (Len(d) >= 2 => d[2] \in Nat)

\* The index that the reader has built from d when k vectors are transposed.
ReadSoFar(d, k) ==
  [n |-> d[2], centroids |-> Part(d, 6, K * D), mn |-> Part(d, 6 + K * D, K * D),
   mx |-> Part(d, 6 + 2 * (K * D), K * D), offsets |-> Part(d, 6 + 3 * (K * D), K + 1),
   dims |-> [j \in 1..D |-> [i \in 1..d[2] |->
               IF i <= k THEN d[VectorsAfter + (i - 1) * D + j] ELSE 0]],
   label |-> <<>>, id |-> <<>>]

Reading == phase \in {"header", "sections", "vectors"}

Typed ==
  /\ Contents(disk)
  /\ buf \in Seq(Int)
  /\ pos \in Nat /\ done \in Nat /\ mem.n \in Nat
  /\ TypeOK

WriterInOrder ==
  writing =>
    /\ ~Reading /\ target \in Indexes /\ exit = "none"
    /\ Begins(disk \o buf, Encode(target))
    /\ Len(disk \o buf) = Before(target, next)

ReaderInOrder ==
  /\ phase = "header" => pos = 0 /\ done = 0
  /\ phase = "sections" =>
       Len(disk) >= 6 /\ GoodHeader(disk) /\ pos = 6 /\ done = 0 /\ mem = Blank(disk[2])
  /\ phase = "vectors" =>
       /\ Len(disk) >= 6 /\ GoodHeader(disk)
       /\ done \in 0..disk[2] /\ pos = VectorsAfter + done * D
       /\ mem = ReadSoFar(disk, done)

IInv == Typed /\ WriterInOrder /\ ReaderInOrder /\ SuccessMeansStored

-----------------------------------------------------------------------------
(* Sequences and their parts. *)

\* The words of d from behind position a.
LEMMA PartOf ==
  ASSUME NEW d \in Seq(Int), NEW a \in Nat, NEW m \in Nat, a + m <= Len(d)
  PROVE  /\ Part(d, a, m) \in Seq(Int) /\ Len(Part(d, a, m)) = m
         /\ \A i \in 1..m : Part(d, a, m)[i] = d[a + i]
<1> DEFINE t == SubSeq(d, a + 1, a + m)
<1>1. a + 1 \in Int /\ a + m \in Int /\ Len(d) \in Nat
  OBVIOUS
<1>2. \A i \in (a + 1)..(a + m) : d[i] \in Int
  BY <1>1
<1>3. /\ t \in Seq(Int)
      /\ Len(t) = IF a + 1 <= a + m THEN (a + m) - (a + 1) + 1 ELSE 0
      /\ \A i \in 1..((a + m) - (a + 1) + 1) : t[i] = d[(a + 1) + i - 1]
  BY <1>1, <1>2, SubSeqProperties
<1> HIDE DEF t
<1>4. Len(t) = m
  BY <1>3
<1>5. ASSUME NEW i \in 1..m PROVE t[i] = d[a + i]
  <2>1. i \in 1..((a + m) - (a + 1) + 1) /\ (a + 1) + i - 1 = a + i
    OBVIOUS
  <2> QED
    BY <1>3, <2>1
<1> QED
  BY <1>3, <1>4, <1>5 DEF t, Part

\* A part is known by its words.
LEMMA PartIs ==
  ASSUME NEW d \in Seq(Int), NEW a \in Nat, NEW t \in Seq(Int),
         a + Len(t) <= Len(d), \A i \in 1..Len(t) : d[a + i] = t[i]
  PROVE  Part(d, a, Len(t)) = t
<1> DEFINE p == Part(d, a, Len(t))
<1>1. Len(t) \in Nat
  OBVIOUS
<1>2. p \in Seq(Int) /\ Len(p) = Len(t) /\ \A i \in 1..Len(t) : p[i] = d[a + i]
  BY <1>1, PartOf
<1> HIDE DEF p
<1>3. \A i \in 1..Len(p) : p[i] = t[i]
  BY <1>2
<1> QED
  BY <1>2, <1>3, SeqEqual DEF p

\* What begins with s \o t begins with s, and t is the part after it.
LEMMA BeginsWithBoth ==
  ASSUME NEW s \in Seq(Int), NEW t \in Seq(Int), NEW e \in Seq(Int), Begins(s \o t, e)
  PROVE  Begins(s, e) /\ Part(e, Len(s), Len(t)) = t
<1>1. Len(s) \in Nat /\ Len(t) \in Nat /\ Len(e) \in Nat
  OBVIOUS
<1> DEFINE u == s \o t
<1>2. /\ Len(u) = Len(s) + Len(t)
      /\ \A i \in 1..(Len(s) + Len(t)) : u[i] = IF i <= Len(s) THEN s[i] ELSE t[i - Len(s)]
  BY ConcatProperties
<1>3. Begins(u, e)
  OBVIOUS
<1> HIDE DEF u
<1>4. Len(s) + Len(t) <= Len(e) /\ \A i \in 1..(Len(s) + Len(t)) : e[i] = u[i]
  BY <1>2, <1>3 DEF Begins
<1>5. Begins(s, e)
  <2>1. ASSUME NEW i \in 1..Len(s) PROVE e[i] = s[i]
    <3>1. i \in 1..(Len(s) + Len(t)) /\ i <= Len(s)
      BY <1>1
    <3> QED
      BY <1>2, <1>4, <3>1
  <2>2. Len(s) <= Len(e)
    BY <1>1, <1>4
  <2> QED
    BY <2>1, <2>2 DEF Begins
<1>6. ASSUME NEW i \in 1..Len(t) PROVE e[Len(s) + i] = t[i]
  <2> DEFINE k == Len(s) + i
  <2>1. k \in 1..(Len(s) + Len(t)) /\ ~(k <= Len(s)) /\ k - Len(s) = i
    BY <1>1
  <2> HIDE DEF k
  <2>2. e[k] = t[i]
    BY <1>2, <1>4, <2>1
  <2> QED
    BY <2>2 DEF k
<1>7. Part(e, Len(s), Len(t)) = t
  BY <1>1, <1>4, <1>6, PartIs
<1> QED
  BY <1>5, <1>7

\* And the other way round.
LEMMA BeginsFurther ==
  ASSUME NEW s \in Seq(Int), NEW e \in Seq(Int), Begins(s, e),
         NEW m \in Nat, Len(s) + m <= Len(e)
  PROVE  /\ Begins(s \o Part(e, Len(s), m), e)
         /\ Len(s \o Part(e, Len(s), m)) = Len(s) + m
<1>1. Len(s) \in Nat /\ Len(e) \in Nat
  OBVIOUS
<1> DEFINE t == Part(e, Len(s), m)
           u == s \o t
<1>2. t \in Seq(Int) /\ Len(t) = m /\ \A i \in 1..m : t[i] = e[Len(s) + i]
  BY <1>1, PartOf
<1> HIDE DEF t
<1>3. /\ Len(u) = Len(s) + m
      /\ \A i \in 1..(Len(s) + m) : u[i] = IF i <= Len(s) THEN s[i] ELSE t[i - Len(s)]
  BY <1>2, ConcatProperties
<1> HIDE DEF u
<1>4. ASSUME NEW i \in 1..(Len(s) + m) PROVE e[i] = u[i]
  <2>1. CASE i <= Len(s)
    BY <1>1, <1>3, <2>1 DEF Begins
  <2>2. CASE ~(i <= Len(s))
    <3> DEFINE k == i - Len(s)
    <3>1. k \in 1..m /\ Len(s) + k = i
      BY <1>1, <2>2
    <3> HIDE DEF k
    <3>2. u[i] = t[k]
      BY <1>3, <2>2 DEF k
    <3> QED
      BY <1>2, <3>1, <3>2
  <2> QED
    BY <2>1, <2>2
<1>5. Begins(u, e)
  BY <1>3, <1>4 DEF Begins
<1> QED
  BY <1>3, <1>5 DEF t, u

\* Two sequences that begin alike and are equally long are equal.
LEMMA BeginsWhole ==
  ASSUME NEW s \in Seq(Int), NEW e \in Seq(Int), Begins(s, e), Len(s) = Len(e)
  PROVE  s = e
<1>1. \A i \in 1..Len(s) : s[i] = e[i]
  BY DEF Begins
<1> QED
  BY <1>1, SeqEqual

\* The length of a sequence to which another is appended.
LEMMA Longer ==
  ASSUME NEW s \in Seq(Int), NEW t \in Seq(Int), NEW a, Len(s) = a, NEW m, Len(t) = m
  PROVE  s \o t \in Seq(Int) /\ Len(s \o t) = a + m
BY ConcatProperties

LEMMA Reassociate ==
  \A x, y, z \in Seq(Int) : (x \o y) \o z = x \o (y \o z)
<1> TAKE x, y, z \in Seq(Int)
<1> QED
  BY ConcatAssociative, SMTT(30)

-----------------------------------------------------------------------------
(* The layout of an encoding. *)

Header(x) == <<Magic, x.n, K, D, D, FixScale>>

\* What is known of an index that preprocess builds.
LEMMA IndexTypes ==
  ASSUME NEW x \in Indexes
  PROVE  /\ x.n \in Nat
         /\ x.centroids \in Seq(Int) /\ Len(x.centroids) = K * D
         /\ x.mn \in Seq(Int) /\ Len(x.mn) = K * D
         /\ x.mx \in Seq(Int) /\ Len(x.mx) = K * D
         /\ x.offsets \in Seq(Int) /\ Len(x.offsets) = K + 1
         /\ x.vec \in Seq(Int) /\ Len(x.vec) = x.n * D
         /\ x.label \in Seq(Int) /\ Len(x.label) = x.n
         /\ x.id \in Seq(Int) /\ Len(x.id) = x.n
         /\ Header(x) \in Seq(Int) /\ Len(Header(x)) = 6
<1>1. x \in Arrays
  BY IndexFileAssumption
<1>2. Magic \in Int /\ x.n \in Int /\ K \in Int /\ D \in Int /\ FixScale \in Int
  BY <1>1, IndexFileAssumption DEF Arrays
<1>3. Header(x) \in Seq(Int) /\ Len(Header(x)) = 6
  BY <1>2 DEF Header
<1> QED
  BY <1>1, <1>3, IndexFileAssumption DEF Arrays

\* The products that positions are made of.
LEMMA Products ==
  /\ D \in Nat \ {0} /\ K \in Nat \ {0} /\ K * D \in Nat
  /\ \A n \in Nat : n * D \in Nat
BY IndexFileAssumption

LEMMA Positions ==
  ASSUME NEW n \in Nat
  PROVE  /\ VectorsAfter \in Nat /\ EndAfter(n) \in Nat
         /\ VectorsAfter = 6 + K * D + K * D + K * D + (K + 1)
         /\ EndAfter(n) = VectorsAfter + n * D + n + n
         /\ EndAfter(n) >= VectorsAfter /\ VectorsAfter >= 6
<1>1. K * D \in Nat /\ K \in Nat /\ n * D \in Nat
  BY Products
<1> DEFINE kd == K * D
           nd == n * D
<1>2. VectorsAfter = 6 + 3 * kd + K + 1 /\ EndAfter(n) = VectorsAfter + nd + 2 * n
  BY DEF VectorsAfter, EndAfter
<1>3. kd \in Nat /\ nd \in Nat
  BY <1>1
<1> HIDE DEF kd, nd
<1> QED
  BY <1>1, <1>2, <1>3 DEF kd, nd

\* What begins like the encoding of an index up to its last array is the header
\* followed by the arrays.
LEMMA EncodeLayout ==
  ASSUME NEW x \in Indexes
  PROVE  LET e == Encode(x)
         IN  /\ e \in Seq(Int) /\ Len(e) = EndAfter(x.n)
             /\ Begins(Header(x), e)
             /\ Part(e, 6, K * D) = x.centroids
             /\ Part(e, 6 + K * D, K * D) = x.mn
             /\ Part(e, 6 + K * D + K * D, K * D) = x.mx
             /\ Part(e, 6 + K * D + K * D + K * D, K + 1) = x.offsets
             /\ Part(e, VectorsAfter, x.n * D) = x.vec
             /\ Part(e, VectorsAfter + x.n * D, x.n) = x.label
             /\ Part(e, VectorsAfter + x.n * D + x.n, x.n) = x.id
<1> DEFINE e == Encode(x)
           s1 == Header(x)
           s2 == s1 \o x.centroids
           s3 == s2 \o x.mn
           s4 == s3 \o x.mx
           s5 == s4 \o x.offsets
           s6 == s5 \o x.vec
           s7 == s6 \o x.label
           s8 == s7 \o x.id
           kd == K * D
           nd == x.n * D
<1>1. s1 \in Seq(Int) /\ Len(s1) = 6
  BY IndexTypes
<1>2. kd \in Nat /\ nd \in Nat /\ K \in Nat /\ x.n \in Nat
  BY Products, IndexTypes
<1>3. e = s8
  BY DEF Encode, Header
<1>centroids. x.centroids \in Seq(Int) /\ Len(x.centroids) = kd
  BY IndexTypes
<1>mn. x.mn \in Seq(Int) /\ Len(x.mn) = kd
  BY IndexTypes
<1>mx. x.mx \in Seq(Int) /\ Len(x.mx) = kd
  BY IndexTypes
<1>offsets. x.offsets \in Seq(Int) /\ Len(x.offsets) = K + 1
  BY IndexTypes
<1>vec. x.vec \in Seq(Int) /\ Len(x.vec) = nd
  BY IndexTypes
<1>label. x.label \in Seq(Int) /\ Len(x.label) = x.n
  BY IndexTypes
<1>id. x.id \in Seq(Int) /\ Len(x.id) = x.n
  BY IndexTypes
<1>6. VectorsAfter = 6 + kd + kd + kd + (K + 1) /\ EndAfter(x.n) = VectorsAfter + nd + x.n + x.n
  BY <1>2, Positions
<1> HIDE DEF e, s1, kd, nd
<1>7. s2 \in Seq(Int) /\ Len(s2) = 6 + kd
  <2>1. s2 \in Seq(Int) /\ Len(s2) = Len(s1) + Len(x.centroids)
    BY <1>1, <1>centroids, ConcatProperties
  <2> QED
    BY <1>1, <1>centroids, <2>1
<1> HIDE DEF s2
<1>8. s3 \in Seq(Int) /\ Len(s3) = 6 + kd + kd
  BY <1>7, <1>mn, Longer
<1> HIDE DEF s3
<1>9. s4 \in Seq(Int) /\ Len(s4) = 6 + kd + kd + kd
  BY <1>8, <1>mx, Longer
<1> HIDE DEF s4
<1>10. s5 \in Seq(Int) /\ Len(s5) = VectorsAfter
  BY <1>9, <1>offsets, <1>6, Longer
<1> HIDE DEF s5
<1>11. s6 \in Seq(Int) /\ Len(s6) = VectorsAfter + nd
  BY <1>10, <1>vec, Longer
<1> HIDE DEF s6
<1>12. s7 \in Seq(Int) /\ Len(s7) = VectorsAfter + nd + x.n
  BY <1>11, <1>label, Longer
<1> HIDE DEF s7
<1>13. s8 \in Seq(Int) /\ Len(s8) = EndAfter(x.n)
  BY <1>12, <1>id, <1>6, Longer
<1>14. e \in Seq(Int) /\ Len(e) = EndAfter(x.n) /\ Begins(s7 \o x.id, e)
  <2>1. Begins(s8, s8)
    BY <1>13 DEF Begins
  <2> QED
    BY <1>3, <1>13, <2>1
<1>15. Begins(s6 \o x.label, e) /\ Part(e, VectorsAfter + nd + x.n, x.n) = x.id
  BY <1>14, <1>12, <1>id, BeginsWithBoth, ZenonT(40) DEF s7
<1>16. Begins(s5 \o x.vec, e) /\ Part(e, VectorsAfter + nd, x.n) = x.label
  <2>1. Begins(s5 \o x.vec, e) /\ Part(e, Len(s6), Len(x.label)) = x.label
    BY <1>15, <1>14, <1>11, <1>label, BeginsWithBoth DEF s6
  <2> QED
    BY <1>15, <1>14, <1>11, <1>label, <2>1
<1>17. Begins(s4 \o x.offsets, e) /\ Part(e, VectorsAfter, nd) = x.vec
  BY <1>16, <1>14, <1>10, <1>vec, BeginsWithBoth DEF s5
<1>18. Begins(s3 \o x.mx, e) /\ Part(e, 6 + kd + kd + kd, K + 1) = x.offsets
  BY <1>17, <1>14, <1>9, <1>offsets, BeginsWithBoth DEF s4
<1>19. Begins(s2 \o x.mn, e) /\ Part(e, 6 + kd + kd, kd) = x.mx
  BY <1>18, <1>14, <1>8, <1>mx, BeginsWithBoth DEF s3
<1>20. Begins(s1 \o x.centroids, e) /\ Part(e, 6 + kd, kd) = x.mn
  <2>1. Begins(s1 \o x.centroids, e) /\ Part(e, Len(s2), Len(x.mn)) = x.mn
    BY <1>19, <1>14, <1>7, <1>mn, BeginsWithBoth DEF s2
  <2> QED
    BY <1>19, <1>14, <1>7, <1>mn, <2>1
<1>21. Begins(s1, e) /\ Part(e, 6, kd) = x.centroids
  <2>1. Begins(s1, e) /\ Part(e, Len(s1), Len(x.centroids)) = x.centroids
    BY <1>20, <1>14, <1>1, <1>centroids, BeginsWithBoth
  <2> QED
    BY <1>20, <1>14, <1>1, <1>centroids, <2>1
<1> QED
  BY <1>14, <1>15, <1>16, <1>17, <1>18, <1>19, <1>20, <1>21 DEF e, s1, kd, nd

\* The words of the header.
LEMMA HeaderWords ==
  ASSUME NEW x \in Indexes
  PROVE  LET e == Encode(x)
         IN  /\ e[1] = Magic /\ e[2] = x.n /\ e[3] = K /\ e[4] = D /\ e[5] = D
             /\ e[6] = FixScale
<1> DEFINE e == Encode(x)
           h == Header(x)
<1>1. Begins(h, e) /\ Len(h) = 6
  BY EncodeLayout, IndexTypes
<1>2. /\ h[1] = Magic /\ h[2] = x.n /\ h[3] = K /\ h[4] = D /\ h[5] = D
      /\ h[6] = FixScale
  BY DEF Header
<1> HIDE DEF e, h
<1>3. \A i \in 1..6 : e[i] = h[i]
  BY <1>1 DEF Begins
<1> QED
  BY <1>2, <1>3 DEF e

\* What is passed to the buffered writer is the part of the encoding that is
\* next.
LEMMA SectionIsPart ==
  ASSUME NEW x \in Indexes, NEW m \in 1..Written
  PROVE  /\ Before(x, m) \in Nat /\ Before(x, m + 1) \in Nat
         /\ Before(x, m) <= Before(x, m + 1) /\ Before(x, m + 1) <= Len(Encode(x))
         /\ Sections(x)[m] =
              Part(Encode(x), Before(x, m), Before(x, m + 1) - Before(x, m))
<1> DEFINE e == Encode(x)
           kd == K * D
           nd == x.n * D
           va == VectorsAfter
           sec == Sections(x)
           b(i) == Before(x, i)
<1>1. kd \in Nat /\ nd \in Nat /\ K \in Nat /\ x.n \in Nat
  BY Products, IndexTypes
<1>2. /\ va \in Nat /\ va = 6 + kd + kd + kd + (K + 1)
      /\ EndAfter(x.n) = va + nd + x.n + x.n
  BY <1>1, Positions
<1>3. e \in Seq(Int) /\ Len(e) = EndAfter(x.n)
  BY EncodeLayout
<1>6. 6 <= Len(e) /\ Len(e) \in Nat
  <2> HIDE DEF e, kd, nd, va
  <2> QED
    BY <1>1, <1>2, <1>3
<1>4. CASE m \in 1..6
  <2>1. /\ sec[1] = <<Magic>> /\ sec[2] = <<x.n>> /\ sec[3] = <<K>>
        /\ sec[4] = <<D>> /\ sec[5] = <<D>> /\ sec[6] = <<FixScale>>
    BY DEF Sections
  <2>2. \A i \in 1..6 : sec[i] = <<e[i]>>
    BY <2>1, HeaderWords
  <2>3. m + 1 \in 1..7 /\ m - 1 \in Nat
    BY <1>4
  <2>4. b(m) = m - 1 /\ b(m + 1) = m
    BY <1>4, <2>3 DEF Before
  <2>5. Part(e, m - 1, 1) = <<e[m]>>
    <3> HIDE DEF e, kd, nd, va
    <3>1. Len(e) \in Nat /\ m - 1 + 1 <= Len(e) /\ m \in 1..Len(e) /\ m - 1 + 1 = m
      BY <1>4, <1>6
    <3>2. e[m] \in Int
      BY <1>3, <3>1, ElementOfSeq
    <3> DEFINE t == <<e[m]>>
    <3>3. t \in Seq(Int) /\ Len(t) = 1 /\ t[1] = e[m]
      BY <3>2
    <3> HIDE DEF t
    <3>4. \A i \in 1..Len(t) : e[m - 1 + i] = t[i]
      BY <3>1, <3>3
    <3>5. Part(e, m - 1, Len(t)) = t
      BY <1>3, <2>3, <3>1, <3>3, <3>4, PartIs
    <3> QED
      BY <3>3, <3>5 DEF t
  <2>6. m <= Len(e) /\ m \in Nat /\ m - 1 <= m /\ m - (m - 1) = 1
    BY <1>4, <1>6
  <2> HIDE DEF e, sec, b
  <2>7. sec[m] = Part(e, b(m), b(m + 1) - b(m))
    BY <1>4, <2>2, <2>4, <2>5, <2>6
  <2> QED
    BY <2>3, <2>4, <2>6, <2>7 DEF e, sec, b
<1>5. CASE m \in 7..13
  <2>1. /\ b(7) = 6 /\ b(8) = 6 + kd /\ b(9) = 6 + kd + kd /\ b(10) = 6 + kd + kd + kd
        /\ b(11) = va /\ b(12) = va + nd /\ b(13) = va + nd + x.n
        /\ b(14) = EndAfter(x.n)
    BY DEF Before
  <2>2. /\ sec[7] = x.centroids /\ sec[8] = x.mn /\ sec[9] = x.mx /\ sec[10] = x.offsets
        /\ sec[11] = x.vec /\ sec[12] = x.label /\ sec[13] = x.id
    BY DEF Sections
  <2>3. /\ sec[7] = Part(e, 6, kd) /\ sec[8] = Part(e, 6 + kd, kd)
        /\ sec[9] = Part(e, 6 + kd + kd, kd)
        /\ sec[10] = Part(e, 6 + kd + kd + kd, K + 1)
        /\ sec[11] = Part(e, va, nd) /\ sec[12] = Part(e, va + nd, x.n)
        /\ sec[13] = Part(e, va + nd + x.n, x.n)
    BY <2>2, EncodeLayout
  <2> HIDE DEF e, kd, nd, va, sec, b
  <2>4. /\ b(8) - b(7) = kd /\ b(9) - b(8) = kd /\ b(10) - b(9) = kd
        /\ b(11) - b(10) = K + 1 /\ b(12) - b(11) = nd /\ b(13) - b(12) = x.n
        /\ b(14) - b(13) = x.n
    BY <1>1, <1>2, <2>1
  <2>5. \A i \in 7..13 : sec[i] = Part(e, b(i), b(i + 1) - b(i))
    <3> TAKE i \in 7..13
    <3>1. i = 7 \/ i = 8 \/ i = 9 \/ i = 10 \/ i = 11 \/ i = 12 \/ i = 13
      OBVIOUS
    <3> QED
      BY <2>1, <2>3, <2>4, <3>1
  <2>6. \A i \in 7..14 : b(i) \in Nat /\ b(i) <= Len(e)
    <3> TAKE i \in 7..14
    <3>1. i = 7 \/ i = 8 \/ i = 9 \/ i = 10 \/ i = 11 \/ i = 12 \/ i = 13 \/ i = 14
      OBVIOUS
    <3>2. /\ 6 \in Nat /\ 6 + kd \in Nat /\ 6 + kd + kd \in Nat
          /\ 6 + kd + kd + kd \in Nat /\ va + nd \in Nat /\ va + nd + x.n \in Nat
          /\ EndAfter(x.n) \in Nat
      BY <1>1, <1>2
    <3>3. /\ 6 <= EndAfter(x.n) /\ 6 + kd <= EndAfter(x.n) /\ 6 + kd + kd <= EndAfter(x.n)
          /\ 6 + kd + kd + kd <= EndAfter(x.n) /\ va <= EndAfter(x.n)
          /\ va + nd <= EndAfter(x.n) /\ va + nd + x.n <= EndAfter(x.n)
          /\ EndAfter(x.n) <= EndAfter(x.n)
      BY <1>1, <1>2
    <3> QED
      BY <1>2, <1>3, <2>1, <3>1, <3>2, <3>3
  <2>7. \A i \in 7..13 : b(i) <= b(i + 1)
    <3> TAKE i \in 7..13
    <3>1. i = 7 \/ i = 8 \/ i = 9 \/ i = 10 \/ i = 11 \/ i = 12 \/ i = 13
      OBVIOUS
    <3> QED
      BY <1>1, <1>2, <2>1, <3>1
  <2>8. m + 1 \in 7..14 /\ m \in 7..14
    BY <1>5
  <2> QED
    BY <1>5, <2>5, <2>6, <2>7, <2>8 DEF e, sec, b
<1> QED
  BY <1>4, <1>5 DEF Written

-----------------------------------------------------------------------------
(* The index in a file. *)

\* Vector i of n vectors lies inside the section of the vectors.
LEMMA RowFits ==
  ASSUME NEW n \in Nat, NEW i \in 1..n, NEW j \in 1..D
  PROVE  /\ (i - 1) * D + j \in Nat
         /\ 1 <= (i - 1) * D + j /\ (i - 1) * D + j <= n * D
<1>1. D \in Nat /\ i - 1 \in Nat /\ n - i \in Nat
  BY Products
<1>2. (i - 1) * D \in Nat /\ (n - i) * D \in Nat
  BY <1>1
<1>3. (i - 1) * D + D + (n - i) * D = n * D
  BY <1>1
<1> QED
  BY <1>1, <1>2, <1>3

\* The part of the file that StoredIn looks at.
LEMMA Held ==
  ASSUME NEW d, Contents(d), HoldsIndex(d)
  PROVE  /\ d \in Seq(Int) /\ Len(d) \in Nat /\ d[2] \in Nat
         /\ VectorsAfter + d[2] * D + d[2] + d[2] <= Len(d)
<1>1. d \in Seq(Int) /\ Len(d) \in Nat /\ d[2] \in Nat
  BY DEF Contents, HoldsIndex
<1>2. Len(d) >= EndAfter(d[2])
  BY DEF HoldsIndex
<1> QED
  BY <1>1, <1>2, Positions

\* What a file holds can be in memory.
LEMMA HeldType ==
  ASSUME NEW d, Contents(d), HoldsIndex(d)
  PROVE  StoredIn(d) \in Loadable
<1> DEFINE n == d[2]
           kd == K * D
           nd == n * D
           va == VectorsAfter
<1>1. /\ d \in Seq(Int) /\ Len(d) \in Nat /\ n \in Nat
      /\ va + nd + n + n <= Len(d)
  BY Held
<1>2. kd \in Nat /\ nd \in Nat /\ K \in Nat /\ va \in Nat
  BY <1>1, Products, Positions
<1>3. va = 6 + kd + kd + kd + (K + 1)
  BY <1>1, Positions
<1> DEFINE cell(j, i) == d[va + (i - 1) * D + j]
           dims == [j \in 1..D |-> [i \in 1..n |-> cell(j, i)]]
<1>4. dims \in Seq(Seq(Int))
  <2>1. ASSUME NEW j \in 1..D, NEW i \in 1..n PROVE cell(j, i) \in Int
    <3> DEFINE r == (i - 1) * D + j
    <3>1. r \in Nat /\ 1 <= r /\ r <= nd
      BY <1>1, RowFits
    <3>2. va + (i - 1) * D + j = va + r
      <4>1. (i - 1) * D \in Nat /\ j \in Nat
        BY <1>1, Products
      <4> QED
        BY <4>1, <1>2
    <3> HIDE DEF r, va, nd, n
    <3>3. va + r \in 1..Len(d)
      BY <1>1, <1>2, <3>1
    <3> QED
      BY <1>1, <3>2, <3>3, ElementOfSeq
  <2> HIDE DEF cell, n
  <2>2. ASSUME NEW j \in 1..D PROVE [i \in 1..n |-> cell(j, i)] \in Seq(Int)
    BY <1>1, <2>1, IsASeq
  <2> DEFINE col(j) == [i \in 1..n |-> cell(j, i)]
  <2>3. \A j \in 1..D : col(j) \in Seq(Int)
    BY <2>2
  <2> HIDE DEF col
  <2>4. D \in Nat
    BY Products
  <2>5. [j \in 1..D |-> col(j)] \in Seq(Seq(Int))
    BY <2>3, <2>4, IsASeq
  <2> QED
    BY <2>5 DEF col
<1> HIDE DEF kd, nd, va, n, cell, dims
<1>5. /\ 6 + kd \in Nat /\ 6 + kd + kd \in Nat /\ 6 + kd + kd + kd \in Nat
      /\ va + nd \in Nat /\ va + nd + n \in Nat /\ K + 1 \in Nat
      /\ 6 + kd + kd + kd + (K + 1) <= Len(d) /\ va + nd + n + n <= Len(d)
  BY <1>1, <1>2, <1>3
<1>6. /\ Part(d, 6, kd) \in Seq(Int) /\ Part(d, 6 + kd, kd) \in Seq(Int)
      /\ Part(d, 6 + kd + kd, kd) \in Seq(Int)
  <2>1. 6 + kd <= Len(d) /\ 6 + kd + kd <= Len(d) /\ 6 + kd + kd + kd <= Len(d)
    BY <1>1, <1>2, <1>5
  <2> QED
    BY <1>1, <1>2, <1>5, <2>1, PartOf
<1>7. Part(d, 6 + kd + kd + kd, K + 1) \in Seq(Int)
  BY <1>1, <1>5, PartOf
<1>8. Part(d, va + nd, n) \in Seq(Int) /\ Part(d, va + nd + n, n) \in Seq(Int)
  <2>1. va + nd + n <= Len(d)
    BY <1>1, <1>2, <1>5
  <2> QED
    BY <1>1, <1>5, <2>1, PartOf
<1>9. 6 + 2 * kd = 6 + kd + kd /\ 6 + 3 * kd = 6 + kd + kd + kd
  BY <1>2
<1>10. StoredIn(d) =
         [n |-> n, centroids |-> Part(d, 6, kd), mn |-> Part(d, 6 + kd, kd),
          mx |-> Part(d, 6 + 2 * kd, kd), offsets |-> Part(d, 6 + 3 * kd, K + 1),
          dims |-> dims, label |-> Part(d, va + nd, n), id |-> Part(d, va + nd + n, n)]
  BY DEF StoredIn, n, kd, nd, va, dims, cell
<1> QED
  BY <1>1, <1>4, <1>6, <1>7, <1>8, <1>9, <1>10 DEF Loadable

LEMMA StoredType ==
  ASSUME NEW d, Contents(d)
  PROVE  StoredIn(d) \in Loadable \cup {None}
BY HeldType DEF StoredIn

\* The encoding of an index holds this index.
LEMMA EncodingHolds ==
  ASSUME NEW x \in Indexes
  PROVE  HoldsIndex(Encode(x)) /\ StoredIn(Encode(x)) = InMemory(x)
<1> DEFINE e == Encode(x)
           kd == K * D
           nd == x.n * D
           va == VectorsAfter
<1>1. /\ e[1] = Magic /\ e[2] = x.n /\ e[3] = K /\ e[4] = D /\ e[5] = D /\ e[6] = FixScale
  BY HeaderWords
<1>2. /\ e \in Seq(Int) /\ Len(e) = EndAfter(x.n)
      /\ Part(e, 6, kd) = x.centroids /\ Part(e, 6 + kd, kd) = x.mn
      /\ Part(e, 6 + kd + kd, kd) = x.mx /\ Part(e, 6 + kd + kd + kd, K + 1) = x.offsets
      /\ Part(e, va, nd) = x.vec /\ Part(e, va + nd, x.n) = x.label
      /\ Part(e, va + nd + x.n, x.n) = x.id
  BY EncodeLayout
<1>3. kd \in Nat /\ nd \in Nat /\ x.n \in Nat
  BY Products, IndexTypes
<1>4. /\ va \in Nat /\ EndAfter(x.n) >= 6 /\ EndAfter(x.n) \in Nat
      /\ EndAfter(x.n) = va + nd + x.n + x.n
  BY <1>3, Positions
<1> HIDE DEF e, kd, nd, va
<1>5. HoldsIndex(e)
  BY <1>1, <1>2, <1>4, IndexFileAssumption DEF HoldsIndex, GoodHeader
<1>6. [j \in 1..D |-> [i \in 1..x.n |-> e[va + (i - 1) * D + j]]]
        = [j \in 1..D |-> [i \in 1..x.n |-> x.vec[(i - 1) * D + j]]]
  <2>1. ASSUME NEW j \in 1..D, NEW i \in 1..x.n
        PROVE  e[va + (i - 1) * D + j] = x.vec[(i - 1) * D + j]
    <3> DEFINE r == (i - 1) * D + j
    <3>1. r \in 1..nd
      BY <1>3, RowFits DEF nd
    <3>2. va + (i - 1) * D + j = va + r
      <4>1. (i - 1) * D \in Nat /\ j \in Nat
        BY <1>3, Products
      <4> QED
        BY <4>1, <1>4
    <3> HIDE DEF r
    <3>3. va + nd <= Len(e)
      BY <1>2, <1>3, <1>4, SMTT(30)
    <3>4. Part(e, va, nd)[r] = e[va + r]
      BY <1>2, <1>3, <1>4, <3>1, <3>3, PartOf
    <3> QED
      BY <1>2, <3>2, <3>4 DEF r
  <2> QED
    BY <2>1
<1>7. 6 + 2 * kd = 6 + kd + kd /\ 6 + 3 * kd = 6 + kd + kd + kd
  BY <1>3
<1>8. StoredIn(e) =
        [n |-> x.n, centroids |-> Part(e, 6, kd), mn |-> Part(e, 6 + kd, kd),
         mx |-> Part(e, 6 + 2 * kd, kd), offsets |-> Part(e, 6 + 3 * kd, K + 1),
         dims |-> [j \in 1..D |-> [i \in 1..x.n |-> e[va + (i - 1) * D + j]]],
         label |-> Part(e, va + nd, x.n), id |-> Part(e, va + nd + x.n, x.n)]
  BY <1>1, <1>5 DEF StoredIn, kd, nd, va
<1>9. StoredIn(e) = InMemory(x)
  BY <1>2, <1>6, <1>7, <1>8 DEF InMemory
<1> QED
  BY <1>5, <1>9 DEF e

\* A file with a beginning of an encoding holds its index or none.
LEMMA BeginningHolds ==
  ASSUME NEW x \in Indexes, NEW d \in Seq(Int), Begins(d, Encode(x))
  PROVE  /\ Contents(d)
         /\ Len(d) = Len(Encode(x)) => StoredIn(d) = InMemory(x)
         /\ Len(d) # Len(Encode(x)) => StoredIn(d) = None
<1> DEFINE e == Encode(x)
<1>1. e \in Seq(Int) /\ Len(e) = EndAfter(x.n) /\ Len(d) \in Nat
  BY EncodeLayout
<1>2. e[2] = x.n /\ x.n \in Nat
  BY HeaderWords, IndexTypes
<1>3. Begins(d, e)
  OBVIOUS
<1> HIDE DEF e
<1>4. Len(d) >= 2 => d[2] = x.n
  BY <1>1, <1>2, <1>3 DEF Begins
<1>5. Contents(d)
  BY <1>2, <1>4 DEF Contents
<1>6. CASE Len(d) = Len(e)
  <2>1. d = e
    BY <1>1, <1>3, <1>6, BeginsWhole
  <2> QED
    BY <1>5, <1>6, <2>1, EncodingHolds DEF e
<1>7. CASE Len(d) # Len(e)
  <2>1. Len(d) < Len(e) /\ EndAfter(x.n) \in Nat
    BY <1>1, <1>2, <1>3, <1>7, Positions DEF Begins
  <2>2. ~HoldsIndex(d)
    <3> SUFFICES ASSUME Len(d) >= 6, Len(d) >= EndAfter(d[2])
                 PROVE  FALSE
      BY DEF HoldsIndex
    <3>1. d[2] = x.n
      BY <1>1, <1>4
    <3> QED
      BY <1>1, <2>1, <3>1
  <2> QED
    BY <1>5, <1>7, <2>2 DEF StoredIn, e
<1> QED
  BY <1>6, <1>7

\* None is no index, and what preprocess builds is one.
LEMMA BuiltIsSome ==
  ASSUME NEW x \in Indexes
  PROVE  InMemory(x) \in Loadable /\ InMemory(x) # None
<1> DEFINE e == Encode(x)
<1>1. e \in Seq(Int) /\ HoldsIndex(e) /\ StoredIn(e) = InMemory(x)
  BY EncodeLayout, EncodingHolds
<1>2. Begins(e, e)
  BY <1>1 DEF Begins
<1>3. Contents(e)
  BY <1>1, <1>2, BeginningHolds
<1> HIDE DEF e
<1>4. StoredIn(e) \in Loadable
  BY <1>1, <1>3, HeldType
<1> QED
  BY <1>1, <1>4, IndexFileAssumption

-----------------------------------------------------------------------------
(* The writer. *)

\* The buffered writer loses and reorders nothing.
LEMMA BufferedKeepsAll ==
  ASSUME buf \in Seq(Int), Len(buf) <= BufSize, NEW p \in Seq(Int)
  PROVE  /\ Buffered(p).out \in Seq(Int) /\ Buffered(p).keep \in Seq(Int)
         /\ Len(Buffered(p).keep) <= BufSize
         /\ Buffered(p).out \o Buffered(p).keep = buf \o p
<1> DEFINE room == IF buf = <<>> THEN 0 ELSE BufSize - Len(buf)
           rest == SubSeq(p, room + 1, Len(p))
           full == SubSeq(p, 1, room)
<1>1. Len(buf) \in Nat /\ Len(p) \in Nat /\ BufSize \in Nat
  BY IndexFileAssumption
<1>2. <<>> \in Seq(Int) /\ Len(<<>>) = 0 /\ buf \o p \in Seq(Int)
  BY EmptySeq, ConcatProperties
<1>3. room \in Nat
  BY <1>1
<1>4. CASE Len(buf) + Len(p) <= BufSize
  <2>1. Buffered(p) = [out |-> <<>>, keep |-> buf \o p]
    BY <1>4 DEF Buffered
  <2>2. Len(buf \o p) = Len(buf) + Len(p) /\ <<>> \o (buf \o p) = buf \o p
    BY <1>2, ConcatProperties, ConcatEmptySeq
  <2> QED
    BY <1>2, <1>4, <2>1, <2>2
<1>5. CASE ~(Len(buf) + Len(p) <= BufSize) /\ Len(rest) <= BufSize
  <2>1. Buffered(p) = [out |-> buf \o full, keep |-> rest]
    BY <1>5 DEF Buffered
  <2>2. room <= Len(p)
    BY <1>1, <1>5
  <2> HIDE DEF room
  <2>3. full \in Seq(Int) /\ rest \in Seq(Int)
    BY <1>1, <1>3, <2>2, SubSeqProperties
  <2>4. full \o rest = p
    <3>1. 1 \in 1..(Len(p) + 1) /\ room \in (1 - 1)..Len(p) /\ Len(p) \in room..Len(p)
      BY <1>1, <1>3, <2>2
    <3>2. full \o rest = SubSeq(p, 1, Len(p))
      BY <3>1, ConcatAdjacentSubSeq
    <3> QED
      BY <3>2, SubSeqFull
  <2> HIDE DEF full, rest
  <2>5. (buf \o full) \o rest = buf \o p
    BY <2>3, <2>4, Reassociate
  <2>6. buf \o full \in Seq(Int)
    BY <2>3, ConcatProperties
  <2> QED
    BY <1>5, <2>1, <2>3, <2>5, <2>6, SMTT(30)
<1>6. CASE ~(Len(buf) + Len(p) <= BufSize) /\ ~(Len(rest) <= BufSize)
  <2>1. Buffered(p) = [out |-> buf \o p, keep |-> <<>>]
    BY <1>6 DEF Buffered
  <2>2. (buf \o p) \o <<>> = buf \o p
    BY <1>2, ConcatEmptySeq
  <2> QED
    BY <1>1, <1>2, <2>1, <2>2
<1> QED
  BY <1>4, <1>5, <1>6

\* A part of what begins as e does begins as e does.
LEMMA BeginsShorter ==
  ASSUME NEW s \in Seq(Int), NEW t \in Seq(Int), NEW e \in Seq(Int), Begins(s \o t, e),
         NEW k \in 0..Len(t)
  PROVE  s \o SubSeq(t, 1, k) \in Seq(Int) /\ Begins(s \o SubSeq(t, 1, k), e)
<1> DEFINE a == SubSeq(t, 1, k)
           b == SubSeq(t, k + 1, Len(t))
<1>1. Len(t) \in Nat /\ k \in Nat /\ k <= Len(t)
  OBVIOUS
<1>2. a \in Seq(Int) /\ b \in Seq(Int)
  BY <1>1, SubSeqProperties
<1>3. a \o b = t
  <2>1. 1 \in 1..(Len(t) + 1) /\ k \in (1 - 1)..Len(t) /\ Len(t) \in k..Len(t)
    BY <1>1
  <2>2. a \o b = SubSeq(t, 1, Len(t))
    BY <2>1, ConcatAdjacentSubSeq
  <2> QED
    BY <2>2, SubSeqFull
<1> HIDE DEF a, b
<1>4. (s \o a) \o b = s \o t
  BY <1>2, <1>3, Reassociate, ZenonT(40)
<1>5. s \o a \in Seq(Int)
  BY <1>2, ConcatProperties
<1>6. Begins((s \o a) \o b, e)
  BY <1>4
<1>7. Begins(s \o a, e)
  BY <1>2, <1>5, <1>6, BeginsWithBoth
<1> QED
  BY <1>5, <1>7 DEF a

\* What has reached the file is a beginning of the encoding.
LEMMA FileBegins ==
  ASSUME Typed, WriterInOrder, writing
  PROVE  /\ target \in Indexes /\ Encode(target) \in Seq(Int)
         /\ disk \in Seq(Int) /\ buf \in Seq(Int) /\ Len(buf) <= BufSize
         /\ next \in 1..(Written + 1)
         /\ disk \o buf \in Seq(Int) /\ Begins(disk \o buf, Encode(target))
         /\ Len(disk \o buf) = Before(target, next)
         /\ Begins(disk, Encode(target))
<1>1. /\ target \in Indexes /\ Begins(disk \o buf, Encode(target))
      /\ Len(disk \o buf) = Before(target, next)
  BY DEF WriterInOrder
<1>2. /\ disk \in Seq(Int) /\ buf \in Seq(Int) /\ Len(buf) <= BufSize
      /\ next \in 1..(Written + 1)
  BY DEF Typed, TypeOK, Contents
<1>3. Encode(target) \in Seq(Int) /\ disk \o buf \in Seq(Int)
  BY <1>1, <1>2, EncodeLayout, ConcatProperties
<1>4. Begins(disk, Encode(target))
  BY <1>1, <1>2, <1>3, BeginsWithBoth
<1> QED
  BY <1>1, <1>2, <1>3, <1>4

\* A section passed to the buffer continues the encoding.
LEMMA SectionContinues ==
  ASSUME Typed, WriterInOrder, writing, next <= Written
  PROVE  LET b == Buffered(Sections(target)[next])
         IN  /\ b.out \in Seq(Int) /\ b.keep \in Seq(Int) /\ Len(b.keep) <= BufSize
             /\ disk \o b.out \in Seq(Int)
             /\ Begins(disk \o b.out, Encode(target))
             /\ Begins((disk \o b.out) \o b.keep, Encode(target))
             /\ Len((disk \o b.out) \o b.keep) = Before(target, next + 1)
<1> DEFINE e == Encode(target)
           p == Sections(target)[next]
           b == Buffered(p)
           s == disk \o buf
           a0 == Before(target, next)
           a1 == Before(target, next + 1)
           l == a1 - a0
<1>1. /\ target \in Indexes /\ e \in Seq(Int) /\ disk \in Seq(Int) /\ buf \in Seq(Int)
      /\ Len(buf) <= BufSize /\ s \in Seq(Int) /\ Begins(s, e)
      /\ Len(s) = Before(target, next)
  BY FileBegins
<1>2. next \in 1..Written
  <2>1. next \in 1..(Written + 1) /\ Written \in Nat
    BY FileBegins DEF Written
  <2> QED
    BY <2>1
<1>3. /\ Before(target, next) \in Nat /\ Before(target, next + 1) \in Nat
      /\ Before(target, next) <= Before(target, next + 1)
      /\ Before(target, next + 1) <= Len(e)
      /\ p = Part(e, Before(target, next), l)
  BY <1>1, <1>2, SectionIsPart
<1>4. a0 \in Nat /\ a1 \in Nat /\ a0 <= a1 /\ a1 <= Len(e) /\ Len(s) = a0
  BY <1>1, <1>3
<1> HIDE DEF e, a0, a1, s
<1>4a. l \in Nat /\ Len(s) + l = a1 /\ Len(s) + l <= Len(e)
  BY <1>4
<1> HIDE DEF l
<1>5. p \in Seq(Int) /\ p = Part(e, Len(s), l)
  <2>1. p = Part(e, Len(s), l) /\ Len(s) \in Nat
    BY <1>3, <1>4 DEF a0, a1, l
  <2>2. Part(e, Len(s), l) \in Seq(Int)
    BY <1>1, <1>4a, <2>1, PartOf DEF s
  <2> QED
    BY <2>1, <2>2
<1> HIDE DEF p
<1>6. Begins(s \o p, e) /\ Len(s \o p) = a1
  <2>1. s \in Seq(Int) /\ e \in Seq(Int) /\ Begins(s, e)
    BY <1>1 DEF s
  <2> QED
    BY <1>5, <1>4a, <2>1, BeginsFurther
<1>7. /\ b.out \in Seq(Int) /\ b.keep \in Seq(Int) /\ Len(b.keep) <= BufSize
      /\ b.out \o b.keep = buf \o p
  BY <1>1, <1>5, BufferedKeepsAll
<1> HIDE DEF b
<1>8. (disk \o b.out) \o b.keep = s \o p
  <2>1. (disk \o b.out) \o b.keep = disk \o (b.out \o b.keep)
    BY <1>1, <1>7, Reassociate
  <2>2. (disk \o buf) \o p = disk \o (buf \o p)
    BY <1>1, <1>5, Reassociate, SMTT(30)
  <2> QED
    BY <1>7, <2>1, <2>2 DEF s
<1>9. disk \o b.out \in Seq(Int)
  BY <1>1, <1>7, ConcatProperties
<1>10. Begins((disk \o b.out) \o b.keep, e)
  BY <1>6, <1>8
<1>11. Begins(disk \o b.out, e)
  BY <1>1, <1>7, <1>9, <1>10, BeginsWithBoth
<1> QED
  BY <1>6, <1>7, <1>8, <1>9, <1>10, <1>11 DEF b, p, e, a1

\* Create begins an encoding.
LEMMA CreateStep ==
  ASSUME IInv, Create
  PROVE  IInv'
<1> USE DEF Create, Idle, reader, IInv
<1>1. /\ target' \in Indexes /\ next' = 1 /\ disk' = <<>> /\ buf' = <<>>
      /\ writing' = TRUE /\ exit' = "none"
      /\ phase' = phase /\ pos' = pos /\ done' = done /\ mem' = mem
  OBVIOUS
<1>2. <<>> \in Seq(Int) /\ Len(<<>>) = 0 /\ <<>> \o <<>> = <<>>
  BY EmptySeq, ConcatEmptySeq
<1>3. ~Reading
  BY DEF Reading
<1>4. Typed'
  <2>1. Contents(disk)'
    BY <1>1, <1>2 DEF Contents
  <2>2. TypeOK'
    <3>1. next' \in 1..(Written + 1) /\ Len(buf') <= BufSize
      BY <1>1, <1>2, IndexFileAssumption DEF Written
    <3>2. done' <= mem'.n
      BY <1>1 DEF Typed, TypeOK
    <3> QED
      BY <1>1, <1>3, <3>1, <3>2 DEF Typed, TypeOK, Reading
  <2> QED
    BY <1>1, <1>2, <2>1, <2>2 DEF Typed
<1>5. WriterInOrder'
  <2>1. Encode(target') \in Seq(Int) /\ Len(Encode(target')) \in Nat
    BY <1>1, EncodeLayout
  <2>2. Before(target', 1) = 0
    BY DEF Before
  <2>3. Begins(<<>>, Encode(target'))
    BY <1>2, <2>1 DEF Begins
  <2> QED
    BY <1>1, <1>2, <1>3, <2>2, <2>3 DEF WriterInOrder, Reading
<1>6. ReaderInOrder'
  BY <1>1, <1>3 DEF ReaderInOrder, Reading
<1>7. SuccessMeansStored'
  BY <1>1 DEF SuccessMeansStored
<1> QED
  BY <1>4, <1>5, <1>6, <1>7

\* A preprocess that cannot open the file only exits.
LEMMA CreateFailsStep ==
  ASSUME IInv, CreateFails
  PROVE  IInv'
<1>1. /\ writing = FALSE /\ exit' = "failed"
      /\ disk' = disk /\ writing' = writing /\ target' = target /\ next' = next /\ buf' = buf
      /\ phase' = phase /\ pos' = pos /\ done' = done /\ mem' = mem
  BY DEF CreateFails, Idle, reader, IInv, Typed, TypeOK
<1>2. Typed'
  BY <1>1 DEF IInv, Typed, TypeOK, Contents
<1>3. WriterInOrder' /\ SuccessMeansStored'
  BY <1>1 DEF WriterInOrder, SuccessMeansStored
<1>4. ReaderInOrder'
  BY <1>1 DEF IInv, ReaderInOrder, GoodHeader
<1> QED
  BY <1>2, <1>3, <1>4 DEF IInv

\* A section more is written, or in the buffer.
LEMMA WriteStep ==
  ASSUME IInv, WriteSection
  PROVE  IInv'
<1> DEFINE b == Buffered(Sections(target)[next])
<1>1. Typed /\ WriterInOrder /\ ReaderInOrder /\ writing /\ next <= Written
  BY DEF IInv, WriteSection
<1>2. /\ disk' = disk \o b.out /\ buf' = b.keep /\ next' = next + 1
      /\ writing' = writing /\ target' = target /\ exit' = exit
      /\ phase' = phase /\ pos' = pos /\ done' = done /\ mem' = mem
  BY DEF WriteSection, reader
<1>3. /\ b.keep \in Seq(Int) /\ Len(b.keep) <= BufSize
      /\ disk \o b.out \in Seq(Int) /\ Begins(disk \o b.out, Encode(target))
      /\ Begins((disk \o b.out) \o b.keep, Encode(target))
      /\ Len((disk \o b.out) \o b.keep) = Before(target, next + 1)
  BY <1>1, SectionContinues
<1> HIDE DEF b
<1>4. ~Reading /\ target \in Indexes
  BY <1>1 DEF WriterInOrder
<1>5. Contents(disk')
  BY <1>2, <1>3, <1>4, BeginningHolds
<1>6. Typed'
  <2>1. next' \in 1..(Written + 1)
    <3>1. next \in 1..(Written + 1) /\ Written \in Nat
      BY <1>1 DEF Typed, TypeOK, Written
    <3> QED
      BY <1>1, <1>2, <3>1
  <2>2. phase \notin {"header", "sections", "vectors"}
    BY <1>4 DEF Reading
  <2>3. TypeOK'
    BY <1>1, <1>2, <1>3, <2>1, <2>2 DEF Typed, TypeOK
  <2> QED
    BY <1>1, <1>2, <1>3, <1>5, <2>3 DEF Typed
<1>7. WriterInOrder'
  BY <1>1, <1>2, <1>3, <1>4 DEF WriterInOrder, Reading
<1>8. ReaderInOrder'
  BY <1>2, <1>4 DEF ReaderInOrder, Reading
<1>9. SuccessMeansStored'
  BY <1>1, <1>2 DEF WriterInOrder, SuccessMeansStored
<1> QED
  BY <1>5, <1>6, <1>7, <1>8, <1>9 DEF IInv

\* When all sections are written, file and buffer are the whole encoding.
LEMMA WholeEncoding ==
  ASSUME Typed, WriterInOrder, writing, next > Written
  PROVE  disk \o buf = Encode(target)
<1> DEFINE e == Encode(target)
           s == disk \o buf
<1>1. /\ target \in Indexes /\ e \in Seq(Int) /\ s \in Seq(Int) /\ Begins(s, e)
      /\ Len(s) = Before(target, next) /\ next \in 1..(Written + 1)
  BY FileBegins
<1>2. next = 14
  BY <1>1 DEF Written
<1>3. Before(target, 14) = EndAfter(target.n) /\ Len(e) = EndAfter(target.n)
  BY <1>1, EncodeLayout DEF Before
<1> HIDE DEF e, s
<1>4. Len(s) = Len(e)
  BY <1>1, <1>2, <1>3
<1> QED
  BY <1>1, <1>4, BeginsWhole DEF e, s

\* Flush completes the encoding.
LEMMA FlushStep ==
  ASSUME IInv, Flush
  PROVE  IInv' /\ StoredIn(disk') = InMemory(target)
<1>1. Typed /\ WriterInOrder /\ ReaderInOrder /\ writing /\ next > Written
  BY DEF IInv, Flush
<1>2. /\ disk' = disk \o buf /\ buf' = <<>> /\ next' = next
      /\ writing' = FALSE /\ target' = target /\ exit' = "ok"
      /\ phase' = phase /\ pos' = pos /\ done' = done /\ mem' = mem
  BY DEF Flush, reader
<1>3. disk' = Encode(target) /\ target \in Indexes /\ Encode(target) \in Seq(Int)
  BY <1>1, <1>2, WholeEncoding, FileBegins
<1>4. ~Reading
  BY <1>1 DEF WriterInOrder
<1>5. Contents(disk') /\ StoredIn(disk') = InMemory(target)
  <2>1. Begins(disk', Encode(target))
    BY <1>3, LenProperties DEF Begins
  <2> QED
    BY <1>3, <2>1, BeginningHolds
<1>6. Typed'
  <2>1. phase \notin {"header", "sections", "vectors"}
    BY <1>4 DEF Reading
  <2>2. <<>> \in Seq(Int) /\ Len(<<>>) <= BufSize
    BY EmptySeq, IndexFileAssumption
  <2>3. TypeOK'
    BY <1>1, <1>2, <2>1, <2>2 DEF Typed, TypeOK
  <2> QED
    BY <1>1, <1>2, <1>5, <2>2, <2>3 DEF Typed
<1>7. WriterInOrder' /\ ReaderInOrder' /\ SuccessMeansStored'
  BY <1>2, <1>4, <1>5 DEF WriterInOrder, ReaderInOrder, Reading, SuccessMeansStored
<1> QED
  BY <1>5, <1>6, <1>7 DEF IInv

\* An error or a kill leaves a beginning.
LEMMA AbortStep ==
  ASSUME IInv, Abort
  PROVE  /\ IInv' /\ disk' \in Seq(Int) /\ Begins(disk', Encode(target))
         /\ \E t \in Seq(Int) : disk' = disk \o t
<1> DEFINE out == IF next > Written THEN buf ELSE Buffered(Sections(target)[next]).out
           e == Encode(target)
<1>1. Typed /\ WriterInOrder /\ ReaderInOrder /\ writing
  BY DEF IInv, Abort
<1>2. PICK k \in 0..Len(out) : disk' = disk \o SubSeq(out, 1, k)
  BY DEF Abort
<1>3. /\ buf' = <<>> /\ next' = next
      /\ writing' = FALSE /\ target' = target /\ exit' = "failed"
      /\ phase' = phase /\ pos' = pos /\ done' = done /\ mem' = mem
  BY DEF Abort, reader
<1>4. disk \in Seq(Int) /\ e \in Seq(Int) /\ target \in Indexes
  BY <1>1, FileBegins
<1>5. out \in Seq(Int) /\ Begins(disk \o out, e)
  <2>1. CASE next > Written
    BY <1>1, <2>1, FileBegins
  <2>2. CASE ~(next > Written)
    <3>1. next <= Written
      BY <1>1, <2>2 DEF Typed, TypeOK, Written
    <3> QED
      BY <1>1, <2>2, <3>1, SectionContinues
  <2> QED
    BY <2>1, <2>2
<1> HIDE DEF out, e
<1>6. disk' \in Seq(Int) /\ Begins(disk', e)
  BY <1>2, <1>4, <1>5, BeginsShorter
<1>6a. SubSeq(out, 1, k) \in Seq(Int)
  BY <1>5, SubSeqProperties
<1>7. Contents(disk')
  BY <1>4, <1>6, BeginningHolds DEF e
<1>8. ~Reading
  BY <1>1 DEF WriterInOrder
<1>9. Typed'
  <2>1. phase \notin {"header", "sections", "vectors"}
    BY <1>8 DEF Reading
  <2>2. <<>> \in Seq(Int) /\ Len(<<>>) <= BufSize
    BY EmptySeq, IndexFileAssumption
  <2>3. TypeOK'
    BY <1>1, <1>3, <2>1, <2>2 DEF Typed, TypeOK
  <2> QED
    BY <1>1, <1>3, <1>7, <2>2, <2>3 DEF Typed
<1>10. WriterInOrder' /\ ReaderInOrder' /\ SuccessMeansStored'
  BY <1>3, <1>8 DEF WriterInOrder, ReaderInOrder, Reading, SuccessMeansStored
<1> QED
  BY <1>2, <1>6, <1>6a, <1>9, <1>10 DEF IInv, e

-----------------------------------------------------------------------------
(* The reader. *)

\* A starting server has read nothing.
LEMMA OpenStep ==
  ASSUME IInv, Open
  PROVE  IInv'
<1>1. Typed /\ WriterInOrder /\ ReaderInOrder /\ SuccessMeansStored /\ writing = FALSE
  BY DEF IInv, Open, Idle, Typed, TypeOK
<1>2. /\ phase' = "header" /\ pos' = 0 /\ done' = 0 /\ mem' = Blank(0)
      /\ disk' = disk /\ buf' = buf /\ next' = next
      /\ writing' = writing /\ target' = target /\ exit' = exit
  BY DEF Open, writer
<1>3. mem'.n = 0 /\ 0 <= Len(disk)
  BY <1>1, <1>2 DEF Blank, Typed, Contents
<1>4. TypeOK'
  BY <1>1, <1>2, <1>3 DEF Typed, TypeOK
<1>5. Typed'
  BY <1>1, <1>2, <1>3, <1>4 DEF Typed
<1>6. WriterInOrder' /\ ReaderInOrder' /\ SuccessMeansStored'
  BY <1>1, <1>2 DEF WriterInOrder, ReaderInOrder, Reading, SuccessMeansStored
<1> QED
  BY <1>5, <1>6 DEF IInv

\* A step of the reader that keeps what ReaderInOrder says of the new phase
\* keeps the invariant: the file and the writer are as before.
LEMMA ReaderKeeps ==
  ASSUME IInv, Reading, UNCHANGED <<disk, writer>>, ReaderInOrder',
         phase' \in {"sections", "vectors", "loaded", "failed"},
         pos' \in Nat, done' \in Nat, mem'.n \in Nat, done' <= mem'.n,
         phase' \in {"sections", "vectors"} => pos' <= Len(disk)
  PROVE  IInv'
<1>1. Typed /\ WriterInOrder /\ ReaderInOrder /\ SuccessMeansStored
  BY DEF IInv
<1>2. /\ disk' = disk /\ buf' = buf /\ next' = next
      /\ writing' = writing /\ target' = target /\ exit' = exit
  BY DEF writer
<1>3. writing = FALSE
  BY <1>1 DEF WriterInOrder, Typed, TypeOK
<1>4. TypeOK'
  BY <1>1, <1>2 DEF Typed, TypeOK
<1>5. Typed'
  BY <1>1, <1>2, <1>4 DEF Typed
<1>6. WriterInOrder' /\ SuccessMeansStored'
  BY <1>1, <1>2, <1>3 DEF WriterInOrder, SuccessMeansStored
<1> QED
  BY <1>5, <1>6 DEF IInv

\* So does giving up.
LEMMA FailKeeps ==
  ASSUME IInv, Reading, Fail, UNCHANGED <<disk, writer>>
  PROVE  IInv'
<1>1. phase' = "failed" /\ pos' = pos /\ done' = done /\ mem' = mem
  BY DEF Fail
<1>2. pos \in Nat /\ done \in Nat /\ mem.n \in Nat /\ done <= mem.n
  BY DEF IInv, Typed, TypeOK
<1>3. ReaderInOrder'
  BY <1>1 DEF ReaderInOrder
<1> QED
  BY <1>1, <1>2, <1>3, ReaderKeeps

\* The first six words of the file are those that the reader tests.
LEMMA HeaderIsTested ==
  ASSUME Contents(disk), pos = 0, Enough(6)
  PROVE  /\ Len(disk) >= 6 /\ disk[2] \in Nat
         /\ GoodHeader(Word(0, 6)) <=> GoodHeader(disk)
<1> DEFINE h == Part(disk, 0, 6)
<1>1. disk \in Seq(Int) /\ Len(disk) >= 6 /\ disk[2] \in Nat
  BY LenProperties DEF Contents, Enough
<1>2. \A i \in 1..6 : h[i] = disk[0 + i]
  <2>1. 0 \in Nat /\ 6 \in Nat /\ 0 + 6 <= Len(disk)
    BY <1>1
  <2> QED
    BY <1>1, <2>1, PartOf
<1>3. h[1] = disk[1] /\ h[3] = disk[3] /\ h[4] = disk[4] /\ h[5] = disk[5] /\ h[6] = disk[6]
  BY <1>2
<1>4. Word(0, 6) = h
  BY DEF Word
<1> QED
  BY <1>1, <1>3, <1>4 DEF GoodHeader

LEMMA HeaderStep ==
  ASSUME IInv, ReadHeader
  PROVE  IInv' /\ (phase' = "failed" => StoredIn(disk) = None)
<1>1. Contents(disk) /\ disk \in Seq(Int) /\ pos = 0 /\ done = 0 /\ Reading
  BY DEF IInv, Typed, Contents, ReaderInOrder, ReadHeader, Reading
<1>2. UNCHANGED <<disk, writer>>
  BY DEF ReadHeader
<1>3. CASE Enough(6) /\ GoodHeader(Word(0, 6))
  <2>1. mem' = Blank(disk[2]) /\ pos' = 6 /\ phase' = "sections" /\ done' = done
    BY <1>3 DEF ReadHeader
  <2>2. Len(disk) >= 6 /\ disk[2] \in Nat /\ GoodHeader(disk)
    BY <1>1, <1>3, HeaderIsTested
  <2>3. mem'.n = disk[2]
    BY <2>1 DEF Blank
  <2>4. ReaderInOrder'
    BY <1>1, <1>2, <2>1, <2>2 DEF ReaderInOrder, GoodHeader
  <2>5. 6 <= Len(disk) /\ Len(disk) \in Nat
    BY <1>1, <2>2
  <2>6. /\ pos' \in Nat /\ done' \in Nat /\ mem'.n \in Nat /\ done' <= mem'.n
        /\ pos' <= Len(disk)
    BY <1>1, <2>1, <2>2, <2>3, <2>5
  <2> QED
    BY <1>1, <1>2, <2>1, <2>4, <2>6, ReaderKeeps
<1>4. CASE ~(Enough(6) /\ GoodHeader(Word(0, 6)))
  <2>1. Fail
    BY <1>4 DEF ReadHeader
  <2>2. IInv'
    BY <1>1, <1>2, <2>1, FailKeeps
  <2>3. ~HoldsIndex(disk)
    <3>1. Len(disk) >= 6 => Enough(6)
      BY <1>1 DEF Enough
    <3> QED
      BY <1>1, <1>4, <3>1, HeaderIsTested DEF HoldsIndex
  <2> QED
    BY <2>2, <2>3 DEF StoredIn
<1> QED
  BY <1>3, <1>4

\* The numbers of a file whose header is accepted.
LEMMA FileNumbers ==
  ASSUME Contents(disk), Len(disk) >= 6
  PROVE  /\ Len(disk) \in Nat /\ disk[2] \in Nat
         /\ K * D \in Nat /\ disk[2] * D \in Nat /\ K \in Nat /\ VectorsAfter \in Nat
         /\ VectorsAfter = 6 + K * D + K * D + K * D + (K + 1)
         /\ EndAfter(disk[2]) = VectorsAfter + disk[2] * D + disk[2] + disk[2]
<1>1. Len(disk) \in Nat /\ disk[2] \in Nat
  BY DEF Contents
<1> QED
  BY <1>1, Products, Positions

LEMMA SectionsStep ==
  ASSUME IInv, ReadSections
  PROVE  IInv' /\ (phase' = "failed" => StoredIn(disk) = None)
<1> DEFINE kd == K * D
           n == disk[2]
           len == Len(disk)
           va == VectorsAfter
<1>1. /\ Contents(disk) /\ Len(disk) >= 6 /\ GoodHeader(disk) /\ pos = 6 /\ done = 0
      /\ mem = Blank(n) /\ Reading
  BY DEF IInv, Typed, ReaderInOrder, ReadSections, Reading
<1>2. UNCHANGED <<disk, writer>>
  BY DEF ReadSections
<1>3. /\ len \in Nat /\ n \in Nat /\ kd \in Nat /\ n * D \in Nat /\ K \in Nat /\ va \in Nat
      /\ va = 6 + kd + kd + kd + (K + 1)
      /\ EndAfter(n) = va + n * D + n + n
  BY <1>1, FileNumbers
<1>4. pos + (3 * kd + K + 1) = va /\ pos + 3 * kd + K + 1 = va
  <2> HIDE DEF kd, va
  <2> QED
    BY <1>1, <1>3
<1>5. CASE Enough(3 * kd + K + 1)
  <2>1. /\ mem' = [mem EXCEPT !.centroids = Word(0, kd), !.mn = Word(kd, kd),
                              !.mx = Word(2 * kd, kd), !.offsets = Word(3 * kd, K + 1)]
        /\ pos' = pos + 3 * kd + K + 1 /\ phase' = "vectors" /\ done' = done
    BY <1>5 DEF ReadSections
  <2>2. mem' = ReadSoFar(disk, 0)
    <3> DEFINE zero == [j \in 1..D |-> [i \in 1..n |-> 0]]
               none == [j \in 1..D |-> [i \in 1..n |->
                          IF i <= 0 THEN disk[va + (i - 1) * D + j] ELSE 0]]
    <3>1. zero = none
      OBVIOUS
    <3>2. Blank(n) = [n |-> n, centroids |-> <<>>, mn |-> <<>>, mx |-> <<>>,
                      offsets |-> <<>>, dims |-> zero, label |-> <<>>, id |-> <<>>]
      BY DEF Blank
    <3>3. ReadSoFar(disk, 0) =
            [n |-> n, centroids |-> Part(disk, 6, kd), mn |-> Part(disk, 6 + kd, kd),
             mx |-> Part(disk, 6 + 2 * kd, kd), offsets |-> Part(disk, 6 + 3 * kd, K + 1),
             dims |-> none, label |-> <<>>, id |-> <<>>]
      BY DEF ReadSoFar
    <3>4. /\ Word(0, kd) = Part(disk, 6 + 0, kd) /\ Word(kd, kd) = Part(disk, 6 + kd, kd)
          /\ Word(2 * kd, kd) = Part(disk, 6 + 2 * kd, kd)
          /\ Word(3 * kd, K + 1) = Part(disk, 6 + 3 * kd, K + 1)
      BY <1>1 DEF Word
    <3>5. 6 + 0 = 6
      OBVIOUS
    <3> HIDE DEF zero, none, kd, n
    <3>6. mem' = [n |-> n, centroids |-> Word(0, kd), mn |-> Word(kd, kd),
                  mx |-> Word(2 * kd, kd), offsets |-> Word(3 * kd, K + 1),
                  dims |-> zero, label |-> <<>>, id |-> <<>>]
      <4> DEFINE w1 == Word(0, kd)
                 w2 == Word(kd, kd)
                 w3 == Word(2 * kd, kd)
                 w4 == Word(3 * kd, K + 1)
                 old == [n |-> n, centroids |-> <<>>, mn |-> <<>>, mx |-> <<>>,
                         offsets |-> <<>>, dims |-> zero, label |-> <<>>, id |-> <<>>]
      <4>1. mem' = [old EXCEPT !.centroids = w1, !.mn = w2, !.mx = w3, !.offsets = w4]
        BY <1>1, <2>1, <3>2
      <4> HIDE DEF w1, w2, w3, w4
      <4>2. mem' = [n |-> n, centroids |-> w1, mn |-> w2, mx |-> w3, offsets |-> w4,
                    dims |-> zero, label |-> <<>>, id |-> <<>>]
        BY <4>1
      <4> QED
        BY <4>2 DEF w1, w2, w3, w4
    <3>7. Word(0, kd) = Part(disk, 6, kd)
      BY <3>4, <3>5
    <3> QED
      BY <3>1, <3>3, <3>4, <3>6, <3>7
  <2>3. mem'.n = n
    BY <2>2 DEF ReadSoFar
  <2>4. pos' = va + 0 * D /\ pos' = va
    <3>1. 0 * D = 0
      BY Products
    <3> QED
      BY <1>3, <1>4, <2>1, <3>1
  <2>5. ReaderInOrder'
    <3>1. disk' = disk /\ 0 \in 0..n /\ done' = 0
      BY <1>1, <1>2, <1>3, <2>1
    <3>2. pos' = va + done' * D
      BY <2>4, <3>1
    <3> QED
      BY <1>1, <2>1, <2>2, <3>1, <3>2 DEF ReaderInOrder, GoodHeader
  <2>6. va <= len
    BY <1>4, <1>5 DEF Enough
  <2>7. /\ pos' \in Nat /\ done' \in Nat /\ mem'.n \in Nat /\ done' <= mem'.n
        /\ pos' <= Len(disk)
    BY <1>1, <1>3, <2>1, <2>3, <2>4, <2>6
  <2> QED
    BY <1>1, <1>2, <2>1, <2>5, <2>7, ReaderKeeps
<1>6. CASE ~Enough(3 * kd + K + 1)
  <2>1. Fail
    BY <1>6 DEF ReadSections
  <2>2. IInv'
    BY <1>1, <1>2, <2>1, FailKeeps
  <2>3. ~(va <= len)
    BY <1>4, <1>6 DEF Enough
  <2>4. ~(len >= EndAfter(n))
    <3> DEFINE nd == n * D
    <3>1. nd \in Nat /\ EndAfter(n) = va + nd + n + n
      BY <1>3
    <3> HIDE DEF va, n, nd, len
    <3> QED
      BY <1>3, <2>3, <3>1
  <2> QED
    BY <2>2, <2>4 DEF StoredIn, HoldsIndex
<1> QED
  BY <1>5, <1>6

\* Vectors take D words each.
LEMMA Rows ==
  ASSUME NEW a \in Nat, NEW b \in Nat
  PROVE  /\ (a + b) * D = a * D + b * D
         /\ \A n \in Nat : a <= n => a * D <= n * D
<1>1. D \in Nat
  BY Products
<1>2. ASSUME NEW n \in Nat, a <= n PROVE a * D <= n * D
  <2> DEFINE c == n - a
  <2>1. c \in Nat /\ n = a + c
    BY <1>2
  <2> HIDE DEF c
  <2>2. n * D = a * D + c * D /\ c * D \in Nat /\ a * D \in Nat
    BY <1>1, <2>1
  <2> QED
    BY <2>2
<1> QED
  BY <1>1, <1>2

\* A chunk of vectors more is transposed.
LEMMA ChunkTransposed ==
  ASSUME NEW n \in Nat, n = disk[2], NEW k \in Nat, k = done, NEW take \in Nat,
         mem = ReadSoFar(disk, k), pos = VectorsAfter + k * D
  PROVE  [mem EXCEPT !.dims = Columns(take)] = ReadSoFar(disk, k + take)
<1> DEFINE old(j, i) == IF i <= k THEN disk[VectorsAfter + (i - 1) * D + j] ELSE 0
           new(j, i) == IF i <= k + take THEN disk[VectorsAfter + (i - 1) * D + j] ELSE 0
           col(j, i) == IF i \in (k + 1)..(k + take) THEN disk[pos + (i - k - 1) * D + j]
                        ELSE mem.dims[j][i]
           olds == [j \in 1..D |-> [i \in 1..n |-> old(j, i)]]
           news == [j \in 1..D |-> [i \in 1..n |-> new(j, i)]]
           cols == [j \in 1..D |-> [i \in 1..n |-> col(j, i)]]
<1>1. mem.n = n /\ mem.dims = olds
  BY DEF ReadSoFar
<1>2. ASSUME NEW j \in 1..D, NEW i \in 1..n PROVE col(j, i) = new(j, i)
  <2>1. mem.dims[j][i] = old(j, i)
    BY <1>1
  <2>2. CASE i \in (k + 1)..(k + take)
    <3> DEFINE r == i - k - 1
    <3>1. r \in Nat /\ i - 1 = k + r /\ i <= k + take
      BY <2>2
    <3> HIDE DEF r
    <3>2. (i - 1) * D = k * D + r * D
      BY <3>1, Rows
    <3>3. pos + r * D + j = VectorsAfter + (i - 1) * D + j
      <4> DEFINE kd == k * D
                 rd == r * D
                 id == (i - 1) * D
                 va == VectorsAfter
      <4>1. kd \in Nat /\ rd \in Nat /\ va \in Nat /\ j \in Nat /\ id = kd + rd
            /\ pos = va + kd
        BY <3>1, <3>2, Products, Positions
      <4> HIDE DEF kd, rd, id, va
      <4>2. pos + rd + j = va + id + j
        BY <4>1
      <4> QED
        BY <4>2 DEF rd, id, va
    <3> QED
      BY <2>2, <3>1, <3>3 DEF r
  <2>3. CASE i \notin (k + 1)..(k + take)
    <3>1. i <= k <=> i <= k + take
      BY <2>3
    <3> QED
      BY <2>1, <2>3, <3>1
  <2> QED
    BY <2>2, <2>3
<1>3. Columns(take) = cols
  BY <1>1 DEF Columns
<1> HIDE DEF old, new, col
<1>4. cols = news
  BY <1>2
<1>5. ReadSoFar(disk, k + take) =
        [n |-> n, centroids |-> mem.centroids, mn |-> mem.mn, mx |-> mem.mx,
         offsets |-> mem.offsets, dims |-> news, label |-> <<>>, id |-> <<>>]
  BY DEF ReadSoFar, new
<1> HIDE DEF olds, news, cols
<1>6. [mem EXCEPT !.dims = cols] =
        [n |-> n, centroids |-> mem.centroids, mn |-> mem.mn, mx |-> mem.mx,
         offsets |-> mem.offsets, dims |-> cols, label |-> <<>>, id |-> <<>>]
  <2> DEFINE c == Part(disk, 6, K * D)
             lo == Part(disk, 6 + K * D, K * D)
             hi == Part(disk, 6 + 2 * (K * D), K * D)
             o == Part(disk, 6 + 3 * (K * D), K + 1)
  <2>1. mem = [n |-> n, centroids |-> c, mn |-> lo, mx |-> hi, offsets |-> o,
               dims |-> olds, label |-> <<>>, id |-> <<>>]
    BY DEF ReadSoFar, olds, old
  <2> HIDE DEF c, lo, hi, o
  <2> QED
    BY <2>1
<1> QED
  BY <1>3, <1>4, <1>5, <1>6

LEMMA ChunkStep ==
  ASSUME IInv, ReadChunk
  PROVE  IInv' /\ (phase' = "failed" => StoredIn(disk) = None)
<1> DEFINE n == disk[2]
           len == Len(disk)
           va == VectorsAfter
           nd == n * D
           dd == done * D
           td == Take * D
           both == (done + Take) * D
<1>1. /\ Contents(disk) /\ Len(disk) >= 6 /\ GoodHeader(disk) /\ Reading
      /\ done \in 0..n /\ pos = va + dd /\ mem = ReadSoFar(disk, done)
      /\ mem.n = n /\ done < n
  BY DEF IInv, Typed, ReaderInOrder, ReadChunk, Reading, ReadSoFar
<1>2. UNCHANGED <<disk, writer>>
  BY DEF ReadChunk
<1>3. /\ len \in Nat /\ n \in Nat /\ nd \in Nat /\ va \in Nat
      /\ EndAfter(n) = va + nd + n + n
  BY <1>1, FileNumbers
<1>4. Take \in Nat /\ done \in Nat /\ done + Take \in 0..n /\ done + Take \in Nat
  <2> HIDE DEF n
  <2>1. Chunk \in Nat /\ done \in Nat
    BY <1>1, <1>3, IndexFileAssumption
  <2> QED
    BY <1>1, <1>3, <2>1 DEF Take
<1>5. /\ dd \in Nat /\ td \in Nat /\ both \in Nat
      /\ both = dd + td /\ both <= nd
  <2>1. done + Take <= n
    BY <1>3, <1>4
  <2> HIDE DEF n
  <2>2. dd \in Nat /\ td \in Nat /\ both \in Nat
    BY <1>4, Products
  <2>3. both = dd + td
    BY <1>4, Rows
  <2>4. both <= nd
    BY <1>3, <1>4, <2>1, Rows
  <2> QED
    BY <2>2, <2>3, <2>4
<1> HIDE DEF nd, dd, td, both, va
<1>6. pos + td = va + both
  BY <1>1, <1>3, <1>5
<1>7. CASE Enough(Take * D)
  <2>1. /\ mem' = [mem EXCEPT !.dims = Columns(Take)]
        /\ done' = done + Take /\ pos' = pos + td /\ phase' = "vectors"
    BY <1>1, <1>7 DEF ReadChunk, td
  <2>2. mem' = ReadSoFar(disk, done + Take)
    BY <1>1, <1>3, <1>4, <2>1, ChunkTransposed DEF va, dd
  <2>3. mem'.n = n
    BY <2>2 DEF ReadSoFar
  <2>4. pos' = va + both /\ pos' \in Nat
    BY <1>3, <1>5, <1>6, <2>1
  <2>5. ReaderInOrder'
    <3>1. disk' = disk /\ done' \in 0..n /\ done' = done + Take
      BY <1>2, <1>4, <2>1
    <3>2. pos' = va + done' * D
      BY <2>4, <3>1 DEF both
    <3> QED
      BY <1>1, <2>1, <2>2, <3>1, <3>2 DEF ReaderInOrder, GoodHeader, va
  <2>6. pos' <= len
    BY <1>7, <2>1 DEF Enough, td
  <2>7. done' \in Nat /\ mem'.n \in Nat /\ done' <= mem'.n
    BY <1>3, <1>4, <2>1, <2>3
  <2> QED
    BY <1>1, <1>2, <2>1, <2>4, <2>5, <2>6, <2>7, ReaderKeeps
<1>8. CASE ~Enough(Take * D)
  <2>1. Fail
    BY <1>8 DEF ReadChunk
  <2>2. IInv'
    BY <1>1, <1>2, <2>1, FailKeeps
  <2>3. ~(va + both <= len)
    BY <1>6, <1>8 DEF Enough, td
  <2>4. ~(len >= EndAfter(n))
    <3> HIDE DEF n, len
    <3> QED
      BY <1>3, <1>5, <2>3
  <2> QED
    BY <2>2, <2>4 DEF StoredIn, HoldsIndex
<1> QED
  BY <1>7, <1>8

\* With the labels and ids the index of the file is complete.
LEMMA TailStep ==
  ASSUME IInv, ReadTail
  PROVE  /\ IInv'
         /\ phase' = "failed" => StoredIn(disk) = None
         /\ phase' # "failed" =>
              phase' = "loaded" /\ HoldsIndex(disk) /\ mem' = StoredIn(disk)
<1> DEFINE n == disk[2]
           len == Len(disk)
           va == VectorsAfter
           nd == n * D
<1>1. /\ Contents(disk) /\ Len(disk) >= 6 /\ GoodHeader(disk) /\ Reading
      /\ done \in 0..n /\ pos = va + done * D /\ mem = ReadSoFar(disk, done)
      /\ mem.n = n /\ done >= n
  BY DEF IInv, Typed, ReaderInOrder, ReadTail, Reading, ReadSoFar
<1>2. UNCHANGED <<disk, writer>>
  BY DEF ReadTail
<1>3. /\ len \in Nat /\ n \in Nat /\ nd \in Nat /\ va \in Nat
      /\ EndAfter(n) = va + nd + n + n
  BY <1>1, FileNumbers
<1>4. done = n /\ done \in Nat
  <2> HIDE DEF n
  <2> QED
    BY <1>1, <1>3
<1>5. pos = va + nd
  BY <1>1, <1>4
<1> HIDE DEF nd, va
<1>6. pos \in Nat /\ EndAfter(n) = pos + 2 * n
  <2> HIDE DEF n
  <2> QED
    BY <1>3, <1>5
<1>7. CASE Enough(2 * n)
  <2>1. /\ mem' = [mem EXCEPT !.label = Word(0, n), !.id = Word(n, n)]
        /\ pos' = pos + 2 * n /\ phase' = "loaded" /\ done' = done
    BY <1>1, <1>7 DEF ReadTail
  <2>2. HoldsIndex(disk)
    BY <1>1, <1>3, <1>6, <1>7 DEF HoldsIndex, Enough
  <2>3. mem' = StoredIn(disk)
    <3> DEFINE cell(j, i) == disk[VectorsAfter + (i - 1) * D + j]
               dims == [j \in 1..D |-> [i \in 1..n |-> cell(j, i)]]
               dimsRead == [j \in 1..D |-> [i \in 1..n |-> IF i <= n THEN cell(j, i) ELSE 0]]
               c == Part(disk, 6, K * D)
               lo == Part(disk, 6 + K * D, K * D)
               hi == Part(disk, 6 + 2 * (K * D), K * D)
               o == Part(disk, 6 + 3 * (K * D), K + 1)
               la == Word(0, n)
               ids == Word(n, n)
    <3>1. dims = dimsRead
      <4> HIDE DEF cell
      <4> QED
        BY <1>3
    <3>2. mem = [n |-> n, centroids |-> c, mn |-> lo, mx |-> hi, offsets |-> o,
                 dims |-> dimsRead, label |-> <<>>, id |-> <<>>]
      BY <1>1, <1>4 DEF ReadSoFar
    <3>3. la = Part(disk, va + nd, n) /\ ids = Part(disk, va + nd + n, n)
      <4>1. va + nd + 0 = va + nd
        BY <1>3
      <4> QED
        BY <1>5, <4>1 DEF Word
    <3>4. StoredIn(disk) =
            [n |-> n, centroids |-> c, mn |-> lo, mx |-> hi, offsets |-> o, dims |-> dims,
             label |-> Part(disk, va + nd, n), id |-> Part(disk, va + nd + n, n)]
      BY <2>2 DEF StoredIn, va, nd
    <3> HIDE DEF cell, dims, dimsRead, c, lo, hi, o, la, ids
    <3>5. mem' = [mem EXCEPT !.label = la, !.id = ids]
      BY <2>1 DEF la, ids
    <3> HIDE DEF n
    <3>6. mem' = [n |-> n, centroids |-> c, mn |-> lo, mx |-> hi, offsets |-> o,
                  dims |-> dimsRead, label |-> la, id |-> ids]
      BY <3>2, <3>5
    <3> QED
      BY <3>1, <3>3, <3>4, <3>6
  <2>4. mem'.n = n
    BY <1>1, <2>1
  <2>5. /\ pos' \in Nat /\ done' \in Nat /\ mem'.n \in Nat /\ done' <= mem'.n
    BY <1>3, <1>4, <1>6, <2>1, <2>4
  <2>6. ReaderInOrder'
    BY <2>1 DEF ReaderInOrder
  <2>7. IInv'
    BY <1>1, <1>2, <2>1, <2>5, <2>6, ReaderKeeps
  <2> QED
    BY <2>1, <2>2, <2>3, <2>7
<1>8. CASE ~Enough(2 * n)
  <2>1. Fail
    BY <1>1, <1>8 DEF ReadTail
  <2>2. IInv'
    BY <1>1, <1>2, <2>1, FailKeeps
  <2>3. ~HoldsIndex(disk)
    BY <1>6, <1>8 DEF Enough, HoldsIndex
  <2> QED
    BY <2>1, <2>2, <2>3 DEF StoredIn, Fail
<1> QED
  BY <1>7, <1>8

-----------------------------------------------------------------------------
(* The invariant and what follows from it. *)

LEMMA InvInit == Init => IInv
<1> SUFFICES ASSUME Init PROVE IInv
  OBVIOUS
<1>1. /\ disk \in {Encode(x) : x \in Indexes} \cup Foreign \cup {<<>>}
      /\ writing = FALSE /\ target = None /\ next = 1 /\ buf = <<>> /\ exit = "none"
      /\ phase = "stopped" /\ pos = 0 /\ done = 0 /\ mem = Blank(0)
  BY DEF Init
<1>2. Contents(disk)
  <2>1. ASSUME NEW x \in Indexes PROVE Contents(Encode(x))
    <3>1. Encode(x) \in Seq(Int) /\ Begins(Encode(x), Encode(x))
      BY EncodeLayout, LenProperties DEF Begins
    <3> QED
      BY <3>1, BeginningHolds
  <2>2. \A d \in Foreign : Contents(d)
    BY IndexFileAssumption DEF Contents
  <2>3. Contents(<<>>)
    BY EmptySeq DEF Contents
  <2> QED
    BY <1>1, <2>1, <2>2, <2>3
<1>3. <<>> \in Seq(Int) /\ Len(<<>>) <= BufSize /\ mem.n = 0
  BY <1>1, EmptySeq, IndexFileAssumption DEF Blank
<1>4. TypeOK
  <2>1. next \in 1..(Written + 1) /\ done <= mem.n
    BY <1>1, <1>3 DEF Written
  <2>2. phase \notin {"header", "sections", "vectors"}
    BY <1>1
  <2> QED
    BY <1>1, <1>3, <2>1, <2>2 DEF TypeOK
<1>5. Typed
  BY <1>1, <1>2, <1>3, <1>4 DEF Typed
<1>6. WriterInOrder /\ ReaderInOrder /\ SuccessMeansStored
  BY <1>1 DEF WriterInOrder, ReaderInOrder, SuccessMeansStored
<1> QED
  BY <1>5, <1>6 DEF IInv

LEMMA InvStep == IInv /\ [Next]_vars => IInv'
<1> SUFFICES ASSUME IInv, [Next]_vars PROVE IInv'
  OBVIOUS
<1>1. CASE UNCHANGED vars
  BY <1>1 DEF vars, writer, reader, IInv, Typed, TypeOK, Contents, WriterInOrder, Reading,
              ReaderInOrder, SuccessMeansStored, GoodHeader
<1>2. CASE Next
  BY <1>2, CreateStep, CreateFailsStep, WriteStep, FlushStep, AbortStep, OpenStep, HeaderStep,
     SectionsStep, ChunkStep, TailStep DEF Next
<1> QED
  BY <1>1, <1>2

LEMMA Invariant == Spec => []IInv
<1> QED
  BY InvInit, InvStep, PTL DEF Spec

\* Types, and that neither the buffer nor the reader runs over its end: the
\* reader takes no word beyond the file and no vector beyond the header's count.
THEOREM TypeCorrect == Spec => []TypeOK
<1>1. IInv => TypeOK
  BY DEF IInv, Typed
<1> QED
  BY <1>1, Invariant, PTL

\* When preprocess exits with 0, what a server will load is the index built.
THEOREM SuccessStores == Spec => []SuccessMeansStored
<1>1. IInv => SuccessMeansStored
  BY DEF IInv
<1> QED
  BY <1>1, Invariant, PTL

\* Load fails only on files that hold no index.
THEOREM LoadRefusesNoIndex == Spec => LoadAcceptsEveryIndex
<1>1. IInv /\ [Next]_vars =>
        [phase # "failed" /\ phase' = "failed" => StoredIn(disk) = None]_vars
  <2> SUFFICES ASSUME IInv, [Next]_vars, phase # "failed", phase' = "failed"
               PROVE  StoredIn(disk) = None
    OBVIOUS
  <2>1. CASE Create \/ CreateFails \/ WriteSection \/ Flush \/ Abort \/ Open \/ UNCHANGED vars
    BY <2>1 DEF Create, CreateFails, WriteSection, Flush, Abort, Open, vars, reader
  <2>2. CASE ReadHeader \/ ReadSections \/ ReadChunk \/ ReadTail
    BY <2>2, HeaderStep, SectionsStep, ChunkStep, TailStep
  <2> QED
    BY <2>1, <2>2 DEF Next
<1> QED
  BY <1>1, Invariant, PTL DEF Spec, LoadAcceptsEveryIndex

\* What the refinement mapping takes for the index being written.
being == IF writing THEN InMemory(target) ELSE None

\* While preprocess writes, the file holds its index when all words have
\* reached it, and none before.
LEMMA StoredWhileWriting ==
  ASSUME IInv, writing
  PROVE  /\ being = InMemory(target) /\ being \in Loadable /\ being # None
         /\ StoredIn(disk) \in {None, InMemory(target)}
         /\ StoredIn(disk) # None => Len(disk) = Len(Encode(target))
<1>1. target \in Indexes /\ disk \in Seq(Int) /\ Begins(disk, Encode(target))
  BY FileBegins DEF IInv
<1> QED
  BY <1>1, BeginningHolds, BuiltIsSome DEF being

\* The file only grows: what is not whole after a step was not whole before.
LEMMA NotYetWhole ==
  ASSUME IInv, writing, NEW t \in Seq(Int), Begins(disk \o t, Encode(target)),
         StoredIn(disk \o t) = None
  PROVE  StoredIn(disk) = None
<1> DEFINE e == Encode(target)
           d == disk \o t
<1>1. /\ target \in Indexes /\ e \in Seq(Int) /\ disk \in Seq(Int)
      /\ Begins(disk, e)
  BY FileBegins DEF IInv
<1>2. d \in Seq(Int) /\ Len(d) = Len(disk) + Len(t)
  BY <1>1, ConcatProperties
<1>3. Len(d) # Len(e)
  BY <1>1, <1>2, BeginningHolds, BuiltIsSome
<1>4. Len(d) <= Len(e)
  BY DEF Begins
<1> HIDE DEF d, e
<1>5. Len(disk) # Len(e)
  <2>1. Len(disk) \in Nat /\ Len(t) \in Nat /\ Len(e) \in Nat
    BY <1>1
  <2> QED
    BY <1>2, <1>3, <1>4, <2>1
<1> QED
  BY <1>1, <1>5, BeginningHolds DEF e

\* The steps of the writer.
LEMMA WriterRefines ==
  ASSUME IInv, Create \/ WriteSection \/ Flush \/ Abort
  PROVE  Store!Next \/ UNCHANGED Store!vars
<1> USE DEF Store!Next, Store!vars
<1>1. CASE Create
  <2>1. /\ writing = FALSE /\ writing' = TRUE /\ target' \in Indexes /\ disk' = <<>>
        /\ phase' = phase /\ mem' = mem
    BY <1>1 DEF Create, Idle, reader, IInv, Typed, TypeOK
  <2>2. StoredIn(disk') = None
    <3>1. Len(<<>>) = 0
      BY EmptySeq
    <3> QED
      BY <2>1, <3>1 DEF StoredIn, HoldsIndex
  <2>3. InMemory(target') \in Loadable
    BY <2>1, BuiltIsSome
  <2>4. Store!Replace
    BY <2>1, <2>2, <2>3 DEF Store!Replace
  <2> QED
    BY <2>4
<1>2. CASE WriteSection
  <2> DEFINE e == Encode(target)
  <2>1. /\ writing /\ writing' = writing /\ target' = target /\ phase' = phase /\ mem' = mem
    BY <1>2 DEF WriteSection, reader
  <2>2. IInv'
    BY <1>2, WriteStep
  <2>3. /\ being = InMemory(target) /\ being # None
        /\ StoredIn(disk) \in {None, InMemory(target)}
        /\ StoredIn(disk) # None => Len(disk) = Len(e)
    BY <2>1, StoredWhileWriting
  <2>4. /\ StoredIn(disk') \in {None, InMemory(target)}
        /\ StoredIn(disk') # None => Len(disk') = Len(e)
    <3>1. Begins(disk', e) /\ disk' \in Seq(Int) /\ target \in Indexes
      BY <1>2, FileBegins, SectionContinues DEF WriteSection, IInv
    <3> QED
      BY <3>1, BeginningHolds
  <2>5. CASE StoredIn(disk') = InMemory(target)
    <3>1. Store!Commit
      BY <2>1, <2>3, <2>5 DEF Store!Commit, being
    <3> QED
      BY <3>1
  <2>6. CASE StoredIn(disk') = None
    <3>1. StoredIn(disk) = None
      <4> DEFINE out == Buffered(Sections(target)[next]).out
      <4>1. disk' = disk \o out /\ next <= Written
        BY <1>2 DEF WriteSection
      <4>2. out \in Seq(Int) /\ Begins(disk \o out, e)
        BY <2>1, <4>1, SectionContinues DEF IInv
      <4> HIDE DEF out
      <4> QED
        BY <2>1, <2>6, <4>1, <4>2, NotYetWhole
    <3> QED
      BY <2>1, <2>6, <3>1
  <2> QED
    BY <2>4, <2>5, <2>6
<1>3. CASE Flush
  <2>1. writing /\ writing' = FALSE /\ target' = target /\ phase' = phase /\ mem' = mem
    BY <1>3 DEF Flush, reader
  <2>2. StoredIn(disk') = InMemory(target) /\ being = InMemory(target) /\ being # None
    BY <1>3, <2>1, FlushStep, StoredWhileWriting
  <2>3. Store!Commit
    BY <2>1, <2>2 DEF Store!Commit, being
  <2> QED
    BY <2>3
<1>4. CASE Abort
  <2> DEFINE e == Encode(target)
  <2>1. writing /\ writing' = FALSE /\ target' = target /\ phase' = phase /\ mem' = mem
    BY <1>4 DEF Abort, reader
  <2>2. target \in Indexes /\ disk' \in Seq(Int) /\ Begins(disk', e)
    BY <1>4, <2>1, AbortStep, FileBegins DEF IInv
  <2>3. being = InMemory(target) /\ being # None
    BY <2>1, StoredWhileWriting
  <2>4. StoredIn(disk') \in {None, InMemory(target)}
    BY <2>2, BeginningHolds
  <2>5. CASE StoredIn(disk') = InMemory(target)
    <3>1. Store!Commit
      BY <2>1, <2>3, <2>5 DEF Store!Commit, being
    <3> QED
      BY <3>1
  <2>6. CASE StoredIn(disk') = None
    <3>1. StoredIn(disk) = None
      <4>1. PICK t \in Seq(Int) : disk' = disk \o t
        BY <1>4, AbortStep
      <4> QED
        BY <2>1, <2>2, <2>6, <4>1, NotYetWhole
    <3>2. Store!End
      BY <2>1, <2>3, <2>6, <3>1 DEF Store!End, being
    <3> QED
      BY <3>2
  <2> QED
    BY <2>4, <2>5, <2>6
<1> QED
  BY <1>1, <1>2, <1>3, <1>4

\* The steps of the reader.
LEMMA ReaderRefines ==
  ASSUME IInv, Open \/ ReadHeader \/ ReadSections \/ ReadChunk \/ ReadTail
  PROVE  Store!Next \/ UNCHANGED Store!vars
<1> USE DEF Store!Next, Store!vars
<1>1. disk' = disk /\ writing' = writing /\ target' = target
  BY DEF Open, ReadHeader, ReadSections, ReadChunk, ReadTail, writer
<1>2. StoredIn(disk') = StoredIn(disk) /\ being' = being
  BY <1>1 DEF being
<1>3. CASE Open
  <2>1. phase' = "header"
    BY <1>3 DEF Open
  <2>2. Store!Stop
    BY <1>2, <2>1 DEF Store!Stop, being
  <2> QED
    BY <2>2
<1>4. CASE ReadHeader \/ ReadSections \/ ReadChunk
  <2>1. phase # "loaded" /\ phase' # "loaded"
    BY <1>4 DEF ReadHeader, ReadSections, ReadChunk, Fail
  <2> QED
    BY <1>2, <2>1 DEF being
<1>5. CASE ReadTail
  <2>1. phase # "loaded" /\ writing = FALSE
    BY <1>5 DEF ReadTail, IInv, WriterInOrder, Reading, Typed, TypeOK
  <2>2. CASE phase' = "failed"
    BY <1>2, <2>1, <2>2 DEF being
  <2>3. CASE phase' # "failed"
    <3>1. phase' = "loaded" /\ HoldsIndex(disk) /\ mem' = StoredIn(disk)
      BY <1>5, <2>3, TailStep
    <3>2. StoredIn(disk) # None
      BY <3>1, HeldType, IndexFileAssumption DEF IInv, Typed
    <3>3. Store!Start
      BY <1>2, <2>1, <3>1, <3>2 DEF Store!Start, being
    <3> QED
      BY <3>3
  <2> QED
    BY <2>2, <2>3
<1> QED
  BY <1>3, <1>4, <1>5

\* A server has in memory, to the last word, exactly an index that preprocess
\* wrote to its last word, or it does not start.
THEOREM IndexFileImplementsStore == Spec => ImplementsIndexStore
<1>1. Init => Store!Init
  <2> SUFFICES ASSUME Init PROVE Store!Init
    OBVIOUS
  <2>1. StoredIn(disk) \in Loadable \cup {None}
    BY InvInit, StoredType DEF IInv, Typed
  <2> QED
    BY <2>1 DEF Init, Store!Init
<1>2. IInv /\ [Next]_vars => [Store!Next]_(Store!vars)
  <2> SUFFICES ASSUME IInv, [Next]_vars
               PROVE  Store!Next \/ UNCHANGED Store!vars
    OBVIOUS
  <2>1. CASE UNCHANGED vars \/ CreateFails
    BY <2>1 DEF vars, writer, reader, CreateFails, Store!vars
  <2>2. CASE Next /\ ~CreateFails
    BY <2>2, WriterRefines, ReaderRefines DEF Next
  <2> QED
    BY <2>1, <2>2
<1> QED
  BY <1>1, <1>2, Invariant, PTL DEF Spec, ImplementsIndexStore, Store!Spec
=============================================================================
