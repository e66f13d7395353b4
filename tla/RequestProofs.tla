---------------------------- MODULE RequestProofs ----------------------------
(***************************************************************************)
(* Build reads a legible request as the JSON value it is, for every such   *)
(* request, every order of the members and every kind of spacing.          *)
(*                                                                         *)
(* The argument goes from the text to the state: where the parts of a      *)
(* joined text lie; where, in the text of an object, a name in quotes can  *)
(* be (it is the key of a member and nothing else); what the scanner finds *)
(* and the getters return in the range of such a text; that matchBrace     *)
(* ends the range where the object ends; and, from these, an inductive     *)
(* invariant of the scan that relates its ranges and values to the request.*)
(* Facts that the provers cannot read (a symbol that is a bracket or a     *)
(* space) have names of their own.                                         *)
(***************************************************************************)
EXTENDS VectorizeProofs

-----------------------------------------------------------------------------
(* Texts that lie in texts, and where the parts of a joined text lie. *)

\* The punctuation marks are different symbols.
LEMMA MarksDiffer ==
  /\ Quote # Backslash /\ Quote # " " /\ Quote # "," /\ Quote # ":" /\ Quote # "["
  /\ Quote # "]" /\ Quote # "{" /\ Quote # "}"
  /\ Backslash # "{" /\ Backslash # "}" /\ "{" # "}" /\ " " # ":" /\ "," # "}"
BY DEF Quote, Backslash

\* The text t lies in b after position x.
At(b, x, t) == \A i \in 1..Len(t) : b[x + i] = t[i]

\* A joined text lies where its two parts lie one after the other.
LEMMA AtParts ==
  ASSUME NEW S, NEW u \in Seq(S), NEW v \in Seq(S), NEW b, NEW x \in Int, At(b, x, u \o v)
  PROVE  At(b, x, u) /\ At(b, x + Len(u), v)
<1>1. /\ Len(u) \in Nat /\ Len(v) \in Nat /\ Len(u \o v) = Len(u) + Len(v)
      /\ \A i \in 1..(Len(u) + Len(v)) :
           (u \o v)[i] = IF i <= Len(u) THEN u[i] ELSE v[i - Len(u)]
  BY ConcatProperties, LenProperties
<1>2. \A i \in 1..(Len(u) + Len(v)) :
        b[x + i] = IF i <= Len(u) THEN u[i] ELSE v[i - Len(u)]
  BY <1>1 DEF At
<1>3. ASSUME NEW i \in 1..Len(u) PROVE b[x + i] = u[i]
  BY <1>1, <1>2
<1>4. ASSUME NEW i \in 1..Len(v) PROVE b[(x + Len(u)) + i] = v[i]
  <2>1. Len(u) + i \in 1..(Len(u) + Len(v)) /\ ~(Len(u) + i <= Len(u))
        /\ (Len(u) + i) - Len(u) = i /\ x + (Len(u) + i) = (x + Len(u)) + i
    BY <1>1
  <2> QED
    BY <1>2, <2>1
<1> QED
  BY <1>3, <1>4 DEF At

\* What lies in a text lies in what that text lies in.
LEMMA AtTrans ==
  ASSUME NEW b, NEW x \in Int, NEW t, NEW y \in Nat, NEW u,
         Len(t) \in Nat, Len(u) \in Nat, y + Len(u) <= Len(t), At(b, x, t), At(t, y, u)
  PROVE  At(b, x + y, u)
<1>1. ASSUME NEW i \in 1..Len(u) PROVE b[(x + y) + i] = u[i]
  <2>1. y + i \in 1..Len(t) /\ x + (y + i) = (x + y) + i
    OBVIOUS
  <2> QED
    BY <2>1 DEF At
<1> QED
  BY <1>1 DEF At

\* A text goes on as it began when more is joined to it.
LEMMA AtConcat ==
  ASSUME NEW S, NEW s \in Seq(S), NEW u \in Seq(S), NEW v \in Seq(S), Len(s) <= Len(u), At(u, 0, s)
  PROVE  Len(s) <= Len(u \o v) /\ At(u \o v, 0, s)
<1>1. Len(s) \in Nat /\ Len(u) \in Nat /\ Len(v) \in Nat /\ Len(u \o v) = Len(u) + Len(v)
  BY ConcatProperties, LenProperties
<1>2. ASSUME NEW i \in 1..Len(s) PROVE (u \o v)[0 + i] = s[i]
  <2>1. i \in 1..(Len(u) + Len(v)) /\ i <= Len(u) /\ 0 + i = i
    BY <1>1
  <2>2. (u \o v)[i] = u[i]
    BY <2>1, ConcatProperties
  <2>3. u[0 + i] = s[i]
    BY DEF At
  <2> QED
    BY <2>1, <2>2, <2>3
<1> QED
  BY <1>1, <1>2 DEF At

\* The joined text is the last of the prefixes.
LEMMA FlattenIsLastPrefix ==
  ASSUME NEW S, NEW n \in Nat \ {0}, NEW ss \in [1..n -> Seq(S)],
         NEW f \in [1..n -> Seq(S)], AreJoined(f, ss, n)
  PROVE  FlattenSeq(ss) = f[n]
<1> DEFINE Flat(g) == g = [i \in 1..n |-> IF i = 1 THEN ss[i] ELSE g[i - 1] \o ss[i]]
           flat == CHOOSE g : Flat(g)
<1>1. Len(ss) = n /\ n # 0
  OBVIOUS
<1>2. FlattenSeq(ss) = flat[n]
  BY <1>1, Zenon DEF FlattenSeq
<1>3. Flat(f)
  BY DEF AreJoined
<1>4. Flat(flat)
  BY <1>3, Zenon
<1> HIDE DEF flat
<1>5. \A i \in 1..n : flat[i] = IF i = 1 THEN ss[i] ELSE flat[i - 1] \o ss[i]
  BY <1>4
<1> DEFINE Bad == {i \in 1..n : flat[i] # f[i]}
<1>6. Bad = {}
  <2> SUFFICES ASSUME Bad # {} PROVE FALSE
    OBVIOUS
  <2>1. Bad \in SUBSET Nat
    OBVIOUS
  <2>2. \A k \in 1..n : k \notin Bad => flat[k] = f[k]
    OBVIOUS
  <2>3. \A k \in Bad : k \in 1..n /\ flat[k] # f[k]
    OBVIOUS
  <2> HIDE DEF Bad
  <2>4. PICK m \in Bad : \A k \in Bad : m <= k
    BY <2>1, LeastNatural, Zenon
  <2>5. m \in 1..n /\ flat[m] # f[m]
    BY <2>3, <2>4
  <2>6. f[m] = IF m = 1 THEN ss[m] ELSE f[m - 1] \o ss[m]
    BY <2>5, Zenon DEF AreJoined
  <2>7. m # 1 => m - 1 \in 1..n /\ ~(m <= m - 1)
    BY <2>5
  <2>8. m # 1 => flat[m - 1] = f[m - 1]
    BY <2>2, <2>4, <2>7, Zenon
  <2> QED
    BY <1>5, <2>5, <2>6, <2>8, Zenon
<1>7. n \in 1..n
  OBVIOUS
<1> QED
  BY <1>2, <1>6, <1>7

\* Each prefix begins with the shorter ones.
LEMMA PrefixesBegin ==
  ASSUME NEW S, NEW n \in Nat, NEW ss \in [1..n -> Seq(S)],
         NEW f \in [1..n -> Seq(S)], AreJoined(f, ss, n)
  PROVE  \A j \in 1..n : \A i \in 1..j : Len(f[i]) <= Len(f[j]) /\ At(f[j], 0, f[i])
<1> DEFINE Prefix(i, j) == Len(f[i]) <= Len(f[j]) /\ At(f[j], 0, f[i])
           Bad == {j \in 1..n : \E i \in 1..j : ~Prefix(i, j)}
<1> HIDE DEF Prefix
<1>1. Bad = {}
  <2> SUFFICES ASSUME Bad # {} PROVE FALSE
    OBVIOUS
  <2>1. Bad \in SUBSET Nat
    OBVIOUS
  <2>2. \A k \in 1..n : k \notin Bad => \A i \in 1..k : Prefix(i, k)
    OBVIOUS
  <2>3. \A k \in Bad : k \in 1..n /\ \E i \in 1..k : ~Prefix(i, k)
    OBVIOUS
  <2> HIDE DEF Bad
  <2>4. PICK m \in Bad : \A k \in Bad : m <= k
    BY <2>1, LeastNatural, Zenon
  <2>5. m \in 1..n
    BY <2>3, <2>4
  <2>6. PICK i \in 1..m : ~Prefix(i, m)
    BY <2>3, <2>4, Zenon
  <2>7. f[m] \in Seq(S) /\ Len(f[m]) \in Nat
    BY <2>5, LenProperties
  <2>8. Prefix(m, m)
    BY <2>7 DEF Prefix, At
  <2>9. i # m
    BY <2>6, <2>8
  <2>10. m # 1 /\ i \in 1..(m - 1) /\ m - 1 \in 1..n /\ ~(m <= m - 1) /\ i \in 1..n
    BY <2>5, <2>9
  <2>11. Prefix(i, m - 1)
    BY <2>2, <2>4, <2>10, Zenon
  <2>12. f[m] = f[m - 1] \o ss[m]
    BY <2>5, <2>10, Zenon DEF AreJoined
  <2>13. f[i] \in Seq(S) /\ f[m - 1] \in Seq(S) /\ ss[m] \in Seq(S)
    BY <2>5, <2>10
  <2>14. Len(f[i]) <= Len(f[m - 1]) /\ At(f[m - 1], 0, f[i])
    BY <2>11 DEF Prefix
  <2>15. Len(f[i]) <= Len(f[m - 1] \o ss[m]) /\ At(f[m - 1] \o ss[m], 0, f[i])
    BY <2>13, <2>14, AtConcat
  <2> QED
    BY <2>6, <2>12, <2>15, Zenon DEF Prefix
<1> QED
  BY <1>1 DEF Prefix

\* Where the parts of a joined text lie in it.
Places(t, ss, n, off) ==
  /\ off \in [1..(n + 1) -> Nat]
  /\ off[1] = 0 /\ off[n + 1] = Len(t)
  /\ \A i \in 1..n : off[i + 1] = off[i] + Len(ss[i]) /\ off[i + 1] <= Len(t) /\ At(t, off[i], ss[i])

\* The parts of a joined text lie in it one after the other.
LEMMA FlattenPlaces ==
  ASSUME NEW S, NEW n \in Nat, NEW ss \in [1..n -> Seq(S)]
  PROVE  \E off : Places(FlattenSeq(ss), ss, n, off)
<1>1. CASE n = 0
  <2>1. ss = <<>> /\ Len(ss) = 0
    BY <1>1
  <2>2. FlattenSeq(ss) = <<>>
    BY <2>1 DEF FlattenSeq
  <2>3. Places(<<>>, ss, 0, [i \in 1..1 |-> 0])
    BY DEF Places
  <2> QED
    BY <1>1, <2>2, <2>3
<1>2. CASE n # 0
  <2>1. PICK f \in [1..n -> Seq(S)] : AreJoined(f, ss, n)
    BY PrefixesJoin, Zenon
  <2>2. FlattenSeq(ss) = f[n]
    BY <1>2, <2>1, FlattenIsLastPrefix
  <2>3. \A i \in 1..n : f[i] \in Seq(S) /\ ss[i] \in Seq(S) /\ Len(f[i]) \in Nat /\ Len(ss[i]) \in Nat
    BY LenProperties
  <2>4. n \in 1..n
    BY <1>2
  <2>5. \A i \in 1..n : Len(f[i]) <= Len(f[n]) /\ At(f[n], 0, f[i])
    BY <2>1, <2>4, PrefixesBegin, Zenon
  <2> DEFINE off == [i \in 1..(n + 1) |-> IF i = 1 THEN 0 ELSE Len(f[i - 1])]
  <2>6. ASSUME NEW i \in 1..(n + 1) PROVE (IF i = 1 THEN 0 ELSE Len(f[i - 1])) \in Nat
    <3>1. i # 1 => i - 1 \in 1..n
      OBVIOUS
    <3> QED
      BY <2>3, <3>1
  <2>7. off \in [1..(n + 1) -> Nat]
    BY <2>6
  <2>8. off[1] = 0 /\ \A i \in 1..n : off[i + 1] = Len(f[i])
    <3>1. 1 \in 1..(n + 1)
      OBVIOUS
    <3>2. ASSUME NEW i \in 1..n PROVE off[i + 1] = Len(f[i])
      <4>1. i + 1 \in 1..(n + 1) /\ i + 1 # 1 /\ (i + 1) - 1 = i
        OBVIOUS
      <4> QED
        BY <4>1
    <3> QED
      BY <3>1, <3>2
  <2> HIDE DEF off
  <2>9. ASSUME NEW i \in 1..n
        PROVE  /\ off[i + 1] = off[i] + Len(ss[i])
               /\ off[i + 1] <= Len(f[n])
               /\ At(f[n], off[i], ss[i])
    <3>1. off[i + 1] = Len(f[i]) /\ Len(f[i]) <= Len(f[n]) /\ At(f[n], 0, f[i])
      BY <2>5, <2>8
    <3>2. f[i] \in Seq(S) /\ ss[i] \in Seq(S) /\ Len(ss[i]) \in Nat
      BY <2>3
    <3>3. CASE i = 1
      <4>1. f[i] = ss[i]
        BY <2>1, <3>3, Zenon DEF AreJoined
      <4> QED
        BY <2>8, <3>1, <3>2, <3>3, <4>1
    <3>4. CASE i # 1
      <4>1. f[i] = f[i - 1] \o ss[i]
        BY <2>1, <3>4, Zenon DEF AreJoined
      <4>2. i - 1 \in 1..n /\ (i - 1) + 1 = i
        BY <3>4
      <4>3. off[i] = Len(f[i - 1]) /\ f[i - 1] \in Seq(S) /\ Len(f[i - 1]) \in Nat
        BY <2>3, <2>8, <4>2
      <4>4. Len(f[i]) = Len(f[i - 1]) + Len(ss[i])
        BY <3>2, <4>1, <4>3, ConcatProperties
      <4>5. At(f[n], 0 + Len(f[i - 1]), ss[i])
        <5>1. At(f[n], 0, f[i - 1] \o ss[i])
          BY <3>1, <4>1
        <5> HIDE <3>1, <4>1, <4>4
        <5> QED
          BY <3>2, <4>3, <5>1, AtParts
      <4>6. 0 + Len(f[i - 1]) = off[i]
        BY <4>3
      <4> QED
        BY <3>1, <4>3, <4>4, <4>5, <4>6
    <3> QED
      BY <3>3, <3>4
  <2>10. Places(f[n], ss, n, off)
    BY <2>4, <2>7, <2>8, <2>9, Zenon DEF Places
  <2> QED
    BY <2>2, <2>10
<1> QED
  BY <1>1, <1>2

\* Every position after the first offset up to the last lies in one part.
LEMMA Located ==
  ASSUME NEW n \in Nat, NEW off \in [1..(n + 1) -> Nat],
         NEW p \in Nat, off[1] < p, p <= off[n + 1]
  PROVE  \E i \in 1..n : off[i] < p /\ p <= off[i + 1]
<1> DEFINE S == {i \in 1..(n + 1) : p <= off[i]}
<1>1. S \in SUBSET Nat /\ n + 1 \in S
  OBVIOUS
<1> HIDE DEF S
<1>2. PICK m \in S : \A k \in S : m <= k
  BY <1>1, LeastNatural, Zenon
<1>3. m \in 1..(n + 1) /\ p <= off[m]
  BY DEF S
<1>4. m # 1
  BY <1>3
<1>5. m - 1 \in 1..n /\ m - 1 \in 1..(n + 1) /\ (m - 1) + 1 = m /\ ~(m <= m - 1)
  BY <1>3, <1>4
<1>6. m - 1 \notin S
  BY <1>2, <1>5
<1>7. off[m - 1] < p
  BY <1>5, <1>6 DEF S
<1> QED
  BY <1>3, <1>5, <1>7

-----------------------------------------------------------------------------
(* Lists: parts in brackets, with commas and gaps between them. *)

Gaps == {<<>>, <<" ">>}

\* What the provers need of texts.
LEMMA Texts ==
  /\ \A u \in Symbols : Len(u) \in Nat
  /\ \A u, v \in Symbols : u \o v \in Symbols /\ Len(u \o v) = Len(u) + Len(v)
  /\ \A u, v \in Symbols : \A x \in Int : \A b :
       At(b, x, u \o v) => At(b, x, u) /\ At(b, x + Len(u), v)
<1>1. \A u \in Symbols : Len(u) \in Nat
  BY LenProperties, Zenon DEF Symbols
<1>2. \A u, v \in Symbols : u \o v \in Symbols /\ Len(u \o v) = Len(u) + Len(v)
  BY ConcatProperties, Zenon DEF Symbols
<1>3. \A u, v \in Symbols : \A x \in Int : \A b :
       At(b, x, u \o v) => At(b, x, u) /\ At(b, x + Len(u), v)
  BY AtParts, Zenon DEF Symbols
<1> QED
  BY <1>1, <1>2, <1>3, Zenon

\* A text of one symbol.
LEMMA AtSymbol ==
  ASSUME NEW b, NEW x \in Int, NEW c, At(b, x, <<c>>)
  PROVE  b[x + 1] = c
<1>1. Len(<<c>>) = 1 /\ <<c>>[1] = c
  OBVIOUS
<1>2. \A i \in 1..1 : b[x + i] = <<c>>[i]
  BY <1>1, Zenon DEF At
<1>3. 1 \in 1..1
  OBVIOUS
<1> QED
  BY <1>1, <1>2, <1>3, Zenon

\* A text lies in itself.
LEMMA AtWhole ==
  ASSUME NEW t, Len(t) \in Nat
  PROVE  At(t, 0, t)
BY DEF At

\* A gap is a space or nothing.
LEMMA GapsAreText ==
  ASSUME NEW gap \in Gaps
  PROVE  /\ gap \in Symbols /\ Len(gap) \in 0..1
         /\ \A x \in Int : \A b : At(b, x, gap) /\ Len(gap) = 1 => b[x + 1] = " "
<1>1. <<>> \in Symbols /\ <<" ">> \in Symbols /\ Len(<<>>) = 0 /\ Len(<<" ">>) = 1
  BY Punctuation
<1>2. CASE gap = <<>>
  <2>1. Len(gap) = 0
    BY <1>1, <1>2
  <2>2. 0 # 1 /\ 0 \in 0..1
    OBVIOUS
  <2> QED
    BY <1>1, <1>2, <2>1, <2>2, Zenon
<1>3. CASE gap = <<" ">>
  <2>1. 1 \in 0..1
    OBVIOUS
  <2>2. \A x \in Int : \A b : At(b, x, gap) => b[x + 1] = " "
    BY <1>3, AtSymbol, Zenon
  <2> QED
    BY <1>1, <1>3, <2>1, <2>2, Zenon
<1> QED
  BY <1>2, <1>3, Zenon DEF Gaps

\* A text in brackets: where its n parts lie, and what is between them.
Laid(t, o, parts, n, c, g, at) ==
  /\ at \in [1..n -> Nat]
  /\ Len(t) = IF n = 0 THEN 2 + g ELSE at[n] + Len(parts[n]) + g + 1
  /\ t[1] = o /\ t[Len(t)] = c /\ (g = 1 => t[Len(t) - 1] = " ")
  /\ \A i \in 1..n :
       /\ At(t, at[i], parts[i])
       /\ at[i] = IF i = 1 THEN 1 ELSE at[i - 1] + Len(parts[i - 1]) + 1 + g
       /\ at[i] + Len(parts[i]) < Len(t)
       /\ i # 1 => /\ t[at[i] - g] = ","
                   /\ g = 1 => t[at[i]] = " "
  /\ \A p \in 2..(Len(t) - 1) :
       t[p] \in {",", " "} \/ \E i \in 1..n : p \in (at[i] + 1)..(at[i] + Len(parts[i]))

\* The separated parts.
Separated(parts, n, gap) == [i \in 1..n |-> IF i = 1 THEN parts[i] ELSE <<",">> \o gap \o parts[i]]
Skip(i, gap) == IF i = 1 THEN 0 ELSE 1 + Len(gap)

\* A part lies in its separated form after the comma and the gap.
LEMMA SeparatedParts ==
  ASSUME NEW n \in Nat, NEW parts \in [1..n -> Symbols], NEW gap \in Gaps
  PROVE  /\ Separated(parts, n, gap) \in [1..n -> Symbols]
         /\ \A i \in 1..n :
              /\ Len(Separated(parts, n, gap)[i]) = Len(parts[i]) + Skip(i, gap)
              /\ \A x \in Nat : \A b : At(b, x, Separated(parts, n, gap)[i]) =>
                   /\ At(b, x + Skip(i, gap), parts[i])
                   /\ i # 1 => b[x + 1] = "," /\ (Len(gap) = 1 => b[x + 2] = " ")
<1> DEFINE sep   == Separated(parts, n, gap)
           comma == <<",">> \o gap
           rest(i) == comma \o parts[i]
<1>1. gap \in Symbols /\ Len(gap) \in 0..1 /\ <<",">> \in Symbols
  BY GapsAreText, Punctuation, Zenon
<1>2. Len(<<",">>) = 1
  OBVIOUS
<1>3. comma \in Symbols /\ Len(comma) = 1 + Len(gap)
  BY <1>1, <1>2, Texts, Zenon
<1>4. \A x \in Int : \A b : At(b, x, comma) => At(b, x, <<",">>) /\ At(b, x + 1, gap)
  BY <1>1, <1>2, Texts, Zenon
<1>5. sep = [i \in 1..n |-> IF i = 1 THEN parts[i] ELSE rest(i)]
  BY Zenon DEF Separated
<1> HIDE DEF sep, comma
<1>6. \A i \in 1..n : parts[i] \in Symbols
  OBVIOUS
<1>7. \A i \in 1..n : rest(i) \in Symbols /\ Len(rest(i)) = (1 + Len(gap)) + Len(parts[i])
  BY <1>3, <1>6, Texts, Zenon
<1>8. \A i \in 1..n : \A x \in Int : \A b :
        At(b, x, rest(i)) => At(b, x, comma) /\ At(b, x + (1 + Len(gap)), parts[i])
  BY <1>3, <1>6, Texts, Zenon
<1> HIDE DEF rest
<1>9. sep \in [1..n -> Symbols] /\ \A i \in 1..n : sep[i] = IF i = 1 THEN parts[i] ELSE rest(i)
  BY <1>5, <1>6, <1>7
<1>10. \A i \in 1..n : Len(parts[i]) \in Nat
  BY <1>6, Texts, Zenon
<1>11. ASSUME NEW i \in 1..n
       PROVE  /\ Len(sep[i]) = Len(parts[i]) + Skip(i, gap)
              /\ \A x \in Nat : \A b : At(b, x, sep[i]) =>
                   /\ At(b, x + Skip(i, gap), parts[i])
                   /\ i # 1 => b[x + 1] = "," /\ (Len(gap) = 1 => b[x + 2] = " ")
  <2>1. CASE i = 1
    <3>1. sep[i] = parts[i] /\ Skip(i, gap) = 0
      BY <1>9, <2>1 DEF Skip
    <3>2. Len(parts[i]) + 0 = Len(parts[i]) /\ \A x \in Nat : x + 0 = x
      BY <1>10
    <3> QED
      BY <2>1, <3>1, <3>2, Zenon
  <2>2. CASE i # 1
    <3>1. sep[i] = rest(i) /\ Skip(i, gap) = 1 + Len(gap)
      BY <1>9, <2>2 DEF Skip
    <3>2. Len(sep[i]) = Len(parts[i]) + (1 + Len(gap))
      <4>1. Len(sep[i]) = (1 + Len(gap)) + Len(parts[i])
        BY <1>7, <3>1, Zenon
      <4>2. Len(gap) \in 0..1 /\ Len(parts[i]) \in Nat
        BY <1>1, <1>10, Zenon
      <4> QED
        BY <4>1, <4>2
    <3>3. ASSUME NEW x \in Nat, NEW b, At(b, x, sep[i])
          PROVE  /\ At(b, x + (1 + Len(gap)), parts[i])
                 /\ b[x + 1] = "," /\ (Len(gap) = 1 => b[x + 2] = " ")
      <4>1. x \in Int /\ x + 1 \in Int /\ (x + 1) + 1 = x + 2
        OBVIOUS
      <4>2. At(b, x, comma) /\ At(b, x + (1 + Len(gap)), parts[i])
        BY <1>8, <3>1, <3>3, <4>1, Zenon
      <4>3. At(b, x, <<",">>) /\ At(b, x + 1, gap)
        BY <1>4, <4>1, <4>2, Zenon
      <4>4. b[x + 1] = ","
        BY <4>1, <4>3, AtSymbol, Zenon
      <4>5. Len(gap) = 1 => b[(x + 1) + 1] = " "
        BY <4>1, <4>3, GapsAreText, Zenon
      <4> QED
        BY <4>1, <4>2, <4>4, <4>5, Zenon
    <3> QED
      BY <3>1, <3>2, <3>3, Zenon
  <2> QED
    BY <2>1, <2>2, Zenon
<1>12. /\ sep \in [1..n -> Symbols]
       /\ \A i \in 1..n :
              /\ Len(sep[i]) = Len(parts[i]) + Skip(i, gap)
              /\ \A x \in Nat : \A b : At(b, x, sep[i]) =>
                   /\ At(b, x + Skip(i, gap), parts[i])
                   /\ i # 1 => b[x + 1] = "," /\ (Len(gap) = 1 => b[x + 2] = " ")
  BY <1>9, <1>11, Zenon
<1> QED
  BY <1>12, Zenon DEF sep

Bracket(o, F, gap, c) == <<o>> \o F \o gap \o <<c>>
IsBracketed(t, o, F, g, c) ==
  /\ t \in Symbols /\ Len(t) = 1 + Len(F) + g + 1
  /\ t[1] = o /\ At(t, 1, F) /\ t[Len(t)] = c
  /\ g = 1 => t[Len(t) - 1] = " "

\* A text between two symbols, with a gap before the second one.
LEMMA Bracketed ==
  ASSUME NEW F \in Symbols, NEW gap \in Gaps, NEW o, <<o>> \in Symbols, NEW c, <<c>> \in Symbols
  PROVE  IsBracketed(Bracket(o, F, gap, c), o, F, Len(gap), c)
<1> DEFINE t == Bracket(o, F, gap, c)
           u == <<o>> \o F
           v == u \o gap
           L == Len(F)
           g == Len(gap)
<1>0. t = v \o <<c>>
  BY Zenon DEF Bracket
<1> HIDE DEF t
<1>1. gap \in Symbols /\ g \in 0..1 /\ L \in Nat
  BY GapsAreText, Texts, Zenon
<1>2. Len(<<o>>) = 1 /\ Len(<<c>>) = 1
  OBVIOUS
<1>3. u \in Symbols /\ Len(u) = 1 + L
  BY <1>2, Texts, Zenon
<1>4. \A x \in Int : \A b : At(b, x, u) => At(b, x, <<o>>) /\ At(b, x + 1, F)
  BY <1>2, Texts, Zenon
<1> HIDE DEF u
<1>5. v \in Symbols /\ Len(v) = (1 + L) + g
  <2>1. v \in Symbols /\ Len(v) = Len(u) + g
    BY <1>1, <1>3, Texts, Zenon
  <2> QED
    BY <1>3, <2>1, Zenon
<1>6. \A x \in Int : \A b : At(b, x, v) => At(b, x, u) /\ At(b, x + (1 + L), gap)
  BY <1>1, <1>3, Texts, Zenon
<1> HIDE DEF v
<1>7. t \in Symbols /\ Len(t) = ((1 + L) + g) + 1
  <2>1. v \o <<c>> \in Symbols /\ Len(v \o <<c>>) = Len(v) + Len(<<c>>)
    BY <1>5, Texts, Zenon
  <2>2. t \in Symbols /\ Len(t) = Len(v) + Len(<<c>>)
    BY <1>0, <2>1
  <2> QED
    BY <1>2, <1>5, <2>2, Zenon
<1>8. \A x \in Int : \A b : At(b, x, t) => At(b, x, v) /\ At(b, x + ((1 + L) + g), <<c>>)
  <2>1. \A x \in Int : \A b : At(b, x, v \o <<c>>) => At(b, x, v) /\ At(b, x + Len(v), <<c>>)
    BY <1>5, Texts, Zenon
  <2>2. \A x \in Int : \A b : At(b, x, t) => At(b, x, v) /\ At(b, x + Len(v), <<c>>)
    BY <1>0, <2>1
  <2> QED
    BY <1>5, <2>2, Zenon
<1> HIDE DEF L, g
<1>9. At(t, 0, t)
  BY <1>1, <1>7, AtWhole
<1>10. 0 \in Int /\ 0 + 1 = 1 /\ 0 + (1 + L) = 1 + L /\ 0 + ((1 + L) + g) = (1 + L) + g
       /\ 1 + L \in Int /\ (1 + L) + g \in Int
  BY <1>1
<1>11. At(t, 0, <<o>>) /\ At(t, 1, F) /\ At(t, 1 + L, gap) /\ At(t, (1 + L) + g, <<c>>)
  BY <1>4, <1>6, <1>8, <1>9, <1>10, Zenon
<1>12. t[0 + 1] = o /\ t[((1 + L) + g) + 1] = c
  BY <1>10, <1>11, AtSymbol, Zenon
<1>13. g = 1 => t[(1 + L) + 1] = " "
  BY <1>10, <1>11, GapsAreText, Zenon DEF g
<1>14. Len(t) = 1 + L + g + 1 /\ ((1 + L) + g) + 1 = Len(t) /\ (g = 1 => (1 + L) + 1 = Len(t) - 1)
  <2>1. L \in Nat /\ g \in 0..1 /\ Len(t) = ((1 + L) + g) + 1
    BY <1>1, <1>7, Zenon
  <2> QED
    BY <2>1
<1>15. t[1] = o /\ t[Len(t)] = c
  BY <1>10, <1>12, <1>14, Zenon
<1>16. g = 1 => t[Len(t) - 1] = " "
  BY <1>13, <1>14, Zenon
<1> QED
  BY <1>7, <1>11, <1>14, <1>15, <1>16, Zenon DEF IsBracketed, L, g, t

\* A list is laid out as Laid says.
LEMMA ListedPlaces ==
  ASSUME NEW n \in Nat, NEW parts \in [1..n -> Symbols], NEW gap \in Gaps,
         NEW o, <<o>> \in Symbols, NEW c, <<c>> \in Symbols
  PROVE  \E at : Laid(Listed(<<o>>, parts, <<c>>, gap), o, parts, n, c, Len(gap), at)
<1> DEFINE t   == Listed(<<o>>, parts, <<c>>, gap)
           sep == Separated(parts, n, gap)
           F   == FlattenSeq(sep)
           g   == Len(gap)
           L   == Len(F)
           skip(i) == Skip(i, gap)
<1>1. Len(parts) = n
  OBVIOUS
<1>2. t = Bracket(o, F, gap, c)
  BY <1>1, Zenon DEF Listed, Separated, Bracket
<1>3. sep \in [1..n -> Symbols]
  BY SeparatedParts, Zenon
<1>4. PICK off : Places(F, sep, n, off)
  BY <1>3, FlattenPlaces, Zenon DEF Symbols
<1>5. F \in Symbols
  <2>1. sep \in Seq(Symbols)
    <3> HIDE DEF sep
    <3> QED
      BY <1>3
  <2> QED
    BY <2>1, FlattenSeqIsASequence, Zenon DEF Symbols
<1>6. L \in Nat /\ g \in 0..1
  BY <1>5, GapsAreText, Texts, Zenon
<1>7. \A i \in 1..n : /\ Len(sep[i]) = Len(parts[i]) + skip(i)
                      /\ \A x \in Nat : \A b : At(b, x, sep[i]) =>
                           /\ At(b, x + skip(i), parts[i])
                           /\ i # 1 => b[x + 1] = "," /\ (g = 1 => b[x + 2] = " ")
  BY SeparatedParts, Zenon
<1>8. \A i \in 1..n : Len(sep[i]) \in Nat /\ Len(parts[i]) \in Nat /\ skip(i) \in Nat
                      /\ skip(i) = IF i = 1 THEN 0 ELSE 1 + g
  <2>1. \A i \in 1..n : sep[i] \in Symbols /\ parts[i] \in Symbols
    <3> HIDE DEF sep
    <3> QED
      BY <1>3
  <2>2. \A i \in 1..n : Len(sep[i]) \in Nat /\ Len(parts[i]) \in Nat
    BY <2>1, Texts, Zenon
  <2>3. \A i \in 1..n : skip(i) = IF i = 1 THEN 0 ELSE 1 + g
    BY Zenon DEF Skip
  <2> HIDE DEF skip, g, sep
  <2>4. \A i \in 1..n : skip(i) \in Nat
    BY <1>6, <2>3
  <2> QED
    BY <2>2, <2>3, <2>4, Zenon
<1>9. /\ t \in Symbols /\ Len(t) = 1 + L + g + 1
      /\ t[1] = o /\ At(t, 1, F) /\ t[Len(t)] = c
      /\ g = 1 => t[Len(t) - 1] = " "
  <2> HIDE DEF F, t
  <2>1. IsBracketed(Bracket(o, F, gap, c), o, F, Len(gap), c)
    BY <1>5, Bracketed, Zenon
  <2>2. IsBracketed(t, o, F, g, c)
    BY <1>2, <2>1, Zenon
  <2> QED
    BY <2>2, Zenon DEF IsBracketed, L
<1> HIDE DEF sep, F, g, L, skip
<1> HIDE DEF t
<1>9a. Len(t) = 1 + L + g + 1 /\ L \in Nat /\ g \in 0..1
  BY <1>6, <1>9, Zenon
<1>10. /\ off \in [1..(n + 1) -> Nat] /\ off[1] = 0 /\ off[n + 1] = L
       /\ \A i \in 1..n : off[i + 1] = off[i] + Len(sep[i]) /\ off[i + 1] <= L /\ At(F, off[i], sep[i])
  BY <1>4, Zenon DEF Places, L
<1> DEFINE at == [i \in 1..n |-> 1 + off[i] + skip(i)]
<1>11. \A i \in 1..n : off[i] \in Nat /\ off[i + 1] \in Nat
  <2> TAKE i \in 1..n
  <2>1. i \in 1..(n + 1) /\ i + 1 \in 1..(n + 1)
    OBVIOUS
  <2> QED
    BY <1>10, <2>1
<1>12. at \in [1..n -> Nat] /\ \A i \in 1..n : at[i] = 1 + off[i] + skip(i)
  BY <1>8, <1>11, SMTT(30)
<1> HIDE DEF at
<1>13. \A i \in 1..n : at[i] \in Nat /\ at[i] + Len(parts[i]) = 1 + off[i + 1]
  <2> TAKE i \in 1..n
  <2>1. Len(sep[i]) = Len(parts[i]) + skip(i) /\ off[i + 1] = off[i] + Len(sep[i])
        /\ at[i] = 1 + off[i] + skip(i)
    BY <1>7, <1>10, <1>12
  <2>2. Len(parts[i]) \in Nat /\ skip(i) \in Nat /\ off[i] \in Nat
    BY <1>8, <1>11
  <2> QED
    BY <2>1, <2>2, SMTT(30)
<1>14. ASSUME NEW i \in 1..n
       PROVE  /\ At(t, at[i], parts[i])
              /\ at[i] = IF i = 1 THEN 1 ELSE at[i - 1] + Len(parts[i - 1]) + 1 + g
              /\ at[i] + Len(parts[i]) < Len(t)
              /\ i # 1 => t[at[i] - g] = "," /\ (g = 1 => t[at[i]] = " ")
  <2>1. /\ off[i + 1] = off[i] + Len(sep[i]) /\ off[i + 1] <= L /\ At(F, off[i], sep[i])
        /\ at[i] = 1 + off[i] + skip(i)
    BY <1>10, <1>12
  <2>2. Len(sep[i]) \in Nat /\ off[i] \in Nat /\ Len(parts[i]) \in Nat /\ skip(i) \in Nat
        /\ skip(i) = IF i = 1 THEN 0 ELSE 1 + g
    BY <1>8, <1>11
  <2>3. At(t, 1 + off[i], sep[i])
    <3>1. off[i] + Len(sep[i]) <= Len(F) /\ Len(F) \in Nat /\ 1 \in Int
      BY <1>6, <2>1, <2>2 DEF L
    <3> QED
      BY <1>9, <2>1, <2>2, <3>1, AtTrans, Zenon
  <2>4. 1 + off[i] \in Nat
    BY <2>2
  <2>5. At(t, (1 + off[i]) + skip(i), parts[i])
        /\ (i # 1 => t[(1 + off[i]) + 1] = "," /\ (g = 1 => t[(1 + off[i]) + 2] = " "))
    BY <1>7, <2>3, <2>4, Zenon
  <2>6. (1 + off[i]) + skip(i) = at[i]
    BY <2>1, <2>2
  <2>7. i # 1 => (1 + off[i]) + 1 = at[i] - g /\ (g = 1 => (1 + off[i]) + 2 = at[i])
    BY <1>6, <2>1, <2>2
  <2>8. at[i] + Len(parts[i]) < Len(t)
    <3>1. at[i] + Len(parts[i]) = 1 + off[i + 1] /\ off[i + 1] \in Nat
      BY <1>11, <1>13
    <3> QED
      BY <1>9a, <2>1, <3>1
  <2>9. at[i] = IF i = 1 THEN 1 ELSE at[i - 1] + Len(parts[i - 1]) + 1 + g
    <3>1. CASE i = 1
      BY <1>10, <2>1, <2>2, <3>1
    <3>2. CASE i # 1
      <4>1. i - 1 \in 1..n /\ (i - 1) + 1 = i
        BY <3>2
      <4>2. at[i - 1] + Len(parts[i - 1]) = 1 + off[i]
        BY <1>13, <4>1
      <4> QED
        BY <1>6, <2>1, <2>2, <3>2, <4>2, SMTT(30)
    <3> QED
      BY <3>1, <3>2
  <2> QED
    BY <2>5, <2>6, <2>7, <2>8, <2>9, Zenon
<1>15. Len(t) = IF n = 0 THEN 2 + g ELSE at[n] + Len(parts[n]) + g + 1
  <2>1. CASE n = 0
    <3>1. L = 0
      BY <1>10, <2>1
    <3> QED
      BY <1>9a, <2>1, <3>1
  <2>2. CASE n # 0
    <3>1. n \in 1..n
      BY <2>2
    <3>2. at[n] + Len(parts[n]) = 1 + L
      BY <1>10, <1>13, <3>1
    <3> QED
      BY <1>9a, <2>2, <3>2
  <2> QED
    BY <2>1, <2>2
<1>16. ASSUME NEW p \in 2..(Len(t) - 1)
       PROVE  t[p] \in {",", " "} \/ \E i \in 1..n : p \in (at[i] + 1)..(at[i] + Len(parts[i]))
  <2>1. CASE p > 1 + L
    <3>1. g = 1 /\ p = Len(t) - 1
      BY <1>9a, <2>1
    <3> QED
      BY <1>9, <3>1, Zenon
  <2>2. CASE p <= 1 + L
    <3>1. p - 1 \in Nat /\ off[1] < p - 1 /\ p - 1 <= off[n + 1]
      BY <1>6, <1>10, <2>2
    <3>2. PICK i \in 1..n : off[i] < p - 1 /\ p - 1 <= off[i + 1]
      <4>1. off \in [1..(n + 1) -> Nat]
        BY <1>10
      <4> QED
        BY <3>1, <4>1, Located, Zenon
    <3>3. off[i] \in Nat /\ Len(parts[i]) \in Nat /\ at[i] = 1 + off[i] + skip(i)
          /\ at[i] + Len(parts[i]) = 1 + off[i + 1] /\ off[i + 1] \in Nat /\ at[i] \in Nat
          /\ skip(i) = IF i = 1 THEN 0 ELSE 1 + g
      BY <1>8, <1>11, <1>12, <1>13
    <3>6. at[i] \in Nat /\ p \in Nat
      BY <3>3
    <3>4. CASE p > at[i]
      <4>1. p \in (at[i] + 1)..(at[i] + Len(parts[i]))
        BY <3>2, <3>3, <3>4, SMTT(30)
      <4> QED
        BY <4>1
    <3>5. CASE p <= at[i]
      <4>1. i # 1 /\ (p = at[i] - g \/ (g = 1 /\ p = at[i]))
        <5>1. i # 1
          BY <3>2, <3>3, <3>5, <3>6
        <5>2. at[i] = 2 + off[i] + g
          <6> DEFINE a == at[i]
                     f == off[i]
                     k == skip(i)
          <6>1. a = 1 + f + k /\ f \in Nat /\ k = 1 + g /\ g \in 0..1
            BY <1>9a, <3>3, <5>1, Zenon
          <6> HIDE DEF a, f, k
          <6>2. a = 2 + f + g
            BY <6>1
          <6> QED
            BY <6>2, Zenon DEF a, f
        <5>3. p <= at[i] /\ off[i] + 1 < p
          BY <3>2, <3>3, <3>5, <3>6
        <5>4. off[i] \in Nat /\ g \in 0..1 /\ p \in Nat /\ at[i] \in Nat
          BY <1>9a, <3>3, <3>6
        <5> QED
          BY <5>1, <5>2, <5>3, <5>4, SMTT(30)
      <4> QED
        BY <1>14, <4>1, Zenon
    <3>7. p > at[i] \/ p <= at[i]
      BY <3>6
    <3> QED
      BY <3>4, <3>5, <3>7, Zenon
  <2>3. p > 1 + L \/ p <= 1 + L
    BY <1>6
  <2> QED
    BY <2>1, <2>2, <2>3
<1>17. Laid(t, o, parts, n, c, g, at)
  BY <1>9, <1>12, <1>14, <1>15, <1>16, Zenon DEF Laid
<1> QED
  BY <1>17, Zenon DEF t, g

-----------------------------------------------------------------------------
(* Strings and members. *)

\* A string in quotes.
LEMMA StringPlaces ==
  ASSUME NEW s \in Symbols
  PROVE  /\ String(s) \in Symbols /\ Len(String(s)) = Len(s) + 2
         /\ \A x \in Int : \A b : At(b, x, String(s)) =>
              b[x + 1] = Quote /\ At(b, x + 1, s) /\ b[x + Len(s) + 2] = Quote
<1> DEFINE u == <<Quote>> \o s
           t == u \o <<Quote>>
           L == Len(s)
<1>1. <<Quote>> \in Symbols /\ L \in Nat
  BY Punctuation, Texts, Zenon
<1>2. Len(<<Quote>>) = 1
  OBVIOUS
<1>3. u \in Symbols /\ Len(u) = 1 + L
  BY <1>1, <1>2, Texts, Zenon
<1>4. \A x \in Int : \A b : At(b, x, u) => At(b, x, <<Quote>>) /\ At(b, x + 1, s)
  BY <1>1, <1>2, Texts, Zenon
<1> HIDE DEF u
<1>5. t \in Symbols /\ Len(t) = (1 + L) + 1
  BY <1>1, <1>2, <1>3, Texts, Zenon
<1>6. \A x \in Int : \A b : At(b, x, t) => At(b, x, u) /\ At(b, x + (1 + L), <<Quote>>)
  BY <1>1, <1>3, Texts, Zenon
<1>7. String(s) = t
  BY Zenon DEF String, u
<1> HIDE DEF t, L
<1>8. ASSUME NEW x \in Int, NEW b, At(b, x, t)
      PROVE  b[x + 1] = Quote /\ At(b, x + 1, s) /\ b[x + L + 2] = Quote
  <2>1. At(b, x, <<Quote>>) /\ At(b, x + 1, s) /\ At(b, x + (1 + L), <<Quote>>)
    BY <1>4, <1>6, <1>8, Zenon
  <2>2. x + (1 + L) \in Int /\ (x + (1 + L)) + 1 = x + L + 2
    BY <1>1
  <2>3. b[x + 1] = Quote /\ b[(x + (1 + L)) + 1] = Quote
    BY <2>1, <2>2, AtSymbol, Zenon
  <2> QED
    BY <2>1, <2>2, <2>3, Zenon
<1>9. (1 + L) + 1 = L + 2
  BY <1>1
<1> QED
  BY <1>5, <1>7, <1>8, <1>9, Zenon DEF L

\* A member: its key in quotes, a colon, its value.
Pair(key, v, gap) == String(<<key>>) \o gap \o <<":">> \o gap \o v

PairPlaced(b, x, key, v, g) ==
  /\ b[x + 1] = Quote /\ b[x + 2] = key /\ b[x + 3] = Quote
  /\ b[x + 4 + g] = ":" /\ (g = 1 => b[x + 4] = " " /\ b[x + 6] = " ")
  /\ At(b, x + 4 + 2 * g, v)

\* Where the key, the colon and the value of a member are.
LEMMA PairPlaces ==
  ASSUME NEW key \in STRING, NEW v \in Symbols, NEW gap \in Gaps
  PROVE  /\ Pair(key, v, gap) \in Symbols /\ Len(Pair(key, v, gap)) = 4 + 2 * Len(gap) + Len(v)
         /\ \A x \in Int : \A b : At(b, x, Pair(key, v, gap)) => PairPlaced(b, x, key, v, Len(gap))
<1> DEFINE k == <<key>>
           s == String(k)
           u == s \o gap
           w == u \o <<":">>
           z == w \o gap
           t == z \o v
           g == Len(gap)
<1>1. gap \in Symbols /\ g \in 0..1 /\ <<":">> \in Symbols /\ Len(v) \in Nat
  BY GapsAreText, Punctuation, Texts, Zenon
<1>2. Len(<<":">>) = 1 /\ Len(k) = 1
  OBVIOUS
<1>3. k \in Symbols
  <2>1. k \in Seq(STRING)
    BY ShortSequences, Zenon
  <2> QED
    BY <2>1, WordsAreText, Zenon
<1>4. s \in Symbols /\ Len(s) = 3
  <2>1. s \in Symbols /\ Len(s) = Len(k) + 2
    BY <1>3, StringPlaces, Zenon
  <2>2. 1 + 2 = 3
    OBVIOUS
  <2> QED
    BY <1>2, <2>1, <2>2, Zenon
<1>5. \A x \in Int : \A b : At(b, x, s) => b[x + 1] = Quote /\ At(b, x + 1, k) /\ b[x + Len(k) + 2] = Quote
  BY <1>3, StringPlaces, Zenon
<1> HIDE DEF s
<1>6. u \in Symbols /\ Len(u) = 3 + g
  BY <1>1, <1>4, Texts, Zenon
<1>7. \A x \in Int : \A b : At(b, x, u) => At(b, x, s) /\ At(b, x + 3, gap)
  BY <1>1, <1>4, Texts, Zenon
<1> HIDE DEF u
<1>8. w \in Symbols /\ Len(w) = 3 + g + 1
  BY <1>1, <1>2, <1>6, Texts, ZenonT(40)
<1>9. \A x \in Int : \A b : At(b, x, w) => At(b, x, u) /\ At(b, x + (3 + g), <<":">>)
  BY <1>1, <1>6, Texts, Zenon
<1> HIDE DEF w
<1>10. z \in Symbols /\ Len(z) = 3 + g + 1 + g
  BY <1>1, <1>8, Texts, ZenonT(40)
<1>11. \A x \in Int : \A b : At(b, x, z) => At(b, x, w) /\ At(b, x + (3 + g + 1), gap)
  BY <1>1, <1>8, Texts, Zenon
<1> HIDE DEF z
<1>12. t \in Symbols /\ Len(t) = 3 + g + 1 + g + Len(v)
  BY <1>10, Texts, Zenon
<1>13. \A x \in Int : \A b : At(b, x, t) => At(b, x, z) /\ At(b, x + (3 + g + 1 + g), v)
  BY <1>10, Texts, Zenon
<1>14. Pair(key, v, gap) = t
  BY Zenon DEF Pair, s, u, w, z
<1> HIDE DEF t, k, g
<1>15. ASSUME NEW x \in Int, NEW b, At(b, x, t)
       PROVE  PairPlaced(b, x, key, v, g)
  <2>1. /\ At(b, x, s) /\ At(b, x + 3, gap) /\ At(b, x + (3 + g), <<":">>)
        /\ At(b, x + (3 + g + 1), gap) /\ At(b, x + (3 + g + 1 + g), v)
    BY <1>7, <1>9, <1>11, <1>13, <1>15, Zenon
  <2>2. b[x + 1] = Quote /\ At(b, x + 1, k) /\ b[x + Len(k) + 2] = Quote
    BY <1>5, <2>1, Zenon
  <2>3. /\ x + 1 \in Int /\ (x + 1) + 1 = x + 2 /\ x + 1 + 2 = x + 3
        /\ x + (3 + g) \in Int /\ (x + (3 + g)) + 1 = x + 4 + g
        /\ x + 3 \in Int /\ (x + 3) + 1 = x + 4
        /\ x + (3 + g + 1) \in Int /\ (g = 1 => (x + (3 + g + 1)) + 1 = x + 6)
        /\ x + (3 + g + 1 + g) = x + 4 + 2 * g
    BY <1>1
  <2>4. b[(x + 1) + 1] = key
    BY <2>2, <2>3, AtSymbol, Zenon DEF k
  <2>5. b[x + 3] = Quote
    BY <1>2, <2>2, <2>3, Zenon
  <2>6. b[(x + (3 + g)) + 1] = ":"
    BY <2>1, <2>3, AtSymbol, Zenon
  <2>7. g = 1 => b[(x + 3) + 1] = " " /\ b[(x + (3 + g + 1)) + 1] = " "
    BY <2>1, <2>3, GapsAreText, Zenon DEF g
  <2> QED
    BY <2>1, <2>2, <2>3, <2>4, <2>5, <2>6, <2>7, Zenon DEF PairPlaced
<1>16. 3 + g + 1 + g + Len(v) = 4 + 2 * g + Len(v)
  BY <1>1
<1> QED
  BY <1>12, <1>14, <1>15, <1>16, Zenon DEF g

-----------------------------------------------------------------------------
(* Where a text mentions a name, in quotes. *)

\* A name is no mark; a list is in brackets of two kinds.
Name(k)        == k \notin Marks
Brackets(o, c) == (o = "[" /\ c = "]") \/ (o = "{" /\ c = "}")
Follows(x, c)  == x \in {",", " ", c}

\* No name is one of the symbols around the parts of a list.
LEMMA NamesDiffer ==
  /\ \A k : Name(k) => k # ":" /\ k # " "
  /\ \A k, o, c, x : Name(k) /\ Brackets(o, c) /\ Follows(x, c) => x # k
  /\ \A o, c, x : Brackets(o, c) /\ Follows(x, c) => x # Quote
  /\ \A o, c : Brackets(o, c) => o # Quote /\ c # Quote
BY MarksDiffer, Zenon DEF Name, Brackets, Follows, Marks

\* A name in quotes.
MentionAt(t, p, k) == t[p] = Quote /\ t[p + 1] = k /\ t[p + 2] = Quote

\* A name in quotes that lies in the place of a part lies in the part.
LEMMA MentionInPart ==
  ASSUME NEW t, NEW y \in Nat, NEW u, Len(u) \in Nat, At(t, y, u), NEW k,
         NEW p \in (y + 1)..(y + Len(u) - 2), MentionAt(t, p, k)
  PROVE  p - y \in 1..(Len(u) - 2) /\ MentionAt(u, p - y, k)
<1>1. /\ p - y \in 1..(Len(u) - 2) /\ p - y \in 1..Len(u)
      /\ (p - y) + 1 \in 1..Len(u) /\ (p - y) + 2 \in 1..Len(u)
      /\ y + (p - y) = p /\ y + ((p - y) + 1) = p + 1 /\ y + ((p - y) + 2) = p + 2
  OBVIOUS
<1>2. t[p] = u[p - y] /\ t[p + 1] = u[(p - y) + 1] /\ t[p + 2] = u[(p - y) + 2]
  BY <1>1 DEF At
<1> QED
  BY <1>1, <1>2, Zenon DEF MentionAt

\* What the provers need of a list: numbers, and the symbols around its parts.
LEMMA LaidNumbers ==
  ASSUME NEW t \in Symbols, NEW o, NEW c, NEW n \in Nat, NEW parts \in [1..n -> Symbols],
         NEW g \in 0..1, NEW at, Laid(t, o, parts, n, c, g, at), NEW i \in 1..n
  PROVE  /\ Len(t) \in Nat /\ at[i] \in Nat /\ Len(parts[i]) \in Nat
         /\ 1 <= at[i] /\ at[i] + Len(parts[i]) < Len(t)
         /\ At(t, at[i], parts[i])
         /\ Follows(t[at[i] + Len(parts[i]) + 1], c)
<1>1. parts[i] \in Symbols /\ i \in Nat
  OBVIOUS
<1>2. /\ Len(t) \in Nat /\ Len(parts[i]) \in Nat
  BY <1>1, Texts, Zenon
<1>3. at[i] \in Nat /\ at[i] + Len(parts[i]) < Len(t) /\ At(t, at[i], parts[i])
  BY DEF Laid
<1>4. \A j \in 1..n : at[j] = IF j = 1 THEN 1 ELSE at[j - 1] + Len(parts[j - 1]) + 1 + g
  BY Zenon DEF Laid
<1>5. 1 <= at[i]
  <2>1. CASE i = 1
    <3>1. at[i] = 1
      BY <1>4, <2>1
    <3> QED
      BY <3>1
  <2>2. CASE i # 1
    <3>1. i - 1 \in 1..n
      BY <2>2
    <3>2. at[i - 1] \in Nat /\ parts[i - 1] \in Symbols
      BY <3>1 DEF Laid
    <3>3. Len(parts[i - 1]) \in Nat
      BY <3>2, Texts, Zenon
    <3>4. at[i] = at[i - 1] + Len(parts[i - 1]) + 1 + g
      BY <1>4, <2>2
    <3> QED
      BY <3>2, <3>3, <3>4
  <2> QED
    BY <2>1, <2>2
<1>6. Follows(t[at[i] + Len(parts[i]) + 1], c)
  <2>1. CASE i = n
    <3>1. n # 0
      BY <2>1
    <3>2. Len(t) = at[i] + Len(parts[i]) + g + 1
      BY <2>1, <3>1, Zenon DEF Laid
    <3>5. g = 0 \/ g = 1
      OBVIOUS
    <3>3. CASE g = 0
      <4>1. at[i] + Len(parts[i]) + 1 = Len(t)
        BY <1>2, <1>3, <3>2, <3>3
      <4> QED
        BY <4>1, Zenon DEF Laid, Follows
    <3>4. CASE g = 1
      <4>1. at[i] + Len(parts[i]) + 1 = Len(t) - 1
        BY <1>2, <1>3, <3>2, <3>4
      <4> QED
        BY <3>4, <4>1, Zenon DEF Laid, Follows
    <3> QED
      BY <3>3, <3>4, <3>5, Zenon
  <2>2. CASE i # n
    <3>1. i + 1 \in 1..n /\ i + 1 # 1 /\ (i + 1) - 1 = i
      BY <2>2
    <3>2. at[i + 1] = at[i] + Len(parts[i]) + 1 + g
      BY <1>4, <3>1, Zenon
    <3>3. t[at[i + 1] - g] = ","
      BY <3>1, Zenon DEF Laid
    <3>4. at[i + 1] - g = at[i] + Len(parts[i]) + 1
      BY <1>2, <1>3, <3>2
    <3> QED
      BY <3>3, <3>4, Zenon DEF Follows
  <2> QED
    BY <2>1, <2>2, Zenon
<1> QED
  BY <1>2, <1>3, <1>5, <1>6, Zenon

\* A name in quotes lies in one part of a list.
LEMMA ListedMention ==
  ASSUME NEW t \in Symbols, NEW o, NEW c, NEW n \in Nat, NEW parts \in [1..n -> Symbols],
         NEW g \in 0..1, NEW at, Laid(t, o, parts, n, c, g, at),
         Brackets(o, c), NEW k, Name(k),
         NEW p \in 1..(Len(t) - 2), MentionAt(t, p, k)
  PROVE  \E i \in 1..n : /\ p \in (at[i] + 1)..(at[i] + Len(parts[i]) - 2)
                         /\ p - at[i] \in 1..(Len(parts[i]) - 2) /\ MentionAt(parts[i], p - at[i], k)
<1>1. t[p] = Quote /\ t[p + 1] = k /\ t[p + 2] = Quote
  BY Zenon DEF MentionAt
<1>2. Len(t) \in Nat
  BY Texts, Zenon
<1>3. p # 1
  BY <1>1, NamesDiffer, Zenon DEF Laid
<1>4. p \in 2..(Len(t) - 1)
  BY <1>2, <1>3
<1>5. PICK i \in 1..n : p \in (at[i] + 1)..(at[i] + Len(parts[i]))
  BY <1>1, <1>4, MarksDiffer, Zenon DEF Laid
<1>6. /\ at[i] \in Nat /\ Len(parts[i]) \in Nat /\ At(t, at[i], parts[i])
      /\ Follows(t[at[i] + Len(parts[i]) + 1], c)
  BY LaidNumbers, Zenon
<1>7. p # at[i] + Len(parts[i])
  BY <1>1, <1>6, NamesDiffer, Zenon
<1>8. p # at[i] + Len(parts[i]) - 1
  <2> SUFFICES ASSUME p = at[i] + Len(parts[i]) - 1 PROVE FALSE
    OBVIOUS
  <2>1. p + 2 = at[i] + Len(parts[i]) + 1
    BY <1>6
  <2> QED
    BY <1>1, <1>6, <2>1, NamesDiffer, Zenon
<1>9. p \in (at[i] + 1)..(at[i] + Len(parts[i]) - 2)
  <2>1. at[i] \in Nat /\ Len(parts[i]) \in Nat
    BY <1>6, Zenon
  <2> QED
    BY <1>5, <1>7, <1>8, <2>1, SMTT(30)
<1>10. p - at[i] \in 1..(Len(parts[i]) - 2) /\ MentionAt(parts[i], p - at[i], k)
  BY <1>6, <1>9, MentionInPart, Zenon
<1> QED
  BY <1>9, <1>10, Zenon

\* A name in quotes in a member is its key or lies in its value.
LEMMA PairMention ==
  ASSUME NEW key \in STRING, key # Quote, NEW v \in Symbols, NEW gap \in Gaps,
         NEW k, Name(k),
         NEW p \in 1..(Len(Pair(key, v, gap)) - 2), MentionAt(Pair(key, v, gap), p, k)
  PROVE  (p = 1 /\ key = k) \/ Mentions(v, k)
<1> DEFINE t == Pair(key, v, gap)
           g == Len(gap)
<1>1. t \in Symbols /\ Len(t) = 4 + 2 * g + Len(v) /\ Len(v) \in Nat /\ g \in 0..1
  BY PairPlaces, GapsAreText, Texts, Zenon
<1>2. PairPlaced(t, 0, key, v, g)
  <2>1. At(t, 0, t)
    BY <1>1, Texts, AtWhole, Zenon
  <2>2. 0 \in Int
    OBVIOUS
  <2> QED
    BY <2>1, <2>2, PairPlaces, Zenon
<1>3. t[p] = Quote /\ t[p + 1] = k /\ t[p + 2] = Quote
  BY Zenon DEF MentionAt
<1>4. p \in 1..(Len(t) - 2)
  OBVIOUS
<1> HIDE DEF t, g
<1>5. /\ t[1] = Quote /\ t[2] = key /\ t[3] = Quote /\ t[4 + g] = ":"
      /\ (g = 1 => t[4] = " " /\ t[6] = " ") /\ At(t, 4 + 2 * g, v)
  <2>1. 0 + 1 = 1 /\ 0 + 2 = 2 /\ 0 + 3 = 3 /\ 0 + 4 + g = 4 + g /\ 0 + 4 = 4 /\ 0 + 6 = 6
        /\ 0 + 4 + 2 * g = 4 + 2 * g
    BY <1>1
  <2> QED
    BY <1>2, <2>1, Zenon DEF PairPlaced
<1>6. \/ p = 1 \/ p = 2 \/ p = 3 \/ p = 4 + g \/ (g = 1 /\ p = 4) \/ (g = 1 /\ p = 6)
      \/ p \in (4 + 2 * g + 1)..(4 + 2 * g + Len(v) - 2)
  BY <1>1, <1>4
<1>7. CASE p = 1
  <2>1. p + 1 = 2
    BY <1>7
  <2> QED
    BY <1>3, <1>5, <1>7, <2>1, Zenon
<1>8. p # 2
  BY <1>3, <1>5, Zenon
<1>9. p # 3
  <2> SUFFICES ASSUME p = 3 PROVE FALSE
    OBVIOUS
  <2>1. p + 1 = 4 /\ (g = 0 => 4 + g = 4) /\ (g = 0 \/ g = 1)
    BY <1>1
  <2> QED
    BY <1>3, <1>5, <2>1, NamesDiffer, Zenon
<1>10. p # 4 + g /\ ~(g = 1 /\ p = 4) /\ ~(g = 1 /\ p = 6)
  BY <1>3, <1>5, MarksDiffer, Zenon
<1>11. CASE p \in (4 + 2 * g + 1)..(4 + 2 * g + Len(v) - 2)
  <2> DEFINE y == 4 + 2 * g
  <2>1. y \in Nat
    BY <1>1
  <2>4. p \in (y + 1)..(y + Len(v) - 2) /\ At(t, y, v)
    BY <1>5, <1>11, Zenon
  <2>2. MentionAt(t, p, k)
    BY <1>3, Zenon DEF MentionAt
  <2> HIDE DEF y
  <2>3. p - y \in 1..(Len(v) - 2) /\ MentionAt(v, p - y, k)
    BY <1>1, <2>1, <2>2, <2>4, MentionInPart, Zenon
  <2> QED
    BY <2>3, Zenon DEF Mentions, MentionAt
<1> QED
  BY <1>6, <1>7, <1>8, <1>9, <1>10, <1>11, Zenon

-----------------------------------------------------------------------------
(* Objects. *)

\* The members of an object, in the order in which they are written.
Pairs(members, texts, p, n, gap) == [i \in 1..n |-> Pair(members[p[i]].key, texts[p[i]], gap)]

\* Members and their texts that can be written.
Writable(members, texts, order, n) ==
  /\ n = Len(members) /\ n \in Nat
  /\ \A j \in 1..n : members[j].key \in STRING /\ texts[j] \in Symbols
  /\ order[n] \in [1..n -> 1..n]
  /\ \A i, j \in 1..n : order[n][i] = order[n][j] => i = j
  /\ \A k \in 1..n : \E i \in 1..n : order[n][i] = k

\* The members of an object that can be written lie in its text.
LEMMA ObjectPlaces ==
  ASSUME NEW members, NEW texts, NEW order, NEW n, Writable(members, texts, order, n), NEW gap \in Gaps
  PROVE  /\ ObjectText(members, texts, order, gap) \in Symbols
         /\ Pairs(members, texts, order[n], n, gap) \in [1..n -> Symbols]
         /\ \E at : Laid(ObjectText(members, texts, order, gap), "{",
                         Pairs(members, texts, order[n], n, gap), n, "}", Len(gap), at)
<1> DEFINE t == ObjectText(members, texts, order, gap)
           ps == Pairs(members, texts, order[n], n, gap)
           pair(i) == Pair(members[i].key, texts[i], gap)
<1>1. n \in Nat /\ n = Len(members) /\ order[n] \in [1..n -> 1..n]
  BY Zenon DEF Writable
<1>2. \A i \in 1..n : pair(i) \in Symbols
  BY PairPlaces, Zenon DEF Writable
<1>3. t = Listed(<<"{">>, [i \in 1..n |-> pair(order[n][i])], <<"}">>, gap)
  BY <1>1, Zenon DEF ObjectText, Pair
<1>4. ps = [i \in 1..n |-> pair(order[n][i])]
  BY Zenon DEF Pairs
<1> HIDE DEF pair, t, ps
<1>5. ps \in [1..n -> Symbols]
  <2>1. \A i \in 1..n : pair(order[n][i]) \in Symbols
    BY <1>1, <1>2
  <2> QED
    BY <1>4, <2>1
<1>6. t = Listed(<<"{">>, ps, <<"}">>, gap)
  BY <1>3, <1>4, Zenon
<1>7. \E at : Laid(t, "{", ps, n, "}", Len(gap), at)
  BY <1>1, <1>5, <1>6, Punctuation, ListedPlaces, Zenon
<1>8. t \in Symbols
  <2>1. ps \in Seq(Symbols)
    BY <1>1, <1>5
  <2> QED
    BY <1>6, <2>1, Punctuation, GapsAreText, ListedIsText, Zenon
<1> QED
  BY <1>5, <1>7, <1>8, Zenon DEF t, ps

\* An object by its members: pos[j] is the position before member j.
Value0(pos, j, g) == pos[j] + 4 + 2 * g

ObjectHas(t, members, texts, n, g, pos) ==
  /\ t[1] = "{" /\ t[Len(t)] = "}"
  /\ \A j \in 1..n :
       /\ pos[j] \in Nat \ {0} /\ Value0(pos, j, g) + Len(texts[j]) < Len(t)
       /\ PairPlaced(t, pos[j], members[j].key, texts[j], g)
  /\ \A k : Name(k) => \A p \in 1..(Len(t) - 2) : MentionAt(t, p, k) =>
       \E j \in 1..n : (p = pos[j] + 1 /\ members[j].key = k) \/ Mentions(texts[j], k)
  /\ \A p \in 2..(Len(t) - 1) : \/ t[p] \in {",", " "}
                                \/ \E j \in 1..n : p \in (pos[j] + 1)..(Value0(pos, j, g) + Len(texts[j]))

\* The same, by member and not by place.
LEMMA ObjectParts ==
  ASSUME NEW members, NEW texts, NEW order, NEW n, Writable(members, texts, order, n), NEW gap \in Gaps,
         \A j \in 1..n : members[j].key # Quote
  PROVE  \E pos : ObjectHas(ObjectText(members, texts, order, gap), members, texts, n, Len(gap), pos)
<1> DEFINE t == ObjectText(members, texts, order, gap)
           ps == Pairs(members, texts, order[n], n, gap)
           g == Len(gap)
           o == order[n]
<1>1. /\ n \in Nat /\ o \in [1..n -> 1..n] /\ \A k \in 1..n : \E i \in 1..n : o[i] = k
      /\ \A i, j \in 1..n : o[i] = o[j] => i = j
      /\ \A j \in 1..n : members[j].key \in STRING /\ texts[j] \in Symbols
  BY Zenon DEF Writable
<1>2. t \in Symbols /\ ps \in [1..n -> Symbols]
  BY ObjectPlaces, Zenon
<1>3. PICK at : Laid(t, "{", ps, n, "}", g, at)
  BY ObjectPlaces, Zenon
<1>4. \A i \in 1..n : ps[i] = Pair(members[o[i]].key, texts[o[i]], gap)
  BY DEF Pairs
<1>5. g \in 0..1
  BY GapsAreText, Zenon
<1> HIDE DEF t, ps, g
<1>6. \A i \in 1..n : o[i] \in 1..n
  BY <1>1
<1>7. \A i \in 1..n : Len(ps[i]) = 4 + 2 * g + Len(texts[o[i]])
  <2> TAKE i \in 1..n
  <2>1. members[o[i]].key \in STRING /\ texts[o[i]] \in Symbols
    BY <1>1, <1>6, Zenon
  <2>2. Len(Pair(members[o[i]].key, texts[o[i]], gap)) = 4 + 2 * Len(gap) + Len(texts[o[i]])
    BY <2>1, PairPlaces, Zenon
  <2> QED
    BY <1>4, <2>2, Zenon DEF g
<1>8. \A i \in 1..n : \A x \in Int : \A b : At(b, x, ps[i]) => PairPlaced(b, x, members[o[i]].key, texts[o[i]], g)
  BY <1>1, <1>4, <1>6, PairPlaces, ZenonT(40) DEF g
<1>9. \A i \in 1..n : at[i] \in Nat /\ 1 <= at[i] /\ at[i] + Len(ps[i]) < Len(t) /\ At(t, at[i], ps[i])
  BY <1>1, <1>2, <1>3, <1>5, LaidNumbers, Zenon
<1> DEFINE inv == [k \in 1..n |-> CHOOSE i \in 1..n : o[i] = k]
           pos == [k \in 1..n |-> at[inv[k]]]
<1>10. \A k \in 1..n : inv[k] \in 1..n /\ o[inv[k]] = k
  <2> TAKE k \in 1..n
  <2>1. inv[k] = CHOOSE i \in 1..n : o[i] = k
    OBVIOUS
  <2> QED
    BY <1>1, <2>1, Zenon
<1>11. \A j \in 1..n : Len(texts[j]) \in Nat
  BY <1>1, Texts, Zenon
<1> HIDE DEF inv, o
<1>12. \A k \in 1..n : pos[k] = at[inv[k]]
  OBVIOUS
<1> HIDE DEF pos
<1>18. \A i \in 1..n : pos[o[i]] = at[i] /\ o[i] \in 1..n
  <2> TAKE i \in 1..n
  <2>1. inv[o[i]] = i
    BY <1>1, <1>6, <1>10, ZenonT(40)
  <2> QED
    BY <1>6, <1>12, <2>1, Zenon
<1>13. ASSUME NEW j \in 1..n
       PROVE  /\ pos[j] \in Nat \ {0} /\ Value0(pos, j, g) + Len(texts[j]) < Len(t)
              /\ PairPlaced(t, pos[j], members[j].key, texts[j], g)
  <2> DEFINE i == inv[j]
  <2>1. i \in 1..n /\ o[i] = j /\ pos[j] = at[i]
    BY <1>10, <1>12, Zenon
  <2> HIDE DEF i
  <2>2. Len(ps[i]) = 4 + 2 * g + Len(texts[j])
    BY <1>7, <2>1, Zenon
  <2>3. at[i] \in Nat /\ 1 <= at[i] /\ at[i] + Len(ps[i]) < Len(t)
    BY <1>9, <2>1, Zenon
  <2>4. At(t, at[i], ps[i]) /\ at[i] \in Int
    BY <1>9, <2>1
  <2>5. PairPlaced(t, at[i], members[j].key, texts[j], g)
    BY <1>8, <2>1, <2>4, Zenon
  <2>6. Len(texts[j]) \in Nat
    BY <1>11
  <2>7. at[i] \in Nat \ {0} /\ at[i] + 4 + 2 * g + Len(texts[j]) < Len(t)
    <3>1. Len(t) \in Nat
      BY <1>2, Texts, Zenon
    <3> DEFINE a == at[i]
               l == Len(ps[i])
               v == Len(texts[j])
               z == Len(t)
    <3>2. l = 4 + 2 * g + v /\ a \in Nat /\ 1 <= a /\ a + l < z /\ v \in Nat /\ z \in Nat
      BY <2>2, <2>3, <2>6, <3>1, Zenon
    <3> HIDE DEF a, l, v, z
    <3>3. a \in Nat \ {0} /\ a + 4 + 2 * g + v < z
      BY <1>5, <3>2
    <3> QED
      BY <3>3, Zenon DEF a, v, z
  <2> QED
    BY <2>1, <2>5, <2>7, Zenon DEF Value0
<1>14. ASSUME NEW k, Name(k), NEW p \in 1..(Len(t) - 2), MentionAt(t, p, k)
       PROVE  \E j \in 1..n : (p = pos[j] + 1 /\ members[j].key = k) \/ Mentions(texts[j], k)
  <2>1. Brackets("{", "}")
    BY Zenon DEF Brackets
  <2>2. PICK i \in 1..n : /\ p \in (at[i] + 1)..(at[i] + Len(ps[i]) - 2)
                          /\ p - at[i] \in 1..(Len(ps[i]) - 2) /\ MentionAt(ps[i], p - at[i], k)
    BY <1>1, <1>2, <1>3, <1>5, <1>14, <2>1, ListedMention, Zenon
  <2>3. (p - at[i] = 1 /\ members[o[i]].key = k) \/ Mentions(texts[o[i]], k)
    <3>1. members[o[i]].key \in STRING /\ members[o[i]].key # Quote /\ texts[o[i]] \in Symbols
      BY <1>1, <1>6, Zenon
    <3> DEFINE r == p - at[i]
               P == Pair(members[o[i]].key, texts[o[i]], gap)
    <3>2. r \in 1..(Len(P) - 2) /\ MentionAt(P, r, k)
      BY <1>4, <2>2, Zenon
    <3> HIDE DEF r
    <3>3. (r = 1 /\ members[o[i]].key = k) \/ Mentions(texts[o[i]], k)
      BY <1>14, <3>1, <3>2, PairMention, Zenon
    <3> QED
      BY <3>3, Zenon DEF r
  <2>5. at[i] \in Nat /\ (p - at[i] = 1 => p = at[i] + 1)
    <3>1. at[i] \in Nat
      BY <1>9, Zenon
    <3> HIDE DEF MentionAt, Name
    <3> QED
      BY <3>1
  <2> QED
    BY <1>6, <1>18, <2>3, <2>5, Zenon
<1>15. ASSUME NEW p \in 2..(Len(t) - 1)
       PROVE  \/ t[p] \in {",", " "}
              \/ \E j \in 1..n : p \in (pos[j] + 1)..(Value0(pos, j, g) + Len(texts[j]))
  <2>1. \/ t[p] \in {",", " "}
        \/ \E i \in 1..n : p \in (at[i] + 1)..(at[i] + Len(ps[i]))
    BY <1>3, <1>15, Zenon DEF Laid
  <2>2. ASSUME NEW i \in 1..n
        PROVE  /\ pos[o[i]] = at[i] /\ o[i] \in 1..n
               /\ Value0(pos, o[i], g) + Len(texts[o[i]]) = at[i] + Len(ps[i])
    <3>1. pos[o[i]] = at[i] /\ o[i] \in 1..n
      BY <1>18, Zenon
    <3>2. Len(ps[i]) = 4 + 2 * g + Len(texts[o[i]]) /\ Len(texts[o[i]]) \in Nat /\ at[i] \in Nat
      BY <1>6, <1>7, <1>9, <1>11, Zenon
    <3> DEFINE a == at[i]
               v == Len(texts[o[i]])
    <3>3. v \in Nat /\ a \in Nat
      BY <3>2, Zenon
    <3> HIDE DEF a, v
    <3>4. a + 4 + 2 * g + v = a + (4 + 2 * g + v)
      BY <1>5, <3>3
    <3> QED
      BY <3>1, <3>2, <3>4, Zenon DEF Value0, a, v
  <2> QED
    BY <2>1, <2>2, Zenon
<1>16. t[1] = "{" /\ t[Len(t)] = "}"
  BY <1>3, Zenon DEF Laid
<1>17. ObjectHas(t, members, texts, n, g, pos)
  BY <1>13, <1>14, <1>15, <1>16, Zenon DEF ObjectHas
<1> QED
  BY <1>17, Zenon DEF t, g

-----------------------------------------------------------------------------
(* The members of objects that are inside of a request. *)

\* The names that Build searches.
LEMMA NamesAre ==
  /\ ObjectNames = {"transaction", "customer", "merchant", "terminal", "last_transaction"}
  /\ FieldNames = {"amount", "installments", "requested_at", "avg_amount", "tx_count_24h", "id", "mcc",
                   "is_online", "card_present", "km_from_home", "timestamp", "km_from_current",
                   "known_merchants"}
<1>1. {Objects[i] : i \in 1..Len(Objects)} = {"transaction", "customer", "merchant", "terminal"}
  BY DEF Objects
<1>2. {Fields[i].key : i \in 1..Len(Fields)} =
        {"amount", "installments", "requested_at", "avg_amount", "tx_count_24h", "id", "mcc",
         "is_online", "card_present", "km_from_home"}
  BY DEF Fields, Field
<1>3. {LastFields[i].key : i \in 1..Len(LastFields)} = {"timestamp", "km_from_current"}
  BY DEF LastFields, Field
<1>4. ObjectNames = {"transaction", "customer", "merchant", "terminal", "last_transaction"}
  BY <1>1 DEF ObjectNames
<1>5. FieldNames = {"amount", "installments", "requested_at", "avg_amount", "tx_count_24h", "id", "mcc",
                   "is_online", "card_present", "km_from_home", "timestamp", "km_from_current",
                   "known_merchants"}
  BY <1>2, <1>3 DEF FieldNames
<1> QED
  BY <1>4, <1>5

\* They are no punctuation marks.
LEMMA NamesAreNames ==
  ASSUME NEW k \in ObjectNames \cup FieldNames
  PROVE  Name(k)
BY NamesAre, Zenon DEF Name, Marks, Quote, Backslash

\* The kinds of plain members.
StringsOf(m) == [i \in 1..Len(m.val) |-> String(m.val[i])]

\* What the provers need of a plain member, by its kind.
LEMMA Kinds ==
  ASSUME NEW m \in Plain, NEW gap
  PROVE  /\ m.key \in STRING /\ m.kind \in {"lit", "str", "arr"} /\ m.kind # "obj"
         /\ m.kind = "lit" => m.val \in Symbols /\ PlainText(m, gap) = m.val
         /\ m.kind = "str" => /\ m.val \in Symbols /\ PlainText(m, gap) = String(m.val)
                              /\ Strings(m) = {m.val}
         /\ m.kind = "arr" => /\ \A i \in 1..Len(m.val) : m.val[i] \in Symbols
                              /\ Len(m.val) \in Nat
                              /\ PlainText(m, gap) = Listed(<<"[">>, StringsOf(m), <<"]">>, gap)
                              /\ Strings(m) = {m.val[i] : i \in 1..Len(m.val)}
<1>1. CASE m \in [key : STRING, kind : {"lit", "str"}, val : Seq(STRING)]
  <2>1. m.key \in STRING /\ m.kind \in {"lit", "str"} /\ m.val \in Seq(STRING)
    BY <1>1
  <2>2. m.val \in Symbols
    BY <2>1, WordsAreText
  <2>3. m.kind = "lit" => PlainText(m, gap) = m.val
    BY Zenon DEF PlainText
  <2>4. m.kind = "str" => PlainText(m, gap) = String(m.val) /\ Strings(m) = {m.val}
    BY Zenon DEF PlainText, Strings
  <2> QED
    BY <2>1, <2>2, <2>3, <2>4, Zenon
<1>2. CASE m \in [key : STRING, kind : {"arr"}, val : Seq(Seq(STRING))]
  <2>1. m.key \in STRING /\ m.kind = "arr" /\ m.val \in Seq(Seq(STRING))
    BY <1>2
  <2>2. Len(m.val) \in Nat /\ \A i \in 1..Len(m.val) : m.val[i] \in Symbols
    BY <2>1, WordsAreText
  <2>3. PlainText(m, gap) = Listed(<<"[">>, StringsOf(m), <<"]">>, gap)
    BY <2>1, Zenon DEF PlainText, StringsOf
  <2>4. Strings(m) = {m.val[i] : i \in 1..Len(m.val)}
    BY <2>1, Zenon DEF Strings
  <2> QED
    BY <2>1, <2>2, <2>3, <2>4, Zenon
<1> QED
  BY <1>1, <1>2, Zenon DEF Plain

\* Where the strings of a list are.
LEMMA ArrayPlaces ==
  ASSUME NEW m \in Plain, m.kind = "arr", NEW gap \in Gaps
  PROVE  /\ Len(m.val) \in Nat /\ StringsOf(m) \in [1..Len(m.val) -> Symbols]
         /\ \A i \in 1..Len(m.val) : StringsOf(m)[i] = String(m.val[i]) /\ m.val[i] \in Symbols
         /\ PlainText(m, gap) \in Symbols
         /\ \E at : Laid(PlainText(m, gap), "[", StringsOf(m), Len(m.val), "]", Len(gap), at)
<1> DEFINE n == Len(m.val)
           ss == StringsOf(m)
<1>1. /\ n \in Nat /\ \A i \in 1..n : m.val[i] \in Symbols
      /\ PlainText(m, gap) = Listed(<<"[">>, ss, <<"]">>, gap)
  BY Kinds, Zenon
<1>2. \A i \in 1..n : String(m.val[i]) \in Symbols
  BY <1>1, StringIsText
<1>3. ss \in [1..n -> Symbols] /\ \A i \in 1..n : ss[i] = String(m.val[i])
  BY <1>2 DEF StringsOf
<1> HIDE DEF ss
<1>4. \E at : Laid(PlainText(m, gap), "[", ss, n, "]", Len(gap), at)
  BY <1>1, <1>3, Punctuation, ListedPlaces, Zenon
<1>5. PlainText(m, gap) \in Symbols
  BY GapsAreText, PlainTextIsText, Zenon
<1> QED
  BY <1>1, <1>3, <1>4, <1>5, Zenon DEF ss

\* How the text of a plain member begins.
LEMMA PlainBegins ==
  ASSUME NEW m \in Plain, Clear(m), NEW gap \in Gaps
  PROVE  /\ PlainText(m, gap) \in Symbols /\ Len(PlainText(m, gap)) >= 1
         /\ m.kind = "lit" => /\ PlainText(m, gap)[1] = m.val[1] /\ m.val[1] \notin Marks
                              /\ Len(m.val) = 1 /\ m.val \in Symbols
         /\ m.kind = "str" => PlainText(m, gap)[1] = Quote
         /\ m.kind = "arr" => PlainText(m, gap)[1] = "["
<1> DEFINE t == PlainText(m, gap)
<1>1. t \in Symbols /\ Len(t) \in Nat
  BY GapsAreText, PlainTextIsText, Texts, Zenon
<1>2. m.kind \in {"lit", "str", "arr"}
  BY Kinds, Zenon
<1>3. CASE m.kind = "lit"
  <2>1. t = m.val /\ Len(m.val) = 1 /\ m.val[1] \notin Marks /\ m.val \in Symbols
    BY <1>3, Kinds, Zenon DEF Clear
  <2>2. 1 >= 1
    OBVIOUS
  <2> QED
    BY <1>1, <1>3, <2>1, <2>2, Zenon
<1>4. CASE m.kind = "str"
  <2>1. t = String(m.val) /\ m.val \in Symbols
    BY <1>4, Kinds, Zenon
  <2>2. Len(t) = Len(m.val) + 2 /\ Len(m.val) \in Nat
    BY <2>1, StringPlaces, Texts, Zenon
  <2>3. At(t, 0, t)
    BY <1>1, AtWhole, Zenon
  <2>4. 0 \in Int /\ 0 + 1 = 1
    OBVIOUS
  <2>5. t[0 + 1] = Quote
    BY <2>1, <2>3, <2>4, StringPlaces, Zenon
  <2> HIDE DEF t
  <2>6. Len(t) >= 1
    BY <2>2
  <2> QED
    BY <1>1, <1>4, <2>4, <2>5, <2>6, Zenon DEF t
<1>5. CASE m.kind = "arr"
  <2> DEFINE n == Len(m.val)
             ss == StringsOf(m)
             g == Len(gap)
  <2>1. PICK at : Laid(t, "[", ss, n, "]", g, at)
    BY <1>5, ArrayPlaces, Zenon
  <2>2. t[1] = "["
    BY <2>1, Zenon DEF Laid
  <2>3. n \in Nat /\ ss \in [1..n -> Symbols] /\ g \in 0..1
    BY <1>5, ArrayPlaces, GapsAreText, Zenon
  <2>4. Len(t) >= 1
    <3>1. CASE n = 0
      <4>1. Len(t) = 2 + g
        BY <2>1, <3>1, Zenon DEF Laid
      <4> HIDE DEF t, n, g, ss
      <4> QED
        BY <2>3, <4>1
    <3>2. CASE n # 0
      <4>1. n \in 1..n
        <5> HIDE DEF n
        <5> QED
          BY <2>3, <3>2
      <4>2. at[n] \in Nat /\ Len(ss[n]) \in Nat /\ at[n] + Len(ss[n]) < Len(t)
        BY <1>1, <2>1, <2>3, <4>1, LaidNumbers, Zenon
      <4> HIDE DEF t, n, g, ss
      <4> QED
        BY <1>1, <4>2
    <3> QED
      BY <3>1, <3>2, Zenon
  <2> QED
    BY <1>1, <1>5, <2>2, <2>4, Zenon
<1> QED
  BY <1>2, <1>3, <1>4, <1>5, Zenon

\* A clear value mentions none of the names.
LEMMA PlainMentions ==
  ASSUME NEW m \in Plain, Clear(m), NEW gap \in Gaps, NEW k \in ObjectNames \cup FieldNames
  PROVE  ~Mentions(PlainText(m, gap), k)
<1> SUFFICES ASSUME Mentions(PlainText(m, gap), k) PROVE FALSE
  OBVIOUS
<1> DEFINE t == PlainText(m, gap)
<1>1. t \in Symbols /\ Len(t) \in Nat
  BY GapsAreText, PlainTextIsText, Texts, Zenon
<1>2. PICK p \in 1..(Len(t) - 2) : MentionAt(t, p, k)
  BY Zenon DEF Mentions, MentionAt
<1>3. \A s \in Strings(m) : ~Mentions(String(s), k)
  BY Zenon DEF Clear
<1>4. m.kind \in {"lit", "str", "arr"}
  BY Kinds, Zenon
<1>5. CASE m.kind = "lit"
  <2>1. Len(t) = 1
    BY <1>5, Kinds, Zenon DEF Clear
  <2> HIDE DEF t
  <2>2. 1..(1 - 2) = {}
    OBVIOUS
  <2> QED
    BY <1>2, <2>1, <2>2, Zenon
<1>6. CASE m.kind = "str"
  <2>1. t = String(m.val) /\ m.val \in Strings(m)
    BY <1>6, Kinds, Zenon
  <2> QED
    BY <1>3, <2>1, Zenon
<1>7. CASE m.kind = "arr"
  <2> DEFINE n == Len(m.val)
             ss == StringsOf(m)
             g == Len(gap)
  <2>1. PICK at : Laid(t, "[", ss, n, "]", g, at)
    BY <1>7, ArrayPlaces, Zenon
  <2>2. n \in Nat /\ ss \in [1..n -> Symbols] /\ g \in 0..1
    BY <1>7, ArrayPlaces, GapsAreText, Zenon
  <2>3. Name(k) /\ Brackets("[", "]")
    BY NamesAreNames, Zenon DEF Brackets
  <2>4. PICK i \in 1..n : /\ p \in (at[i] + 1)..(at[i] + Len(ss[i]) - 2)
                          /\ p - at[i] \in 1..(Len(ss[i]) - 2) /\ MentionAt(ss[i], p - at[i], k)
    BY <1>1, <1>2, <2>1, <2>2, <2>3, ListedMention, Zenon
  <2>5. Mentions(ss[i], k)
    BY <2>4, Zenon DEF Mentions, MentionAt
  <2>6. ss[i] = String(m.val[i]) /\ m.val[i] \in Strings(m)
    <3>1. ss[i] = String(m.val[i])
      BY <1>7, ArrayPlaces, Zenon
    <3>2. Strings(m) = {m.val[j] : j \in 1..n}
      BY <1>7, Kinds, Zenon
    <3> QED
      BY <3>1, <3>2, Zenon
  <2> QED
    BY <1>3, <2>5, <2>6, Zenon
<1> QED
  BY <1>4, <1>5, <1>6, <1>7, Zenon

-----------------------------------------------------------------------------
(* In the objects of a legible request the names are keys. *)

\* What holds of the objects of a request: their members have keys and texts,
\* they can be written, and no value mentions one of the names in K.
Sayable(members, texts, order, n, K) ==
  /\ Writable(members, texts, order, n)
  /\ \A j \in 1..n : /\ members[j].key # Quote
                     /\ \A k \in K : ~Mentions(texts[j], k)

\* A name is mentioned in an object where it is the key of a member.
LEMMA NamesAreKeys ==
  ASSUME NEW members, NEW texts, NEW order, NEW n, NEW K, K \subseteq ObjectNames \cup FieldNames,
         Sayable(members, texts, order, n, K), NEW t, NEW g, NEW pos, ObjectHas(t, members, texts, n, g, pos)
  PROVE  \A k \in K : \A p \in 1..(Len(t) - 2) : MentionAt(t, p, k) =>
           \E j \in 1..n : p = pos[j] + 1 /\ members[j].key = k
<1> SUFFICES ASSUME NEW k \in K, NEW p \in 1..(Len(t) - 2), MentionAt(t, p, k)
             PROVE  \E j \in 1..n : p = pos[j] + 1 /\ members[j].key = k
  BY Zenon
<1>1. Name(k)
  BY NamesAreNames, Zenon
<1>2. PICK j \in 1..n : (p = pos[j] + 1 /\ members[j].key = k) \/ Mentions(texts[j], k)
  BY <1>1, Zenon DEF ObjectHas
<1>3. ~Mentions(texts[j], k)
  BY Zenon DEF Sayable
<1> QED
  BY <1>2, <1>3, Zenon

InnerTexts(inner, gap) == [i \in 1..Len(inner) |-> PlainText(inner[i], gap)]

\* The names that are searched in an object inside another one are its keys.
LEMMA InnerSays ==
  ASSUME NEW inner \in Seq(Plain), Inside(inner), Orderly(Len(inner)), NEW o \in Orders, NEW gap \in Gaps
  PROVE  Sayable(inner, InnerTexts(inner, gap), o, Len(inner), ObjectNames \cup FieldNames)
<1> DEFINE n == Len(inner)
           texts == InnerTexts(inner, gap)
           K == ObjectNames \cup FieldNames
<1>1. n \in Nat /\ \A j \in 1..n : inner[j] \in Plain
  OBVIOUS
<1>2. \A j \in 1..n : texts[j] = PlainText(inner[j], gap)
  BY DEF InnerTexts
<1> HIDE DEF texts, n, K
<1>3. \A j \in 1..n : Clear(inner[j]) /\ inner[j].key # Quote
  BY Zenon DEF Inside, Keyed, n
<1>4. \A j \in 1..n : inner[j].key \in STRING /\ texts[j] \in Symbols
  BY <1>1, <1>2, <1>3, Kinds, PlainBegins, Zenon
<1>5. \A j \in 1..n : \A k \in K : ~Mentions(texts[j], k)
  BY <1>1, <1>2, <1>3, PlainMentions, Zenon DEF K
<1>6. Writable(inner, texts, o, n)
  BY <1>1, <1>4, OrdersPermute, Zenon DEF Writable, n
<1>7. Sayable(inner, texts, o, n, K)
  BY <1>3, <1>5, <1>6, Zenon DEF Sayable
<1> QED
  BY <1>7, Zenon DEF texts, n, K

\* The text of an object inside, from its brace on, mentions no outer name.
LEMMA InnerText ==
  ASSUME NEW inner \in Seq(Plain), Inside(inner), Orderly(Len(inner)), NEW o \in Orders, NEW gap \in Gaps
  PROVE  LET t == ObjectText(inner, InnerTexts(inner, gap), o, gap)
         IN  /\ t \in Symbols /\ t[1] = "{" /\ Len(t) >= 1
             /\ \A k \in ObjectNames : ~Mentions(t, k)
<1> DEFINE n == Len(inner)
           texts == InnerTexts(inner, gap)
           t == ObjectText(inner, texts, o, gap)
           K == ObjectNames \cup FieldNames
<1>1. Sayable(inner, texts, o, n, K)
  BY InnerSays, Zenon
<1>2. Writable(inner, texts, o, n) /\ \A j \in 1..n : inner[j].key # Quote
  BY <1>1, Zenon DEF Sayable
<1>3. t \in Symbols /\ \E at : Laid(t, "{", Pairs(inner, texts, o[n], n, gap), n, "}", Len(gap), at)
  BY <1>2, ObjectPlaces, Zenon
<1>4. PICK pos : ObjectHas(t, inner, texts, n, Len(gap), pos)
  BY <1>2, ObjectParts, Zenon
<1>5. ASSUME NEW k \in ObjectNames, Mentions(t, k)
      PROVE  FALSE
  <2>1. PICK p \in 1..(Len(t) - 2) : MentionAt(t, p, k)
    BY <1>5, Zenon DEF Mentions, MentionAt
  <2>2. k \in K /\ K \subseteq ObjectNames \cup FieldNames
    BY Zenon
  <2>3. PICK j \in 1..n : p = pos[j] + 1 /\ inner[j].key = k
    <3> HIDE DEF n, texts, K, t
    <3>1. \A y \in K : \A z \in 1..(Len(t) - 2) : MentionAt(t, z, y) =>
            \E j \in 1..n : z = pos[j] + 1 /\ inner[j].key = y
      BY <1>1, <1>4, <2>2, NamesAreKeys
    <3> QED
      BY <2>1, <2>2, <3>1, Zenon
  <2> QED
    BY <2>3, Zenon DEF Inside
<1>6. t[1] = "{"
  BY <1>4, Zenon DEF ObjectHas
<1>7. Len(t) >= 1
  <2>1. PICK at : Laid(t, "{", Pairs(inner, texts, o[n], n, gap), n, "}", Len(gap), at)
    BY <1>3, Zenon
  <2>2. Len(gap) \in 0..1 /\ n \in Nat /\ Pairs(inner, texts, o[n], n, gap) \in [1..n -> Symbols]
    BY <1>2, GapsAreText, ObjectPlaces, Zenon DEF Writable
  <2>3. Len(t) \in Nat
    BY <1>3, Texts, Zenon
  <2>4. CASE n = 0
    <3>1. Len(t) = 2 + Len(gap)
      BY <2>1, <2>4, Zenon DEF Laid
    <3> HIDE DEF t
    <3> QED
      BY <2>2, <3>1
  <2>5. CASE n # 0
    <3> DEFINE ps == Pairs(inner, texts, o[n], n, gap)
    <3>1. n \in 1..n
      BY <2>2, <2>5
    <3>2. at[n] \in Nat /\ Len(ps[n]) \in Nat /\ at[n] + Len(ps[n]) < Len(t)
      BY <1>3, <2>1, <2>2, <3>1, LaidNumbers, Zenon
    <3> HIDE DEF t, ps
    <3> QED
      BY <2>3, <3>2
  <2> QED
    BY <2>4, <2>5, Zenon
<1> QED
  BY <1>3, <1>5, <1>6, <1>7, Zenon

\* The names of the objects are the keys of the request itself.
OuterTexts(members, o, gap) == [i \in 1..Len(members) |-> ValueText(members[i], o, gap)]

\* A member of a request and its text.
LEMMA ValueBegins ==
  ASSUME NEW m \in Members, NEW o \in Orders, NEW gap \in Gaps,
         m.kind = "obj" => Orderly(Len(m.val)),
         IF m.kind = "obj" THEN Inside(m.val) ELSE Clear(m)
  PROVE  /\ m.key \in STRING /\ ValueText(m, o, gap) \in Symbols /\ Len(ValueText(m, o, gap)) >= 1
         /\ (ValueText(m, o, gap)[1] = "{") <=> (m.kind = "obj")
         /\ ValueText(m, o, gap)[1] # " "
         /\ \A k \in ObjectNames : ~Mentions(ValueText(m, o, gap), k)
         /\ m.kind = "obj" => /\ m.val \in Seq(Plain)
                              /\ ValueText(m, o, gap) = ObjectText(m.val, InnerTexts(m.val, gap), o, gap)
<1> DEFINE t == ValueText(m, o, gap)
<1>1. CASE m \in Plain
  <2>1. m.key \in STRING /\ m.kind \in {"lit", "str", "arr"} /\ m.kind # "obj"
    BY <1>1, Kinds, Zenon
  <2>2. t = PlainText(m, gap) /\ Clear(m)
    BY <2>1, Zenon DEF ValueText
  <2>3. t \in Symbols /\ Len(t) >= 1
    BY <1>1, <2>2, PlainBegins, Zenon
  <2>4. t[1] # "{" /\ t[1] # " "
    <3>1. m.kind = "lit" => t[1] \notin Marks
      BY <1>1, <2>2, PlainBegins, Zenon
    <3>2. m.kind = "str" => t[1] = Quote
      BY <1>1, <2>2, PlainBegins, Zenon
    <3>3. m.kind = "arr" => t[1] = "["
      BY <1>1, <2>2, PlainBegins, Zenon
    <3> QED
      BY <2>1, <3>1, <3>2, <3>3, MarksDiffer, Zenon DEF Marks
  <2>5. \A k \in ObjectNames : ~Mentions(t, k)
    BY <1>1, <2>2, PlainMentions, Zenon
  <2> QED
    BY <2>1, <2>3, <2>4, <2>5, Zenon
<1>2. CASE m \in [key : STRING, kind : {"obj"}, val : Seq(Plain)]
  <2>1. m.key \in STRING /\ m.kind = "obj" /\ m.val \in Seq(Plain)
    BY <1>2
  <2>2. t = ObjectText(m.val, InnerTexts(m.val, gap), o, gap)
    BY <2>1, Zenon DEF ValueText, InnerTexts
  <2>3. Inside(m.val) /\ Orderly(Len(m.val))
    BY <2>1, Zenon
  <2>4. t \in Symbols /\ t[1] = "{" /\ Len(t) >= 1 /\ \A k \in ObjectNames : ~Mentions(t, k)
    BY <2>1, <2>2, <2>3, InnerText, Zenon
  <2> QED
    BY <2>1, <2>2, <2>4, Zenon
<1> QED
  BY <1>1, <1>2, Zenon DEF Members

\* The request itself can be written, and no value mentions an object's name.
LEMMA OuterSays ==
  ASSUME NEW r \in 1..Len(Requests), Legible(Requests[r]), NEW o \in Orders, NEW gap \in Gaps
  PROVE  Sayable(Requests[r], OuterTexts(Requests[r], o, gap), o, Len(Requests[r]), ObjectNames)
<1> DEFINE ms == Requests[r]
           n == Len(ms)
           texts == OuterTexts(ms, o, gap)
<1>1. Orderly(n) /\ \A i \in 1..n : ms[i].kind = "obj" => Orderly(Len(ms[i].val))
  BY RequestsAssumption, Zenon
<1>9. ms \in Seq(Members)
  BY RequestsAssumption
<1>2. n \in Nat /\ \A i \in 1..n : ms[i] \in Members
  BY <1>9
<1>3. \A i \in 1..n : texts[i] = ValueText(ms[i], o, gap)
  BY DEF OuterTexts
<1>4. \A i \in 1..n : IF ms[i].kind = "obj" THEN Inside(ms[i].val) ELSE Clear(ms[i])
  BY Zenon DEF Legible
<1> HIDE DEF texts
<1>5. \A i \in 1..n : ms[i].key \in STRING /\ texts[i] \in Symbols /\ \A k \in ObjectNames : ~Mentions(texts[i], k)
  <2> TAKE i \in 1..n
  <2>1. ms[i] \in Members /\ (ms[i].kind = "obj" => Orderly(Len(ms[i].val)))
        /\ IF ms[i].kind = "obj" THEN Inside(ms[i].val) ELSE Clear(ms[i])
    BY <1>1, <1>2, <1>4, Zenon
  <2> DEFINE m == ms[i]
  <2> HIDE DEF m
  <2>2. /\ m.key \in STRING /\ ValueText(m, o, gap) \in Symbols
        /\ \A k \in ObjectNames : ~Mentions(ValueText(m, o, gap), k)
    <3>1. m \in Members /\ (m.kind = "obj" => Orderly(Len(m.val)))
          /\ IF m.kind = "obj" THEN Inside(m.val) ELSE Clear(m)
      BY <2>1, Zenon DEF m
    <3> QED
      BY <3>1, ValueBegins, Zenon
  <2> QED
    BY <1>3, <2>2, Zenon DEF m
<1>6. \A i \in 1..n : ms[i].key # Quote
  BY Zenon DEF Legible, Keyed
<1>7. Writable(ms, texts, o, n)
  BY <1>1, <1>2, <1>5, OrdersPermute, Zenon DEF Writable
<1>8. Sayable(ms, texts, o, n, ObjectNames)
  BY <1>5, <1>6, <1>7, Zenon DEF Sayable
<1> QED
  BY <1>8, Zenon DEF texts

-----------------------------------------------------------------------------
(* What the scanner finds: first occurrences, keys and values. *)

\* The least of a set of positions.
LEMMA FirstOfIs ==
  ASSUME NEW S \in SUBSET Nat, NEW x \in S, \A y \in S : x <= y
  PROVE  FirstOf(S) = x
<1>1. S # {}
  OBVIOUS
<1>2. FirstOf(S) = CHOOSE p \in S : \A r \in S : p <= r
  BY <1>1, Zenon DEF FirstOf
<1>3. FirstOf(S) \in S /\ \A r \in S : FirstOf(S) <= r
  BY <1>2, Zenon
<1>4. FirstOf(S) <= x /\ x <= FirstOf(S) /\ x \in Nat /\ FirstOf(S) \in Nat
  BY <1>3
<1> QED
  BY <1>4

\* From start on, c is first at x.
FirstAt(b, start, x, c) == b[x] = c /\ \A y \in start..(x - 1) : b[y] # c

\* The first occurrence of a symbol.
LEMMA IndexFromIs ==
  ASSUME NEW b, NEW start \in Nat, NEW end \in Nat, NEW c, NEW x \in start..(end - 1),
         FirstAt(b, start, x, c)
  PROVE  IndexFrom(b, start, end, c) = x
<1> DEFINE S == {p \in start..(end - 1) : b[p] = c}
<1>1. S \in SUBSET Nat /\ x \in S
  BY DEF FirstAt
<1>2. ASSUME NEW y \in S PROVE x <= y
  <2>1. y \in start..(end - 1) /\ b[y] = c
    OBVIOUS
  <2>2. y \notin start..(x - 1)
    BY <2>1, Zenon DEF FirstAt
  <2> QED
    BY <2>1, <2>2
<1>3. IndexFrom(b, start, end, c) = FirstOf(S)
  BY Zenon DEF IndexFrom
<1> HIDE DEF S
<1> QED
  BY <1>1, <1>2, <1>3, FirstOfIs, Zenon

\* (A name for what the provers cannot read.)
IsSpace(c) == c = " "

\* The first symbol that is no space.
LEMMA SkipWSIs ==
  ASSUME NEW b, NEW start \in Nat \ {0}, NEW end \in Nat, NEW x \in start..(end - 1), ~IsSpace(b[x]),
         \A y \in start..(x - 1) : IsSpace(b[y])
  PROVE  SkipWS(b, start, end) = x
<1> DEFINE S == {p \in start..(end - 1) : ~IsSpace(b[p])}
<1>1. S \in SUBSET Nat /\ x \in S
  OBVIOUS
<1>2. ASSUME NEW y \in S PROVE x <= y
  <2>1. y \in start..(end - 1) /\ ~IsSpace(b[y])
    BY <1>2, Zenon
  <2>2. y \notin start..(x - 1)
    BY <2>1, Zenon
  <2> QED
    BY <2>1, <2>2
<1>3. SkipWS(b, start, end) = IF FirstOf(S) = 0 THEN end ELSE FirstOf(S)
  BY Zenon DEF SkipWS, IsSpace
<1> HIDE DEF S
<1>4. FirstOf(S) = x
  BY <1>1, <1>2, FirstOfIs, Zenon
<1>5. x # 0
  OBVIOUS
<1> QED
  BY <1>3, <1>4, <1>5, Zenon

\* A member lies in what its object lies in.
LEMMA PairShift ==
  ASSUME NEW b, NEW x \in Nat, NEW t \in Symbols, At(b, x, t), NEW y \in Nat, NEW key,
         NEW v \in Symbols, NEW g \in 0..1, y + 4 + 2 * g + Len(v) <= Len(t), PairPlaced(t, y, key, v, g)
  PROVE  PairPlaced(b, x + y, key, v, g)
<1>1. Len(v) \in Nat /\ Len(t) \in Nat
  BY Texts, Zenon
<1>2. /\ t[y + 1] = Quote /\ t[y + 2] = key /\ t[y + 3] = Quote /\ t[y + 4 + g] = ":"
      /\ (g = 1 => t[y + 4] = " " /\ t[y + 6] = " ") /\ At(t, y + 4 + 2 * g, v)
  BY Zenon DEF PairPlaced
<1>3. \A i \in 1..Len(t) : b[x + i] = t[i]
  BY Zenon DEF At
<1>4. /\ y + 1 \in 1..Len(t) /\ y + 2 \in 1..Len(t) /\ y + 3 \in 1..Len(t) /\ y + 4 + g \in 1..Len(t)
      /\ (g = 1 => y + 4 \in 1..Len(t) /\ y + 6 \in 1..Len(t))
      /\ y + 4 + 2 * g \in Nat /\ (y + 4 + 2 * g) + Len(v) <= Len(t)
      /\ x \in Int /\ x + (y + 4 + 2 * g) = (x + y) + 4 + 2 * g
      /\ x + (y + 1) = (x + y) + 1 /\ x + (y + 2) = (x + y) + 2 /\ x + (y + 3) = (x + y) + 3
      /\ x + (y + 4 + g) = (x + y) + 4 + g /\ x + (y + 4) = (x + y) + 4 /\ x + (y + 6) = (x + y) + 6
  BY <1>1
<1>5. At(b, x + (y + 4 + 2 * g), v)
  BY <1>1, <1>2, <1>4, AtTrans, Zenon
<1>6. /\ b[x + (y + 1)] = Quote /\ b[x + (y + 2)] = key /\ b[x + (y + 3)] = Quote
      /\ b[x + (y + 4 + g)] = ":" /\ (g = 1 => b[x + (y + 4)] = " " /\ b[x + (y + 6)] = " ")
  BY <1>2, <1>3, <1>4, Zenon
<1> QED
  BY <1>4, <1>5, <1>6, Zenon DEF PairPlaced

\* The value of a member begins after its colon, and a space.
PairFound(b, z, key, v, g, start, end) ==
  /\ z \in Nat /\ v \in Symbols /\ g \in 0..1 /\ PairPlaced(b, z, key, v, g)
  /\ Len(v) >= 1 /\ ~IsSpace(v[1])
  /\ start \in Nat /\ end \in Nat /\ z + 4 + 2 * g + Len(v) < end
  /\ FindKey(b, start, end, key) = z + 1

ValueStart(z, g) == z + 5 + 2 * g

LEMMA PairValueAt ==
  ASSUME NEW b, NEW z, NEW k, NEW v, NEW g, NEW start, NEW end, PairFound(b, z, k, v, g, start, end)
  PROVE  ValueAt(b, start, end, k) = ValueStart(z, g)
<1> USE DEF PairFound, ValueStart
<1> DEFINE kk == FindKey(b, start, end, k)
           c == IF kk = 0 THEN 0 ELSE IndexFrom(b, kk + 3, end, ":")
           p == IF c = 0 THEN end ELSE SkipWS(b, c + 1, end)
<1>1. ValueAt(b, start, end, k) = IF p >= end THEN 0 ELSE p
  BY Zenon DEF ValueAt
<1>2. /\ b[z + 4 + g] = ":" /\ (g = 1 => b[z + 4] = " " /\ b[z + 6] = " ") /\ At(b, z + 4 + 2 * g, v)
  BY Zenon DEF PairPlaced
<1>3. /\ z \in Nat /\ g \in 0..1 /\ Len(v) \in Nat /\ Len(v) >= 1 /\ start \in Nat /\ end \in Nat
      /\ z + 4 + 2 * g + Len(v) < end
  BY Texts, Zenon
<1>4. kk # 0 /\ kk + 3 = z + 4
  BY <1>3
<1>5. c = IndexFrom(b, z + 4, end, ":")
  BY <1>4, Zenon
<1> HIDE DEF kk, c
<1>6. c = z + 4 + g
  <2>1. z + 4 \in Nat /\ z + 4 + g \in (z + 4)..(end - 1)
    BY <1>3
  <2>2. ASSUME NEW y \in (z + 4)..((z + 4 + g) - 1) PROVE b[y] # ":"
    <3>1. g = 1 /\ y = z + 4
      BY <1>3
    <3> QED
      BY <1>2, <3>1, MarksDiffer, Zenon
  <2> DEFINE w == z + 4 + g
             s == z + 4
  <2>4. s \in Nat /\ w \in s..(end - 1) /\ FirstAt(b, s, w, ":")
    BY <1>2, <2>1, <2>2, Zenon DEF FirstAt
  <2> HIDE DEF w, s
  <2>5. IndexFrom(b, s, end, ":") = w
    BY <1>3, <2>4, IndexFromIs
  <2>3. IndexFrom(b, z + 4, end, ":") = z + 4 + g
    BY <2>5, Zenon DEF w, s
  <2> QED
    BY <1>5, <2>3, Zenon
<1>7. c # 0 /\ c + 1 = z + 5 + g
  BY <1>3, <1>6
<1>8. p = SkipWS(b, z + 5 + g, end)
  BY <1>7, Zenon
<1> HIDE DEF p
<1>9. SkipWS(b, z + 5 + g, end) = z + 5 + 2 * g
  <2>1. z + 5 + g \in Nat \ {0} /\ z + 5 + 2 * g \in (z + 5 + g)..(end - 1)
    BY <1>3
  <2>2. ASSUME NEW y \in (z + 5 + g)..((z + 5 + 2 * g) - 1) PROVE IsSpace(b[y])
    <3>1. g = 1 /\ y = z + 6
      BY <1>3
    <3> QED
      BY <1>2, <3>1, Zenon DEF IsSpace
  <2>3. ~IsSpace(b[z + 5 + 2 * g])
    <3>1. 1 \in 1..Len(v) /\ (z + 4 + 2 * g) + 1 = z + 5 + 2 * g
      BY <1>3
    <3>2. b[(z + 4 + 2 * g) + 1] = v[1]
      BY <1>2, <3>1, Zenon DEF At
    <3> QED
      BY <3>1, <3>2, Zenon
  <2> QED
    BY <1>3, <2>1, <2>2, <2>3, SkipWSIs, Zenon
<1>10. p = z + 5 + 2 * g
  BY <1>8, <1>9, Zenon
<1>11. ~(p >= end)
  BY <1>3, <1>10
<1> QED
  BY <1>1, <1>10, <1>11, Zenon

\* A key that is not found has no value.
LEMMA NoKeyNoValue ==
  ASSUME NEW b, NEW start \in Nat, NEW end \in Nat, NEW k, FindKey(b, start, end, k) = 0
  PROVE  ValueAt(b, start, end, k) = 0
<1> DEFINE kk == FindKey(b, start, end, k)
           c == IF kk = 0 THEN 0 ELSE IndexFrom(b, kk + 3, end, ":")
           p == IF c = 0 THEN end ELSE SkipWS(b, c + 1, end)
<1>1. ValueAt(b, start, end, k) = IF p >= end THEN 0 ELSE p
  BY Zenon DEF ValueAt
<1>2. c = 0
  BY Zenon
<1>3. p = end
  BY <1>2, Zenon
<1> HIDE DEF p
<1>4. p >= end
  BY <1>3
<1> QED
  BY <1>1, <1>4, Zenon

\* An object that lies in b after x: what is found for a name in it.
Keyholder(members, n, k, j) == j \in 1..n /\ members[j].key = k

LEMMA KeyFound ==
  ASSUME NEW members, NEW texts, NEW order, NEW n, NEW K, K \subseteq ObjectNames \cup FieldNames,
         Sayable(members, texts, order, n, K), NEW t \in Symbols, NEW g \in 0..1, NEW pos,
         ObjectHas(t, members, texts, n, g, pos), NEW b, NEW x \in Nat, At(b, x, t), NEW k \in K
  PROVE  /\ (\A j \in 1..n : members[j].key # k) => FindKey(b, x + 1, x + Len(t) + 1, k) = 0
         /\ \A j \in 1..n :
              members[j].key = k /\ (\A i \in 1..n : members[i].key = k => i = j) =>
                FindKey(b, x + 1, x + Len(t) + 1, k) = (x + pos[j]) + 1
<1> DEFINE S == {p \in (x + 1)..((x + Len(t) + 1) - 3) : MentionAt(b, p, k)}
<1>1. FindKey(b, x + 1, x + Len(t) + 1, k) = FirstOf(S)
  BY Zenon DEF FindKey, MentionAt
<1>2. Len(t) \in Nat
  BY Texts, Zenon
<1>3. \A y \in K : \A p \in 1..(Len(t) - 2) : MentionAt(t, p, y) =>
           \E j \in 1..n : p = pos[j] + 1 /\ members[j].key = y
  BY NamesAreKeys
<1>4. \A j \in 1..n : /\ pos[j] \in Nat \ {0} /\ Value0(pos, j, g) + Len(texts[j]) < Len(t)
                      /\ PairPlaced(t, pos[j], members[j].key, texts[j], g)
  BY Zenon DEF ObjectHas
<1>5. \A j \in 1..n : texts[j] \in Symbols
  BY Zenon DEF Sayable, Writable
<1>6. ASSUME NEW p \in S
      PROVE  \E j \in 1..n : p = (x + pos[j]) + 1 /\ members[j].key = k
  <2>1. p \in (x + 1)..((x + Len(t) + 1) - 3) /\ MentionAt(b, p, k)
    BY <1>6, Zenon
  <2> HIDE DEF S, MentionAt
  <2>2. p \in (x + 1)..(x + Len(t) - 2)
    BY <1>2, <2>1
  <2>3. p - x \in 1..(Len(t) - 2) /\ MentionAt(t, p - x, k)
    BY <1>2, <2>1, <2>2, MentionInPart, Zenon
  <2>4. PICK j \in 1..n : p - x = pos[j] + 1 /\ members[j].key = k
    BY <1>3, <2>3, Zenon
  <2>5. pos[j] \in Nat
    BY <1>4
  <2>6. p = (x + pos[j]) + 1
    BY <2>2, <2>4, <2>5
  <2> QED
    BY <2>4, <2>6, Zenon
<1>7. ASSUME NEW j \in 1..n, members[j].key = k
      PROVE  (x + pos[j]) + 1 \in S
  <2>1. pos[j] \in Nat \ {0} /\ Value0(pos, j, g) + Len(texts[j]) < Len(t)
        /\ PairPlaced(t, pos[j], k, texts[j], g)
    BY <1>4, <1>7, Zenon
  <2>2. texts[j] \in Symbols /\ Len(texts[j]) \in Nat
    BY <1>5, Texts, Zenon
  <2>3. pos[j] \in Nat /\ pos[j] + 4 + 2 * g + Len(texts[j]) <= Len(t)
    BY <1>2, <2>1, <2>2 DEF Value0
  <2>4. PairPlaced(b, x + pos[j], k, texts[j], g)
    BY <2>1, <2>2, <2>3, PairShift, Zenon
  <2>5. ((x + pos[j]) + 1) + 1 = (x + pos[j]) + 2 /\ ((x + pos[j]) + 1) + 2 = (x + pos[j]) + 3
    BY <2>3
  <2>6. MentionAt(b, (x + pos[j]) + 1, k)
    BY <2>4, <2>5, Zenon DEF MentionAt, PairPlaced
  <2>7. (x + pos[j]) + 1 \in (x + 1)..((x + Len(t) + 1) - 3)
    <3> DEFINE a == pos[j]
               l == Len(texts[j])
               z == Len(t)
    <3>1. a \in Nat \ {0} /\ l \in Nat /\ z \in Nat /\ a + 4 + 2 * g + l <= z
      BY <1>2, <2>1, <2>2, <2>3, Zenon
    <3> HIDE DEF a, l, z
    <3>2. (x + a) + 1 \in (x + 1)..((x + z + 1) - 3)
      BY <3>1
    <3> QED
      BY <3>2, Zenon DEF a, z
  <2> QED
    BY <2>6, <2>7, Zenon
<1>8. S \in SUBSET Nat
  <2>1. (x + 1)..((x + Len(t) + 1) - 3) \subseteq Nat
    BY <1>2
  <2> QED
    BY <2>1, Zenon
<1> HIDE DEF S
<1>9. ASSUME \A j \in 1..n : members[j].key # k
      PROVE  FirstOf(S) = 0
  <2>1. S = {}
    BY <1>6, <1>9, Zenon
  <2> QED
    BY <2>1, Zenon DEF FirstOf
<1>10. ASSUME NEW j \in 1..n, members[j].key = k, \A i \in 1..n : members[i].key = k => i = j
       PROVE  FirstOf(S) = (x + pos[j]) + 1
  <2>1. (x + pos[j]) + 1 \in S
    BY <1>7, <1>10, Zenon
  <2>2. \A p \in S : p = (x + pos[j]) + 1
    BY <1>6, <1>10, Zenon
  <2> DEFINE y == (x + pos[j]) + 1
  <2>3. y \in S /\ \A p \in S : p = y
    BY <2>1, <2>2, Zenon
  <2> HIDE DEF y
  <2>4. \A p \in S : y <= p
    <3>1. y \in Nat
      BY <1>8, <2>3, Zenon
    <3>2. y <= y
      BY <3>1
    <3> QED
      BY <2>3, <3>2, Zenon
  <2>5. FirstOf(S) = y
    BY <1>8, <2>3, <2>4, FirstOfIs, Zenon
  <2> QED
    BY <2>5, Zenon DEF y
<1> QED
  BY <1>1, <1>9, <1>10, Zenon

\* An object, its text t after the position x of b, and where its members are.
Lies(b, x, t, members, texts, order, n, K, g, pos) ==
  /\ Sayable(members, texts, order, n, K) /\ K \subseteq ObjectNames \cup FieldNames
  /\ t \in Symbols /\ g \in 0..1 /\ x \in Nat /\ At(b, x, t)
  /\ ObjectHas(t, members, texts, n, g, pos)
  /\ \A i, j \in 1..n : members[i].key = members[j].key => i = j
  /\ \A j \in 1..n : Len(texts[j]) >= 1 /\ ~IsSpace(texts[j][1])

\* What the scanner takes for the value of a name is the value of the member
\* with that key, and nothing if there is none.
LEMMA ValueFound ==
  ASSUME NEW b, NEW x, NEW t, NEW members, NEW texts, NEW order, NEW n, NEW K, NEW g, NEW pos,
         Lies(b, x, t, members, texts, order, n, K, g, pos), NEW k \in K
  PROVE  /\ (\A j \in 1..n : members[j].key # k) => ValueAt(b, x + 1, x + Len(t) + 1, k) = 0
         /\ \A j \in 1..n : members[j].key = k =>
              LET z == x + Value0(pos, j, g)
              IN  /\ z \in Nat /\ ValueAt(b, x + 1, x + Len(t) + 1, k) = z + 1
                  /\ At(b, z, texts[j]) /\ z + Len(texts[j]) < x + Len(t)
<1>1. /\ Sayable(members, texts, order, n, K) /\ K \subseteq ObjectNames \cup FieldNames
      /\ t \in Symbols /\ g \in 0..1 /\ x \in Nat /\ At(b, x, t)
      /\ ObjectHas(t, members, texts, n, g, pos)
      /\ \A i, j \in 1..n : members[i].key = members[j].key => i = j
      /\ \A j \in 1..n : Len(texts[j]) >= 1 /\ ~IsSpace(texts[j][1])
  BY Zenon DEF Lies
<1> DEFINE F == FindKey(b, x + 1, x + Len(t) + 1, k)
<1>2. /\ (\A j \in 1..n : members[j].key # k) => F = 0
      /\ \A j \in 1..n :
              members[j].key = k /\ (\A i \in 1..n : members[i].key = k => i = j) => F = (x + pos[j]) + 1
  BY <1>1, KeyFound
<1>3. Len(t) \in Nat
  BY <1>1, Texts, Zenon
<1>4. x + 1 \in Nat /\ x + Len(t) + 1 \in Nat
  BY <1>1, <1>3
<1>5. (\A j \in 1..n : members[j].key # k) => ValueAt(b, x + 1, x + Len(t) + 1, k) = 0
  BY <1>2, <1>4, NoKeyNoValue, Zenon
<1>6. ASSUME NEW j \in 1..n, members[j].key = k
      PROVE  LET z == x + Value0(pos, j, g)
              IN  /\ z \in Nat /\ ValueAt(b, x + 1, x + Len(t) + 1, k) = z + 1
                  /\ At(b, z, texts[j]) /\ z + Len(texts[j]) < x + Len(t)
  <2>1. F = (x + pos[j]) + 1
    BY <1>1, <1>2, <1>6, Zenon
  <2>2. /\ pos[j] \in Nat \ {0} /\ Value0(pos, j, g) + Len(texts[j]) < Len(t)
        /\ PairPlaced(t, pos[j], k, texts[j], g)
    BY <1>1, <1>6, Zenon DEF ObjectHas
  <2>3. texts[j] \in Symbols /\ Len(texts[j]) \in Nat
    BY <1>1, Texts, Zenon DEF Sayable, Writable
  <2>4. pos[j] \in Nat /\ pos[j] + 4 + 2 * g + Len(texts[j]) < Len(t)
    BY <2>2, Zenon DEF Value0
  <2> DEFINE a == pos[j]
             l == Len(texts[j])
             y == Len(t)
  <2>5. a \in Nat /\ l \in Nat /\ y \in Nat /\ a + 4 + 2 * g + l < y /\ g \in 0..1 /\ x \in Nat
    BY <1>1, <1>3, <2>3, <2>4, Zenon
  <2> HIDE DEF a, l, y, F
  <2>6. /\ a + 4 + 2 * g + l <= y /\ x + a \in Nat /\ (x + a) + 4 + 2 * g + l < x + y + 1
        /\ (x + a) + 5 + 2 * g = (x + (a + 4 + 2 * g)) + 1 /\ x + (a + 4 + 2 * g) \in Nat
        /\ (x + (a + 4 + 2 * g)) + l < x + y /\ (x + a) + 4 + 2 * g = x + (a + 4 + 2 * g)
    BY <2>5
  <2>7. PairPlaced(b, x + a, k, texts[j], g)
    BY <1>1, <2>2, <2>3, <2>4, <2>6, PairShift, Zenon DEF a, l, y
  <2>8. ValueAt(b, x + 1, x + y + 1, k) = (x + a) + 5 + 2 * g
    <3>1. FindKey(b, x + 1, x + y + 1, k) = (x + a) + 1
      BY <2>1, Zenon DEF F, a, y
    <3>2. Len(texts[j]) >= 1 /\ ~IsSpace(texts[j][1]) /\ (x + a) + 4 + 2 * g + Len(texts[j]) < x + y + 1
      BY <1>1, <2>6, Zenon DEF l
    <3>3. x + 1 \in Nat /\ x + y + 1 \in Nat /\ x + a \in Nat
      BY <2>5
    <3> DEFINE zz == x + a
               s  == x + 1
               e  == x + y + 1
               v  == texts[j]
    <3>4. PairFound(b, zz, k, v, g, s, e)
      BY <1>1, <2>3, <2>7, <3>1, <3>2, <3>3, Zenon DEF PairFound
    <3> HIDE DEF zz, s, e, v
    <3>5. ValueAt(b, s, e, k) = ValueStart(zz, g)
      BY <3>4, PairValueAt, SMT
    <3> QED
      BY <3>5, Zenon DEF zz, s, e, ValueStart
  <2>9. At(b, (x + a) + 4 + 2 * g, texts[j])
    BY <2>7, Zenon DEF PairPlaced
  <2> QED
    BY <2>6, <2>8, <2>9, Zenon DEF Value0, a, l, y
<1> QED
  BY <1>5, <1>6, Zenon

\* The objects of a request, in its text.
LEMMA InnerLies ==
  ASSUME NEW inner \in Seq(Plain), Inside(inner), Orderly(Len(inner)), NEW o \in Orders, NEW gap \in Gaps,
         NEW b, NEW x \in Nat, NEW t, t = ObjectText(inner, InnerTexts(inner, gap), o, gap), At(b, x, t)
  PROVE  \E pos : Lies(b, x, t, inner, InnerTexts(inner, gap), o, Len(inner),
                       ObjectNames \cup FieldNames, Len(gap), pos)
<1> DEFINE n == Len(inner)
           texts == InnerTexts(inner, gap)
           K == ObjectNames \cup FieldNames
<1>1. Sayable(inner, texts, o, n, K)
  BY InnerSays, Zenon
<1>2. Writable(inner, texts, o, n) /\ \A j \in 1..n : inner[j].key # Quote
  BY <1>1, Zenon DEF Sayable
<1>3. t \in Symbols /\ Len(gap) \in 0..1
  BY InnerText, GapsAreText, Zenon
<1>4. PICK pos : ObjectHas(t, inner, texts, n, Len(gap), pos)
  BY <1>2, ObjectParts, Zenon
<1>5. \A i, j \in 1..n : inner[i].key = inner[j].key => i = j
  BY Zenon DEF Inside, Keyed
<1>6. ASSUME NEW j \in 1..n
      PROVE  Len(texts[j]) >= 1 /\ ~IsSpace(texts[j][1])
  <2>1. inner[j] \in Plain /\ texts[j] = PlainText(inner[j], gap)
    BY DEF InnerTexts
  <2>2. Clear(inner[j])
    BY Zenon DEF Inside
  <2>3. inner[j].kind \in {"lit", "str", "arr"}
    BY <2>1, Kinds, Zenon
  <2>4. Len(texts[j]) >= 1
    BY <2>1, <2>2, PlainBegins, Zenon
  <2>5. inner[j].kind = "lit" => texts[j][1] \notin Marks
    BY <2>1, <2>2, PlainBegins, Zenon
  <2>6. inner[j].kind = "str" => texts[j][1] = Quote
    BY <2>1, <2>2, PlainBegins, Zenon
  <2>7. inner[j].kind = "arr" => texts[j][1] = "["
    BY <2>1, <2>2, PlainBegins, Zenon
  <2>8. " " # "[" /\ " " \in Marks
    BY Zenon DEF Marks
  <2>9. ~IsSpace(texts[j][1])
    BY <2>3, <2>5, <2>6, <2>7, <2>8, MarksDiffer, Zenon DEF IsSpace
  <2> QED
    BY <2>4, <2>9
<1> HIDE DEF texts, n
<1>7. Lies(b, x, t, inner, texts, o, n, K, Len(gap), pos)
  BY <1>1, <1>3, <1>4, <1>5, <1>6, Zenon DEF Lies
<1> QED
  BY <1>7, Zenon DEF texts, n

\* The same for the whole request.
LEMMA OuterLies ==
  ASSUME NEW r \in 1..Len(Requests), Legible(Requests[r]), NEW o \in Orders, NEW gap \in Gaps,
         NEW b, b = Text(Requests[r], o, gap)
  PROVE  \E pos : Lies(b, 0, b, Requests[r], OuterTexts(Requests[r], o, gap), o, Len(Requests[r]),
                       ObjectNames, Len(gap), pos)
<1> DEFINE ms == Requests[r]
           n == Len(ms)
           texts == OuterTexts(ms, o, gap)
<1>1. Sayable(ms, texts, o, n, ObjectNames)
  BY OuterSays, Zenon
<1>2. Writable(ms, texts, o, n) /\ \A j \in 1..n : ms[j].key # Quote
  BY <1>1, Zenon DEF Sayable
<1>3. b = ObjectText(ms, texts, o, gap)
  BY Zenon DEF Text, OuterTexts
<1>4. b \in Symbols /\ Len(gap) \in 0..1 /\ At(b, 0, b)
  BY GapsAreText, TextIsText, AtWhole, Texts, Zenon
<1>5. PICK pos : ObjectHas(b, ms, texts, n, Len(gap), pos)
  BY <1>2, <1>3, ObjectParts, Zenon
<1>6. \A i, j \in 1..n : ms[i].key = ms[j].key => i = j
  BY Zenon DEF Legible, Keyed
<1>7. Orderly(n) /\ \A i \in 1..n : ms[i].kind = "obj" => Orderly(Len(ms[i].val))
  BY RequestsAssumption, Zenon
<1>8. ms \in Seq(Members)
  BY RequestsAssumption
<1>9. ASSUME NEW j \in 1..n
      PROVE  Len(texts[j]) >= 1 /\ ~IsSpace(texts[j][1])
  <2>1. texts[j] = ValueText(ms[j], o, gap)
    BY DEF OuterTexts
  <2> DEFINE m == ms[j]
  <2>2. m \in Members
    BY <1>8
  <2>3. (m.kind = "obj" => Orderly(Len(m.val))) /\ IF m.kind = "obj" THEN Inside(m.val) ELSE Clear(m)
    BY <1>7, Zenon DEF Legible
  <2> HIDE DEF m
  <2>4. Len(ValueText(m, o, gap)) >= 1 /\ ValueText(m, o, gap)[1] # " "
    BY <2>2, <2>3, ValueBegins, Zenon
  <2> QED
    BY <2>1, <2>4, Zenon DEF IsSpace, m
<1>10. 0 \in Nat
  OBVIOUS
<1> HIDE DEF texts, n, ms
<1>11. Lies(b, 0, b, ms, texts, o, n, ObjectNames, Len(gap), pos)
  BY <1>1, <1>4, <1>5, <1>6, <1>9, <1>10, Zenon DEF Lies
<1> QED
  BY <1>11, Zenon DEF texts, n, ms

-----------------------------------------------------------------------------
(* What the getters return. *)

\* In the range r of b the value of a key is that of the member m.
ValueIs(b, r, k, m, gap) ==
  /\ r.start \in Nat /\ r.end \in Nat
  /\ \E z \in Nat : /\ ValueAt(b, r.start, r.end, k) = z + 1
                    /\ At(b, z, PlainText(m, gap)) /\ z + Len(PlainText(m, gap)) + 1 < r.end

\* What a value begins with.
BeginsAt(b, p, m) ==
  /\ p > 0
  /\ m.kind = "lit" => m.val = <<b[p]>> /\ m.val[1] = b[p] /\ m.val[1] \notin Marks
  /\ m.kind = "str" => b[p] = Quote
  /\ m.kind = "arr" => b[p] = "["
  /\ m.kind \in {"lit", "str", "arr"}

\* The value that is found begins as the text of its member does.
LEMMA ValueFirst ==
  ASSUME NEW m \in Plain, Clear(m), NEW gap \in Gaps, NEW b, NEW r, NEW k, ValueIs(b, r, k, m, gap)
  PROVE  BeginsAt(b, ValueAt(b, r.start, r.end, k), m)
<1> DEFINE t == PlainText(m, gap)
           p == ValueAt(b, r.start, r.end, k)
<1>1. PICK z \in Nat : p = z + 1 /\ At(b, z, t)
  BY Zenon DEF ValueIs
<1>2. t \in Symbols /\ Len(t) >= 1 /\ Len(t) \in Nat
  BY PlainBegins, Texts, Zenon
<1>3. b[p] = t[1]
  <2>1. 1 \in 1..Len(t)
    <3> HIDE DEF t
    <3> QED
      BY <1>2
  <2> QED
    BY <1>1, <2>1, Zenon DEF At
<1>4. p > 0
  <2> HIDE DEF p
  <2> QED
    BY <1>1
<1>5. m.kind = "lit" => t[1] = m.val[1] /\ m.val[1] \notin Marks /\ Len(m.val) = 1 /\ m.val \in Symbols
  BY PlainBegins, Zenon
<1>6. m.kind = "str" => t[1] = Quote
  BY PlainBegins, Zenon
<1>7. m.kind = "arr" => t[1] = "["
  BY PlainBegins, Zenon
<1>8. m.kind \in {"lit", "str", "arr"}
  BY Kinds, Zenon
<1>9. ASSUME m.val \in Symbols, Len(m.val) = 1 PROVE m.val = <<m.val[1]>>
  <2> DEFINE v == m.val
  <2>1. v \in Seq(Symbol) /\ Len(v) = 1
    BY <1>9, Zenon DEF Symbols
  <2> HIDE DEF v
  <2>2. v = <<v[1]>>
    BY <2>1
  <2> QED
    BY <2>2, Zenon DEF v
<1> QED
  BY <1>3, <1>4, <1>5, <1>6, <1>7, <1>8, <1>9, Zenon DEF BeginsAt

IsNumber(m) == m.kind = "lit" /\ m.val[1] \in DOMAIN Numeral
IsBool(m)   == m.kind = "lit" /\ m.val[1] \in DOMAIN Truth

\* A number is read exactly when the member begins with one.
LEMMA NumberRead ==
  ASSUME NEW m \in Plain, Clear(m), NEW gap \in Gaps, NEW b, NEW r, NEW k, ValueIs(b, r, k, m, gap)
  PROVE  JsonNumber(b, r, k) = IF IsNumber(m) THEN m.val ELSE NotFound
<1> DEFINE p == ValueAt(b, r.start, r.end, k)
<1>1. /\ p > 0
      /\ m.kind = "lit" => m.val = <<b[p]>> /\ m.val[1] = b[p]
      /\ m.kind = "str" => b[p] = Quote
      /\ m.kind = "arr" => b[p] = "["
      /\ m.kind \in {"lit", "str", "arr"}
  <2>1. BeginsAt(b, p, m)
    BY ValueFirst, Zenon
  <2> HIDE DEF p
  <2> QED
    BY <2>1, Zenon DEF BeginsAt
<1>2. JsonNumber(b, r, k) = IF p > 0 /\ b[p] \in DOMAIN Numeral THEN <<b[p]>> ELSE NotFound
  BY Zenon DEF JsonNumber
<1>3. Quote \notin DOMAIN Numeral /\ "[" \notin DOMAIN Numeral
  BY SymbolsAssumption, Zenon
<1> HIDE DEF p
<1> QED
  BY <1>1, <1>2, <1>3, Zenon DEF IsNumber

\* A boolean is read exactly when the member begins with one.
LEMMA BoolRead ==
  ASSUME NEW m \in Plain, Clear(m), NEW gap \in Gaps, NEW b, NEW r, NEW k, ValueIs(b, r, k, m, gap)
  PROVE  JsonBool(b, r, k) = IF IsBool(m) THEN m.val ELSE NotFound
<1> DEFINE p == ValueAt(b, r.start, r.end, k)
<1>1. /\ p > 0
      /\ m.kind = "lit" => m.val = <<b[p]>> /\ m.val[1] = b[p]
      /\ m.kind = "str" => b[p] = Quote
      /\ m.kind = "arr" => b[p] = "["
      /\ m.kind \in {"lit", "str", "arr"}
  <2>1. BeginsAt(b, p, m)
    BY ValueFirst, Zenon
  <2> HIDE DEF p
  <2> QED
    BY <2>1, Zenon DEF BeginsAt
<1>2. JsonBool(b, r, k) = IF p > 0 /\ b[p] \in DOMAIN Truth THEN <<b[p]>> ELSE NotFound
  BY Zenon DEF JsonBool
<1>3. Quote \notin DOMAIN Truth /\ "[" \notin DOMAIN Truth
  BY SymbolsAssumption, Zenon
<1> HIDE DEF p
<1> QED
  BY <1>1, <1>2, <1>3, Zenon DEF IsBool

\* The text between two quotes.
LEMMA Quoted ==
  ASSUME NEW b \in Symbols, NEW z \in Nat, NEW s \in Symbols, At(b, z, String(s)),
         \A i \in 1..Len(s) : s[i] # Quote, NEW end \in Nat, z + Len(s) + 2 < end, end <= Len(b) + 1
  PROVE  /\ IndexFrom(b, (z + 1) + 1, end, Quote) = z + Len(s) + 2
         /\ SubSeq(b, (z + 1) + 1, (z + Len(s) + 2) - 1) = s
<1> DEFINE L == Len(s)
           from == (z + 1) + 1
           qt == z + L + 2
<1>1. L \in Nat /\ Len(b) \in Nat
  BY Texts, Zenon
<1>2. b[z + 1] = Quote /\ At(b, z + 1, s) /\ b[qt] = Quote
  <2>1. z \in Int
    OBVIOUS
  <2> QED
    BY <2>1, StringPlaces, Zenon
<1>3. ASSUME NEW y \in from..(qt - 1) PROVE b[y] # Quote
  <2>1. y - (z + 1) \in 1..L /\ (z + 1) + (y - (z + 1)) = y
    BY <1>1
  <2>2. b[y] = s[y - (z + 1)]
    BY <1>2, <2>1, Zenon DEF At
  <2> QED
    BY <2>1, <2>2, Zenon
<1>4. from \in Nat /\ qt \in from..(end - 1) /\ FirstAt(b, from, qt, Quote)
  <2>1. from \in Nat /\ qt \in from..(end - 1)
    BY <1>1
  <2> QED
    BY <1>2, <1>3, <2>1, Zenon DEF FirstAt
<1>5. IndexFrom(b, from, end, Quote) = qt
  <2> HIDE DEF from, qt
  <2> QED
    BY <1>4, IndexFromIs
<1>6. SubSeq(b, from, qt - 1) = s
  <2> DEFINE u == SubSeq(b, from, qt - 1)
             hi == qt - 1
  <2>1. /\ from \in Int /\ hi \in Int /\ hi = from + L - 1 /\ from >= 1 /\ hi <= Len(b)
    BY <1>1
  <2>2. b \in Seq(Symbol) /\ s \in Seq(Symbol)
    BY Zenon DEF Symbols
  <2>3. ASSUME NEW i \in 1..L PROVE b[from + i - 1] = s[i]
    <3>1. from + i - 1 = (z + 1) + i
      BY <1>1
    <3> QED
      BY <1>2, <3>1, Zenon DEF At
  <2> HIDE DEF from, hi
  <2>4. \A i \in from..hi : b[i] \in Symbol
    BY <1>1, <2>1, <2>2
  <2>5. /\ SubSeq(b, from, hi) \in Seq(Symbol)
        /\ Len(SubSeq(b, from, hi)) = L
        /\ \A i \in 1..L : SubSeq(b, from, hi)[i] = b[from + i - 1]
    <3>1. /\ SubSeq(b, from, hi) \in Seq(Symbol)
          /\ Len(SubSeq(b, from, hi)) = IF from <= hi THEN hi - from + 1 ELSE 0
          /\ \A i \in 1..(hi - from + 1) : SubSeq(b, from, hi)[i] = b[from + i - 1]
      BY <2>1, <2>4, SubSeqProperties
    <3>2. (IF from <= hi THEN hi - from + 1 ELSE 0) = L /\ hi - from + 1 = L
      BY <1>1, <2>1
    <3> QED
      BY <3>1, <3>2, Zenon
  <2>6. \A i \in 1..L : SubSeq(b, from, hi)[i] = s[i]
    BY <2>3, <2>5, Zenon
  <2>7. SubSeq(b, from, hi) = s
    BY <2>2, <2>5, <2>6, SeqEqual
  <2> QED
    BY <2>7, Zenon DEF hi
<1> QED
  BY <1>5, <1>6, Zenon

\* A string is read exactly when the member is one.
LEMMA StringRead ==
  ASSUME NEW m \in Plain, Clear(m), Taken(m), NEW gap \in Gaps, NEW b \in Symbols, NEW r, r.end <= Len(b) + 1,
         NEW k, ValueIs(b, r, k, m, gap)
  PROVE  JsonString(b, r, k) = IF m.kind = "str" THEN m.val ELSE NotFound
<1> DEFINE p == ValueAt(b, r.start, r.end, k)
           qt == IF p > 0 /\ b[p] = Quote THEN IndexFrom(b, p + 1, r.end, Quote) ELSE 0
<1>1. /\ p > 0
      /\ m.kind = "lit" => m.val[1] = b[p] /\ m.val[1] \notin Marks
      /\ m.kind = "str" => b[p] = Quote
      /\ m.kind = "arr" => b[p] = "["
      /\ m.kind \in {"lit", "str", "arr"}
  <2>1. BeginsAt(b, p, m)
    BY ValueFirst, Zenon
  <2> HIDE DEF p
  <2> QED
    BY <2>1, Zenon DEF BeginsAt
<1>2. JsonString(b, r, k) = IF qt > 0 THEN SubSeq(b, p + 1, qt - 1) ELSE NotFound
  BY Zenon DEF JsonString
<1>3. CASE m.kind # "str"
  <2>1. b[p] # Quote
    BY <1>1, <1>3, MarksDiffer, Zenon DEF Marks
  <2>2. qt = 0
    BY <2>1, Zenon
  <2>3. ~(0 > 0)
    OBVIOUS
  <2> QED
    BY <1>2, <1>3, <2>2, <2>3, Zenon
<1>4. CASE m.kind = "str"
  <2>1. m.val \in Symbols /\ PlainText(m, gap) = String(m.val) /\ Strings(m) = {m.val}
    BY <1>4, Kinds, Zenon
  <2>2. \A i \in 1..Len(m.val) : m.val[i] # Quote
    BY <2>1, Zenon DEF Taken
  <2>3. PICK z \in Nat : p = z + 1 /\ At(b, z, String(m.val)) /\ z + Len(String(m.val)) + 1 < r.end
    BY <2>1, Zenon DEF ValueIs
  <2>4. Len(String(m.val)) = Len(m.val) + 2 /\ Len(m.val) \in Nat /\ r.end \in Nat
    BY <2>1, StringPlaces, Texts, Zenon DEF ValueIs
  <2> DEFINE L == Len(m.val)
             l2 == Len(String(m.val))
             e == r.end
  <2>5. z + L + 2 < e /\ z + L + 2 > 0
    <3>1. L \in Nat /\ l2 = L + 2 /\ e \in Nat /\ z + l2 + 1 < e
      BY <2>3, <2>4, Zenon
    <3> HIDE DEF L, l2, e
    <3> QED
      BY <3>1
  <2>6. IndexFrom(b, (z + 1) + 1, e, Quote) = z + L + 2 /\ SubSeq(b, (z + 1) + 1, (z + L + 2) - 1) = m.val
    BY <2>1, <2>2, <2>3, <2>4, <2>5, Quoted, Zenon
  <2>7. qt = z + L + 2
    BY <1>1, <1>4, <2>3, <2>6, Zenon
  <2> HIDE DEF qt, p
  <2> QED
    BY <1>2, <1>4, <2>3, <2>5, <2>6, <2>7, Zenon
<1> QED
  BY <1>3, <1>4, Zenon

\* A key that is not there.
LEMMA NothingRead ==
  ASSUME NEW b, NEW r, NEW k, ValueAt(b, r.start, r.end, k) = 0
  PROVE  JsonNumber(b, r, k) = NotFound /\ JsonBool(b, r, k) = NotFound /\ JsonString(b, r, k) = NotFound
<1>1. ~(0 > 0)
  OBVIOUS
<1> QED
  BY <1>1, Zenon DEF JsonNumber, JsonBool, JsonString

\* A range in which the members of an object are found.
Readable(b, r, inner, gap) ==
  \A k \in ObjectNames \cup FieldNames :
    /\ ~Has(inner, k) => ValueAt(b, r.start, r.end, k) = 0
    /\ Has(inner, k) => ValueIs(b, r, k, Member(inner, k), gap)

\* Member is a member with that key, if there is one.
LEMMA MemberIs ==
  ASSUME NEW members, NEW k, Has(members, k)
  PROVE  \E j \in 1..Len(members) : Member(members, k) = members[j] /\ members[j].key = k
<1> DEFINE P(i) == members[i].key = k
<1>1. \E i \in 1..Len(members) : P(i)
  BY Zenon DEF Has
<1>2. P(CHOOSE i \in 1..Len(members) : P(i)) /\ (CHOOSE i \in 1..Len(members) : P(i)) \in 1..Len(members)
  BY <1>1, Zenon
<1> QED
  BY <1>2, Zenon DEF Member

\* The members of an object are found in the range of its text.
LEMMA InnerReadable ==
  ASSUME NEW inner \in Seq(Plain), Inside(inner), Orderly(Len(inner)), NEW o \in Orders, NEW gap \in Gaps,
         NEW b, NEW x \in Nat, NEW t, t = ObjectText(inner, InnerTexts(inner, gap), o, gap), At(b, x, t),
         NEW r, r.start = x + 1, r.end = x + Len(t) + 1
  PROVE  Readable(b, r, inner, gap)
<1> DEFINE n == Len(inner)
           texts == InnerTexts(inner, gap)
           K == ObjectNames \cup FieldNames
           g == Len(gap)
<1>1. PICK pos : Lies(b, x, t, inner, texts, o, n, K, g, pos)
  BY InnerLies, Zenon
<1>2. \A j \in 1..n : texts[j] = PlainText(inner[j], gap) /\ inner[j] \in Plain
  BY DEF InnerTexts
<1>3. t \in Symbols /\ Len(t) \in Nat
  BY <1>1, Texts, Zenon DEF Lies
<1>9. \A j \in 1..n : texts[j] \in Symbols /\ Len(texts[j]) \in Nat
  BY <1>1, Texts, Zenon DEF Lies, Sayable, Writable
<1> SUFFICES ASSUME NEW k \in K
             PROVE  /\ ~Has(inner, k) => ValueAt(b, r.start, r.end, k) = 0
                    /\ Has(inner, k) => ValueIs(b, r, k, Member(inner, k), gap)
  BY Zenon DEF Readable
<1> HIDE DEF texts, n, K, g
<1> DEFINE s == x + 1
           e == x + Len(t) + 1
<1>4. /\ (\A j \in 1..n : inner[j].key # k) => ValueAt(b, s, e, k) = 0
      /\ \A j \in 1..n : inner[j].key = k =>
              LET z == x + Value0(pos, j, g)
              IN  /\ z \in Nat /\ ValueAt(b, s, e, k) = z + 1
                  /\ At(b, z, texts[j]) /\ z + Len(texts[j]) < x + Len(t)
  BY <1>1, ValueFound
<1>5. s \in Nat /\ e \in Nat
  BY <1>3
<1>6. r.start = s /\ r.end = e
  OBVIOUS
<1>7. ASSUME ~Has(inner, k) PROVE ValueAt(b, r.start, r.end, k) = 0
  <2>1. \A j \in 1..n : inner[j].key # k
    BY <1>7, Zenon DEF Has, n
  <2> QED
    BY <1>4, <1>6, <2>1, Zenon
<1>8. ASSUME Has(inner, k) PROVE ValueIs(b, r, k, Member(inner, k), gap)
  <2>1. PICK j \in 1..n : Member(inner, k) = inner[j] /\ inner[j].key = k
    BY <1>8, MemberIs, ZenonT(40) DEF n
  <2>2. PICK z : /\ z \in Nat /\ ValueAt(b, s, e, k) = z + 1
                 /\ At(b, z, texts[j]) /\ z + Len(texts[j]) < x + Len(t)
    <3> DEFINE zz == x + Value0(pos, j, g)
    <3>1. /\ zz \in Nat /\ ValueAt(b, s, e, k) = zz + 1
          /\ At(b, zz, texts[j]) /\ zz + Len(texts[j]) < x + Len(t)
      BY <1>4, <2>1, Zenon
    <3> QED
      BY <3>1, Zenon
  <2>3. z + Len(texts[j]) + 1 < e
    <3> DEFINE l == Len(texts[j])
               y == Len(t)
    <3>1. l \in Nat /\ y \in Nat /\ z \in Nat /\ z + l < x + y
      BY <1>3, <1>9, <2>2, Zenon
    <3> HIDE DEF l, y
    <3>2. z + l + 1 < x + y + 1
      BY <3>1
    <3> QED
      BY <3>2, Zenon DEF l, y
  <2> HIDE DEF s, e
  <2> QED
    BY <1>2, <1>5, <1>6, <2>1, <2>2, <2>3, Zenon DEF ValueIs
<1> QED
  BY <1>7, <1>8, Zenon

\* What is read for a field, of the kind it is read as.
Reading(b, r, k, kind) ==
  CASE kind = "number" -> JsonNumber(b, r, k)
    [] kind = "bool"   -> JsonBool(b, r, k)
    [] kind = "string" -> JsonString(b, r, k)
    [] kind = "stamp"  -> IF JsonString(b, r, k) \in DOMAIN Stamp THEN JsonString(b, r, k)
                          ELSE NotFound

\* Whether a member is one that can be read so.
Right(m, kind) ==
  CASE kind = "number" -> m.kind = "lit" /\ m.val[1] \in DOMAIN Numeral
    [] kind = "bool"   -> m.kind = "lit" /\ m.val[1] \in DOMAIN Truth
    [] kind = "string" -> m.kind = "str"
    [] kind = "stamp"  -> m.kind = "str" /\ m.val \in DOMAIN Stamp

Kind == {"number", "bool", "string", "stamp"}

\* A member is read, as a field of a kind, exactly when it is right for it.
LEMMA ReadingIs ==
  ASSUME NEW m \in Plain, Clear(m), Taken(m), NEW gap \in Gaps, NEW b \in Symbols, NEW r, r.end <= Len(b) + 1,
         NEW k, ValueIs(b, r, k, m, gap), NEW kind \in Kind
  PROVE  /\ Right(m, kind) => Reading(b, r, k, kind) = m.val /\ m.val # NotFound
         /\ ~Right(m, kind) => Reading(b, r, k, kind) = NotFound
<1>1. JsonNumber(b, r, k) = IF IsNumber(m) THEN m.val ELSE NotFound
  BY NumberRead, Zenon
<1>2. JsonBool(b, r, k) = IF IsBool(m) THEN m.val ELSE NotFound
  BY BoolRead, Zenon
<1>3. JsonString(b, r, k) = IF m.kind = "str" THEN m.val ELSE NotFound
  BY StringRead, Zenon
<1>4. m.kind = "str" => m.val # NotFound
  BY Kinds, Zenon DEF Taken
<1>5. NotFound[1] \notin DOMAIN Numeral
  BY SymbolsAssumption, Zenon
<1>6. NotFound[1] \notin DOMAIN Truth
  BY SymbolsAssumption, Zenon
<1>7. kind = "number" \/ kind = "bool" \/ kind = "string" \/ kind = "stamp"
  BY Zenon DEF Kind
<1>8. CASE kind = "number"
  <2>1. Reading(b, r, k, kind) = JsonNumber(b, r, k) /\ Right(m, kind) = IsNumber(m)
    BY <1>8, Zenon DEF Reading, Right, IsNumber
  <2>2. IsNumber(m) => m.val # NotFound
    BY <1>5, Zenon DEF IsNumber
  <2> QED
    BY <1>1, <2>1, <2>2, Zenon
<1>9. CASE kind = "bool"
  <2>1. Reading(b, r, k, kind) = JsonBool(b, r, k) /\ Right(m, kind) = IsBool(m)
    BY <1>9, Zenon DEF Reading, Right, IsBool
  <2>2. IsBool(m) => m.val # NotFound
    BY <1>6, Zenon DEF IsBool
  <2> QED
    BY <1>2, <2>1, <2>2, Zenon
<1>10. CASE kind = "string"
  <2>1. Reading(b, r, k, kind) = JsonString(b, r, k) /\ Right(m, kind) = (m.kind = "str")
    BY <1>10, Zenon DEF Reading, Right
  <2> QED
    BY <1>3, <1>4, <2>1, Zenon
<1>11. CASE kind = "stamp"
  <2> DEFINE s == JsonString(b, r, k)
  <2>1. Reading(b, r, k, kind) = IF s \in DOMAIN Stamp THEN s ELSE NotFound
    BY <1>11, Zenon DEF Reading
  <2>2. Right(m, kind) <=> m.kind = "str" /\ m.val \in DOMAIN Stamp
    BY <1>11, Zenon DEF Right
  <2> HIDE DEF s
  <2>3. s = IF m.kind = "str" THEN m.val ELSE NotFound
    BY <1>3, Zenon DEF s
  <2> QED
    BY <1>4, <2>1, <2>2, <2>3, Zenon
<1> QED
  BY <1>7, <1>8, <1>9, <1>10, <1>11, Zenon

\* A member that is not there is read as nothing.
LEMMA NothingIs ==
  ASSUME NEW b, NEW r, NEW k, ValueAt(b, r.start, r.end, k) = 0, NEW kind \in Kind
  PROVE  Reading(b, r, k, kind) = NotFound
<1>1. JsonNumber(b, r, k) = NotFound /\ JsonBool(b, r, k) = NotFound /\ JsonString(b, r, k) = NotFound
  BY NothingRead, Zenon
<1>2. kind = "number" \/ kind = "bool" \/ kind = "string" \/ kind = "stamp"
  BY Zenon DEF Kind
<1> QED
  BY <1>1, <1>2, Zenon DEF Reading

-----------------------------------------------------------------------------
(* matchBrace: its scanner stays calm in everything between two braces. *)

\* A function that is given by its first value and by steps exists.
Runs(f, step, lo, hi) == \A p \in (lo + 1)..hi : f[p] = step[p][f[p - 1]]

\* Such a function is there for any number of steps (least counterexample).
LEMMA StepsRun ==
  ASSUME NEW S, NEW lo \in Nat, NEW hi \in Nat, lo <= hi, NEW first \in S, NEW step \in [lo..hi -> [S -> S]]
  PROVE  \E f \in [lo..hi -> S] : f[lo] = first /\ Runs(f, step, lo, hi)
<1> DEFINE Moves(f, p) == f[p] = step[p][f[p - 1]]
           Good(f, k) == f[lo] = first /\ \A p \in (lo + 1)..k : Moves(f, p)
           Bad == {k \in lo..hi : ~ \E f \in [lo..hi -> S] : Good(f, k)}
<1>1. lo \notin Bad
  <2> DEFINE f == [p \in lo..hi |-> first]
  <2>1. f \in [lo..hi -> S] /\ f[lo] = first /\ (lo + 1)..lo = {}
    OBVIOUS
  <2> HIDE DEF Moves, f
  <2>2. Good(f, lo)
    BY <2>1, Zenon
  <2> QED
    BY <2>1, <2>2, Zenon
<1>2. ASSUME NEW m \in (lo + 1)..hi, m - 1 \notin Bad
      PROVE  m \notin Bad
  <2>0. m - 1 \in lo..hi /\ m \in lo..hi /\ m # lo
    OBVIOUS
  <2>1. PICK f \in [lo..hi -> S] : Good(f, m - 1)
    <3> HIDE DEF Good
    <3> QED
      BY <1>2, <2>0, Zenon
  <2> DEFINE v == step[m][f[m - 1]]
             g == [f EXCEPT ![m] = v]
  <2>2. v \in S
    BY <2>0
  <2> HIDE DEF v
  <2>3. g \in [lo..hi -> S] /\ g[m] = v /\ \A i \in lo..hi : i # m => g[i] = f[i]
    BY <2>0, <2>2
  <2> HIDE DEF g
  <2>4. ASSUME NEW i \in (lo + 1)..m
        PROVE  Moves(g, i)
    <3>1. i - 1 # m /\ i - 1 \in lo..hi /\ i \in lo..hi /\ (i # m => i \in (lo + 1)..(m - 1))
      OBVIOUS
    <3>2. g[i - 1] = f[i - 1]
      BY <2>3, <3>1, Zenon
    <3>3. CASE i = m
      BY <2>3, <3>2, <3>3, Zenon DEF v
    <3>4. CASE i # m
      BY <2>1, <2>3, <3>1, <3>2, <3>4, Zenon
    <3> QED
      BY <3>3, <3>4
  <2>5. lo \in lo..hi
    OBVIOUS
  <2>6. g[lo] = first
    BY <2>0, <2>1, <2>3, <2>5, Zenon
  <2> HIDE DEF Moves
  <2>7. Good(g, m)
    BY <2>4, <2>6, Zenon
  <2> HIDE DEF Good
  <2> QED
    BY <2>3, <2>7, Zenon
<1>3. Bad = {}
  <2> SUFFICES ASSUME Bad # {} PROVE FALSE
    OBVIOUS
  <2>1. Bad \in SUBSET Nat /\ Bad \subseteq lo..hi
    <3> HIDE DEF Good
    <3> QED
      OBVIOUS
  <2> HIDE DEF Bad
  <2>2. PICK m \in Bad : \A k \in Bad : m <= k
    BY <2>1, LeastNatural
  <2>3. m # lo /\ m - 1 \notin Bad /\ m \in (lo + 1)..hi
    BY <1>1, <2>1, <2>2
  <2> QED
    BY <1>2, <2>2, <2>3
<1> HIDE DEF Moves, Good, Bad
<1>4. hi \notin Bad /\ hi \in lo..hi
  BY <1>3
<1>5. \E f \in [lo..hi -> S] : Good(f, hi)
  <2> QED
    BY <1>4, Zenon DEF Bad
<1> QED
  BY <1>5, Zenon DEF Runs, Good, Moves

\* The scanner of matchBrace.
States == {"code", "string", "escaped"}

\* The three states and the two symbols that matter to them.
LEMMA AfterIs ==
  ASSUME NEW c
  PROVE  /\ After(c) \in [States -> States]
         /\ After(c)["code"] = IF c = Quote THEN "string" ELSE "code"
         /\ After(c)["string"] = IF c = Quote THEN "code" ELSE IF c = Backslash THEN "escaped" ELSE "string"
         /\ After(c)["escaped"] = "string"
<1>1. Quote # Backslash
  BY MarksDiffer, Zenon
<1> HIDE DEF Quote, Backslash
<1>2. CASE c = Quote
  <2>1. After(c) = [code |-> "string", string |-> "code", escaped |-> "string"]
    BY <1>2, <1>1, Zenon DEF After
  <2> QED
    BY <1>1, <1>2, <2>1 DEF States
<1>3. CASE c # Quote /\ c = Backslash
  <2>1. After(c) = [code |-> "code", string |-> "escaped", escaped |-> "string"]
    BY <1>3, <1>1, Zenon DEF After
  <2> QED
    BY <1>3, <2>1 DEF States
<1>4. CASE c # Quote /\ c # Backslash
  <2>1. After(c) = [code |-> "code", string |-> "string", escaped |-> "string"]
    BY <1>4, Zenon DEF After
  <2> QED
    BY <1>4, <2>1 DEF States
<1> QED
  BY <1>2, <1>3, <1>4

\* Its states from lo to hi.
Scanned(b, f, lo, hi) == \A p \in lo..(hi - 1) : f[p + 1] = After(b[p])[f[p]]

\* Scan is the function its definition asks for.
LEMMA ScanRuns ==
  ASSUME NEW b, NEW lo \in Nat, NEW hi \in Nat, lo <= hi
  PROVE  Scan(b, lo, hi, "code")[lo] = "code" /\ Scanned(b, Scan(b, lo, hi, "code"), lo, hi)
<1> DEFINE step == [p \in lo..hi |-> After(b[p - 1])]
           Is(f) == f = [p \in lo..hi |-> IF p = lo THEN "code" ELSE After(b[p - 1])[f[p - 1]]]
           F == Scan(b, lo, hi, "code")
<1>1. step \in [lo..hi -> [States -> States]]
  BY AfterIs
<1>2. PICK f \in [lo..hi -> States] : f[lo] = "code" /\ Runs(f, step, lo, hi)
  <2>1. "code" \in States
    BY DEF States
  <2> HIDE DEF step
  <2> QED
    BY <1>1, <2>1, StepsRun
<1>3. Is(f)
  <2> DEFINE g == [p \in lo..hi |-> IF p = lo THEN "code" ELSE After(b[p - 1])[f[p - 1]]]
  <2>1. ASSUME NEW p \in lo..hi PROVE f[p] = g[p]
    <3>1. CASE p = lo
      BY <1>2, <3>1, Zenon
    <3>2. CASE p # lo
      <4>1. p \in (lo + 1)..hi
        BY <3>2
      <4>2. f[p] = step[p][f[p - 1]]
        BY <1>2, <4>1, Zenon DEF Runs
      <4>3. step[p] = After(b[p - 1])
        OBVIOUS
      <4> QED
        BY <3>2, <4>2, <4>3, Zenon
    <3> QED
      BY <3>1, <3>2
  <2>2. g = [p \in lo..hi |-> g[p]] /\ f = [p \in lo..hi |-> f[p]]
    OBVIOUS
  <2> HIDE DEF g
  <2>3. f = g
    BY <2>1, <2>2, Zenon
  <2> QED
    BY <2>3, Zenon DEF g
<1>4. F = CHOOSE h : Is(h)
  BY Zenon DEF Scan
<1>5. Is(F)
  BY <1>3, <1>4, Zenon
<1> HIDE DEF F
<1>6. \A p \in lo..hi : F[p] = IF p = lo THEN "code" ELSE After(b[p - 1])[F[p - 1]]
  BY <1>5, Zenon
<1> HIDE DEF Is
<1>7. lo \in lo..hi
  OBVIOUS
<1>8. F[lo] = "code"
  BY <1>6, <1>7, Zenon
<1>9. ASSUME NEW p \in lo..(hi - 1) PROVE F[p + 1] = After(b[p])[F[p]]
  <2>1. p + 1 \in lo..hi /\ p + 1 # lo /\ (p + 1) - 1 = p
    OBVIOUS
  <2> QED
    BY <1>6, <2>1, Zenon
<1> QED
  BY <1>8, <1>9, Zenon DEF Scanned, F

\* From lo to hi the scanner comes from code to code and sees no brace there.
IsBrace(c) == c = "{" \/ c = "}"

Calm(b, f, lo, hi) ==
  f[lo] = "code" => f[hi] = "code" /\ \A p \in lo..(hi - 1) : IsBrace(b[p]) => f[p] # "code"

LEMMA ScannedPart ==
  ASSUME NEW b, NEW f, NEW lo \in Int, NEW hi \in Int, Scanned(b, f, lo, hi),
         NEW l \in Int, NEW h \in Int, lo <= l, h <= hi
  PROVE  Scanned(b, f, l, h)
<1>1. \A p \in l..(h - 1) : p \in lo..(hi - 1)
  OBVIOUS
<1> QED
  BY <1>1, Zenon DEF Scanned

\* Two calm stretches make one.
LEMMA CalmJoins ==
  ASSUME NEW b, NEW f, NEW lo \in Int, NEW mid \in Int, NEW hi \in Int, lo <= mid, mid <= hi,
         Calm(b, f, lo, mid), Calm(b, f, mid, hi)
  PROVE  Calm(b, f, lo, hi)
<1>1. \A p \in lo..(hi - 1) : p \in lo..(mid - 1) \/ p \in mid..(hi - 1)
  OBVIOUS
<1> QED
  BY <1>1, Zenon DEF Calm

\* A symbol that is neither a quote nor a brace is calm.
LEMMA CalmSymbol ==
  ASSUME NEW b, NEW f, NEW lo \in Int, NEW hi \in Int, Scanned(b, f, lo, hi),
         NEW p \in lo..(hi - 1), b[p] # Quote, ~IsBrace(b[p])
  PROVE  Calm(b, f, p, p + 1)
<1>1. f[p + 1] = After(b[p])[f[p]]
  BY Zenon DEF Scanned
<1>2. f[p] = "code" => f[p + 1] = "code"
  BY <1>1, AfterIs, Zenon
<1>3. \A r \in p..((p + 1) - 1) : r = p
  OBVIOUS
<1> QED
  BY <1>2, <1>3, Zenon DEF Calm

\* What it is for quotes to be escaped.
EscapesIn(s, n, e) ==
  /\ e[1] = FALSE /\ \A p \in 1..n : e[p + 1] = (s[p] = Backslash /\ ~e[p])
  /\ ~e[n + 1] /\ \A p \in 1..n : s[p] = Quote => e[p]

\* The escapes of a string whose quotes are escaped.
LEMMA EscapedIs ==
  ASSUME NEW s, Len(s) \in Nat, Escaped(s)
  PROVE  \E e : EscapesIn(s, Len(s), e)
<1> DEFINE n == Len(s)
           m == n + 1
           Is(h) == h = [p \in 1..m |-> p # 1 /\ s[p - 1] = Backslash /\ ~h[p - 1]]
           step == [p \in 1..m |-> [v \in BOOLEAN |-> s[p - 1] = Backslash /\ ~v]]
           E == CHOOSE h : Is(h)
<1>1. n \in Nat /\ m \in Nat /\ 1 <= m
  OBVIOUS
<1>2. step \in [1..m -> [BOOLEAN -> BOOLEAN]]
  <2> HIDE DEF m
  <2> QED
    BY Zenon
<1> HIDE DEF m
<1>3. PICK f \in [1..m -> BOOLEAN] : f[1] = FALSE /\ Runs(f, step, 1, m)
  <2>1. 1 \in Nat /\ FALSE \in BOOLEAN
    OBVIOUS
  <2> HIDE DEF step
  <2> QED
    BY <1>1, <1>2, <2>1, StepsRun, Zenon
<1>4. Is(f)
  <2> DEFINE g == [p \in 1..m |-> p # 1 /\ s[p - 1] = Backslash /\ ~f[p - 1]]
  <2>1. ASSUME NEW p \in 1..m PROVE f[p] = g[p]
    <3>1. CASE p = 1
      BY <1>3, <3>1, Zenon
    <3>2. CASE p # 1
      <4>1. p \in (1 + 1)..m /\ p - 1 \in 1..m
        BY <1>1, <3>2
      <4>2. f[p] = step[p][f[p - 1]]
        BY <1>3, <4>1, Zenon DEF Runs
      <4>3. f[p - 1] \in BOOLEAN
        BY <1>3, <4>1, Zenon
      <4>4. step[p][f[p - 1]] = (s[p - 1] = Backslash /\ ~f[p - 1])
        BY <4>3, Zenon
      <4>5. g[p] = (p # 1 /\ s[p - 1] = Backslash /\ ~f[p - 1])
        BY Zenon
      <4> QED
        BY <3>2, <4>2, <4>4, <4>5, Zenon
    <3> QED
      BY <3>1, <3>2
  <2>2. g = [p \in 1..m |-> g[p]] /\ f = [p \in 1..m |-> f[p]]
    BY <1>3, Zenon
  <2> HIDE DEF g
  <2>3. f = g
    BY <2>1, <2>2, Zenon
  <2> QED
    BY <2>3, Zenon DEF g
<1>5. Is(E)
  BY <1>4, Zenon
<1>6. ~E[m] /\ \A p \in 1..n : s[p] = Quote => E[p]
  BY Zenon DEF Escaped, m
<1> HIDE DEF E
<1>7. \A p \in 1..m : E[p] = (p # 1 /\ s[p - 1] = Backslash /\ ~E[p - 1])
  BY <1>5, Zenon
<1> HIDE DEF Is, step
<1>8. 1 \in 1..m
  BY <1>1
<1>9. E[1] = FALSE
  BY <1>7, <1>8, Zenon
<1>10. ASSUME NEW p \in 1..n PROVE E[p + 1] = (s[p] = Backslash /\ ~E[p])
  <2>1. p + 1 \in 1..m /\ p + 1 # 1 /\ (p + 1) - 1 = p
    BY <1>1 DEF m
  <2> QED
    BY <1>7, <2>1, Zenon
<1> QED
  BY <1>6, <1>9, <1>10, Zenon DEF EscapesIn, m

\* The scanner leaves a string where it ends, and takes no brace in it for one.
LEMMA StringCalm ==
  ASSUME NEW s \in Symbols, Escaped(s), NEW z \in Nat, NEW b, NEW f, At(b, z, String(s)),
         Scanned(b, f, z + 1, z + Len(s) + 3)
  PROVE  Calm(b, f, z + 1, z + Len(s) + 3)
<1> DEFINE n == Len(s)
<1>1. n \in Nat
  BY Texts, Zenon
<1>2. b[z + 1] = Quote /\ At(b, z + 1, s) /\ b[z + n + 2] = Quote
  <2>1. z \in Int
    OBVIOUS
  <2> QED
    BY <2>1, StringPlaces, Zenon
<1>3. PICK e : EscapesIn(s, n, e)
  BY <1>1, EscapedIs, Zenon
<1>4. /\ e[1] = FALSE /\ \A p \in 1..n : e[p + 1] = (s[p] = Backslash /\ ~e[p])
      /\ ~e[n + 1] /\ \A p \in 1..n : s[p] = Quote => e[p]
  BY <1>3, Zenon DEF EscapesIn
<1>5. \A p \in (z + 1)..((z + n + 3) - 1) : f[p + 1] = After(b[p])[f[p]]
  BY Zenon DEF Scanned
<1> SUFFICES ASSUME f[z + 1] = "code"
             PROVE  /\ f[z + n + 3] = "code"
                    /\ \A p \in (z + 1)..((z + n + 3) - 1) : IsBrace(b[p]) => f[p] # "code"
  BY Zenon DEF Calm
<1> HIDE DEF n
<1> DEFINE In(i) == f[z + 1 + i] = IF e[i] THEN "escaped" ELSE "string"
           Bad == {i \in 1..(n + 1) : ~In(i)}
<1>6. In(1)
  <2>1. z + 1 \in (z + 1)..((z + n + 3) - 1)
    BY <1>1
  <2>2. f[z + 1 + 1] = "string"
    BY <1>2, <1>5, <2>1, AfterIs, Zenon
  <2> QED
    BY <1>4, <2>2, Zenon
<1>7. ASSUME NEW i \in 1..n, In(i) PROVE In(i + 1)
  <2>1. z + 1 + i \in (z + 1)..((z + n + 3) - 1) /\ (z + 1 + i) + 1 = z + 1 + (i + 1)
    BY <1>1
  <2>2. f[z + 1 + (i + 1)] = After(b[z + 1 + i])[f[z + 1 + i]]
    BY <1>5, <2>1, Zenon
  <2>3. b[z + 1 + i] = s[i]
    BY <1>2, Zenon DEF At, n
  <2>4. e[i + 1] = (s[i] = Backslash /\ ~e[i]) /\ (s[i] = Quote => e[i])
    BY <1>4, Zenon
  <2>5. CASE e[i]
    <3>1. f[z + 1 + (i + 1)] = "string"
      BY <1>7, <2>2, <2>5, AfterIs, Zenon
    <3> QED
      BY <2>4, <2>5, <3>1, Zenon
  <2>6. CASE ~e[i]
    <3>1. s[i] # Quote
      BY <2>4, <2>6, Zenon
    <3>2. f[z + 1 + (i + 1)] = IF s[i] = Backslash THEN "escaped" ELSE "string"
      BY <1>7, <2>2, <2>3, <2>6, <3>1, AfterIs, Zenon
    <3> QED
      BY <2>4, <2>6, <3>2, Zenon
  <2> QED
    BY <2>5, <2>6, Zenon
<1> HIDE DEF In
<1>8. Bad = {}
  <2> SUFFICES ASSUME Bad # {} PROVE FALSE
    OBVIOUS
  <2>1. Bad \in SUBSET Nat /\ Bad \subseteq 1..(n + 1) /\ \A i \in 1..(n + 1) : i \notin Bad => In(i)
    OBVIOUS
  <2>4. \A i \in Bad : ~In(i)
    OBVIOUS
  <2> HIDE DEF Bad
  <2>2. PICK m \in Bad : \A k \in Bad : m <= k
    BY <2>1, LeastNatural
  <2>3. m # 1
    BY <1>6, <2>2, <2>4
  <2>5. m - 1 \in 1..n /\ m - 1 \notin Bad /\ (m - 1) + 1 = m /\ m - 1 \in 1..(n + 1)
    BY <1>1, <2>1, <2>2, <2>3
  <2> QED
    BY <1>7, <2>1, <2>2, <2>4, <2>5, Zenon
<1>9. \A i \in 1..(n + 1) : In(i)
  BY <1>8, Zenon
<1>10. f[z + n + 3] = "code"
  <2>1. n + 1 \in 1..(n + 1) /\ z + 1 + (n + 1) = z + n + 2 /\ z + n + 2 \in (z + 1)..((z + n + 3) - 1)
        /\ (z + n + 2) + 1 = z + n + 3
    BY <1>1
  <2>2. f[z + n + 2] = "string"
    <3> DEFINE j == n + 1
    <3>1. j \in 1..j /\ z + 1 + j = z + n + 2 /\ ~e[j] /\ \A i \in 1..j : In(i)
      BY <1>4, <1>9, <2>1, Zenon
    <3> HIDE DEF j
    <3>2. f[z + 1 + j] = "string"
      BY <3>1, Zenon DEF In
    <3> QED
      BY <3>1, <3>2, Zenon
  <2> QED
    BY <1>2, <1>5, <2>1, <2>2, AfterIs, Zenon
<1>11. ASSUME NEW p \in (z + 1)..((z + n + 3) - 1), IsBrace(b[p]) PROVE f[p] # "code"
  <2>1. p # z + 1
    BY <1>2, <1>11, MarksDiffer, Zenon DEF IsBrace
  <2>2. p - (z + 1) \in 1..(n + 1) /\ z + 1 + (p - (z + 1)) = p
    BY <1>1, <2>1
  <2>3. f[p] = "escaped" \/ f[p] = "string"
    BY <1>9, <2>2, Zenon DEF In
  <2>4. "escaped" # "code" /\ "string" # "code"
    OBVIOUS
  <2> QED
    BY <2>3, <2>4, Zenon
<1> QED
  BY <1>10, <1>11, Zenon DEF n

Blank(c) == c # Quote /\ ~IsBrace(c)

LEMMA Blanks == Blank(",") /\ Blank(" ") /\ Blank(":") /\ Blank("[") /\ Blank("]")
BY DEF Blank, IsBrace, Quote

LEMMA CalmGap ==
  ASSUME NEW b, NEW f, NEW lo \in Int, NEW hi \in Int, Scanned(b, f, lo, hi), NEW g \in 0..1,
         NEW p \in Int, lo <= p, p + g <= hi, g = 1 => Blank(b[p])
  PROVE  Calm(b, f, p, p + g)
<1>1. CASE g = 0
  <2>1. p + g = p /\ p..((p + g) - 1) = {}
    BY <1>1
  <2> QED
    BY <2>1, Zenon DEF Calm
<1>2. CASE g = 1
  <2>1. p + g = p + 1 /\ p \in lo..(hi - 1)
    BY <1>2
  <2>2. Calm(b, f, p, p + 1)
    BY <1>2, <2>1, CalmSymbol, Zenon DEF Blank
  <2> QED
    BY <2>1, <2>2, Zenon
<1>3. g = 0 \/ g = 1
  OBVIOUS
<1> QED
  BY <1>1, <1>2, <1>3, Zenon

\* Calm stretches with a comma and a gap between them.
Chain(b, f, lo, hi, g, n, D, E) ==
  /\ lo \in Int /\ hi \in Int /\ Scanned(b, f, lo, hi) /\ g \in 0..1
  /\ n \in Nat \ {0} /\ D \in [1..n -> Int] /\ E \in [1..n -> Int]
  /\ \A i \in 1..n : lo <= D[i] /\ D[i] <= E[i] /\ E[i] <= hi /\ Calm(b, f, D[i], E[i])
  /\ \A i \in 1..n : i # 1 => /\ D[i] = E[i - 1] + 1 + g
                              /\ Blank(b[E[i - 1]]) /\ (g = 1 => Blank(b[E[i - 1] + 1]))

\* They make one calm stretch.
LEMMA ChainCalm ==
  ASSUME NEW b, NEW f, NEW lo, NEW hi, NEW g, NEW n, NEW D, NEW E, Chain(b, f, lo, hi, g, n, D, E)
  PROVE  Calm(b, f, D[1], E[n]) /\ D[1] <= E[n]
<1> USE DEF Chain
<1> DEFINE P(i) == Calm(b, f, D[1], E[i]) /\ D[1] <= E[i]
           Bad == {i \in 1..n : ~P(i)}
<1>1. 1 \in 1..n /\ n \in 1..n /\ P(1)
  OBVIOUS
<1>2. ASSUME NEW i \in 1..n, i # 1, P(i - 1) PROVE P(i)
  <2>1. i - 1 \in 1..n
    BY <1>2
  <2> DEFINE d1 == D[1]
             d == D[i]
             e == E[i]
             e0 == E[i - 1]
  <2>2. /\ d1 \in Int /\ d \in Int /\ e \in Int /\ e0 \in Int
        /\ lo <= d1 /\ lo <= d /\ d <= e /\ e <= hi /\ Calm(b, f, d, e)
        /\ d = e0 + 1 + g /\ Blank(b[e0]) /\ (g = 1 => Blank(b[e0 + 1]))
        /\ d1 <= e0 /\ Calm(b, f, d1, e0)
    BY <1>1, <1>2, <2>1
  <2> HIDE DEF d1, d, e, e0
  <2>3. /\ lo <= e0 /\ e0 + 1 \in Int /\ lo <= e0 + 1 /\ (e0 + 1) + g <= hi /\ e0 \in lo..(hi - 1)
        /\ (e0 + 1) + g = d /\ e0 <= e0 + 1 /\ e0 + 1 <= d /\ d1 <= d /\ d1 <= e0 + 1 /\ d1 <= e
    BY <2>2
  <2>4. Calm(b, f, e0, e0 + 1)
    BY <2>2, <2>3, CalmSymbol, Zenon DEF Blank
  <2>5. Calm(b, f, e0 + 1, (e0 + 1) + g)
    BY <2>2, <2>3, CalmGap, Zenon
  <2>6. Calm(b, f, d1, e0 + 1)
    BY <2>2, <2>3, <2>4, CalmJoins, Zenon
  <2>7. Calm(b, f, d1, d)
    BY <2>2, <2>3, <2>5, <2>6, CalmJoins, Zenon
  <2>8. Calm(b, f, d1, e)
    BY <2>2, <2>3, <2>7, CalmJoins, Zenon
  <2> QED
    BY <2>3, <2>8, Zenon DEF d1, e
<1> HIDE DEF P
<1>3. Bad = {}
  <2> SUFFICES ASSUME Bad # {} PROVE FALSE
    OBVIOUS
  <2>1. Bad \in SUBSET Nat /\ Bad \subseteq 1..n /\ (\A i \in 1..n : i \notin Bad => P(i)) /\ \A i \in Bad : ~P(i)
    OBVIOUS
  <2> HIDE DEF Bad
  <2>2. PICK m \in Bad : \A k \in Bad : m <= k
    BY <2>1, LeastNatural
  <2>3. m # 1 /\ m \in 1..n
    BY <1>1, <2>1, <2>2, Zenon
  <2>4. m - 1 \in 1..n /\ m - 1 \notin Bad
    BY <2>2, <2>3
  <2> QED
    BY <1>2, <2>1, <2>2, <2>3, <2>4, Zenon
<1>4. P(n)
  BY <1>1, <1>3, Zenon
<1> QED
  BY <1>4, Zenon DEF P

\* What is between the brackets of a list.
LEMMA ListCalm ==
  ASSUME NEW t \in Symbols, NEW o, NEW c, NEW n \in Nat, NEW parts \in [1..n -> Symbols],
         NEW g \in 0..1, NEW at, Laid(t, o, parts, n, c, g, at),
         NEW b, NEW x \in Nat, At(b, x, t), NEW f, Scanned(b, f, x + 1, x + Len(t)),
         \A i \in 1..n : Calm(b, f, x + at[i] + 1, x + at[i] + Len(parts[i]) + 1)
  PROVE  Calm(b, f, x + 2, x + Len(t)) /\ Len(t) >= 2
<1> DEFINE y == Len(t)
           lo == x + 1
           hi == x + y
<1>1. y \in Nat /\ (n = 0 => y = 2 + g)
  BY Texts, Zenon DEF Laid
<1>0. g = 1 => t[y - 1] = " "
  BY Zenon DEF Laid
<1>2. \A i \in 1..y : b[x + i] = t[i]
  BY Zenon DEF At
<1>3. Scanned(b, f, lo, hi) /\ lo \in Int /\ hi \in Int
  BY <1>1
<1>4. CASE n = 0
  <2>1. y = 2 + g
    BY <1>1, <1>4, Zenon
  <2> HIDE DEF y
  <2>2. y \in Nat /\ y >= 2 /\ (g = 1 => y - 1 = 2 /\ 2 \in 1..y) /\ x + 2 \in Int /\ lo <= x + 2
        /\ (x + 2) + g <= hi /\ (x + 2) + g = x + y
    BY <1>1, <2>1 DEF lo, hi
  <2>3. g = 1 => b[x + 2] = " "
    BY <1>0, <1>2, <2>2, Zenon
  <2>4. g = 1 => Blank(b[x + 2])
    BY <2>3, Blanks, Zenon
  <2> HIDE DEF lo, hi
  <2>5. Calm(b, f, x + 2, (x + 2) + g)
    BY <1>3, <2>2, <2>4, CalmGap, Zenon
  <2> QED
    BY <2>2, <2>5, Zenon DEF y
<1>5. CASE n # 0
  <2> DEFINE D == [i \in 1..n |-> x + at[i] + 1]
             E == [i \in 1..n |-> x + at[i] + Len(parts[i]) + 1]
  <2>1. \A i \in 1..n : /\ at[i] \in Nat /\ Len(parts[i]) \in Nat
                        /\ 1 <= at[i] /\ at[i] + Len(parts[i]) < y
    <3> HIDE DEF y
    <3> TAKE i \in 1..n
    <3>1. 1 <= at[i] /\ at[i] + Len(parts[i]) < y /\ at[i] \in Nat /\ Len(parts[i]) \in Nat
      BY LaidNumbers DEF y
    <3> QED
      BY <3>1, Zenon
  <2>2. D \in [1..n -> Int] /\ E \in [1..n -> Int]
    <3> HIDE DEF y
    <3> QED
      BY <2>1, SMTT(30)
  <2>3. \A i \in 1..n : /\ D[i] = x + at[i] + 1 /\ E[i] = x + at[i] + Len(parts[i]) + 1
    OBVIOUS
  <2> HIDE DEF D, E
  <2>4. ASSUME NEW i \in 1..n PROVE lo <= D[i] /\ D[i] <= E[i] /\ E[i] <= hi /\ Calm(b, f, D[i], E[i])
    <3>1. Calm(b, f, D[i], E[i])
      BY <2>3, Zenon
    <3> DEFINE a == at[i]
               l == Len(parts[i])
    <3>2. a \in Nat /\ l \in Nat /\ 1 <= a /\ a + l < y /\ D[i] = x + a + 1 /\ E[i] = x + a + l + 1
      BY <2>1, <2>3, Zenon
    <3> HIDE DEF a, l, y
    <3>3. lo <= D[i] /\ D[i] <= E[i] /\ E[i] <= hi
      BY <1>1, <3>2
    <3> QED
      BY <3>1, <3>3, Zenon
  <2>5. ASSUME NEW i \in 1..n, i # 1
        PROVE  /\ D[i] = E[i - 1] + 1 + g
               /\ Blank(b[E[i - 1]]) /\ (g = 1 => Blank(b[E[i - 1] + 1]))
    <3>1. i - 1 \in 1..n
      BY <2>5
    <3>2. at[i] = at[i - 1] + Len(parts[i - 1]) + 1 + g /\ t[at[i] - g] = "," /\ (g = 1 => t[at[i]] = " ")
      BY <2>5, Zenon DEF Laid
    <3> DEFINE a == at[i]
               a0 == at[i - 1]
               l == Len(parts[i])
               l0 == Len(parts[i - 1])
    <3>3. /\ a \in Nat /\ a0 \in Nat /\ l \in Nat /\ l0 \in Nat /\ 1 <= a0 /\ a + l < y /\ a = a0 + l0 + 1 + g
          /\ D[i] = x + a + 1 /\ E[i - 1] = x + a0 + l0 + 1
      BY <2>1, <2>3, <3>1, <3>2, Zenon
    <3> HIDE DEF a, l, y, a0, l0
    <3>4. /\ D[i] = E[i - 1] + 1 + g /\ a - g \in 1..y /\ x + (a - g) = E[i - 1]
          /\ (g = 1 => a \in 1..y /\ x + a = E[i - 1] + 1)
      BY <1>1, <3>3
    <3>5. b[E[i - 1]] = "," /\ (g = 1 => b[E[i - 1] + 1] = " ")
      BY <1>2, <3>2, <3>4, Zenon DEF a, y
    <3> QED
      BY <3>4, <3>5, Blanks, Zenon
  <2>6. n \in Nat \ {0} /\ n \in 1..n /\ 1 \in 1..n
    BY <1>5
  <2> HIDE DEF lo, hi
  <2>7. Calm(b, f, D[1], E[n]) /\ D[1] <= E[n]
    <3>1. \A i \in 1..n : lo <= D[i] /\ D[i] <= E[i] /\ E[i] <= hi /\ Calm(b, f, D[i], E[i])
      BY <2>4
    <3>2. \A i \in 1..n : i # 1 => /\ D[i] = E[i - 1] + 1 + g
                                  /\ Blank(b[E[i - 1]]) /\ (g = 1 => Blank(b[E[i - 1] + 1]))
      BY <2>5
    <3>3. Chain(b, f, lo, hi, g, n, D, E)
      BY <1>3, <2>2, <2>6, <3>1, <3>2, Zenon DEF Chain
    <3> QED
      BY <3>3, ChainCalm
  <2>8. at[1] = 1 /\ y = at[n] + Len(parts[n]) + g + 1
    BY <1>5, <2>6, Zenon DEF Laid
  <2> DEFINE a == at[n]
             l == Len(parts[n])
             d1 == D[1]
             e == E[n]
  <2>9. /\ a \in Nat /\ l \in Nat /\ 1 <= a /\ y = a + l + g + 1 /\ d1 = x + 1 + 1 /\ e = x + a + l + 1
        /\ d1 <= e
    BY <2>1, <2>3, <2>6, <2>7, <2>8, Zenon
  <2> HIDE DEF a, l, d1, e, y
  <2>10. /\ e + g = x + y /\ y \in Nat /\ y >= 2 /\ d1 = x + 2 /\ lo <= e /\ e + g <= hi /\ e \in Int /\ d1 \in Int
         /\ (g = 1 => y - 1 \in 1..y /\ x + (y - 1) = e) /\ e + g \in Int /\ e <= e + g
    BY <1>1, <2>9 DEF lo, hi
  <2>11. g = 1 => Blank(b[e])
    BY <1>0, <1>2, <2>10, Blanks, Zenon
  <2>12. Calm(b, f, e, e + g)
    BY <1>3, <2>10, <2>11, CalmGap, Zenon
  <2>13. Calm(b, f, d1, e + g)
    BY <2>7, <2>9, <2>10, <2>12, CalmJoins, Zenon DEF d1, e
  <2> QED
    BY <2>10, <2>13, Zenon DEF y
<1> QED
  BY <1>4, <1>5

\* A key is a string without quotes and backslashes.
LEMMA KeyCalm ==
  ASSUME NEW b, NEW f, NEW z \in Nat, Scanned(b, f, z + 1, z + 4),
         b[z + 1] = Quote, b[z + 2] \notin {Quote, Backslash}, b[z + 3] = Quote
  PROVE  Calm(b, f, z + 1, z + 4)
<1> SUFFICES ASSUME f[z + 1] = "code"
             PROVE  f[z + 4] = "code" /\ \A p \in (z + 1)..((z + 4) - 1) : IsBrace(b[p]) => f[p] # "code"
  BY Zenon DEF Calm
<1>1. /\ z + 1 \in (z + 1)..((z + 4) - 1) /\ (z + 1) + 1 = z + 2
      /\ z + 2 \in (z + 1)..((z + 4) - 1) /\ (z + 2) + 1 = z + 3
      /\ z + 3 \in (z + 1)..((z + 4) - 1) /\ (z + 3) + 1 = z + 4
      /\ \A p \in (z + 1)..((z + 4) - 1) : p = z + 1 \/ p = z + 2 \/ p = z + 3
  OBVIOUS
<1>2. f[z + 2] = "string"
  <2>1. f[z + 2] = After(b[z + 1])[f[z + 1]]
    BY <1>1, Zenon DEF Scanned
  <2> QED
    BY <2>1, AfterIs, Zenon
<1>3. f[z + 3] = "string"
  <2>1. f[z + 3] = After(b[z + 2])[f[z + 2]]
    BY <1>1, Zenon DEF Scanned
  <2> QED
    BY <1>2, <2>1, AfterIs, Zenon
<1>4. f[z + 4] = "code"
  <2>1. f[z + 4] = After(b[z + 3])[f[z + 3]]
    BY <1>1, Zenon DEF Scanned
  <2> QED
    BY <1>3, <2>1, AfterIs, Zenon
<1>5. ~IsBrace(Quote) /\ "string" # "code"
  BY MarksDiffer, Zenon DEF IsBrace
<1>6. ASSUME NEW p \in (z + 1)..((z + 4) - 1), IsBrace(b[p]) PROVE f[p] # "code"
  <2>1. p = z + 2
    BY <1>1, <1>5, <1>6, Zenon
  <2> QED
    BY <1>2, <1>5, <2>1, Zenon
<1> QED
  BY <1>4, <1>6, Zenon

\* A member is calm if its value is.
LEMMA PairCalm ==
  ASSUME NEW b, NEW f, NEW z \in Nat, NEW key, key \notin {Quote, Backslash}, NEW v, NEW l \in Nat, l = Len(v),
         NEW g \in 0..1, PairPlaced(b, z, key, v, g),
         Scanned(b, f, z + 1, z + (4 + 2 * g + l) + 1),
         Calm(b, f, (z + 4 + 2 * g) + 1, (z + 4 + 2 * g) + l + 1)
  PROVE  Calm(b, f, z + 1, z + (4 + 2 * g + l) + 1)
<1> DEFINE lo == z + 1
           hi == z + (4 + 2 * g + l) + 1
           v0 == (z + 4 + 2 * g) + 1
<1>1. /\ b[z + 1] = Quote /\ b[z + 2] = key /\ b[z + 3] = Quote /\ b[z + 4 + g] = ":"
  BY Zenon DEF PairPlaced
<1>2. g = 1 => b[z + 4] = " " /\ b[z + 6] = " "
  BY Zenon DEF PairPlaced
<1>3. /\ lo \in Int /\ hi \in Int /\ v0 \in Int /\ z + 4 \in Int /\ z + 4 + g \in lo..(hi - 1)
      /\ lo <= z + 4 /\ z + 4 <= hi /\ (z + 4) + g <= hi /\ (z + 4) + g = z + 4 + g /\ z + 4 <= z + 4 + g
      /\ lo <= z + 4 + g /\ z + 4 + g <= (z + 4 + g) + 1 /\ (z + 4 + g) + 1 \in Int /\ lo <= (z + 4 + g) + 1
      /\ ((z + 4 + g) + 1) + g <= hi /\ ((z + 4 + g) + 1) + g = v0 /\ (z + 4 + g) + 1 <= v0
      /\ (g = 1 => (z + 4 + g) + 1 = z + 6) /\ lo <= v0 /\ v0 <= hi /\ hi = (z + 4 + 2 * g) + l + 1
      /\ z + 4 + g \in Int
  OBVIOUS
<1>4. Scanned(b, f, lo, hi) /\ Calm(b, f, v0, hi)
  BY <1>3, Zenon
<1> HIDE DEF lo, hi, v0
<1>5. Calm(b, f, lo, z + 4)
  <2>1. Scanned(b, f, lo, z + 4)
    <3>1. lo <= lo
      BY <1>3
    <3> QED
      BY <1>3, <1>4, <3>1, ScannedPart, Zenon
  <2> QED
    BY <1>1, <2>1, KeyCalm, Zenon DEF lo
<1>6. Calm(b, f, z + 4, (z + 4) + g)
  BY <1>2, <1>3, <1>4, CalmGap, Blanks, Zenon
<1>7. Calm(b, f, z + 4 + g, (z + 4 + g) + 1)
  <2>1. b[z + 4 + g] # Quote /\ ~IsBrace(b[z + 4 + g])
    BY <1>1, Blanks, Zenon DEF Blank
  <2> QED
    BY <1>3, <1>4, <2>1, CalmSymbol, Zenon
<1>8. Calm(b, f, (z + 4 + g) + 1, ((z + 4 + g) + 1) + g)
  <2>1. g = 1 => Blank(b[(z + 4 + g) + 1])
    BY <1>2, <1>3, Blanks, Zenon
  <2> QED
    BY <1>3, <1>4, <2>1, CalmGap, Zenon
<1>9. Calm(b, f, lo, z + 4 + g)
  BY <1>3, <1>5, <1>6, CalmJoins, Zenon
<1>10. Calm(b, f, lo, (z + 4 + g) + 1)
  BY <1>3, <1>7, <1>9, CalmJoins, Zenon
<1>11. Calm(b, f, lo, v0)
  BY <1>3, <1>8, <1>10, CalmJoins, Zenon
<1> QED
  BY <1>3, <1>4, <1>11, CalmJoins, Zenon DEF lo, hi

\* The text of a plain member.
LEMMA PlainCalm ==
  ASSUME NEW m \in Plain, Clear(m), NEW gap \in Gaps, NEW b, NEW f, NEW z \in Nat, At(b, z, PlainText(m, gap)),
         NEW lo \in Int, NEW hi \in Int, Scanned(b, f, lo, hi),
         lo <= z + 1, z + Len(PlainText(m, gap)) + 1 <= hi
  PROVE  Calm(b, f, z + 1, z + Len(PlainText(m, gap)) + 1)
<1> DEFINE t == PlainText(m, gap)
           y == Len(t)
<1>1. t \in Symbols /\ y \in Nat /\ y >= 1
  BY PlainBegins, Texts, Zenon
<1>2. Scanned(b, f, z + 1, z + y + 1)
  <2>1. z + 1 \in Int /\ z + y + 1 \in Int
    <3> HIDE DEF y
    <3> QED
      BY <1>1
  <2> QED
    BY <2>1, ScannedPart, Zenon
<1>3. m.kind \in {"lit", "str", "arr"}
  BY Kinds, Zenon
<1>4. CASE m.kind = "lit"
  <2>1. t[1] = m.val[1] /\ m.val[1] \notin Marks /\ Len(m.val) = 1 /\ t = m.val
    BY <1>4, PlainBegins, Kinds, Zenon
  <2>2. y = 1
    BY <2>1, Zenon
  <2> HIDE DEF y
  <2>3. 1 \in 1..y /\ z + y + 1 = (z + 1) + 1 /\ z + 1 \in (z + 1)..((z + y + 1) - 1)
        /\ z + 1 \in Int /\ z + y + 1 \in Int
    BY <2>2
  <2>4. b[z + 1] = t[1]
    BY <2>3, Zenon DEF At, y
  <2>5. b[z + 1] # Quote /\ ~IsBrace(b[z + 1])
    BY <2>1, <2>4, Zenon DEF Marks, IsBrace
  <2>6. Calm(b, f, z + 1, (z + 1) + 1)
    BY <1>2, <2>3, <2>5, CalmSymbol, Zenon
  <2> QED
    BY <2>3, <2>6, Zenon DEF y
<1>5. CASE m.kind = "str"
  <2>1. t = String(m.val) /\ m.val \in Symbols /\ Escaped(m.val)
    BY <1>5, Kinds, Zenon DEF Clear
  <2>2. y = Len(m.val) + 2 /\ Len(m.val) \in Nat
    BY <2>1, StringPlaces, Texts, Zenon
  <2> HIDE DEF y
  <2>3. z + y + 1 = z + Len(m.val) + 3
    BY <2>2
  <2>4. Calm(b, f, z + 1, z + Len(m.val) + 3)
    BY <1>2, <2>1, <2>3, StringCalm, Zenon
  <2> QED
    BY <2>3, <2>4, Zenon DEF y
<1>6. CASE m.kind = "arr"
  <2> DEFINE n == Len(m.val)
             ss == StringsOf(m)
             g == Len(gap)
  <2>1. PICK at : Laid(t, "[", ss, n, "]", g, at)
    BY <1>6, ArrayPlaces, Zenon
  <2>2. n \in Nat /\ ss \in [1..n -> Symbols] /\ g \in 0..1
    BY <1>6, ArrayPlaces, GapsAreText, Zenon
  <2>3. \A i \in 1..n : ss[i] = String(m.val[i]) /\ m.val[i] \in Symbols /\ Escaped(m.val[i])
    <3>1. \A i \in 1..n : ss[i] = String(m.val[i]) /\ m.val[i] \in Symbols
      BY <1>6, ArrayPlaces, Zenon
    <3>2. Strings(m) = {m.val[j] : j \in 1..n}
      BY <1>6, Kinds, Zenon
    <3> QED
      BY <3>1, <3>2, Zenon DEF Clear
  <2>4. t[1] = "[" /\ t[y] = "]"
    BY <2>1, Zenon DEF Laid
  <2> HIDE DEF n, ss, t, y, g
  <2>5. ASSUME NEW i \in 1..n PROVE Calm(b, f, z + at[i] + 1, z + at[i] + Len(ss[i]) + 1)
    <3>1. at[i] \in Nat /\ Len(ss[i]) \in Nat /\ 1 <= at[i] /\ at[i] + Len(ss[i]) < y /\ At(t, at[i], ss[i])
      BY <1>1, <2>1, <2>2, LaidNumbers, Zenon DEF y
    <3>2. Len(ss[i]) = Len(m.val[i]) + 2 /\ Len(m.val[i]) \in Nat
      BY <2>3, StringPlaces, Texts, Zenon
    <3> DEFINE a == at[i]
               l == Len(ss[i])
               k == Len(m.val[i])
    <3>3. a \in Nat /\ l \in Nat /\ k \in Nat /\ 1 <= a /\ a + l < y /\ l = k + 2
      BY <3>1, <3>2, Zenon
    <3> HIDE DEF a, l, k
    <3>4. /\ z \in Int /\ a + l <= y /\ z + a \in Nat /\ (z + a) + 1 = z + a + 1 /\ (z + a) + k + 3 = z + a + l + 1
          /\ (z + a) + 1 \in Int /\ (z + a) + k + 3 \in Int /\ z + 1 <= (z + a) + 1
          /\ (z + a) + k + 3 <= z + y + 1 /\ z + 1 \in Int /\ z + y + 1 \in Int
      BY <1>1, <3>3
    <3>5. At(b, z + a, ss[i])
      <4>1. At(b, z, t) /\ At(t, a, ss[i]) /\ Len(t) = y
        BY <3>1, Zenon DEF t, a, y
      <4> QED
        BY <1>1, <3>1, <3>3, <3>4, <4>1, AtTrans, Zenon DEF l
    <3>6. Scanned(b, f, (z + a) + 1, (z + a) + k + 3)
      BY <1>2, <3>4, ScannedPart, Zenon
    <3>7. Calm(b, f, (z + a) + 1, (z + a) + k + 3)
      BY <2>3, <3>4, <3>5, <3>6, StringCalm, Zenon DEF k
    <3> QED
      BY <3>4, <3>7, Zenon DEF a, l
  <2>6. Scanned(b, f, z + 1, z + y) /\ At(b, z, t)
    <3>1. z + 1 \in Int /\ z + y + 1 \in Int /\ z + y \in Int /\ z + 1 <= z + 1 /\ z + y <= z + y + 1
      BY <1>1
    <3> QED
      BY <1>2, <3>1, ScannedPart, Zenon DEF t
  <2>7. Calm(b, f, z + 2, z + y) /\ y >= 2
    BY <1>1, <2>1, <2>2, <2>5, <2>6, ListCalm, Zenon DEF y
  <2>8. /\ 1 \in 1..y /\ y \in 1..y /\ z + 1 \in (z + 1)..((z + y + 1) - 1) /\ z + y \in (z + 1)..((z + y + 1) - 1)
        /\ (z + 1) + 1 = z + 2 /\ (z + y) + 1 = z + y + 1 /\ z + 1 \in Int /\ z + 2 \in Int /\ z + y \in Int
        /\ z + y + 1 \in Int /\ z + 1 <= z + 2 /\ z + 2 <= z + y /\ z + 1 <= z + y /\ z + y <= z + y + 1
    BY <1>1, <2>7
  <2>9. b[z + 1] = "[" /\ b[z + y] = "]"
    BY <2>4, <2>6, <2>8, Zenon DEF At, y
  <2>10. Calm(b, f, z + 1, z + 2)
    BY <1>2, <2>8, <2>9, CalmSymbol, Blanks, Zenon DEF Blank
  <2>11. Calm(b, f, z + y, z + y + 1)
    BY <1>2, <2>8, <2>9, CalmSymbol, Blanks, Zenon DEF Blank
  <2>12. Calm(b, f, z + 1, z + y)
    BY <2>7, <2>8, <2>10, CalmJoins, Zenon
  <2>13. Calm(b, f, z + 1, z + y + 1)
    BY <2>8, <2>11, <2>12, CalmJoins, Zenon
  <2> QED
    BY <2>13, Zenon DEF y, t
<1> QED
  BY <1>3, <1>4, <1>5, <1>6, Zenon

Opens(c)  == c = "{"
Closes(c) == c = "}"

\* A brace is matched by the one after a calm stretch.
LEMMA BraceMatched ==
  ASSUME NEW b, NEW s \in Nat, NEW e \in Nat, NEW end \in Nat, s < e, e < end,
         Opens(b[s]), Closes(b[e]), Calm(b, Scan(b, s, end, "code"), s + 1, e)
  PROVE  MatchBrace(b, s, end) = e + 1
<1> DEFINE f == Scan(b, s, end, "code")
           Seen(c, p) == {r \in s..(p - 1) : b[r] = c /\ f[r] = "code"}
           S == {p \in (s + 1)..end : /\ b[p - 1] = "}" /\ f[p - 1] = "code"
                                      /\ Cardinality(Seen("{", p)) = Cardinality(Seen("}", p))}
<1>1. MatchBrace(b, s, end) = FirstOf(S)
  BY Zenon DEF MatchBrace
<1>2. f[s] = "code" /\ Scanned(b, f, s, end)
  <2>1. s <= end
    OBVIOUS
  <2> QED
    BY <2>1, ScanRuns, Zenon
<1> HIDE DEF f
<1>3. f[s + 1] = "code"
  <2>1. s \in s..(end - 1)
    OBVIOUS
  <2>2. f[s + 1] = After(b[s])[f[s]]
    BY <1>2, <2>1, Zenon DEF Scanned
  <2>3. b[s] # Quote
    BY MarksDiffer, Zenon DEF Opens
  <2> QED
    BY <1>2, <2>2, <2>3, AfterIs, Zenon
<1>4. f[e] = "code" /\ \A p \in (s + 1)..(e - 1) : IsBrace(b[p]) => f[p] # "code"
  BY <1>3, Zenon DEF Calm, f
<1>5. "{" # "}"
  BY MarksDiffer, Zenon
<1>6. Seen("{", e + 1) = {s}
  <2>1. \A r \in s..((e + 1) - 1) : r = s \/ r = e \/ r \in (s + 1)..(e - 1)
    OBVIOUS
  <2>2. s \in s..((e + 1) - 1)
    OBVIOUS
  <2> QED
    BY <1>2, <1>4, <1>5, <2>1, <2>2, Zenon DEF IsBrace, Opens, Closes
<1>7. Seen("}", e + 1) = {e}
  <2>1. \A r \in s..((e + 1) - 1) : r = s \/ r = e \/ r \in (s + 1)..(e - 1)
    OBVIOUS
  <2>2. e \in s..((e + 1) - 1)
    OBVIOUS
  <2> QED
    BY <1>4, <1>5, <2>1, <2>2, Zenon DEF IsBrace, Opens, Closes
<1>8. Cardinality(Seen("{", e + 1)) = Cardinality(Seen("}", e + 1))
  <2>1. Cardinality({s}) = 1 /\ Cardinality({e}) = 1
    BY FS_Singleton, Zenon
  <2> QED
    BY <1>6, <1>7, <2>1, Zenon
<1>9. e + 1 \in S
  <2>1. e + 1 \in (s + 1)..end /\ (e + 1) - 1 = e
    OBVIOUS
  <2> HIDE DEF Seen
  <2> QED
    BY <1>4, <1>8, <2>1, Zenon DEF Closes
<1>10. ASSUME NEW p \in S PROVE e + 1 <= p
  <2>1. p \in (s + 1)..end /\ b[p - 1] = "}" /\ f[p - 1] = "code"
    BY <1>10, Zenon
  <2>2. p - 1 # s
    BY <1>5, <2>1, Zenon DEF Opens
  <2>3. p - 1 \notin (s + 1)..(e - 1)
    BY <1>4, <2>1, Zenon DEF IsBrace
  <2>4. p \in (s + 1)..end
    BY <2>1, Zenon
  <2> HIDE DEF S
  <2> QED
    BY <2>2, <2>3, <2>4
<1>11. S \in SUBSET Nat
  <2>1. (s + 1)..end \subseteq Nat
    OBVIOUS
  <2> QED
    BY <2>1, Zenon
<1> HIDE DEF S
<1>12. FirstOf(S) = e + 1
  <2> DEFINE z == e + 1
  <2>1. z \in S /\ \A p \in S : z <= p
    BY <1>9, <1>10
  <2> HIDE DEF z
  <2>2. FirstOf(S) = z
    BY <1>11, <2>1, FirstOfIs, Zenon
  <2> QED
    BY <2>2, Zenon DEF z
<1> QED
  BY <1>1, <1>12, Zenon

\* An object of a request lies in b after x and before end: its closing brace
\* is found.
Fits(b, x, t, inner, o, gap, end) ==
  /\ inner \in Seq(Plain) /\ Inside(inner) /\ Orderly(Len(inner)) /\ o \in Orders /\ gap \in Gaps
  /\ t = ObjectText(inner, InnerTexts(inner, gap), o, gap) /\ x \in Nat /\ At(b, x, t)
  /\ end \in Nat /\ x + Len(t) + 1 <= end

LEMMA ObjectMatched ==
  ASSUME NEW b, NEW x, NEW t, NEW inner, NEW o, NEW gap, NEW end, Fits(b, x, t, inner, o, gap, end)
  PROVE  MatchBrace(b, x + 1, end) = x + Len(t) + 1
<1>0. /\ inner \in Seq(Plain) /\ Inside(inner) /\ Orderly(Len(inner)) /\ o \in Orders /\ gap \in Gaps
      /\ t = ObjectText(inner, InnerTexts(inner, gap), o, gap) /\ x \in Nat /\ At(b, x, t)
      /\ end \in Nat /\ x + Len(t) + 1 <= end
  BY Zenon DEF Fits
<1> USE <1>0
<1> DEFINE n == Len(inner)
           texts == InnerTexts(inner, gap)
           ps == Pairs(inner, texts, o[n], n, gap)
           g == Len(gap)
           y == Len(t)
           f == Scan(b, x + 1, end, "code")
           ord == o[n]
<1>1. Writable(inner, texts, o, n)
  BY InnerSays, Zenon DEF Sayable
<1>2. t \in Symbols /\ ps \in [1..n -> Symbols] /\ \E at : Laid(t, "{", ps, n, "}", g, at)
  BY <1>1, ObjectPlaces, Zenon
<1>3. PICK at : Laid(t, "{", ps, n, "}", g, at)
  BY <1>2, Zenon
<1>4. y \in Nat /\ g \in 0..1 /\ n \in Nat
  BY <1>1, <1>2, GapsAreText, Texts, Zenon DEF Writable
<1>5. \A i \in 1..n : ord[i] \in 1..n /\ ps[i] = Pair(inner[ord[i]].key, texts[ord[i]], gap)
  <2>1. ord \in [1..n -> 1..n]
    BY <1>1, Zenon DEF Writable
  <2>2. \A i \in 1..n : ps[i] = Pair(inner[ord[i]].key, texts[ord[i]], gap)
    BY Zenon DEF Pairs
  <2> HIDE DEF n, ord, ps, texts
  <2> QED
    BY <2>1, <2>2
<1>6. \A j \in 1..n : /\ inner[j] \in Plain /\ texts[j] = PlainText(inner[j], gap) /\ Clear(inner[j])
                      /\ inner[j].key \in STRING /\ inner[j].key \notin {Quote, Backslash}
                      /\ texts[j] \in Symbols
  <2>1. \A j \in 1..n : inner[j] \in Plain /\ texts[j] = PlainText(inner[j], gap)
    BY DEF InnerTexts
  <2>2. \A j \in 1..n : Clear(inner[j]) /\ inner[j].key \notin {Quote, Backslash}
    BY Zenon DEF Inside, Keyed
  <2>3. \A j \in 1..n : inner[j].key \in STRING /\ texts[j] \in Symbols
    BY <1>1, Zenon DEF Writable
  <2> QED
    BY <2>1, <2>2, <2>3, Zenon
<1>7. f[x + 1] = "code" /\ Scanned(b, f, x + 1, end)
  <2>1. x + 1 \in Nat /\ x + 1 <= end
    <3> HIDE DEF f
    <3>1. x + y + 1 <= end
      BY Zenon
    <3> HIDE DEF y
    <3> QED
      BY <1>4, <3>1
  <2> QED
    BY <2>1, ScanRuns, Zenon
<1>14. x + y + 1 <= end
  BY Zenon
<1> HIDE DEF f, y, ps, texts, n, g, ord
<1>8. ASSUME NEW i \in 1..n PROVE Calm(b, f, x + at[i] + 1, x + at[i] + Len(ps[i]) + 1)
  <2> DEFINE j == ord[i]
             key == inner[j].key
             v == texts[j]
             a == at[i]
             l == Len(v)
             p == Len(ps[i])
  <2>1. j \in 1..n /\ ps[i] = Pair(key, v, gap)
    BY <1>5, Zenon
  <2>2. /\ inner[j] \in Plain /\ v = PlainText(inner[j], gap) /\ Clear(inner[j])
        /\ key \in STRING /\ key \notin {Quote, Backslash} /\ v \in Symbols
    BY <1>6, <2>1, Zenon
  <2>3. a \in Nat /\ p \in Nat /\ 1 <= a /\ a + p < y /\ At(t, a, ps[i])
    BY <1>2, <1>3, <1>4, LaidNumbers, Zenon DEF y
  <2>4. p = 4 + 2 * g + l /\ l \in Nat
    <3>1. Len(Pair(key, v, gap)) = 4 + 2 * Len(gap) + Len(v)
      BY <2>2, PairPlaces, Zenon
    <3>2. l \in Nat
      BY <2>2, Texts, Zenon
    <3> QED
      BY <2>1, <3>1, <3>2, Zenon DEF g
  <2> HIDE DEF j, key, v, a, l, p
  <2>5. /\ x \in Int /\ a + p <= y /\ x + a \in Nat /\ x + a \in Int /\ x + a + p + 1 = (x + a) + (4 + 2 * g + l) + 1
        /\ (x + a) + 4 + 2 * g \in Nat
        /\ ((x + a) + 4 + 2 * g) + 1 >= x + 1 /\ x + 1 <= ((x + a) + 4 + 2 * g) + 1
        /\ ((x + a) + 4 + 2 * g) + l + 1 <= end
        /\ (x + a) + 1 \in Int /\ (x + a) + (4 + 2 * g + l) + 1 \in Int /\ x + 1 <= (x + a) + 1
        /\ (x + a) + (4 + 2 * g + l) + 1 <= end /\ x + 1 \in Int /\ x + a + 1 = (x + a) + 1 /\ end \in Int
    BY <1>4, <1>14, <2>3, <2>4
  <2>6. At(b, x + a, ps[i])
    <3>1. Len(t) = y /\ Len(ps[i]) = p
      BY Zenon DEF y, p
    <3> QED
      BY <1>4, <2>3, <2>5, <3>1, AtTrans, Zenon
  <2>7. PairPlaced(b, x + a, key, v, g)
    BY <2>1, <2>2, <2>5, <2>6, PairPlaces, Zenon DEF g
  <2>8. At(b, (x + a) + 4 + 2 * g, v)
    BY <2>7, Zenon DEF PairPlaced
  <2>9. Calm(b, f, ((x + a) + 4 + 2 * g) + 1, ((x + a) + 4 + 2 * g) + l + 1)
    <3> DEFINE z == (x + a) + 4 + 2 * g
               m == inner[j]
    <3>1. /\ m \in Plain /\ Clear(m) /\ z \in Nat /\ At(b, z, PlainText(m, gap)) /\ x + 1 <= z + 1
          /\ z + Len(PlainText(m, gap)) + 1 <= end /\ Len(PlainText(m, gap)) = l
      BY <2>2, <2>5, <2>8, Zenon DEF l
    <3> HIDE DEF z, m
    <3>2. Calm(b, f, z + 1, z + Len(PlainText(m, gap)) + 1)
      BY <1>7, <2>5, <3>1, PlainCalm, Zenon
    <3> QED
      BY <3>1, <3>2, Zenon DEF z
  <2>10. Scanned(b, f, (x + a) + 1, (x + a) + (4 + 2 * g + l) + 1)
    BY <1>7, <2>5, ScannedPart, Zenon
  <2>11. Calm(b, f, (x + a) + 1, (x + a) + (4 + 2 * g + l) + 1)
    BY <1>4, <2>2, <2>4, <2>5, <2>7, <2>9, <2>10, PairCalm, Zenon DEF l
  <2> QED
    BY <2>5, <2>11, Zenon DEF a, p
<1>9. Scanned(b, f, x + 1, x + y)
  <2>1. x + 1 \in Int /\ x + 1 <= x + 1 /\ end \in Int /\ x + y \in Int /\ x + y <= end
    BY <1>4, <1>14
  <2> QED
    BY <1>7, <2>1, ScannedPart, Zenon
<1>10. Calm(b, f, x + 2, x + y) /\ y >= 2
  BY <1>2, <1>3, <1>4, <1>8, <1>9, ListCalm, ZenonT(40) DEF y
<1>11. t[1] = "{" /\ t[y] = "}"
  BY <1>3, Zenon DEF Laid, y
<1>12. /\ 1 \in 1..y /\ y \in 1..y /\ x + 1 \in Nat /\ x + y \in Nat /\ x + 1 < x + y /\ x + y < end
       /\ (x + 1) + 1 = x + 2 /\ (x + y) + 1 = x + y + 1
  BY <1>4, <1>10, <1>14
<1>13. b[x + 1] = "{" /\ b[x + y] = "}"
  BY <1>11, <1>12, Zenon DEF At, y
<1>15. MatchBrace(b, x + 1, end) = (x + y) + 1
  <2> DEFINE s == x + 1
             e == x + y
  <2>1. s \in Nat /\ e \in Nat /\ s < e /\ e < end /\ Opens(b[s]) /\ Closes(b[e])
    BY <1>12, <1>13, Zenon DEF Opens, Closes
  <2>2. Calm(b, Scan(b, s, end, "code"), s + 1, e)
    BY <1>10, <1>12, Zenon DEF f
  <2> HIDE DEF s, e
  <2>3. MatchBrace(b, s, end) = e + 1
    BY <2>1, <2>2, BraceMatched
  <2> QED
    BY <2>3, Zenon DEF s, e
<1> QED
  BY <1>12, <1>15, Zenon DEF y

-----------------------------------------------------------------------------
(* What is no list has no bracket that could begin one. *)

OpensList(c) == c = "["

\* No symbol of t could begin a list.
Listless(t) == \A p \in 1..Len(t) : ~OpensList(t[p])

\* Texts without lists make a text without lists.
LEMMA ListlessJoins ==
  ASSUME NEW u \in Symbols, NEW v \in Symbols, Listless(u), Listless(v)
  PROVE  u \o v \in Symbols /\ Listless(u \o v)
<1>1. /\ Len(u) \in Nat /\ Len(v) \in Nat /\ Len(u \o v) = Len(u) + Len(v)
      /\ \A i \in 1..(Len(u) + Len(v)) :
           (u \o v)[i] = IF i <= Len(u) THEN u[i] ELSE v[i - Len(u)]
  BY ConcatProperties, LenProperties DEF Symbols
<1> DEFINE w == u \o v
           l == Len(u)
           k == Len(v)
<1>2. Len(w) = l + k /\ l \in Nat /\ k \in Nat
  BY <1>1
<1>3. \A i \in 1..(l + k) : w[i] = IF i <= l THEN u[i] ELSE v[i - l]
  BY <1>1
<1>4. w \in Symbols
  BY Texts, Zenon
<1> HIDE DEF w, l, k
<1>5. ASSUME NEW i \in 1..(l + k) PROVE ~OpensList(w[i])
  <2>1. i <= l => i \in 1..l
    BY <1>2
  <2>2. ~(i <= l) => i - l \in 1..k
    BY <1>2
  <2> QED
    BY <1>3, <2>1, <2>2, Zenon DEF Listless, l, k
<1>6. Listless(w)
  BY <1>2, <1>5, Zenon DEF Listless
<1> QED
  BY <1>4, <1>6, Zenon DEF w

LEMMA ListlessMarks ==
  /\ <<Quote>> \in Symbols /\ Listless(<<Quote>>)
  /\ <<":">> \in Symbols /\ Listless(<<":">>)
  /\ \A gap \in Gaps : gap \in Symbols /\ Listless(gap)
<1>1. ASSUME NEW c, ~OpensList(c) PROVE Listless(<<c>>)
  <2>1. \A p \in 1..Len(<<c>>) : <<c>>[p] = c
    OBVIOUS
  <2> QED
    BY <1>1, <2>1, Zenon DEF Listless
<1>2. ~OpensList(Quote) /\ ~OpensList(":") /\ ~OpensList(" ")
  BY MarksDiffer DEF OpensList, Quote
<1>3. Listless(<<>>)
  <2>1. \A p \in 1..Len(<<>>) : FALSE
    OBVIOUS
  <2> QED
    BY <2>1, Zenon DEF Listless
<1> QED
  BY <1>1, <1>2, <1>3, Punctuation, GapsAreText, Zenon DEF Gaps

LEMMA ListlessString ==
  ASSUME NEW s \in Symbols, Listless(s)
  PROVE  String(s) \in Symbols /\ Listless(String(s))
<1>1. <<Quote>> \o s \in Symbols /\ Listless(<<Quote>> \o s)
  BY ListlessMarks, ListlessJoins, Zenon
<1> QED
  BY <1>1, ListlessMarks, ListlessJoins, Zenon DEF String

LEMMA OneWord ==
  ASSUME NEW c, NEW C, c \in C
  PROVE  <<c>> \in Seq(C) /\ Len(<<c>>) = 1 /\ <<c>>[1] = c
OBVIOUS

LEMMA ListlessKey ==
  ASSUME NEW key \in STRING, ~OpensList(key)
  PROVE  <<key>> \in Symbols /\ Listless(<<key>>)
<1> DEFINE k == <<key>>
<1>1. k \in Seq(STRING) /\ Len(k) = 1 /\ k[1] = key
  BY OneWord, Zenon
<1>2. \A p \in 1..1 : p = 1
  OBVIOUS
<1> HIDE DEF k
<1> QED
  BY <1>1, <1>2, WordsAreText, Zenon DEF Listless, k

LEMMA ListlessPair ==
  ASSUME NEW key \in STRING, ~OpensList(key), NEW v \in Symbols, Listless(v), NEW gap \in Gaps
  PROVE  Listless(Pair(key, v, gap))
<1> DEFINE k == <<key>>
           s == String(k)
           u == s \o gap
           w == u \o <<":">>
           x == w \o gap
<1>1. k \in Symbols /\ Listless(k)
  BY ListlessKey, Zenon
<1> HIDE DEF k
<1>2. s \in Symbols /\ Listless(s)
  BY <1>1, ListlessString, Zenon
<1> HIDE DEF s
<1>3. u \in Symbols /\ Listless(u)
  BY <1>2, ListlessMarks, ListlessJoins, Zenon
<1> HIDE DEF u
<1>4. w \in Symbols /\ Listless(w)
  BY <1>3, ListlessMarks, ListlessJoins, Zenon
<1> HIDE DEF w
<1>5. x \in Symbols /\ Listless(x)
  BY <1>4, ListlessMarks, ListlessJoins, Zenon
<1> HIDE DEF x
<1>6. Listless(x \o v)
  BY <1>5, ListlessJoins, Zenon
<1> QED
  BY <1>6, Zenon DEF Pair, x, w, u, s, k

\* An object whose members are without lists is.
InBraces(t, parts, n, g, at) == Laid(t, "{", parts, n, "}", g, at)

LEMMA ListlessLaid ==
  ASSUME NEW t \in Symbols, NEW n \in Nat, NEW parts \in [1..n -> Symbols], NEW g \in 0..1,
         NEW at, InBraces(t, parts, n, g, at), \A i \in 1..n : Listless(parts[i])
  PROVE  Listless(t)
<1> DEFINE y == Len(t)
           Between(p) == ~OpensList(t[p]) \/ \E i \in 1..n : p \in (at[i] + 1)..(at[i] + Len(parts[i]))
<1>1. ~OpensList(t[1]) /\ ~OpensList(t[y]) /\ \A p \in 2..(y - 1) : Between(p)
  <2>1. ~OpensList("{") /\ ~OpensList("}") /\ ~OpensList(",") /\ ~OpensList(" ")
    BY DEF OpensList
  <2> QED
    BY <2>1, Zenon DEF InBraces, Laid
<1>2. \A i \in 1..n : /\ at[i] \in Nat /\ Len(parts[i]) \in Nat /\ At(t, at[i], parts[i])
  BY Texts, Zenon DEF InBraces, Laid
<1>3. y \in Nat
  BY Texts, Zenon
<1> HIDE DEF y
<1>4. ASSUME NEW p \in 1..y PROVE ~OpensList(t[p])
  <2>1. p = 1 \/ p = y \/ p \in 2..(y - 1)
    BY <1>3
  <2>2. CASE p \in 2..(y - 1) /\ OpensList(t[p])
    <3>1. PICK i \in 1..n : p \in (at[i] + 1)..(at[i] + Len(parts[i]))
      BY <1>1, <2>2, Zenon
    <3> DEFINE a == at[i]
               l == Len(parts[i])
               j == p - a
    <3>2. a \in Nat /\ l \in Nat /\ p \in (a + 1)..(a + l)
      BY <1>2, <3>1, Zenon
    <3> HIDE DEF a, l
    <3>3. j \in 1..l /\ a + j = p
      BY <3>2
    <3> HIDE DEF j
    <3>4. t[a + j] = parts[i][j]
      BY <1>2, <3>3, Zenon DEF At, a, l
    <3>5. ~OpensList(parts[i][j])
      BY <3>3, Zenon DEF Listless, l
    <3> QED
      BY <2>2, <3>3, <3>4, <3>5, Zenon
  <2> QED
    BY <1>1, <2>1, <2>2, Zenon
<1> QED
  BY <1>4, Zenon DEF Listless, y

LEMMA ListlessObject ==
  ASSUME NEW inner \in Seq(Plain), Inside(inner), Orderly(Len(inner)), NEW o \in Orders, NEW gap \in Gaps,
         Bracketless(inner)
  PROVE  Listless(ObjectText(inner, InnerTexts(inner, gap), o, gap))
<1> DEFINE n == Len(inner)
           texts == InnerTexts(inner, gap)
           t == ObjectText(inner, texts, o, gap)
           ps == Pairs(inner, texts, o[n], n, gap)
           g == Len(gap)
<1>1. Writable(inner, texts, o, n)
  BY InnerSays, Zenon DEF Sayable
<1>2. /\ t \in Symbols /\ ps \in [1..n -> Symbols] /\ \E at : InBraces(t, ps, n, g, at)
  BY <1>1, ObjectPlaces, Zenon DEF InBraces
<1>3. n \in Nat /\ (\A j \in 1..n : inner[j].key \in STRING /\ texts[j] \in Symbols) /\ o[n] \in [1..n -> 1..n]
  BY <1>1, Zenon DEF Writable
<1>4. g \in 0..1
  BY GapsAreText, Zenon
<1>5. \A j \in 1..n : texts[j] = PlainText(inner[j], gap) /\ inner[j] \in Plain
  BY DEF InnerTexts
<1>6. ASSUME NEW j \in 1..n PROVE Listless(texts[j]) /\ ~OpensList(inner[j].key)
  <2> DEFINE m == inner[j]
  <2>1. /\ m \in Plain /\ Clear(m) /\ m.kind # "arr" /\ ~OpensList(m.key)
        /\ \A s \in Strings(m) : \A p \in 1..Len(s) : ~OpensList(s[p])
    BY <1>5, Zenon DEF Inside, Bracketless, OpensList
  <2>2. texts[j] = PlainText(m, gap)
    BY <1>5, Zenon
  <2> HIDE DEF m, texts
  <2>3. m.kind = "lit" \/ m.kind = "str"
    BY <2>1, Kinds, Zenon
  <2>4. CASE m.kind = "lit"
    <3>1. Len(m.val) = 1 /\ ~OpensList(m.val[1]) /\ texts[j] = m.val
      BY <2>1, <2>2, <2>4, Kinds, Zenon DEF Clear, Marks, OpensList
    <3>2. \A p \in 1..1 : p = 1
      OBVIOUS
    <3>3. Listless(m.val)
      BY <3>1, <3>2, Zenon DEF Listless
    <3> QED
      BY <2>1, <3>1, <3>3, Zenon DEF m
  <2>5. CASE m.kind = "str"
    <3>1. m.val \in Symbols /\ texts[j] = String(m.val) /\ Strings(m) = {m.val}
      BY <2>1, <2>2, <2>5, Kinds, Zenon
    <3>2. Listless(m.val)
      BY <2>1, <3>1, Zenon DEF Listless
    <3> QED
      BY <2>1, <3>1, <3>2, ListlessString, Zenon DEF m
  <2> QED
    BY <2>3, <2>4, <2>5, Zenon
<1>7. \A i \in 1..n : ps[i] = Pair(inner[o[n][i]].key, texts[o[n][i]], gap)
  BY Zenon DEF Pairs
<1> HIDE DEF n, texts, t, ps, g
<1>8. ASSUME NEW i \in 1..n PROVE Listless(ps[i])
  <2> DEFINE j == o[n][i]
  <2>1. j \in 1..n
    BY <1>3
  <2> HIDE DEF j
  <2>2. Listless(Pair(inner[j].key, texts[j], gap))
    BY <1>3, <1>6, <2>1, ListlessPair, Zenon
  <2> QED
    BY <1>7, <2>2, Zenon DEF j
<1>9. Listless(t)
  BY <1>2, <1>3, <1>4, <1>8, ListlessLaid, Zenon
<1> QED
  BY <1>9, Zenon DEF t, texts

-----------------------------------------------------------------------------
(* What Build finds: the ranges of the objects. *)

Holds(ms, k) == Has(ms, k) /\ Member(ms, k).kind = "obj"

\* There is no list in the range of an object without any.
Unlisted(b, R, inner) ==
  /\ R.start \in Nat \ {0} /\ R.end \in Nat
  /\ (Bracketless(inner) => \A p \in R.start..(R.end - 1) : ~OpensList(b[p]))

LEMMA NoListThere ==
  ASSUME NEW b, NEW z \in Nat, NEW t, At(b, z, t), Len(t) \in Nat, Listless(t),
         NEW p \in (z + 1)..(z + Len(t))
  PROVE  ~OpensList(b[p])
<1> DEFINE l == Len(t)
           j == p - z
<1>1. l \in Nat /\ p \in (z + 1)..(z + l)
  OBVIOUS
<1> HIDE DEF l
<1>2. j \in 1..l /\ z + j = p
  BY <1>1
<1> HIDE DEF j
<1> QED
  BY <1>2, Zenon DEF At, Listless, l

\* The range found for an object.
RangeIs(b, R, ms, k, gap) ==
  /\ Unlisted(b, R, Member(ms, k).val)
  /\ Member(ms, k).val \in Seq(Plain) /\ Inside(Member(ms, k).val)
  /\ Readable(b, R, Member(ms, k).val, gap) /\ R.end <= Len(b) + 1

\* The members of a request.
LEMMA RequestMember ==
  ASSUME NEW r \in 1..Len(Requests), Legible(Requests[r]), NEW j \in 1..Len(Requests[r])
  PROVE  /\ Requests[r][j] \in Members
         /\ Requests[r][j].kind = "obj" => Orderly(Len(Requests[r][j].val))
         /\ IF Requests[r][j].kind = "obj" THEN Inside(Requests[r][j].val) ELSE Clear(Requests[r][j])
<1>1. Requests[r] \in Seq(Members)
  BY RequestsAssumption
<1>2. Requests[r][j] \in Members
  BY <1>1
<1> QED
  BY <1>2, RequestsAssumption, Zenon DEF Legible

\* An object is found exactly when the request has it, and its range is its own.
LEMMA RangesFound ==
  ASSUME NEW r \in 1..Len(Requests), Legible(Requests[r]), NEW o \in Orders, NEW gap \in Gaps,
         NEW b, b = Text(Requests[r], o, gap), NEW k \in ObjectNames,
         NEW R, R = ObjectRange(b, 1, Len(b) + 1, k)
  PROVE  /\ R.end # 0 => Holds(Requests[r], k) /\ RangeIs(b, R, Requests[r], k, gap)
         /\ Holds(Requests[r], k) => R.end # 0
<1> DEFINE ms == Requests[r]
           n == Len(ms)
           texts == OuterTexts(ms, o, gap)
           g == Len(gap)
           y == Len(b)
           p == ValueAt(b, 1, y + 1, k)
<1>1. PICK pos : Lies(b, 0, b, ms, texts, o, n, ObjectNames, g, pos)
  BY OuterLies, Zenon
<1>2. y \in Nat /\ b \in Symbols
  BY <1>1, Texts, Zenon DEF Lies
<1>3. R = [start |-> p, end |-> IF p > 0 /\ b[p] = "{" THEN MatchBrace(b, p, y + 1) ELSE 0]
  BY Zenon DEF ObjectRange
<1>4. R.start = p /\ R.end = IF p > 0 /\ b[p] = "{" THEN MatchBrace(b, p, y + 1) ELSE 0
  <2> DEFINE e == IF p > 0 /\ b[p] = "{" THEN MatchBrace(b, p, y + 1) ELSE 0
  <2>1. R = [start |-> p, end |-> e]
    BY <1>3, Zenon
  <2> HIDE DEF p, e
  <2>2. R.start = p /\ R.end = e
    BY <2>1
  <2> QED
    BY <2>2, Zenon DEF e
<1>5. \A j \in 1..n : texts[j] = ValueText(ms[j], o, gap)
  BY DEF OuterTexts
<1> HIDE DEF texts, n, g, p, y, ms
<1>6. /\ (\A j \in 1..n : ms[j].key # k) => p = 0
      /\ \A j \in 1..n : ms[j].key = k =>
           \E z \in Nat : p = z + 1 /\ At(b, z, texts[j]) /\ z + Len(texts[j]) < y
  <2>1. /\ (\A j \in 1..n : ms[j].key # k) => ValueAt(b, 0 + 1, 0 + Len(b) + 1, k) = 0
        /\ \A j \in 1..n : ms[j].key = k =>
              LET z == 0 + Value0(pos, j, g)
              IN  /\ z \in Nat /\ ValueAt(b, 0 + 1, 0 + Len(b) + 1, k) = z + 1
                  /\ At(b, z, texts[j]) /\ z + Len(texts[j]) < 0 + Len(b)
    BY <1>1, ValueFound
  <2>2. 0 + 1 = 1 /\ 0 + y + 1 = y + 1 /\ 0 + y = y
    BY <1>2
  <2>3. p = ValueAt(b, 0 + 1, 0 + Len(b) + 1, k)
    BY <2>2, Zenon DEF p, y
  <2>4. ASSUME NEW j \in 1..n, ms[j].key = k
        PROVE  \E z \in Nat : p = z + 1 /\ At(b, z, texts[j]) /\ z + Len(texts[j]) < y
    <3> DEFINE z == 0 + Value0(pos, j, g)
    <3>1. /\ z \in Nat /\ ValueAt(b, 0 + 1, 0 + Len(b) + 1, k) = z + 1
          /\ At(b, z, texts[j]) /\ z + Len(texts[j]) < 0 + Len(b)
      BY <2>1, <2>4, Zenon
    <3> HIDE DEF z
    <3>2. z + Len(texts[j]) < y
      BY <2>2, <3>1, Zenon DEF y
    <3> QED
      BY <2>3, <3>1, <3>2, Zenon
  <2> QED
    BY <2>1, <2>3, <2>4, Zenon
<1>7. CASE ~Has(ms, k)
  <2>1. p = 0
    BY <1>6, <1>7, Zenon DEF Has, n
  <2>2. ~(0 > 0)
    OBVIOUS
  <2> QED
    BY <1>4, <1>7, <2>1, <2>2, Zenon DEF Holds, ms
<1>8. CASE Has(ms, k)
  <2>1. PICK j \in 1..n : Member(ms, k) = ms[j] /\ ms[j].key = k
    BY <1>8, MemberIs, Zenon DEF n
  <2> DEFINE m == ms[j]
             t == texts[j]
  <2>2. /\ m \in Members /\ (m.kind = "obj" => Orderly(Len(m.val)))
        /\ IF m.kind = "obj" THEN Inside(m.val) ELSE Clear(m)
    BY RequestMember, Zenon DEF ms, n
  <2>3. PICK z \in Nat : p = z + 1 /\ At(b, z, t) /\ z + Len(t) < y
    BY <1>6, <2>1, Zenon
  <2>4. t = ValueText(m, o, gap)
    BY <1>5, Zenon
  <2> HIDE DEF m, t
  <2>5. /\ t \in Symbols /\ Len(t) >= 1
        /\ (t[1] = "{") <=> (m.kind = "obj")
        /\ m.kind = "obj" => /\ m.val \in Seq(Plain)
                             /\ t = ObjectText(m.val, InnerTexts(m.val, gap), o, gap)
    BY <2>2, <2>4, ValueBegins, Zenon
  <2>6. Len(t) \in Nat
    BY <2>5, Texts, Zenon
  <2> DEFINE l == Len(t)
  <2>7. l \in Nat /\ l >= 1 /\ z + l < y
    BY <2>3, <2>5, <2>6, Zenon
  <2> HIDE DEF l
  <2>8. 1 \in 1..l /\ z + 1 > 0 /\ y + 1 \in Nat /\ z + l + 1 <= y + 1 /\ z + l + 1 # 0
    BY <1>2, <2>7
  <2>9. b[p] = t[1] /\ p > 0
    BY <2>3, <2>8, Zenon DEF At, l
  <2>10. CASE m.kind = "obj"
    <3>1. MatchBrace(b, z + 1, y + 1) = z + l + 1
      <4> DEFINE inner == m.val
                 end == y + 1
      <4>1. /\ inner \in Seq(Plain) /\ Inside(inner) /\ Orderly(Len(inner))
            /\ t = ObjectText(inner, InnerTexts(inner, gap), o, gap) /\ At(b, z, t)
            /\ end \in Nat /\ z + Len(t) + 1 <= end
        BY <2>2, <2>3, <2>5, <2>8, <2>10, Zenon DEF l
      <4> HIDE DEF inner, end
      <4>3. Fits(b, z, t, inner, o, gap, end)
        BY <4>1, Zenon DEF Fits
      <4>2. MatchBrace(b, z + 1, end) = z + Len(t) + 1
        BY <4>3, ObjectMatched
      <4> QED
        BY <4>2, Zenon DEF end, l
    <3>2. R.start = z + 1 /\ R.end = z + l + 1
      BY <1>4, <2>3, <2>5, <2>9, <2>10, <3>1, Zenon
    <3>3. Readable(b, R, m.val, gap)
      BY <2>2, <2>3, <2>5, <2>10, <3>2, InnerReadable, Zenon DEF l
    <3> DEFINE inner == m.val
               s == z + 1
               e == z + l + 1
    <3>4. ASSUME Bracketless(inner), NEW i \in s..(e - 1) PROVE ~OpensList(b[i])
      <4>1. /\ inner \in Seq(Plain) /\ Inside(inner) /\ Orderly(Len(inner)) /\ Bracketless(inner)
            /\ t = ObjectText(inner, InnerTexts(inner, gap), o, gap)
        BY <2>2, <2>5, <2>10, <3>4, Zenon
      <4> HIDE DEF inner
      <4>2. Listless(t)
        BY <4>1, ListlessObject, Zenon
      <4>3. i \in (z + 1)..(z + l)
        BY <2>7
      <4> QED
        BY <2>3, <2>6, <4>2, <4>3, NoListThere, Zenon DEF l
    <3>5. z + 1 \in Nat \ {0} /\ z + l + 1 \in Nat
      BY <2>7
    <3>6. R.start = s /\ R.end = e /\ s \in Nat \ {0} /\ e \in Nat
      BY <3>2, <3>5, Zenon
    <3> HIDE DEF s, e, inner
    <3>7. Unlisted(b, R, inner)
      BY <3>4, <3>6, Zenon DEF Unlisted
    <3> QED
      BY <1>8, <2>1, <2>2, <2>5, <2>8, <2>10, <3>2, <3>3, <3>7, Zenon DEF Holds, RangeIs, m, y, ms, inner
  <2>11. CASE m.kind # "obj"
    <3>1. R.end = 0
      BY <1>4, <2>5, <2>9, <2>11, Zenon
    <3> QED
      BY <2>1, <2>11, <3>1, Zenon DEF Holds, m, ms
  <2> QED
    BY <2>10, <2>11, Zenon
<1> QED
  BY <1>7, <1>8, Zenon

-----------------------------------------------------------------------------
(* The values of the fields. *)

\* Whether a field of a request can be taken, and whether the request can.
Suits(ms, f) == /\ Has(Member(ms, f.obj).val, f.key)
                /\ Right(Member(Member(ms, f.obj).val, f.key), f.kind)

LastName == "last_transaction"

Proper(ms) ==
  /\ \A i \in 1..4 : Holds(ms, Objects[i])
  /\ \A i \in 1..11 : Suits(ms, Fields[i])
  /\ Holds(ms, LastName) => \A i \in 1..2 : Suits(ms, LastFields[i])

LEMMA SuitsIs ==
  ASSUME NEW f
  PROVE  Acceptable(f) <=> Suits(Sent, f)
BY Zenon DEF Acceptable, Suits, Right, Inner

LEMMA ProperIs == AllAcceptable <=> Proper(Sent)
<1>1. \A k : IsObject(k) <=> Holds(Sent, k)
  BY Zenon DEF IsObject, Holds
<1>2. \A f : Acceptable(f) <=> Suits(Sent, f)
  BY SuitsIs, Zenon
<1> QED
  BY <1>1, <1>2, Lengths, Zenon DEF AllAcceptable, Proper, LastName

\* What has been read is right.
RangesRead(ms, b, rg) ==
  \A k \in DOMAIN rg : k \in ObjectNames /\ Holds(ms, k) /\ \E gap \in Gaps : RangeIs(b, rg[k], ms, k, gap)

ValuesRead(ms, gt) ==
  \A f \in DOMAIN gt : /\ Has(Member(ms, f[1]).val, f[2])
                       /\ gt[f] = Member(Member(ms, f[1]).val, f[2]).val

\* The fields that a look-up is for.
FieldOK(f) == f.obj \in ObjectNames /\ f.key \in FieldNames /\ f.kind \in Kind

LEMMA FieldsAre ==
  /\ \A i \in 1..11 : FieldOK(Fields[i]) /\ \E j \in 1..4 : Fields[i].obj = Objects[j]
  /\ \A i \in 1..2 : FieldOK(LastFields[i]) /\ LastFields[i].obj = LastName
  /\ \A i \in 1..4 : Objects[i] \in ObjectNames
  /\ LastName \in ObjectNames
<1>1. \A i \in 1..11 : \E j \in 1..4 : Fields[i].obj = Objects[j]
  BY DEF Fields, Field, Objects
<1>2. \A i \in 1..4 : Objects[i] \in ObjectNames
  BY NamesAre DEF Objects
<1>3. \A i \in 1..11 : Fields[i].key \in FieldNames /\ Fields[i].kind \in Kind
  BY NamesAre DEF Fields, Field, Kind
<1>4. \A i \in 1..2 : /\ LastFields[i].key \in FieldNames /\ LastFields[i].kind \in Kind
                      /\ LastFields[i].obj = LastName
  BY NamesAre DEF LastFields, Field, Kind, LastName
<1>5. LastName \in ObjectNames
  BY NamesAre DEF LastName
<1> QED
  BY <1>1, <1>2, <1>3, <1>4, <1>5, Zenon DEF FieldOK

\* One field: what is read is its value if it can be taken, else nothing.
LEMMA FieldRead ==
  ASSUME NEW ms, NEW b \in Symbols, NEW rg, RangesRead(ms, b, rg), NEW f, FieldOK(f), f.obj \in DOMAIN rg
  PROVE  /\ Suits(ms, f) => /\ Reading(b, rg[f.obj], f.key, f.kind) = Member(Member(ms, f.obj).val, f.key).val
                            /\ Reading(b, rg[f.obj], f.key, f.kind) # NotFound
         /\ ~Suits(ms, f) => Reading(b, rg[f.obj], f.key, f.kind) = NotFound
<1> DEFINE inner == Member(ms, f.obj).val
           r == rg[f.obj]
           k == f.key
           v == Reading(b, r, k, f.kind)
<1>1. PICK gap \in Gaps : RangeIs(b, r, ms, f.obj, gap)
  BY Zenon DEF RangesRead
<1>2. inner \in Seq(Plain) /\ Inside(inner) /\ Readable(b, r, inner, gap) /\ r.end <= Len(b) + 1
  BY <1>1, Zenon DEF RangeIs
<1>3. k \in FieldNames /\ f.kind \in Kind
  BY Zenon DEF FieldOK
<1>4. /\ ~Has(inner, k) => ValueAt(b, r.start, r.end, k) = 0
      /\ Has(inner, k) => ValueIs(b, r, k, Member(inner, k), gap)
  BY <1>2, <1>3, Zenon DEF Readable
<1>5. Suits(ms, f) <=> Has(inner, k) /\ Right(Member(inner, k), f.kind)
  BY Zenon DEF Suits
<1> HIDE DEF inner, r, k
<1>6. CASE ~Has(inner, k)
  <2>1. v = NotFound
    BY <1>3, <1>4, <1>6, NothingIs, Zenon
  <2> QED
    BY <1>5, <1>6, <2>1, Zenon DEF r, k
<1>7. CASE Has(inner, k)
  <2>1. PICK j \in 1..Len(inner) : Member(inner, k) = inner[j] /\ inner[j].key = k
    BY <1>7, MemberIs, Zenon
  <2> DEFINE m == Member(inner, k)
  <2>2. m \in Plain
    BY <1>2, <2>1
  <2>3. Clear(m) /\ Taken(m)
    BY <1>2, <1>3, <2>1, Zenon DEF Inside
  <2>4. ValueIs(b, r, k, m, gap)
    BY <1>4, <1>7, Zenon
  <2> HIDE DEF m
  <2>5. (Right(m, f.kind) => v = m.val /\ m.val # NotFound) /\ (~Right(m, f.kind) => v = NotFound)
    <3> DEFINE kind == f.kind
    <3>1. kind \in Kind
      BY <1>3, Zenon
    <3> HIDE DEF kind
    <3>2. /\ Right(m, kind) => Reading(b, r, k, kind) = m.val /\ m.val # NotFound
          /\ ~Right(m, kind) => Reading(b, r, k, kind) = NotFound
      BY <1>2, <2>2, <2>3, <2>4, <3>1, ReadingIs
    <3> QED
      BY <3>2, Zenon DEF kind
  <2> QED
    BY <1>5, <1>7, <2>5, Zenon DEF m, inner, r, k
<1> QED
  BY <1>6, <1>7, Zenon

IsWith(g, f, x, v) == /\ DOMAIN g = DOMAIN f \cup {x} /\ g[x] = v
                      /\ \A y \in DOMAIN f : y # x => g[y] = f[y]

LEMMA WithIs ==
  ASSUME NEW f, NEW x, NEW v
  PROVE  IsWith(With(f, x, v), f, x, v)
BY Zenon DEF With, IsWith

\* A look-up rejects the request or keeps the value of its field.
FieldKept(ms, fields, then) ==
  LET f == fields[next]
  IN  /\ Suits(ms, f) /\ range' = range
      /\ ValuesRead(ms, got') /\ DOMAIN got' = DOMAIN got \cup {<<f.obj, f.key>>}
      /\ IF next < Len(fields) THEN next' = next + 1 /\ phase' = phase ELSE next' = 1 /\ phase' = then

LEMMA FieldStep ==
  ASSUME NEW ms, body \in Symbols, RangesRead(ms, body, range), ValuesRead(ms, got), NEW fields, NEW then,
         ReadField(fields, then), FieldOK(fields[next]), fields[next].obj \in DOMAIN range
  PROVE  (Reject /\ ~Suits(ms, fields[next])) \/ FieldKept(ms, fields, then)
<1> DEFINE f == fields[next]
           v == Value(f)
           x == <<f.obj, f.key>>
<1>1. v = Reading(body, range[f.obj], f.key, f.kind)
  BY Zenon DEF Value, Reading
<1>2. /\ Suits(ms, f) => /\ v = Member(Member(ms, f.obj).val, f.key).val
                         /\ v # NotFound
      /\ ~Suits(ms, f) => v = NotFound
  BY <1>1, FieldRead, ZenonT(40)
<1>3. CASE v = NotFound
  <2>1. Reject
    BY <1>3, Zenon DEF ReadField
  <2> QED
    BY <1>2, <1>3, <2>1, Zenon
<1>4. CASE v # NotFound
  <2>1. /\ got' = With(got, x, v) /\ range' = range
        /\ IF next < Len(fields) THEN next' = next + 1 /\ phase' = phase ELSE next' = 1 /\ phase' = then
    BY <1>4, Zenon DEF ReadField
  <2>2. Suits(ms, f) /\ v = Member(Member(ms, f.obj).val, f.key).val
    BY <1>2, <1>4, Zenon
  <2>3. Has(Member(ms, f.obj).val, f.key)
    BY <2>2, Zenon DEF Suits
  <2>4. x[1] = f.obj /\ x[2] = f.key
    <3> HIDE DEF f
    <3> QED
      OBVIOUS
  <2> HIDE DEF v, x, f
  <2> DEFINE w == With(got, x, v)
  <2>5. DOMAIN w = DOMAIN got \cup {x} /\ w[x] = v /\ \A y \in DOMAIN got : y # x => w[y] = got[y]
    <3>1. IsWith(w, got, x, v)
      BY WithIs, Zenon
    <3> QED
      BY <3>1, Zenon DEF IsWith
  <2> HIDE DEF w
  <2>6. ValuesRead(ms, w)
    <3> SUFFICES ASSUME NEW y \in DOMAIN w
                 PROVE  /\ Has(Member(ms, y[1]).val, y[2])
                        /\ w[y] = Member(Member(ms, y[1]).val, y[2]).val
      BY Zenon DEF ValuesRead
    <3>1. CASE y = x
      BY <2>2, <2>3, <2>4, <2>5, <3>1, Zenon
    <3>2. CASE y # x
      BY <2>5, <3>2, Zenon DEF ValuesRead
    <3> QED
      BY <3>1, <3>2, Zenon
  <2>7. got' = w
    BY <2>1, Zenon DEF w
  <2> QED
    BY <2>1, <2>2, <2>5, <2>6, <2>7, Zenon DEF FieldKept, f, x
<1> QED
  BY <1>3, <1>4, Zenon

-----------------------------------------------------------------------------
(* The inductive invariant: what has been found is right, and a phase      *)
(* is reached only when what it needs has been found.                      *)

Found(rg, n) == \A i \in 1..n : Objects[i] \in DOMAIN rg

Kept(ms, gt, fields, n) ==
  \A i \in 1..n : Suits(ms, fields[i]) /\ <<fields[i].obj, fields[i].key>> \in DOMAIN gt

\* What has been found when a phase is reached.
AllKept(ms, rg, gt) == Found(rg, 4) /\ Kept(ms, gt, Fields, 11)

Stage(ms, ph, nx, rg, gt) ==
  /\ ph = "objects" => Found(rg, nx - 1)
  /\ ph = "fields" => Found(rg, 4) /\ Kept(ms, gt, Fields, nx - 1)
  /\ ph = "last" => AllKept(ms, rg, gt)
  /\ ph = "optional" => AllKept(ms, rg, gt) /\ LastName \in DOMAIN rg /\ Kept(ms, gt, LastFields, nx - 1)
  /\ ph \in {"finish", "built"} =>
       /\ AllKept(ms, rg, gt)
       /\ Holds(ms, LastName) => LastName \in DOMAIN rg /\ Kept(ms, gt, LastFields, 2)
  /\ ph = "rejected" => ~Proper(ms)

ReadInv ==
  /\ request \in 1..Len(Requests)
  /\ \E o \in Orders, gap \in Gaps : body = Text(Sent, o, gap)
  /\ Legible(Sent) => /\ RangesRead(Sent, body, range) /\ ValuesRead(Sent, got)
                      /\ Stage(Sent, phase, next, range, got)

\* One more.
LEMMA OneMoreFound ==
  ASSUME NEW n \in Nat \ {0}, NEW rg, NEW rh, Found(rg, n - 1), DOMAIN rg \subseteq DOMAIN rh,
         Objects[n] \in DOMAIN rh
  PROVE  Found(rh, n)
<1>1. \A i \in 1..n : i = n \/ i \in 1..(n - 1)
  OBVIOUS
<1> QED
  BY <1>1, Zenon DEF Found

LEMMA OneMoreKept ==
  ASSUME NEW n \in Nat \ {0}, NEW ms, NEW gt, NEW gu, NEW fields, Kept(ms, gt, fields, n - 1),
         DOMAIN gt \subseteq DOMAIN gu,
         Suits(ms, fields[n]), <<fields[n].obj, fields[n].key>> \in DOMAIN gu
  PROVE  Kept(ms, gu, fields, n)
<1>1. \A i \in 1..n : i = n \/ i \in 1..(n - 1)
  OBVIOUS
<1> QED
  BY <1>1, Zenon DEF Kept

LEMMA KeptStays ==
  ASSUME NEW n, NEW ms, NEW gt, NEW gu, NEW fields, Kept(ms, gt, fields, n), DOMAIN gt \subseteq DOMAIN gu
  PROVE  Kept(ms, gu, fields, n)
BY Zenon DEF Kept

LEMMA ReadInit == Init => ReadInv
<1> SUFFICES ASSUME Init PROVE ReadInv
  OBVIOUS
<1>1. /\ \E r \in 1..Len(Requests), o \in Orders, gap \in {<<>>, <<" ">>} :
           request = r /\ body = Text(Requests[r], o, gap)
      /\ phase = "start" /\ range = <<>> /\ got = <<>>
  BY Zenon DEF Init
<1>2. DOMAIN range = {} /\ DOMAIN got = {}
  <2>1. range = <<>> /\ got = <<>>
    BY <1>1, Zenon
  <2> QED
    BY <2>1
<1>3. RangesRead(Sent, body, range) /\ ValuesRead(Sent, got)
  BY <1>2, Zenon DEF RangesRead, ValuesRead
<1>4. Stage(Sent, phase, next, range, got)
  BY <1>1, Zenon DEF Stage
<1> QED
  BY <1>1, <1>3, <1>4, Zenon DEF ReadInv, Sent, Gaps

\* A range that is looked up.
LEMMA RangeFound ==
  ASSUME ReadInv, Legible(Sent), NEW k \in ObjectNames, NEW R,
         R = ObjectRange(body, Whole.start, Whole.end, k)
  PROVE  /\ R.end # 0 => Holds(Sent, k) /\ RangesRead(Sent, body, With(range, k, R))
         /\ R.end = 0 => ~Holds(Sent, k)
<1>1. PICK o \in Orders, gap \in Gaps : body = Text(Sent, o, gap)
  BY Zenon DEF ReadInv
<1>2. Whole.start = 1 /\ Whole.end = Len(body) + 1
  BY DEF Whole
<1>3. R = ObjectRange(body, 1, Len(body) + 1, k)
  BY <1>2, Zenon
<1>4. /\ R.end # 0 => Holds(Sent, k) /\ RangeIs(body, R, Sent, k, gap)
      /\ Holds(Sent, k) => R.end # 0
  <2>1. request \in 1..Len(Requests) /\ Sent = Requests[request]
    BY Zenon DEF ReadInv, Sent
  <2> DEFINE b == body
             ms == Sent
  <2>2. b = Text(Requests[request], o, gap) /\ Legible(Requests[request]) /\ R = ObjectRange(b, 1, Len(b) + 1, k)
    BY <1>1, <1>3, <2>1, Zenon
  <2> HIDE DEF b, ms
  <2>3. /\ R.end # 0 => Holds(Requests[request], k) /\ RangeIs(b, R, Requests[request], k, gap)
        /\ Holds(Requests[request], k) => R.end # 0
    BY <2>1, <2>2, RangesFound, Zenon
  <2> QED
    BY <2>1, <2>3, Zenon DEF b, ms
<1>5. ASSUME R.end # 0 PROVE RangesRead(Sent, body, With(range, k, R))
  <2> DEFINE w == With(range, k, R)
  <2>1. IsWith(w, range, k, R)
    BY WithIs, Zenon
  <2> HIDE DEF w
  <2>2. RangesRead(Sent, body, range)
    BY Zenon DEF ReadInv
  <2>3. RangesRead(Sent, body, w)
    <3> SUFFICES ASSUME NEW y \in DOMAIN w
                 PROVE  y \in ObjectNames /\ Holds(Sent, y) /\ \E h \in Gaps : RangeIs(body, w[y], Sent, y, h)
      BY Zenon DEF RangesRead
    <3>1. CASE y = k
      BY <1>4, <1>5, <2>1, <3>1, Zenon DEF IsWith
    <3>2. CASE y # k
      BY <2>1, <2>2, <3>2, Zenon DEF IsWith, RangesRead
    <3> QED
      BY <3>1, <3>2, Zenon
  <2> QED
    BY <2>3, Zenon DEF w
<1> QED
  BY <1>4, <1>5, Zenon

\* What a step of the scan leaves to be shown: the request stays, and what the
\* scan has found and where it stands are right.
ReadStays ==
  Legible(Sent) => /\ RangesRead(Sent, body, range') /\ ValuesRead(Sent, got')
                   /\ Stage(Sent, phase', next', range', got')

LEMMA ReadStaysIs ==
  ASSUME ReadInv, request' = request, body' = body, ReadStays
  PROVE  ReadInv'
<1>1. Sent' = Sent
  BY Zenon DEF Sent
<1> QED
  BY <1>1, Zenon DEF ReadInv, ReadStays

\* The steps before the scan, and those that change nothing.
LEMMA ReadElse ==
  ASSUME ReadInv, UNCHANGED <<range, got, next>>,
         phase' = phase \/ phase' = "load" \/ (phase' = "objects" /\ next = 1)
         \/ (phase = "finish" /\ phase' = "built")
  PROVE  ReadStays
<1>1. range' = range /\ got' = got /\ next' = next
  OBVIOUS
<1>2. "load" \notin {"objects", "fields", "last", "optional", "finish", "built", "rejected"}
  OBVIOUS
<1> SUFFICES ASSUME Legible(Sent)
             PROVE  Stage(Sent, phase', next, range, got)
  BY <1>1, Zenon DEF ReadStays, ReadInv
<1>3. Stage(Sent, phase, next, range, got)
  BY Zenon DEF ReadInv
<1>4. CASE phase' = phase
  BY <1>3, <1>4, Zenon
<1>5. CASE phase' = "load"
  BY <1>2, <1>5, Zenon DEF Stage
<1>6. CASE phase' = "objects" /\ next = 1
  <2>1. \A i \in 1..(1 - 1) : FALSE
    OBVIOUS
  <2>2. Found(range, next - 1)
    BY <1>6, <2>1, Zenon DEF Found
  <2> QED
    BY <1>6, <2>2, Zenon DEF Stage
<1>7. CASE phase = "finish" /\ phase' = "built"
  BY <1>3, <1>7, Zenon DEF Stage
<1> QED
  BY <1>4, <1>5, <1>6, <1>7, Zenon

\* An object is looked up.
LEMMA ReadObject == ScanInv /\ ReadInv /\ FindObject => ReadStays
<1> SUFFICES ASSUME ScanInv, ReadInv, FindObject, Legible(Sent)
             PROVE  /\ RangesRead(Sent, body, range') /\ ValuesRead(Sent, got')
                    /\ Stage(Sent, phase', next', range', got')
  BY Zenon DEF ReadStays
<1> DEFINE k == Objects[next]
           R == ObjectRange(body, Whole.start, Whole.end, k)
           w == With(range, k, R)
<1>1. /\ phase = "objects"
      /\ IF R.end = 0 THEN Reject
         ELSE /\ range' = w /\ got' = got
              /\ IF next < 4 THEN next' = next + 1 /\ phase' = phase ELSE next' = 1 /\ phase' = "fields"
  BY Lengths, Zenon DEF FindObject
<1>2. next \in 1..4
  BY <1>1, Zenon DEF ScanInv, Counted
<1>3. RangesRead(Sent, body, range) /\ ValuesRead(Sent, got) /\ Found(range, next - 1)
  BY <1>1, Zenon DEF ReadInv, Stage
<1>4. k \in ObjectNames
  BY <1>2, FieldsAre, Zenon
<1> HIDE DEF k
<1>5. /\ R.end # 0 => Holds(Sent, k) /\ RangesRead(Sent, body, w)
      /\ R.end = 0 => ~Holds(Sent, k)
  BY <1>4, RangeFound, Zenon
<1> HIDE DEF R
<1>6. DOMAIN w = DOMAIN range \cup {k}
  BY WithIs, Zenon DEF IsWith
<1> HIDE DEF w
<1>7. CASE R.end = 0
  <2>1. phase' = "rejected" /\ range' = range /\ got' = got
    BY <1>1, <1>7, Zenon DEF Reject
  <2>2. ~Proper(Sent)
    BY <1>2, <1>5, <1>7, Zenon DEF Proper, k
  <2> QED
    BY <1>3, <2>1, <2>2, Zenon DEF Stage
<1>8. CASE R.end # 0
  <2>1. range' = w /\ got' = got
    BY <1>1, <1>8, Zenon
  <2>2. DOMAIN range \subseteq DOMAIN w /\ Objects[next] \in DOMAIN w
    BY <1>6, Zenon DEF k
  <2>3. Found(w, next)
    BY <1>2, <1>3, <2>2, OneMoreFound
  <2>4. CASE next < 4
    <3>1. next' = next + 1 /\ phase' = "objects"
      BY <1>1, <1>8, <2>4, Zenon
    <3>2. (next + 1) - 1 = next
      BY <1>2
    <3> QED
      BY <1>3, <1>5, <1>8, <2>1, <2>3, <3>1, <3>2, Zenon DEF Stage
  <2>5. CASE ~(next < 4)
    <3>1. next' = 1 /\ phase' = "fields"
      BY <1>1, <1>8, <2>5, Zenon
    <3>2. next = 4 /\ \A i \in 1..(1 - 1) : FALSE
      BY <1>2, <2>5
    <3>3. Found(w, 4) /\ Kept(Sent, got, Fields, 1 - 1)
      BY <2>3, <3>2, Zenon DEF Kept
    <3> QED
      BY <1>3, <1>5, <1>8, <2>1, <3>1, <3>3, Zenon DEF Stage
  <2> QED
    BY <2>4, <2>5, Zenon
<1> QED
  BY <1>7, <1>8, Zenon

\* A field of one of the four objects is looked up.
LEMMA ReadOne == ScanInv /\ ReadInv /\ ReadRequired => ReadStays
<1> SUFFICES ASSUME ScanInv, ReadInv, ReadRequired, Legible(Sent)
             PROVE  /\ RangesRead(Sent, body, range') /\ ValuesRead(Sent, got')
                    /\ Stage(Sent, phase', next', range', got')
  BY Zenon DEF ReadStays
<1> DEFINE f == Fields[next]
<1>1. phase = "fields" /\ ReadField(Fields, "last") /\ next \in 1..11 /\ body \in Symbols
  BY Zenon DEF ReadRequired, ScanInv, Counted
<1>2. /\ RangesRead(Sent, body, range) /\ ValuesRead(Sent, got)
      /\ Found(range, 4) /\ Kept(Sent, got, Fields, next - 1)
  BY <1>1, Zenon DEF ReadInv, Stage
<1>3. FieldOK(f) /\ f.obj \in DOMAIN range
  BY <1>1, <1>2, FieldsAre, Zenon DEF Found
<1>4. (Reject /\ ~Suits(Sent, f)) \/ FieldKept(Sent, Fields, "last")
  BY <1>1, <1>2, <1>3, FieldStep, Zenon
<1>5. CASE Reject /\ ~Suits(Sent, f)
  <2>1. phase' = "rejected" /\ range' = range /\ got' = got
    BY <1>5, Zenon DEF Reject
  <2>2. ~Proper(Sent)
    BY <1>1, <1>5, Zenon DEF Proper
  <2> QED
    BY <1>2, <2>1, <2>2, Zenon DEF Stage
<1>6. CASE FieldKept(Sent, Fields, "last")
  <2>1. /\ Suits(Sent, f) /\ range' = range /\ ValuesRead(Sent, got')
        /\ DOMAIN got' = DOMAIN got \cup {<<f.obj, f.key>>}
        /\ IF next < 11 THEN next' = next + 1 /\ phase' = "fields" ELSE next' = 1 /\ phase' = "last"
    BY <1>1, <1>6, Lengths, Zenon DEF FieldKept
  <2>2. Kept(Sent, got', Fields, next)
    <3> DEFINE gu == got'
    <3>1. DOMAIN got \subseteq DOMAIN gu /\ <<f.obj, f.key>> \in DOMAIN gu
      BY <2>1, Zenon
    <3> HIDE DEF gu
    <3>2. Kept(Sent, gu, Fields, next)
      BY <1>1, <1>2, <2>1, <3>1, OneMoreKept
    <3> QED
      BY <3>2, Zenon DEF gu
  <2>3. CASE next < 11
    <3>1. next' = next + 1 /\ phase' = "fields"
      BY <2>1, <2>3, Zenon
    <3>2. (next + 1) - 1 = next
      BY <1>1
    <3> QED
      BY <1>2, <2>1, <2>2, <3>1, <3>2, Zenon DEF Stage
  <2>4. CASE ~(next < 11)
    <3>1. next' = 1 /\ phase' = "last"
      BY <2>1, <2>4, Zenon
    <3>2. next = 11
      BY <1>1, <2>4
    <3> QED
      BY <1>2, <2>1, <2>2, <3>1, <3>2, Zenon DEF Stage, AllKept
  <2> QED
    BY <2>3, <2>4, Zenon
<1> QED
  BY <1>4, <1>5, <1>6, Zenon

\* The last transaction is looked up.
LEMMA ReadLast == ScanInv /\ ReadInv /\ FindLast => ReadStays
<1> SUFFICES ASSUME ScanInv, ReadInv, FindLast, Legible(Sent)
             PROVE  /\ RangesRead(Sent, body, range') /\ ValuesRead(Sent, got')
                    /\ Stage(Sent, phase', next', range', got')
  BY Zenon DEF ReadStays
<1> DEFINE R == ObjectRange(body, Whole.start, Whole.end, LastName)
           w == With(range, LastName, R)
<1>1. /\ phase = "last" /\ next' = next /\ got' = got
      /\ IF R.end = 0 THEN phase' = "finish" /\ range' = range ELSE phase' = "optional" /\ range' = w
  BY Zenon DEF FindLast, LastName
<1>2. next = 1
  BY <1>1, Zenon DEF ScanInv, Counted
<1>3. RangesRead(Sent, body, range) /\ ValuesRead(Sent, got) /\ AllKept(Sent, range, got)
  BY <1>1, Zenon DEF ReadInv, Stage
<1>4. /\ R.end # 0 => Holds(Sent, LastName) /\ RangesRead(Sent, body, w)
      /\ R.end = 0 => ~Holds(Sent, LastName)
  BY FieldsAre, RangeFound, Zenon
<1> HIDE DEF R
<1>5. DOMAIN w = DOMAIN range \cup {LastName}
  BY WithIs, Zenon DEF IsWith
<1> HIDE DEF w
<1>6. CASE R.end = 0
  BY <1>1, <1>3, <1>4, <1>6, Zenon DEF Stage
<1>7. CASE R.end # 0
  <2>1. \A i \in 1..(1 - 1) : FALSE
    OBVIOUS
  <2>2. Kept(Sent, got, LastFields, next - 1)
    BY <1>2, <2>1, Zenon DEF Kept
  <2>3. AllKept(Sent, w, got) /\ LastName \in DOMAIN w
    BY <1>3, <1>5, Zenon DEF AllKept, Found
  <2>4. phase' = "optional" /\ range' = w
    BY <1>1, <1>7, Zenon
  <2> QED
    BY <1>1, <1>3, <1>4, <1>7, <2>2, <2>3, <2>4, Zenon DEF Stage
<1> QED
  BY <1>6, <1>7, Zenon

\* A field of the last transaction is looked up.
LEMMA ReadTwo == ScanInv /\ ReadInv /\ ReadOptional => ReadStays
<1> SUFFICES ASSUME ScanInv, ReadInv, ReadOptional, Legible(Sent)
             PROVE  /\ RangesRead(Sent, body, range') /\ ValuesRead(Sent, got')
                    /\ Stage(Sent, phase', next', range', got')
  BY Zenon DEF ReadStays
<1> DEFINE f == LastFields[next]
<1>1. phase = "optional" /\ ReadField(LastFields, "finish") /\ next \in 1..2 /\ body \in Symbols
  BY Zenon DEF ReadOptional, ScanInv, Counted
<1>2. /\ RangesRead(Sent, body, range) /\ ValuesRead(Sent, got) /\ AllKept(Sent, range, got)
      /\ LastName \in DOMAIN range /\ Kept(Sent, got, LastFields, next - 1)
  BY <1>1, Zenon DEF ReadInv, Stage
<1>3. FieldOK(f) /\ f.obj \in DOMAIN range
  BY <1>1, <1>2, FieldsAre, Zenon
<1>4. (Reject /\ ~Suits(Sent, f)) \/ FieldKept(Sent, LastFields, "finish")
  BY <1>1, <1>2, <1>3, FieldStep, Zenon
<1>5. CASE Reject /\ ~Suits(Sent, f)
  <2>1. phase' = "rejected" /\ range' = range /\ got' = got
    BY <1>5, Zenon DEF Reject
  <2>2. Holds(Sent, LastName)
    BY <1>2, Zenon DEF RangesRead
  <2>3. ~Proper(Sent)
    BY <1>1, <1>5, <2>2, Zenon DEF Proper
  <2> QED
    BY <1>2, <2>1, <2>3, Zenon DEF Stage
<1>6. CASE FieldKept(Sent, LastFields, "finish")
  <2>1. /\ Suits(Sent, f) /\ range' = range /\ ValuesRead(Sent, got')
        /\ DOMAIN got' = DOMAIN got \cup {<<f.obj, f.key>>}
        /\ IF next < 2 THEN next' = next + 1 /\ phase' = "optional" ELSE next' = 1 /\ phase' = "finish"
    BY <1>1, <1>6, Lengths, Zenon DEF FieldKept
  <2> DEFINE gu == got'
  <2>2. DOMAIN got \subseteq DOMAIN gu /\ <<f.obj, f.key>> \in DOMAIN gu
    BY <2>1, Zenon
  <2>3. gu = got'
    OBVIOUS
  <2> HIDE DEF gu
  <2>4. Kept(Sent, gu, LastFields, next)
    <3>1. next \in Nat \ {0}
      BY <1>1
    <3> QED
      BY <1>2, <2>1, <2>2, <3>1, OneMoreKept
  <2>5. AllKept(Sent, range, gu)
    BY <1>2, <2>2, KeptStays, Zenon DEF AllKept
  <2>6. CASE next < 2
    <3>1. next' = next + 1 /\ phase' = "optional"
      BY <2>1, <2>6, Zenon
    <3>2. (next + 1) - 1 = next
      BY <1>1
    <3> QED
      BY <1>2, <2>1, <2>3, <2>4, <2>5, <3>1, <3>2, Zenon DEF Stage
  <2>7. CASE ~(next < 2)
    <3>1. next' = 1 /\ phase' = "finish"
      BY <2>1, <2>7, Zenon
    <3>2. next = 2
      BY <1>1, <2>7
    <3> QED
      BY <1>2, <2>1, <2>3, <2>4, <2>5, <3>1, <3>2, Zenon DEF Stage
  <2> QED
    BY <2>6, <2>7, Zenon
<1> QED
  BY <1>4, <1>5, <1>6, Zenon

\* The invariant is inductive.
LEMMA ReadStep == ScanInv /\ ReadInv /\ [Next]_vars => ReadInv'
<1> SUFFICES ASSUME ScanInv, ReadInv, [Next]_vars PROVE ReadInv'
  OBVIOUS
<1>1. request' = request /\ body' = body
  BY Zenon DEF Next, KeepDefaults, BeginLoad, ApplyEntry, EndLoad, FindObject, ReadRequired,
               FindLast, ReadOptional, Finish, vars
<1>2. phase \in {"start", "load"} => phase # "objects" /\ (phase = "start" \/ phase = "load")
  OBVIOUS
<1>3. ReadStays
  <2>1. CASE KeepDefaults
    BY <2>1, ReadElse, Zenon DEF KeepDefaults, ScanInv, Counted
  <2>2. CASE BeginLoad
    BY <2>2, ReadElse, Zenon DEF BeginLoad
  <2>3. CASE ApplyEntry
    BY <2>3, ReadElse, Zenon DEF ApplyEntry
  <2>4. CASE EndLoad
    BY <2>4, ReadElse, Zenon DEF EndLoad, ScanInv, Counted
  <2>5. CASE Finish
    BY <2>5, ReadElse, Zenon DEF Finish
  <2>6. CASE UNCHANGED vars
    BY <2>6, ReadElse, Zenon DEF vars
  <2> QED
    BY <2>1, <2>2, <2>3, <2>4, <2>5, <2>6, ReadObject, ReadOne, ReadLast, ReadTwo, Zenon DEF Next
<1> QED
  BY <1>1, <1>3, ReadStaysIs, Zenon

LEMMA ReadAlways == Spec => [](ScanInv /\ ReadInv)
BY ScanInit, ScanStep, ReadInit, ReadStep, PTL DEF Spec

\* Every value Build takes is the one of that member of that object: although
\* keys are searched as text in a range of the body, whatever the order of the
\* members, the spaces, and the strings in other members.
THEOREM OwnFieldsAreRead == Spec => []ReadsItsOwnFields
<1>1. ReadInv => ReadsItsOwnFields
  BY Zenon DEF ReadInv, ReadsItsOwnFields, ValuesRead, Inner
<1> QED
  BY <1>1, ReadAlways, PTL

\* Build returns ErrParse for a legible request exactly if an object or a required
\* member is missing, or has a value that its getter does not take: a well-formed
\* request is never rejected (a malformed one may be accepted).
THEOREM UnacceptableAreRejected == Spec => []RejectsTheUnacceptable
<1>1. ReadInv => RejectsTheUnacceptable
  <2> SUFFICES ASSUME ReadInv, Legible(Sent)
               PROVE  (phase = "rejected" => ~Proper(Sent)) /\ (phase = "built" => Proper(Sent))
    BY ProperIs, Zenon DEF RejectsTheUnacceptable
  <2>1. RangesRead(Sent, body, range) /\ Stage(Sent, phase, next, range, got)
    BY Zenon DEF ReadInv
  <2>2. ASSUME phase = "built" PROVE Proper(Sent)
    <3>1. AllKept(Sent, range, got) /\ (Holds(Sent, LastName) => Kept(Sent, got, LastFields, 2))
      BY <2>1, <2>2, Zenon DEF Stage
    <3>2. \A i \in 1..4 : Holds(Sent, Objects[i])
      BY <2>1, <3>1, Zenon DEF AllKept, Found, RangesRead
    <3> QED
      BY <3>1, <3>2, Zenon DEF Proper, AllKept, Kept
  <2> QED
    BY <2>1, <2>2, Zenon DEF Stage
<1> QED
  BY <1>1, ReadAlways, PTL

-----------------------------------------------------------------------------
(* The search of arrayContainsString. *)

\* A search that hits or jumps forward, as long as it lies before the end.
Jumps(f, hit, nxt) == \A p \in Nat : f[p] = (hit[p] \/ (p < nxt[p] /\ f[nxt[p]]))

\* There is one such function: the recursion ends (least counterexample).
LEMMA JumpsExist ==
  ASSUME NEW end \in Nat, NEW hit \in [Nat -> BOOLEAN], NEW nxt \in [Nat -> 0..end]
  PROVE  \E f \in [Nat -> BOOLEAN] : Jumps(f, hit, nxt)
<1> DEFINE Moves(f, p) == f[p] = (hit[p] \/ (p < nxt[p] /\ f[nxt[p]]))
           Good(f, k)  == \A p \in Nat : k <= p => Moves(f, p)
           Bad == {j \in 0..end : ~ \E f \in [Nat -> BOOLEAN] : Good(f, end - j)}
<1>1. 0 \notin Bad
  <2>1. \A p \in Nat : end - 0 <= p => ~(p < nxt[p])
    OBVIOUS
  <2>2. Good(hit, end - 0)
    BY <2>1, Zenon
  <2> HIDE DEF Good
  <2> QED
    BY <2>2, Zenon
<1>2. ASSUME NEW j \in 1..end, j - 1 \notin Bad
      PROVE  j \notin Bad
  <2> DEFINE k == end - j
  <2>1. k \in Nat /\ end - (j - 1) = k + 1 /\ j - 1 \in 0..end
    OBVIOUS
  <2>2. PICK f \in [Nat -> BOOLEAN] : Good(f, k + 1)
    <3> HIDE DEF Good, k
    <3> QED
      BY <1>2, <2>1, Zenon
  <2> DEFINE v == hit[k] \/ (k < nxt[k] /\ f[nxt[k]])
             g == [f EXCEPT ![k] = v]
  <2>3. v \in BOOLEAN
    BY Zenon
  <2> HIDE DEF v, k
  <2>4. g \in [Nat -> BOOLEAN] /\ g[k] = v /\ \A p \in Nat : p # k => g[p] = f[p]
    <3>1. g \in [Nat -> BOOLEAN]
      BY <2>3, Zenon
    <3>2. g[k] = v
      BY <2>1, Zenon
    <3>3. \A p \in Nat : p # k => g[p] = f[p]
      BY <2>1, Zenon
    <3> QED
      BY <3>1, <3>2, <3>3, Zenon
  <2> HIDE DEF g
  <2>5. ASSUME NEW p \in Nat, k <= p PROVE Moves(g, p)
    <3> DEFINE x == nxt[p]
    <3>1. x \in Nat
      OBVIOUS
    <3> HIDE DEF x
    <3>2. p < x => x # k
      BY <2>1, <2>5, <3>1
    <3>3. p < x => g[x] = f[x]
      BY <2>4, <3>1, <3>2, Zenon
    <3>4. CASE p = k
      <4>1. g[p] = (hit[p] \/ (p < x /\ f[x]))
        BY <2>4, <3>4, Zenon DEF v, x
      <4> QED
        BY <3>3, <4>1, Zenon DEF x
    <3>5. CASE p # k
      <4>1. k + 1 <= p
        BY <2>1, <2>5, <3>5
      <4>2. f[p] = (hit[p] \/ (p < x /\ f[x]))
        BY <2>2, <4>1, Zenon DEF x
      <4>3. g[p] = f[p]
        BY <2>4, <3>5, Zenon
      <4> QED
        BY <3>3, <4>2, <4>3, Zenon DEF x
    <3> QED
      BY <3>4, <3>5, Zenon
  <2>6. Good(g, k)
    BY <2>5, Zenon
  <2> HIDE DEF Good
  <2> QED
    BY <2>4, <2>6, Zenon DEF k
<1>3. Bad = {}
  <2> SUFFICES ASSUME Bad # {} PROVE FALSE
    OBVIOUS
  <2>1. Bad \in SUBSET Nat /\ Bad \subseteq 0..end
    OBVIOUS
  <2> HIDE DEF Bad
  <2>2. PICK m \in Bad : \A i \in Bad : m <= i
    BY <2>1, LeastNatural
  <2>3. m # 0 /\ m - 1 \notin Bad
    BY <1>1, <2>1, <2>2
  <2> QED
    BY <1>2, <2>1, <2>2, <2>3
<1>4. end \in 0..end /\ end - end = 0
  OBVIOUS
<1>5. PICK f \in [Nat -> BOOLEAN] : Good(f, 0)
  <2> HIDE DEF Good
  <2> QED
    BY <1>3, <1>4, Zenon
<1>6. \A p \in Nat : 0 <= p
  OBVIOUS
<1> QED
  BY <1>5, <1>6, Zenon DEF Jumps

LEMMA SkipWSAny ==
  ASSUME NEW b, NEW start \in Nat, NEW end \in Nat
  PROVE  SkipWS(b, start, end) \in Nat /\ (SkipWS(b, start, end) < end => SkipWS(b, start, end) >= start)
<1> DEFINE S == {r \in start..(end - 1) : b[r] # " "}
           p == FirstOf(S)
<1>1. S \subseteq start..(end - 1)
  BY Zenon
<1>2. SkipWS(b, start, end) = IF p = 0 THEN end ELSE p
  BY Zenon DEF SkipWS
<1> HIDE DEF S
<1>3. p \in S \cup {0}
  BY <1>1, FirstOfIsThere
<1> HIDE DEF p
<1>4. p = 0 \/ p \in start..(end - 1)
  BY <1>1, <1>3
<1> QED
  BY <1>2, <1>4

\* One step of the search for a string in a list.
Ends(c) == c = "]"
Next1(b, p, end) == SkipWS(b, p, end)
Next2(b, p, end) == IndexFrom(b, SkipWS(b, p, end) + 1, end, Quote)
Hits(b, p, end, needle) ==
  /\ Next1(b, p, end) < end /\ ~Ends(b[Next1(b, p, end)]) /\ b[Next1(b, p, end)] = Quote
  /\ Next2(b, p, end) > 0 /\ SubSeq(b, Next1(b, p, end) + 1, Next2(b, p, end) - 1) = needle
Onward(b, p, end) ==
  IF Next1(b, p, end) < end /\ ~Ends(b[Next1(b, p, end)])
  THEN IF b[Next1(b, p, end)] # Quote THEN Next1(b, p, end) + 1
       ELSE IF Next2(b, p, end) > 0 THEN Next2(b, p, end) + 1 ELSE 0
  ELSE 0

\* Every step goes forward, or to the end.
LEMMA OnwardIn ==
  ASSUME NEW b, NEW p \in Nat, NEW end \in Nat
  PROVE  /\ Onward(b, p, end) \in 0..end
         /\ Next1(b, p, end) < end => p < Next1(b, p, end) + 1
         /\ Next1(b, p, end) < end /\ Next2(b, p, end) > 0 => p < Next2(b, p, end) + 1
<1> DEFINE s == Next1(b, p, end)
           qt == Next2(b, p, end)
<1>1. s \in Nat /\ (s < end => s >= p)
  BY SkipWSAny DEF Next1
<1>2. qt \in (s + 1)..(end - 1) \cup {0}
  <2>1. s + 1 \in Nat
    BY <1>1
  <2> QED
    BY <2>1, IndexFromIn, Zenon DEF Next1, Next2
<1>3. \/ Onward(b, p, end) = 0
      \/ s < end /\ Onward(b, p, end) = s + 1
      \/ qt > 0 /\ Onward(b, p, end) = qt + 1
  BY Zenon DEF Onward
<1> HIDE DEF s, qt
<1>4. s < end => p < s + 1
  BY <1>1
<1>5. s < end /\ qt > 0 => p < qt + 1
  BY <1>1, <1>2
<1>6. Onward(b, p, end) \in 0..end
  BY <1>1, <1>2, <1>3
<1> QED
  BY <1>4, <1>5, <1>6 DEF s, qt

\* The search itself.
Searches(f, b, end, needle) ==
  \A p \in Nat : f[p] = LET s == Next1(b, p, end)
                            qt == Next2(b, p, end)
                        IN  /\ s < end /\ ~Ends(b[s])
                            /\ IF b[s] # Quote THEN f[s + 1]
                               ELSE qt > 0 /\ (SubSeq(b, s + 1, qt - 1) = needle \/ f[qt + 1])

\* The recursion of arrayContainsString has a solution.
LEMMA SearchExists ==
  ASSUME NEW b, NEW end \in Nat, NEW needle
  PROVE  \E f \in [Nat -> BOOLEAN] : Searches(f, b, end, needle)
<1> DEFINE hit == [p \in Nat |-> Hits(b, p, end, needle)]
           nxt == [p \in Nat |-> Onward(b, p, end)]
<1>1. hit \in [Nat -> BOOLEAN]
  BY Zenon DEF Hits
<1>2. nxt \in [Nat -> 0..end]
  BY OnwardIn, Zenon
<1>3. PICK f \in [Nat -> BOOLEAN] : Jumps(f, hit, nxt)
  <2> HIDE DEF hit, nxt
  <2> QED
    BY <1>1, <1>2, JumpsExist
<1>4. ASSUME NEW p \in Nat
      PROVE  f[p] = LET s == Next1(b, p, end)
                        qt == Next2(b, p, end)
                    IN  /\ s < end /\ ~Ends(b[s])
                        /\ IF b[s] # Quote THEN f[s + 1]
                           ELSE qt > 0 /\ (SubSeq(b, s + 1, qt - 1) = needle \/ f[qt + 1])
  <2> DEFINE s == Next1(b, p, end)
             qt == Next2(b, p, end)
             o == Onward(b, p, end)
  <2>1. f[p] = (Hits(b, p, end, needle) \/ (p < o /\ f[o]))
    BY <1>3, Zenon DEF Jumps
  <2>2. (s < end => p < s + 1) /\ (s < end /\ qt > 0 => p < qt + 1)
    BY OnwardIn, Zenon
  <2>3. ~(p < 0)
    OBVIOUS
  <2>4. Hits(b, p, end, needle) <=> /\ s < end /\ ~Ends(b[s]) /\ b[s] = Quote
                                    /\ qt > 0 /\ SubSeq(b, s + 1, qt - 1) = needle
    BY Zenon DEF Hits
  <2>5. o = IF s < end /\ ~Ends(b[s])
            THEN IF b[s] # Quote THEN s + 1 ELSE IF qt > 0 THEN qt + 1 ELSE 0
            ELSE 0
    BY Zenon DEF Onward
  <2> HIDE DEF s, qt, o
  <2>6. CASE ~(s < end /\ ~Ends(b[s]))
    BY <2>1, <2>3, <2>4, <2>5, <2>6, Zenon DEF s, qt
  <2>7. CASE s < end /\ ~Ends(b[s]) /\ b[s] # Quote
    <3>1. o = s + 1 /\ p < s + 1
      BY <2>2, <2>5, <2>7, Zenon
    <3>2. f[s + 1] \in BOOLEAN /\ f[p] \in BOOLEAN
      <4>1. s + 1 \in Nat
        BY SkipWSAny DEF Next1, s
      <4> QED
        BY <4>1, Zenon
    <3>3. f[p] <=> f[s + 1]
      BY <2>1, <2>4, <2>7, <3>1, Zenon
    <3>4. f[p] = f[s + 1]
      <4> DEFINE v == f[p]
                 w == f[s + 1]
      <4>1. v \in BOOLEAN /\ w \in BOOLEAN /\ (v <=> w)
        BY <3>2, <3>3, Zenon
      <4> HIDE DEF v, w
      <4>2. v = w
        BY <4>1
      <4> QED
        BY <4>2, Zenon DEF v, w
    <3> QED
      BY <2>7, <3>4, Zenon DEF s, qt
  <2>8. CASE s < end /\ ~Ends(b[s]) /\ b[s] = Quote /\ qt > 0
    <3>1. o = qt + 1 /\ p < qt + 1
      BY <2>2, <2>5, <2>8, Zenon
    <3>2. f[p] = (SubSeq(b, s + 1, qt - 1) = needle \/ f[qt + 1])
      BY <2>1, <2>4, <2>8, <3>1, Zenon
    <3> QED
      BY <2>8, <3>2, Zenon DEF s, qt
  <2>9. CASE s < end /\ ~Ends(b[s]) /\ b[s] = Quote /\ ~(qt > 0)
    BY <2>1, <2>3, <2>4, <2>5, <2>9, Zenon DEF s, qt
  <2> QED
    BY <2>6, <2>7, <2>8, <2>9, Zenon
<1>5. Searches(f, b, end, needle)
  BY <1>4, Zenon DEF Searches
<1> QED
  BY <1>5, Zenon

\* What arrayContainsString returns is such a solution, after the bracket.
LEMMA ListSearch ==
  ASSUME NEW b, NEW r, r.end \in Nat, NEW key, NEW needle
  PROVE  \E f : /\ Searches(f, b, r.end, needle)
                /\ ArrayContainsString(b, r, key, needle) <=>
                     LET c  == ValueAt(b, r.start, r.end, key)
                         lb == IF c = 0 THEN 0 ELSE IndexFrom(b, c, r.end, "[")
                     IN  lb > 0 /\ f[lb + 1]
<1> DEFINE end == r.end
           body1(f) == [p \in Nat |-> LET s == SkipWS(b, p, r.end)
                                          qt == IndexFrom(b, s + 1, r.end, Quote)
                                      IN  /\ s < r.end /\ b[s] # "]"
                                          /\ IF b[s] # Quote THEN f[s + 1]
                                             ELSE qt > 0 /\ (SubSeq(b, s + 1, qt - 1) = needle \/ f[qt + 1])]
           Is(f) == f = body1(f)
           F == CHOOSE f : Is(f)
<1>1. \A f : Is(f) => Searches(f, b, end, needle)
  <2> SUFFICES ASSUME NEW f, Is(f), NEW p \in Nat
               PROVE  f[p] = LET s == Next1(b, p, end)
                                 qt == Next2(b, p, end)
                             IN  /\ s < end /\ ~Ends(b[s])
                                 /\ IF b[s] # Quote THEN f[s + 1]
                                    ELSE qt > 0 /\ (SubSeq(b, s + 1, qt - 1) = needle \/ f[qt + 1])
    BY Zenon DEF Searches
  <2>1. f[p] = body1(f)[p]
    BY Zenon
  <2> QED
    BY <2>1, Zenon DEF Next1, Next2, Ends
<1>2. \A f \in [Nat -> BOOLEAN] : Searches(f, b, end, needle) => Is(f)
  <2> SUFFICES ASSUME NEW f \in [Nat -> BOOLEAN], Searches(f, b, end, needle) PROVE Is(f)
    BY Zenon
  <2>1. ASSUME NEW p \in Nat PROVE f[p] = body1(f)[p]
    BY Zenon DEF Searches, Next1, Next2, Ends
  <2> DEFINE g == body1(f)
  <2>2. g = [p \in Nat |-> g[p]] /\ f = [p \in Nat |-> f[p]]
    BY Zenon
  <2>3. \A p \in Nat : f[p] = g[p]
    BY <2>1, Zenon
  <2> HIDE DEF g
  <2>4. f = g
    BY <2>2, <2>3, Zenon
  <2> QED
    BY <2>4, Zenon DEF g
<1>3. PICK h \in [Nat -> BOOLEAN] : Searches(h, b, end, needle)
  BY SearchExists, Zenon
<1>4. Searches(F, b, end, needle)
  <2>1. Is(F)
    <3> HIDE DEF Is
    <3> QED
      BY <1>2, <1>3, Zenon
  <2> QED
    BY <1>1, <2>1, Zenon
<1>5. ArrayContainsString(b, r, key, needle) <=>
                     LET c  == ValueAt(b, r.start, r.end, key)
                         lb == IF c = 0 THEN 0 ELSE IndexFrom(b, c, r.end, "[")
                     IN  lb > 0 /\ F[lb + 1]
  BY Zenon DEF ArrayContainsString
<1> QED
  BY <1>4, <1>5, Zenon

\* The search before a string, before a comma and before the end of the list.
Spaces(b, p, x) == \A y \in p..(x - 1) : IsSpace(b[y])

LEMMA NotSpaces == ~IsSpace(Quote) /\ ~IsSpace(",") /\ ~IsSpace("]") /\ ~Ends(Quote) /\ ~Ends(",") /\ Ends("]")
                   /\ "," # Quote
BY MarksDiffer DEF IsSpace, Ends, Quote

Separates(c) == c = ","

Sought(f, b, end, needle, s, qt) ==
  /\ s < end /\ ~Ends(b[s])
  /\ IF b[s] # Quote THEN f[s + 1] ELSE qt > 0 /\ (SubSeq(b, s + 1, qt - 1) = needle \/ f[qt + 1])

LEMMA SearchesAt ==
  ASSUME NEW f, NEW b, NEW end, NEW needle, Searches(f, b, end, needle), NEW p \in Nat
  PROVE  f[p] <=> Sought(f, b, end, needle, Next1(b, p, end), Next2(b, p, end))
BY Zenon DEF Searches, Sought

\* A string is compared, and the search goes on after it.
LEMMA SearchString ==
  ASSUME NEW f, NEW b \in Symbols, NEW end \in Nat, end <= Len(b) + 1, NEW needle,
         Searches(f, b, end, needle), NEW z \in Nat, NEW s \in Symbols, At(b, z, String(s)),
         \A i \in 1..Len(s) : s[i] # Quote, z + Len(s) + 2 < end,
         NEW p \in 1..(z + 1), Spaces(b, p, z + 1)
  PROVE  f[p] <=> s = needle \/ f[z + Len(s) + 3]
<1> DEFINE L == Len(s)
           x == z + 1
           qt == z + L + 2
<1>1. L \in Nat
  BY Texts, Zenon
<1>2. b[x] = Quote
  <2>1. z \in Int
    OBVIOUS
  <2> QED
    BY <2>1, StringPlaces, Zenon
<1>3. /\ p \in Nat \ {0} /\ x \in p..(end - 1) /\ p \in Nat /\ x < end /\ qt > 0 /\ qt + 1 = z + L + 3
  BY <1>1
<1>4. Next1(b, p, end) = x
  <2>1. ~IsSpace(b[x])
    BY <1>2, NotSpaces, Zenon
  <2>2. \A y \in p..(x - 1) : IsSpace(b[y])
    BY Zenon DEF Spaces
  <2> HIDE DEF x
  <2>3. SkipWS(b, p, end) = x
    BY <1>3, <2>1, <2>2, SkipWSIs
  <2> QED
    BY <2>3, Zenon DEF Next1
<1>5. IndexFrom(b, (z + 1) + 1, end, Quote) = qt /\ SubSeq(b, (z + 1) + 1, qt - 1) = s
  BY Quoted, Zenon
<1>6. Next2(b, p, end) = qt
  BY <1>4, <1>5, Zenon DEF Next1, Next2
<1>7. f[p] <=> Sought(f, b, end, needle, x, qt)
  BY <1>3, <1>4, <1>6, SearchesAt, Zenon
<1>8. ~Ends(b[x])
  BY <1>2, NotSpaces, Zenon
<1>9. SubSeq(b, x + 1, qt - 1) = s
  BY <1>5, Zenon
<1> HIDE DEF qt, x
<1>10. f[p] <=> s = needle \/ f[qt + 1]
  BY <1>2, <1>3, <1>7, <1>8, <1>9, Zenon DEF Sought
<1> QED
  BY <1>3, <1>10, Zenon DEF L

\* A comma is passed over.
LEMMA SearchComma ==
  ASSUME NEW f, NEW b, NEW end \in Nat, NEW needle, Searches(f, b, end, needle),
         NEW p \in Nat \ {0}, p < end, Separates(b[p])
  PROVE  f[p] <=> f[p + 1]
<1>1. p \in p..(end - 1) /\ p \in Nat /\ p..(p - 1) = {}
  OBVIOUS
<1>2. ~IsSpace(b[p]) /\ ~Ends(b[p]) /\ b[p] # Quote
  BY NotSpaces, Zenon DEF Separates
<1>3. \A y \in p..(p - 1) : IsSpace(b[y])
  BY <1>1, Zenon
<1>4. SkipWS(b, p, end) = p
  BY <1>1, <1>2, <1>3, SkipWSIs, Zenon
<1>5. Next1(b, p, end) = p
  BY <1>4, Zenon DEF Next1
<1>6. f[p] <=> Sought(f, b, end, needle, p, Next2(b, p, end))
  BY <1>1, <1>5, SearchesAt, Zenon
<1> QED
  BY <1>2, <1>6, Zenon DEF Sought

\* The search ends at the closing bracket.
LEMMA SearchEnd ==
  ASSUME NEW f, NEW b, NEW end \in Nat, NEW needle, Searches(f, b, end, needle),
         NEW p \in Nat \ {0}, NEW x \in p..(end - 1), Spaces(b, p, x), Ends(b[x])
  PROVE  ~f[p]
<1>1. ~IsSpace(b[x])
  BY NotSpaces, Zenon DEF Ends
<1>2. \A y \in p..(x - 1) : IsSpace(b[y])
  BY Zenon DEF Spaces
<1>3. SkipWS(b, p, end) = x
  BY <1>1, <1>2, SkipWSIs, Zenon
<1>4. Next1(b, p, end) = x /\ p \in Nat
  BY <1>3, Zenon DEF Next1
<1>5. f[p] <=> Sought(f, b, end, needle, x, Next2(b, p, end))
  BY <1>4, SearchesAt, Zenon
<1> QED
  BY <1>5, Zenon DEF Sought

\* From one string of the list to the next.
Walk(f, n, vals, needle, B, A) ==
  /\ n \in Nat \ {0} /\ \A i \in 1..n : f[B[i]] <=> vals[i] = needle \/ f[A[i]]
  /\ \A i \in 1..(n - 1) : f[A[i]] <=> f[B[i + 1]]
  /\ ~f[A[n]]

Among(vals, n, needle) == \E i \in 1..n : vals[i] = needle

\* Such a walk finds a string exactly when it is in the list.
LEMMA WalkFinds ==
  ASSUME NEW f, NEW n, NEW vals, NEW needle, NEW B, NEW A, Walk(f, n, vals, needle, B, A)
  PROVE  f[B[1]] <=> Among(vals, n, needle)
<1> DEFINE P(i) == f[B[i]] <=> \E j \in i..n : vals[j] = needle
           Bad == {k \in 0..(n - 1) : ~P(n - k)}
<1>1. n \in Nat \ {0}
  BY Zenon DEF Walk
<1> SUFFICES ASSUME ~P(1) PROVE FALSE
  BY Zenon DEF Among
<1>2. n - 1 \in 0..(n - 1) /\ n - (n - 1) = 1 /\ Bad \in SUBSET Nat /\ Bad \subseteq 0..(n - 1)
  BY <1>1
<1>3. Bad # {}
  <2> HIDE DEF P
  <2> QED
    BY <1>2, Zenon
<1> HIDE DEF P
<1>4. PICK k \in Bad : \A l \in Bad : k <= l
  <2> HIDE DEF Bad
  <2> QED
    BY <1>2, <1>3, LeastNatural, Zenon
<1> DEFINE i == n - k
<1>5. k \in 0..(n - 1) /\ ~P(i)
  BY <1>4, Zenon
<1>6. i \in 1..n /\ \A j : j \in i..n <=> j = i \/ j \in (i + 1)..n
  BY <1>1, <1>5
<1>7. f[B[i]] <=> vals[i] = needle \/ f[A[i]]
  BY <1>6, Zenon DEF Walk
<1>8. CASE i = n
  <2>1. ~f[A[i]]
    BY <1>8, Zenon DEF Walk
  <2>2. \A j \in i..n : j = i
    BY <1>1, <1>8
  <2>3. i \in i..n
    BY <1>6
  <2> HIDE DEF i
  <2>4. P(i)
    BY <1>7, <2>1, <2>2, <2>3, Zenon DEF P
  <2> QED
    BY <1>5, <2>4, Zenon
<1>9. CASE i # n
  <2>1. k - 1 \in 0..(n - 1) /\ n - (k - 1) = i + 1 /\ i \in 1..(n - 1) /\ ~(k <= k - 1)
    BY <1>1, <1>5, <1>9
  <2>2. k - 1 \notin Bad
    BY <1>4, <2>1, Zenon
  <2>3. P(i + 1)
    BY <2>1, <2>2, Zenon
  <2>4. f[A[i]] <=> f[B[i + 1]]
    BY <2>1, Zenon DEF Walk
  <2> HIDE DEF i
  <2>5. P(i)
    BY <1>6, <1>7, <2>3, <2>4, Zenon DEF P
  <2> QED
    BY <1>5, <2>5, Zenon
<1> QED
  BY <1>8, <1>9

\* A list of strings in b after z, its text y symbols long.
Rows(b, z, vals, n, g, at, y) ==
  /\ z \in Nat /\ n \in Nat /\ g \in 0..1 /\ y \in Nat
  /\ \A i \in 1..n : /\ at[i] \in Nat /\ vals[i] \in Symbols /\ At(b, z + at[i], String(vals[i]))
                     /\ at[i] + Len(vals[i]) + 2 < y
  /\ n # 0 => at[1] = 1
  /\ \A i \in 1..(n - 1) : /\ at[i + 1] = at[i] + Len(vals[i]) + 3 + g
                           /\ Separates(b[z + at[i] + Len(vals[i]) + 3])
                           /\ g = 1 => IsSpace(b[z + at[i] + Len(vals[i]) + 4])
  /\ y = IF n = 0 THEN 2 + g ELSE at[n] + Len(vals[n]) + 3 + g
  /\ Ends(b[z + y]) /\ (g = 1 => IsSpace(b[z + y - 1]))
  /\ n = 0 /\ g = 1 => IsSpace(b[z + 2])

\* So does the search through the text of a list.
LEMMA RowsSearched ==
  ASSUME NEW b \in Symbols, NEW z, NEW vals, NEW n, NEW g, NEW at, NEW y, Rows(b, z, vals, n, g, at, y),
         \A i \in 1..n : \A j \in 1..Len(vals[i]) : vals[i][j] # Quote,
         NEW end \in Nat, z + y + 1 < end, end <= Len(b) + 1, NEW f, NEW needle, Searches(f, b, end, needle)
  PROVE  f[z + 2] <=> Among(vals, n, needle)
<1>0. z \in Nat /\ n \in Nat /\ g \in 0..1 /\ y \in Nat /\ end \in Nat /\ z + y + 1 < end
  BY Zenon DEF Rows
<1>1. /\ z \in Nat /\ n \in Nat /\ g \in 0..1 /\ y \in Nat
      /\ y = IF n = 0 THEN 2 + g ELSE at[n] + Len(vals[n]) + 3 + g
      /\ Ends(b[z + y]) /\ (g = 1 => IsSpace(b[z + y - 1]))
  BY Zenon DEF Rows
<1>2. ASSUME NEW p \in Nat, p = z + y - g, p > 0 PROVE ~f[p]
  <2> DEFINE x == z + y
  <2>1. x \in p..(end - 1) /\ p \in Nat \ {0}
    BY <1>0, <1>2
  <2>2. \A v \in p..(x - 1) : g = 1 /\ v = z + y - 1
    BY <1>0, <1>2
  <2>3. Spaces(b, p, x)
    BY <1>1, <2>2, Zenon DEF Spaces
  <2>4. Ends(b[x])
    BY <1>1, Zenon
  <2> HIDE DEF x
  <2> QED
    BY <2>1, <2>3, <2>4, SearchEnd, Zenon
<1>3. CASE n = 0
  <2>1. z + 2 = z + y - g /\ z + 2 \in Nat /\ z + 2 > 0 /\ 1..n = {}
    BY <1>1, <1>3
  <2>2. ~f[z + 2]
    BY <1>2, <2>1, Zenon
  <2> QED
    BY <2>1, <2>2, Zenon DEF Among
<1>4. CASE n # 0
  <2> DEFINE B == [i \in 1..n |-> z + at[i] + 1 - (IF i = 1 THEN 0 ELSE g)]
             A == [i \in 1..n |-> z + at[i] + Len(vals[i]) + 3]
  <2>1. \A i \in 1..n : at[i] \in Nat /\ vals[i] \in Symbols /\ Len(vals[i]) \in Nat
    BY Texts, Zenon DEF Rows
  <2>2. at[1] = 1 /\ 1 \in 1..n /\ n \in 1..n
    <3>1. at[1] = 1
      BY <1>4, Zenon DEF Rows
    <3> QED
      BY <1>1, <1>4, <3>1
  <2>3. ASSUME NEW i \in 1..n
        PROVE  f[B[i]] <=> vals[i] = needle \/ f[A[i]]
    <3> DEFINE s == vals[i]
               l == Len(s)
               a == at[i]
               w == z + a
               p == w + 1 - (IF i = 1 THEN 0 ELSE g)
    <3>1. At(b, w, String(s)) /\ a + l + 2 < y /\ s \in Symbols /\ l \in Nat /\ a \in Nat
      BY <2>1, Zenon DEF Rows
    <3>0. a + l + 2 < y /\ l \in Nat /\ a \in Nat
      BY <3>1, Zenon
    <3>2. i = 1 \/ (i - 1 \in 1..(n - 1) /\ (i - 1) + 1 = i)
      BY <1>1
    <3>3. i # 1 => LET h == i - 1 IN /\ at[h] \in Nat /\ Len(vals[h]) \in Nat /\ a = at[h] + Len(vals[h]) + 3 + g
                                     /\ g = 1 => IsSpace(b[z + at[h] + Len(vals[h]) + 4])
      <4> SUFFICES ASSUME i # 1
                   PROVE  LET h == i - 1 IN /\ at[h] \in Nat /\ Len(vals[h]) \in Nat
                                            /\ a = at[h] + Len(vals[h]) + 3 + g
                                            /\ g = 1 => IsSpace(b[z + at[h] + Len(vals[h]) + 4])
        OBVIOUS
      <4> DEFINE h == i - 1
      <4>1. h \in 1..(n - 1) /\ h + 1 = i /\ h \in 1..n
        BY <1>1, <3>2
      <4> HIDE DEF h
      <4>2. at[h + 1] = at[h] + Len(vals[h]) + 3 + g /\ (g = 1 => IsSpace(b[z + at[h] + Len(vals[h]) + 4]))
        BY <4>1, Zenon DEF Rows
      <4> QED
        BY <2>1, <4>1, <4>2, Zenon DEF h
    <3>4. Spaces(b, p, w + 1) /\ p \in 1..(w + 1)
      <4>1. CASE i = 1
        <5>1. p = w + 1 /\ p \in 1..(w + 1) /\ p..((w + 1) - 1) = {}
          BY <1>0, <3>0, <4>1, SMTT(30)
        <5> HIDE DEF p, w
        <5> QED
          BY <5>1, Zenon DEF Spaces
      <4>2. CASE i # 1
        <5> DEFINE u == at[i - 1]
                   k == Len(vals[i - 1])
        <5>1. u \in Nat /\ k \in Nat /\ a = u + k + 3 + g /\ (g = 1 => IsSpace(b[z + u + k + 4]))
          BY <3>3, <4>2, Zenon
        <5> HIDE DEF u, k, a
        <5>3. u \in Nat /\ k \in Nat /\ a = u + k + 3 + g
          BY <5>1, Zenon
        <5>2. p \in 1..(w + 1) /\ \A v \in p..((w + 1) - 1) : g = 1 /\ v = z + u + k + 4
          BY <1>0, <4>2, <5>3
        <5> HIDE DEF p, w
        <5> QED
          BY <5>1, <5>2, Zenon DEF Spaces
      <4> QED
        BY <4>1, <4>2, Zenon
    <3>5. w + l + 2 < end /\ w \in Nat /\ w + l + 3 = z + a + l + 3
      <4> HIDE DEF l, a
      <4> QED
        BY <1>0, <3>0
    <3>6. \A j \in 1..Len(s) : s[j] # Quote
      BY Zenon
    <3> HIDE DEF w, s, p
    <3>7. f[p] <=> s = needle \/ f[w + l + 3]
      BY <3>1, <3>4, <3>5, <3>6, SearchString, Zenon
    <3>8. B[i] = p /\ A[i] = w + l + 3
      BY Zenon DEF p, w, s
    <3> HIDE DEF B, A
    <3> QED
      BY <3>7, <3>8, Zenon DEF s
  <2>4. ASSUME NEW i \in 1..(n - 1)
        PROVE  f[A[i]] <=> f[B[i + 1]]
    <3> DEFINE p == z + at[i] + Len(vals[i]) + 3
    <3>1. i \in 1..n /\ i + 1 \in 1..n /\ i + 1 # 1
      BY <1>1
    <3>2. at[i + 1] = at[i] + Len(vals[i]) + 3 + g /\ Separates(b[p])
      BY Zenon DEF Rows
    <3>3. at[i] + Len(vals[i]) + 2 < y
      BY <3>1, Zenon DEF Rows
    <3>4. p \in Nat \ {0} /\ p < end /\ z + at[i + 1] + 1 - g = p + 1
      <4> DEFINE u == at[i]
                 l == Len(vals[i])
      <4>1. u \in Nat /\ l \in Nat /\ u + l + 2 < y /\ at[i + 1] = u + l + 3 + g
        BY <2>1, <3>1, <3>2, <3>3, Zenon
      <4> HIDE DEF u, l
      <4>2. z + u + l + 3 \in Nat \ {0} /\ z + u + l + 3 < end
            /\ z + (u + l + 3 + g) + 1 - g = (z + u + l + 3) + 1
        BY <1>1, <4>1
      <4> QED
        BY <4>1, <4>2, Zenon DEF u, l
    <3>5. A[i] = p /\ B[i + 1] = z + at[i + 1] + 1 - g
      BY <3>1, Zenon
    <3> HIDE DEF A, B, p
    <3>6. f[p] <=> f[p + 1]
      BY <3>2, <3>4, SearchComma, Zenon
    <3> QED
      BY <3>4, <3>5, <3>6, Zenon
  <2>5. ~f[A[n]]
    <3> DEFINE u == at[n]
               l == Len(vals[n])
    <3>1. u \in Nat /\ l \in Nat /\ y = u + l + 3 + g /\ A[n] = z + u + l + 3
      BY <1>1, <1>4, <2>1, <2>2, Zenon
    <3> HIDE DEF u, l
    <3>3. u \in Nat /\ l \in Nat /\ y = u + l + 3 + g
      BY <3>1, Zenon
    <3>2. z + u + l + 3 \in Nat /\ z + u + l + 3 = z + y - g /\ z + u + l + 3 > 0
      BY <1>0, <3>3
    <3> HIDE DEF A
    <3> QED
      BY <1>2, <3>1, <3>2, Zenon
  <2>6. Walk(f, n, vals, needle, B, A)
    <3>1. n \in Nat \ {0}
      BY <1>1, <1>4
    <3> HIDE DEF A, B
    <3> QED
      BY <2>3, <2>4, <2>5, <3>1, Zenon DEF Walk
  <2>7. B[1] = z + 2
    <3>1. B[1] = z + at[1] + 1 - 0
      BY <2>2, Zenon
    <3>2. z + 1 + 1 - 0 = z + 2
      BY <1>1
    <3> HIDE DEF B
    <3> QED
      BY <2>2, <3>1, <3>2, Zenon
  <2> HIDE DEF A, B
  <2>8. f[B[1]] <=> Among(vals, n, needle)
    BY <2>6, WalkFinds, Zenon
  <2> QED
    BY <2>7, <2>8, Zenon
<1> QED
  BY <1>3, <1>4, Zenon

\* The text of a list is such a text.
LEMMA ArrayRows ==
  ASSUME NEW m \in Plain, m.kind = "arr", NEW gap \in Gaps, NEW b, NEW z \in Nat, At(b, z, PlainText(m, gap))
  PROVE  /\ \E at : Rows(b, z, m.val, Len(m.val), Len(gap), at, Len(PlainText(m, gap)))
         /\ OpensList(b[z + 1])
<1> DEFINE t == PlainText(m, gap)
           vals == m.val
           n == Len(vals)
           parts == StringsOf(m)
           g == Len(gap)
           y == Len(t)
<1>1. /\ n \in Nat /\ parts \in [1..n -> Symbols] /\ t \in Symbols
      /\ \A i \in 1..n : parts[i] = String(vals[i]) /\ vals[i] \in Symbols
  BY ArrayPlaces, Zenon
<1>2. PICK at : Laid(t, "[", parts, n, "]", g, at)
  BY ArrayPlaces, Zenon
<1>3. g \in 0..1 /\ y \in Nat
  BY <1>1, GapsAreText, Texts, Zenon
<1>4. At(b, z, t)
  OBVIOUS
<1> HIDE DEF t, parts, n, g, y, vals
<1>5. /\ y = IF n = 0 THEN 2 + g ELSE at[n] + Len(parts[n]) + g + 1
      /\ OpensList(t[1]) /\ Ends(t[y]) /\ (g = 1 => IsSpace(t[y - 1]))
  BY <1>2, Zenon DEF Laid, OpensList, Ends, IsSpace, y
<1>6. \A i \in 1..n : /\ at[i] \in Nat /\ At(t, at[i], parts[i]) /\ at[i] + Len(parts[i]) < y
                      /\ at[i] = IF i = 1 THEN 1 ELSE at[i - 1] + Len(parts[i - 1]) + 1 + g
                      /\ i # 1 => Separates(t[at[i] - g]) /\ (g = 1 => IsSpace(t[at[i]]))
  BY <1>2, Zenon DEF Laid, Separates, IsSpace, y
<1>7. \A i \in 1..n : /\ Len(vals[i]) \in Nat /\ Len(parts[i]) = Len(vals[i]) + 2
  BY <1>1, StringPlaces, Texts, Zenon
<1>8. \A p \in 1..y : b[z + p] = t[p]
  BY <1>4, Zenon DEF At, y
<1>9. y >= 2
  <2>1. CASE n = 0
    BY <1>3, <1>5, <2>1
  <2>2. CASE n # 0
    <3> DEFINE a == at[n]
               l == Len(vals[n])
               k == Len(parts[n])
    <3>1. n \in 1..n
      BY <1>1, <2>2
    <3>2. a \in Nat /\ l \in Nat /\ k = l + 2 /\ y = a + k + g + 1
      BY <1>5, <1>6, <1>7, <2>2, <3>1, Zenon
    <3> HIDE DEF a, l, k
    <3> QED
      BY <1>3, <3>2
  <2> QED
    BY <2>1, <2>2
<1>10. /\ 1 \in 1..y /\ y \in 1..y /\ y - 1 \in 1..y /\ z + (y - 1) = z + y - 1
  BY <1>3, <1>9
<1>11. OpensList(b[z + 1]) /\ Ends(b[z + y]) /\ (g = 1 => IsSpace(b[z + y - 1]))
  BY <1>5, <1>8, <1>10, Zenon
<1>12. n = 0 /\ g = 1 => IsSpace(b[z + 2])
  <2> SUFFICES ASSUME n = 0, g = 1 PROVE IsSpace(b[z + 2])
    OBVIOUS
  <2>1. z + y - 1 = z + 2
    <3>1. y = 2 + g
      BY <1>5, Zenon
    <3> QED
      BY <1>3, <3>1
  <2> QED
    BY <1>11, <2>1, Zenon
<1>13. ASSUME NEW i \in 1..n
       PROVE  /\ at[i] \in Nat /\ vals[i] \in Symbols /\ At(b, z + at[i], String(vals[i]))
              /\ at[i] + Len(vals[i]) + 2 < y
  <2> DEFINE a == at[i]
             l == Len(vals[i])
             k == Len(parts[i])
  <2>1. a \in Nat /\ l \in Nat /\ k = l + 2 /\ a + k < y
    BY <1>6, <1>7, Zenon
  <2>2. At(b, z + a, parts[i])
    <3>1. z \in Int /\ k \in Nat /\ a + k <= y
      <4> HIDE DEF a, l, k
      <4> QED
        BY <1>3, <2>1
    <3>2. At(t, a, parts[i])
      BY <1>6, Zenon
    <3> DEFINE u == parts[i]
    <3>3. Len(t) \in Nat /\ Len(u) \in Nat /\ a + Len(u) <= Len(t) /\ At(t, a, u)
      BY <1>3, <3>1, <3>2, Zenon DEF y
    <3> HIDE DEF u, a
    <3>4. At(b, z + a, u)
      BY <1>4, <2>1, <3>1, <3>3, AtTrans
    <3> QED
      BY <3>4, Zenon DEF u
  <2>3. a + l + 2 < y
    <3> HIDE DEF a, l, k
    <3> QED
      BY <1>3, <2>1
  <2> QED
    BY <1>1, <2>1, <2>2, <2>3, Zenon
<1>14. n # 0 => at[1] = 1
  <2>1. n # 0 => 1 \in 1..n
    BY <1>1
  <2> QED
    BY <1>6, <2>1, Zenon
<1>15. ASSUME NEW i \in 1..(n - 1)
       PROVE  /\ at[i + 1] = at[i] + Len(vals[i]) + 3 + g
              /\ Separates(b[z + at[i] + Len(vals[i]) + 3])
              /\ g = 1 => IsSpace(b[z + at[i] + Len(vals[i]) + 4])
  <2> DEFINE j == i + 1
             a == at[i]
             c == at[j]
             l == Len(vals[i])
             k == Len(parts[i])
             kk == Len(parts[j])
  <2>1. i \in 1..n /\ j \in 1..n /\ j # 1 /\ j - 1 = i
    BY <1>1
  <2> HIDE DEF j
  <2>2. /\ a \in Nat /\ l \in Nat /\ k = l + 2 /\ c = a + k + 1 + g /\ c \in Nat /\ c + kk < y /\ kk \in Nat
    <3>1. a \in Nat /\ l \in Nat /\ k = l + 2 /\ c \in Nat /\ c + kk < y
      BY <1>6, <1>7, <2>1, Zenon
    <3>2. c = a + k + 1 + g
      BY <1>6, <2>1, Zenon
    <3>3. kk \in Nat
      BY <1>1, <2>1, Texts, Zenon
    <3> QED
      BY <3>1, <3>2, <3>3, Zenon
  <2>3. Separates(t[c - g]) /\ (g = 1 => IsSpace(t[c]))
    BY <1>6, <2>1, Zenon
  <2> HIDE DEF a, c, l, k, kk
  <2>4. /\ c = a + l + 3 + g /\ c - g \in 1..y /\ c \in 1..y /\ z + (c - g) = z + a + l + 3
        /\ g = 1 => z + c = z + a + l + 4
    BY <1>3, <2>2
  <2>5. b[z + (c - g)] = t[c - g] /\ b[z + c] = t[c]
    BY <1>8, <2>4, Zenon
  <2>6. Separates(b[z + a + l + 3]) /\ (g = 1 => IsSpace(b[z + a + l + 4]))
    BY <2>3, <2>4, <2>5, Zenon
  <2> QED
    BY <2>4, <2>6, Zenon DEF a, c, l, j
<1>16. y = IF n = 0 THEN 2 + g ELSE at[n] + Len(vals[n]) + 3 + g
  <2>1. CASE n = 0
    BY <1>5, <2>1, Zenon
  <2>2. CASE n # 0
    <3> DEFINE a == at[n]
               l == Len(vals[n])
               k == Len(parts[n])
    <3>1. n \in 1..n
      BY <1>1, <2>2
    <3>2. a \in Nat /\ l \in Nat /\ k = l + 2 /\ y = a + k + g + 1
      BY <1>5, <1>6, <1>7, <2>2, <3>1, Zenon
    <3> HIDE DEF a, l, k
    <3>3. y = a + l + 3 + g
      BY <1>3, <3>2
    <3> QED
      BY <2>2, <3>3, Zenon DEF a, l
  <2> QED
    BY <2>1, <2>2, Zenon
<1>17. Rows(b, z, vals, n, g, at, y)
  BY <1>1, <1>3, <1>11, <1>12, <1>13, <1>14, <1>15, <1>16, Zenon DEF Rows
<1> QED
  BY <1>11, <1>17, Zenon DEF vals, n, g, y, t

-----------------------------------------------------------------------------
(* The list of merchants. *)

FirstList(b, p, end) == IndexFrom(b, p, end, "[")

\* The list begins where its bracket is.
LEMMA ListAt ==
  ASSUME NEW b, NEW x \in Nat, NEW end \in Nat, x < end, OpensList(b[x])
  PROVE  FirstList(b, x, end) = x
<1>1. x \in x..(end - 1) /\ \A p \in x..(x - 1) : FALSE
  OBVIOUS
<1>2. ASSUME NEW c, b[x] = c PROVE IndexFrom(b, x, end, c) = x
  <2>1. FirstAt(b, x, x, c)
    BY <1>1, <1>2, Zenon DEF FirstAt
  <2> QED
    BY <1>1, <2>1, IndexFromIs
<1> QED
  BY <1>2, Zenon DEF FirstList, OpensList

\* No bracket, no list.
LEMMA ListNowhere ==
  ASSUME NEW b, NEW s \in Nat, NEW p \in Nat, s <= p, NEW end \in Nat,
         \A i \in s..(end - 1) : ~OpensList(b[i])
  PROVE  FirstList(b, p, end) = 0
<1>1. \A i \in p..(end - 1) : i \in s..(end - 1) /\ i \in Nat
  OBVIOUS
<1> DEFINE S == {i \in p..(end - 1) : OpensList(b[i])}
<1>2. FirstOf(S) \in S \cup {0}
  <2>1. S \in SUBSET Nat
    BY <1>1, Zenon
  <2> QED
    BY <2>1, FirstOfIsThere, Zenon
<1>3. S = {}
  BY <1>1, Zenon
<1>4. FirstOf(S) = 0
  BY <1>2, <1>3, Zenon
<1> QED
  BY <1>4, Zenon DEF FirstList, IndexFrom, OpensList

ListName == "known_merchants"

InList(inner, needle) ==
  /\ Has(inner, ListName) /\ Member(inner, ListName).kind = "arr"
  /\ Among(Member(inner, ListName).val, Len(Member(inner, ListName).val), needle)

\* Whether the search finds the string, when the value begins at c.
SearchedFrom(f, b, c, end) ==
  LET lb == IF c = 0 THEN 0 ELSE FirstList(b, c, end)
  IN  lb > 0 /\ f[lb + 1]

\* The list of merchants is read as it was sent.
LEMMA ListRead ==
  ASSUME NEW inner \in Seq(Plain), Inside(inner), NEW gap \in Gaps, NEW b \in Symbols, NEW r,
         Readable(b, r, inner, gap), Unlisted(b, r, inner), r.end <= Len(b) + 1, NEW needle
  PROVE  ArrayContainsString(b, r, ListName, needle) <=> InList(inner, needle)
<1> DEFINE c == ValueAt(b, r.start, r.end, ListName)
           end == r.end
           s == r.start
<1>1. s \in Nat \ {0} /\ end \in Nat
  BY Zenon DEF Unlisted
<1>2. PICK f : /\ Searches(f, b, end, needle)
               /\ ArrayContainsString(b, r, ListName, needle) <=> SearchedFrom(f, b, c, end)
  <2>1. end \in Nat
    BY <1>1, Zenon
  <2> QED
    BY <2>1, ListSearch, Zenon DEF SearchedFrom, FirstList
<1>3. ListName \in FieldNames
  BY NamesAre DEF ListName
<1>4. /\ ~Has(inner, ListName) => c = 0
      /\ Has(inner, ListName) => ValueIs(b, r, ListName, Member(inner, ListName), gap)
  BY <1>3, Zenon DEF Readable
<1>5. c \in s..(end - 1) \cup {0}
  BY <1>1, ValueAtIn
<1>6. /\ end <= Len(b) + 1
      /\ Bracketless(inner) => \A p \in s..(end - 1) : ~OpensList(b[p])
  BY Zenon DEF Unlisted
<1> DEFINE m == Member(inner, ListName)
<1>7. Has(inner, ListName) => \E z \in Nat : /\ c = z + 1 /\ At(b, z, PlainText(m, gap))
                                             /\ z + Len(PlainText(m, gap)) + 1 < end
  BY <1>4, Zenon DEF ValueIs
<1> HIDE DEF c, end, s, m
<1>8. ~(0 > 0)
  OBVIOUS
<1>9. CASE ~Has(inner, ListName)
  <2>1. ~SearchedFrom(f, b, c, end)
    BY <1>4, <1>8, <1>9, Zenon DEF SearchedFrom
  <2> QED
    BY <1>2, <1>9, <2>1, Zenon DEF InList
<1>10. CASE Has(inner, ListName)
  <2>1. PICK j \in 1..Len(inner) : m = inner[j] /\ inner[j].key = ListName
    BY <1>10, MemberIs, Zenon DEF m
  <2>2. m \in Plain
    BY <2>1
  <2>3. Taken(m) /\ (m.kind # "arr" => Bracketless(inner))
    BY <1>3, <2>1, Zenon DEF Inside, ListName
  <2>4. CASE m.kind = "arr"
    <3> DEFINE t == PlainText(m, gap)
               vals == m.val
               n == Len(vals)
               g == Len(gap)
               y == Len(t)
    <3>1. PICK z \in Nat : c = z + 1 /\ At(b, z, t) /\ z + y + 1 < end
      BY <1>7, <1>10, Zenon
    <3>2. (\E at : Rows(b, z, vals, n, g, at, y)) /\ OpensList(b[z + 1])
      BY <2>2, <2>4, <3>1, ArrayRows, Zenon
    <3>3. \A i \in 1..n : \A p \in 1..Len(vals[i]) : vals[i][p] # Quote
      BY <2>2, <2>3, <2>4, Kinds, Zenon DEF Taken
    <3> HIDE DEF t, vals, n, g, y
    <3>4. PICK at : Rows(b, z, vals, n, g, at, y)
      BY <3>2, Zenon
    <3>5. f[z + 2] <=> Among(vals, n, needle)
      BY <1>1, <1>2, <1>6, <3>1, <3>3, <3>4, RowsSearched, Zenon
    <3>6. y \in Nat
      BY <3>4, Zenon DEF Rows
    <3>7. z + 1 < end /\ z + 1 # 0 /\ z + 1 > 0 /\ (z + 1) + 1 = z + 2 /\ z + 1 \in Nat
      BY <1>1, <3>1, <3>6
    <3>8. FirstList(b, c, end) = c
      BY <1>1, <3>1, <3>2, <3>7, ListAt, Zenon
    <3>9. SearchedFrom(f, b, c, end) <=> f[z + 2]
      BY <3>1, <3>7, <3>8, Zenon DEF SearchedFrom
    <3> QED
      BY <1>2, <1>10, <2>4, <3>5, <3>9, Zenon DEF InList, m, vals, n
  <2>5. CASE m.kind # "arr"
    <3>1. \A p \in s..(end - 1) : ~OpensList(b[p])
      BY <1>6, <2>3, <2>5, Zenon
    <3>2. c # 0 => c \in Nat /\ s <= c /\ s \in Nat
      BY <1>1, <1>5
    <3>3. c # 0 => FirstList(b, c, end) = 0
      BY <1>1, <3>1, <3>2, ListNowhere, Zenon
    <3>4. ~SearchedFrom(f, b, c, end)
      BY <1>8, <3>3, Zenon DEF SearchedFrom
    <3> QED
      BY <1>2, <2>5, <3>4, Zenon DEF InList, m
  <2> QED
    BY <2>4, <2>5, Zenon
<1> QED
  BY <1>9, <1>10, Zenon

-----------------------------------------------------------------------------
(* The features. *)

\* The features of a built query are those of the scan that ended.
Made == phase = "built" => q = Features

LEMMA MadeStep == ScanInv /\ Made /\ [Next]_vars => Made'
<1> SUFFICES ASSUME ScanInv, Made, [Next]_vars PROVE Made'
  OBVIOUS
<1>1. ASSUME UNCHANGED <<body, range, got, risks>> PROVE Features' = Features
  <2>1. body' = body /\ range' = range /\ got' = got /\ risks' = risks
    BY <1>1
  <2> QED
    BY <2>1, SMT DEF Features, Number, Time, Flag
<1>2. CASE Finish
  <2>1. q' = Features /\ UNCHANGED <<body, range, got, risks>>
    BY <1>2 DEF Finish
  <2> QED
    BY <1>1, <2>1, Zenon DEF Made
<1>3. CASE UNCHANGED vars
  <2>1. q' = q /\ phase' = phase /\ UNCHANGED <<body, range, got, risks>>
    BY <1>3 DEF vars
  <2> QED
    BY <1>1, <2>1, Zenon DEF Made
<1>4. CASE KeepDefaults \/ BeginLoad \/ ApplyEntry \/ EndLoad \/ FindObject \/ FindLast
  <2>1. phase' # "built"
    BY <1>4 DEF KeepDefaults, BeginLoad, ApplyEntry, EndLoad, FindObject, FindLast, Reject
  <2> QED
    BY <2>1, Zenon DEF Made
<1>5. CASE ReadRequired \/ ReadOptional
  <2>1. phase' # "built"
    BY <1>5 DEF ReadRequired, ReadOptional, ReadField, Reject
  <2> QED
    BY <2>1, Zenon DEF Made
<1> QED
  BY <1>2, <1>3, <1>4, <1>5, Zenon DEF Next

LEMMA MadeAlways == Spec => [](ScanInv /\ ReadInv /\ Made)
<1>1. Init => Made
  BY DEF Init, Made
<1> QED
  BY <1>1, ReadAlways, ScanInit, ScanStep, ReadInit, ReadStep, MadeStep, PTL DEF Spec

\* The features that the property is about.
LEMMA FeaturesAre ==
  LET at    == Time("transaction", "requested_at")
      last  == LastName \in DOMAIN range
      known == ArrayContainsString(body, range["customer"], ListName, got[<<"merchant", "id">>])
  IN  /\ Features[5] = Ratio(WeekdayMondayZero(at), 6)
      /\ Features[6] = IF last THEN Ratio(MinutesBetween(at, Time(LastName, "timestamp")), 1440)
                       ELSE <<-1, 1>>
      /\ Features[7] = IF last THEN Ratio(Number(LastName, "km_from_current"), 1000) ELSE <<-1, 1>>
      /\ Features[12] = IF known THEN <<0, 1>> ELSE <<1, 1>>
BY DEF Features, LastName, ListName

\* No feature, and the minutes between two times as a feature.
Absent == <<-1, 1>>

Apart(at, then) ==
  LET s == Seconds(at) - Seconds(then)
  IN  Ratio((IF s < 0 THEN -s ELSE s) \div 60, 1440)

\* FeaturesFollowTheRequest, of a request.
FeaturesRight(ms) ==
  LET at   == Time("transaction", "requested_at")
      last == Holds(ms, LastName)
      id   == Member(Member(ms, "merchant").val, "id").val
      cust == Member(ms, "customer").val
      before == Stamp[Member(Member(ms, LastName).val, "timestamp").val]
  IN  /\ Dated(at) => q[5] = <<(DatesBefore(at) - DatesBefore(Monday)) % 7, 6>>
      /\ last => (Dated(at) /\ Dated(before) => q[6] = Apart(at, before))
      /\ ~last <=> q[6] = Absent
      /\ ~last <=> q[7] = Absent
      /\ q[12] = <<0, 1>> <=> InList(cust, id)

LEMMA FeaturesRightIs ==
  ASSUME FeaturesRight(Sent)
  PROVE  FeaturesFollowTheRequest
BY Zenon DEF FeaturesFollowTheRequest, FeaturesRight, Holds, IsObject, LastName, ListName, Inner, InList, Among,
             Apart, Absent

\* A timestamp that was read is one that may be written.
LEMMA StampRead ==
  ASSUME NEW ms, NEW gt, ValuesRead(ms, gt), NEW f, f.kind = "stamp", Suits(ms, f),
         NEW x, x = <<f.obj, f.key>>, x \in DOMAIN gt
  PROVE  /\ gt[x] \in DOMAIN Stamp
         /\ gt[x] = Member(Member(ms, f.obj).val, f.key).val
<1>1. x[1] = f.obj /\ x[2] = f.key
  OBVIOUS
<1>2. gt[x] = Member(Member(ms, f.obj).val, f.key).val
  BY <1>1, Zenon DEF ValuesRead
<1>3. Right(Member(Member(ms, f.obj).val, f.key), "stamp")
  BY Zenon DEF Suits
<1> DEFINE m == Member(Member(ms, f.obj).val, f.key)
<1>4. Right(m, "stamp")
  BY <1>3, Zenon
<1> HIDE DEF m
<1>5. m.val \in DOMAIN Stamp
  BY <1>4 DEF Right
<1> QED
  BY <1>2, <1>5, Zenon DEF m

LEMMA SomeFields ==
  /\ Fields[3].obj = "transaction" /\ Fields[3].key = "requested_at" /\ Fields[3].kind = "stamp"
  /\ Fields[6].obj = "merchant" /\ Fields[6].key = "id"
  /\ LastFields[1].obj = LastName /\ LastFields[1].key = "timestamp" /\ LastFields[1].kind = "stamp"
  /\ Objects[2] = "customer"
BY DEF Fields, Field, LastFields, LastName, Objects

\* The features are those of the request once the query is built.
LEMMA BuiltRight ==
  ASSUME ScanInv, ReadInv, Made, phase = "built", Legible(Sent)
  PROVE  FeaturesRight(Sent)
<1> DEFINE ms == Sent
           a == <<"transaction", "requested_at">>
           d == <<"merchant", "id">>
           e == <<LastName, "timestamp">>
           cust == Member(ms, "customer").val
           last == Holds(ms, LastName)
           R == range["customer"]
<1>1. /\ RangesRead(ms, body, range) /\ ValuesRead(ms, got) /\ AllKept(ms, range, got)
      /\ last => LastName \in DOMAIN range /\ Kept(ms, got, LastFields, 2)
      /\ q = Features /\ body \in Symbols
  BY Zenon DEF ReadInv, Stage, Made, ScanInv
<1>2. last <=> LastName \in DOMAIN range
  BY <1>1, Zenon DEF RangesRead
<1>3. Suits(ms, Fields[3]) /\ a \in DOMAIN got /\ Suits(ms, Fields[6]) /\ d \in DOMAIN got
  <2>1. 3 \in 1..11 /\ 6 \in 1..11
    OBVIOUS
  <2>2. /\ Suits(ms, Fields[3]) /\ <<Fields[3].obj, Fields[3].key>> \in DOMAIN got
        /\ Suits(ms, Fields[6]) /\ <<Fields[6].obj, Fields[6].key>> \in DOMAIN got
    BY <1>1, <2>1, Zenon DEF AllKept, Kept
  <2> QED
    BY <2>2, SomeFields, Zenon
<1>4. last => Suits(ms, LastFields[1]) /\ e \in DOMAIN got
  <2>1. 1 \in 1..2
    OBVIOUS
  <2>2. last => Suits(ms, LastFields[1]) /\ <<LastFields[1].obj, LastFields[1].key>> \in DOMAIN got
    BY <1>1, <2>1, Zenon DEF Kept
  <2> QED
    BY <2>2, SomeFields, Zenon
<1>5. "customer" \in DOMAIN range
  <2>1. 2 \in 1..4
    OBVIOUS
  <2> QED
    BY <1>1, <2>1, SomeFields, Zenon DEF AllKept, Found
<1>6. got[a] \in DOMAIN Stamp
  <2> DEFINE f == Fields[3]
  <2>1. f.kind = "stamp" /\ Suits(ms, f) /\ a = <<f.obj, f.key>>
    BY <1>3, SomeFields, Zenon
  <2> HIDE DEF f, a
  <2> QED
    BY <1>1, <1>3, <2>1, StampRead, Zenon
<1>7. last => /\ got[e] \in DOMAIN Stamp
              /\ got[e] = Member(Member(ms, LastName).val, "timestamp").val
  <2> SUFFICES ASSUME last
               PROVE  got[e] \in DOMAIN Stamp /\ got[e] = Member(Member(ms, LastName).val, "timestamp").val
    OBVIOUS
  <2> DEFINE f == LastFields[1]
  <2>1. f.kind = "stamp" /\ Suits(ms, f) /\ e = <<f.obj, f.key>> /\ f.obj = LastName /\ f.key = "timestamp"
    BY <1>4, SomeFields, Zenon
  <2> HIDE DEF f, e
  <2>2. e \in DOMAIN got /\ ValuesRead(ms, got)
    BY <1>1, <1>4, Zenon
  <2> HIDE DEF ms
  <2>4. got[e] \in DOMAIN Stamp
    BY <2>1, <2>2, StampRead, Zenon
  <2>5. got[e] = Member(Member(ms, f.obj).val, f.key).val
    <3>1. e[1] = f.obj /\ e[2] = f.key
      BY <2>1
    <3> QED
      BY <2>2, <3>1, Zenon DEF ValuesRead
  <2> QED
    BY <2>1, <2>4, <2>5, Zenon
<1>8. got[d] = Member(Member(ms, "merchant").val, "id").val
  <2>1. d[1] = "merchant" /\ d[2] = "id"
    OBVIOUS
  <2> QED
    BY <1>1, <1>3, <2>1, Zenon DEF ValuesRead
<1>9. ArrayContainsString(body, R, ListName, got[d]) <=> InList(cust, got[d])
  <2>1. PICK gap \in Gaps : RangeIs(body, R, ms, "customer", gap)
    BY <1>1, <1>5, Zenon DEF RangesRead
  <2> DEFINE b == body
             needle == got[d]
  <2>2. /\ b \in Symbols /\ cust \in Seq(Plain) /\ Inside(cust)
        /\ Readable(b, R, cust, gap) /\ Unlisted(b, R, cust) /\ R.end <= Len(b) + 1
    BY <1>1, <2>1, Zenon DEF RangeIs
  <2> HIDE DEF b, needle, cust, R
  <2>3. ArrayContainsString(b, R, ListName, needle) <=> InList(cust, needle)
    BY <2>2, ListRead, Zenon
  <2> QED
    BY <2>3, Zenon DEF b, needle
<1> DEFINE at == Time("transaction", "requested_at")
           then == Time(LastName, "timestamp")
           s == got[a]
           u == got[e]
           x == MinutesBetween(at, then)
           n == Number(LastName, "km_from_current")
           delay == Ratio(x, 1440)
           far == Ratio(n, 1000)
<1>10. at = Stamp[s] /\ then = Stamp[u]
  BY Zenon DEF Time
<1>11. /\ q[5] = Ratio(WeekdayMondayZero(at), 6)
       /\ q[6] = IF last THEN delay ELSE Absent
       /\ q[7] = IF last THEN far ELSE Absent
       /\ q[12] = IF InList(cust, got[d]) THEN <<0, 1>> ELSE <<1, 1>>
  <2>1. /\ Features[5] = Ratio(WeekdayMondayZero(at), 6)
        /\ Features[6] = IF LastName \in DOMAIN range THEN delay ELSE Absent
        /\ Features[7] = IF LastName \in DOMAIN range THEN far ELSE Absent
        /\ Features[12] = IF ArrayContainsString(body, R, ListName, got[d]) THEN <<0, 1>> ELSE <<1, 1>>
    BY FeaturesAre, Zenon DEF Absent
  <2>2. q = Features
    BY <1>1, Zenon
  <2> HIDE DEF last, at, R, d, cust, delay, far
  <2>3. q[5] = Ratio(WeekdayMondayZero(at), 6)
    BY <2>1, <2>2, Zenon
  <2>4. q[6] = IF last THEN delay ELSE Absent
    BY <1>2, <2>1, <2>2, Zenon
  <2>5. q[7] = IF last THEN far ELSE Absent
    BY <1>2, <2>1, <2>2, Zenon
  <2>6. q[12] = IF InList(cust, got[d]) THEN <<0, 1>> ELSE <<1, 1>>
    BY <1>9, <2>1, <2>2, Zenon
  <2> QED
    BY <2>3, <2>4, <2>5, <2>6, Zenon
<1>12. delay # Absent /\ far # Absent
  <2>1. 1440 \in Nat /\ 1440 > 1 /\ 1000 \in Nat /\ 1000 > 1
    OBVIOUS
  <2> DEFINE none == <<-1, 1>>
  <2>2. ASSUME NEW i PROVE Ratio(i, 1440) # none /\ Ratio(i, 1000) # none
    BY <2>1, RatioIs
  <2>3. Absent = none
    BY Zenon DEF Absent
  <2> HIDE DEF none, x, n
  <2>4. delay # none /\ far # none
    BY <2>2
  <2> HIDE DEF delay, far
  <2> QED
    BY <2>3, <2>4, Zenon
<1> HIDE DEF ms, a, d, e, cust, last, R, at, then, s, u, far
<1>13. Dated(at) => q[5] = <<(DatesBefore(at) - DatesBefore(Monday)) % 7, 6>>
  BY <1>6, <1>10, <1>11, WeekdayIs, Zenon DEF s
<1>14. ASSUME last, Dated(at), Dated(Stamp[u]) PROVE q[6] = Apart(at, Stamp[u])
  <2>1. s \in DOMAIN Stamp /\ u \in DOMAIN Stamp
    BY <1>6, <1>7, <1>14, Zenon DEF s, u
  <2> DEFINE i == Seconds(Stamp[s]) - Seconds(Stamp[u])
             w == (IF i < 0 THEN -i ELSE i) \div 60
  <2>2. x = w
    BY <1>10, <1>14, <2>1, MinutesAre, Zenon
  <2>3. Apart(Stamp[s], Stamp[u]) = Ratio(w, 1440)
    BY Zenon DEF Apart
  <2>4. delay = Ratio(x, 1440)
    OBVIOUS
  <2> HIDE DEF x, w, delay
  <2>5. delay = Apart(Stamp[s], Stamp[u])
    BY <2>2, <2>3, <2>4
  <2> QED
    BY <1>10, <1>11, <1>14, <2>5, Zenon
<1> HIDE DEF delay
<1>15. (~last <=> q[6] = Absent) /\ (~last <=> q[7] = Absent)
  BY <1>11, <1>12, Zenon
<1>16. q[12] = <<0, 1>> <=> InList(cust, got[d])
  <2>1. <<0, 1>> # <<1, 1>>
    OBVIOUS
  <2> QED
    BY <1>11, <2>1, Zenon
<1> QED
  BY <1>7, <1>8, <1>13, <1>14, <1>15, <1>16, Zenon DEF FeaturesRight, ms, cust, last, at, s, u

\* The weekday and the minutes since the last transaction of a query vector are,
\* for dates, those of the dates counted one by one, its sentinels are there exactly when
\* there is no last transaction, and the merchant is unknown exactly when its
\* id is not in the list of the customer.
THEOREM FeaturesFollow == Spec => []FeaturesFollowTheRequest
<1>1. ScanInv /\ ReadInv /\ Made => FeaturesFollowTheRequest
  <2>1. CASE phase = "built" /\ Legible(Sent)
    BY <2>1, BuiltRight, FeaturesRightIs, Zenon
  <2>2. CASE ~(phase = "built" /\ Legible(Sent))
    BY <2>2, Zenon DEF FeaturesFollowTheRequest
  <2> QED
    BY <2>1, <2>2, Zenon
<1> QED
  BY <1>1, MadeAlways, PTL
=============================================================================
