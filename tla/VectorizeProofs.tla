--------------------------- MODULE VectorizeProofs ---------------------------
(***************************************************************************)
(* What Vectorize does right for every request and every risk file: the    *)
(* ranges of the scanner lie in the body, the risk table is that of the    *)
(* file, and the calendar it uses is right for every date: the day numbers *)
(* count the dates.                                                        *)
(***************************************************************************)
EXTENDS Vectorize, FiniteSetTheorems, FunctionTheorems, SequenceTheorems, WellFoundedInduction,
        TLAPS

-----------------------------------------------------------------------------
(* The calendar: the day number of 1970-01-01 is 0, and each day has the   *)
(* number after that of the day before.                                    *)

\* Within a month, and from a month to the next one of the same shifted year,
\* the day of the year goes up by one.
LEMMA DayOfYearStep ==
  ASSUME NEW y \in Int, NEW m \in 1..12, NEW d \in 1..DaysIn(y, m),
         m # 2 \/ d < DaysIn(y, m)
  PROVE  DayOfYear(NextMonth(y, m, d), NextDay(y, m, d)) = DayOfYear(m, d) + 1
<1>1. DaysIn(y, m) \in 28..31 /\ (m # 2 => DaysIn(y, m) = IF m \in {4, 6, 9, 11} THEN 30 ELSE 31)
  BY DEF DaysIn
<1>2. CASE d < DaysIn(y, m)
  BY <1>1, <1>2, SMT DEF NextMonth, NextDay, DayOfYear, MonthFromMarch
<1>3. CASE d = DaysIn(y, m)
  <2>1. m # 2
    BY <1>3
  <2>2. m \in {1, 3, 4, 5, 6, 7, 8, 9, 10, 11, 12}
    BY <2>1
  <2> QED
    BY <1>1, <1>3, <2>1, <2>2, SMTT(60) DEF NextMonth, NextDay, DayOfYear, MonthFromMarch
<1> QED
  BY <1>1, <1>2, <1>3, SMT

LEMMA ShiftedYearStep ==
  ASSUME NEW y \in Int, NEW m \in 1..12, NEW d \in 1..DaysIn(y, m),
         m # 2 \/ d < DaysIn(y, m)
  PROVE  ShiftedYear(NextYear(y, m, d), NextMonth(y, m, d)) = ShiftedYear(y, m)
<1>1. m \in {4, 6, 9, 11} \/ m = 2 \/ DaysIn(y, m) = 31
  BY DEF DaysIn
<1>2. DaysIn(y, m) \in 28..31
  BY DEF DaysIn
<1> QED
  BY <1>1, <1>2, SMT DEF NextYear, NextMonth, ShiftedYear

\* What is before the day of the year: whole years from the March of year 0.
YearStart(s) ==
  LET era == s \div 400
      yoe == s - era * 400
  IN  era * 146097 + yoe * 365 + yoe \div 4 - yoe \div 100

LEMMA DaysByYear ==
  ASSUME NEW y \in Int, NEW m \in 1..12, NEW d \in Int
  PROVE  DaysFromCivil(y, m, d) = YearStart(ShiftedYear(y, m)) + DayOfYear(m, d) - 719468
<1>1. ShiftedYear(y, m) \in Int /\ DayOfYear(m, d) \in Int
  BY SMT DEF ShiftedYear, DayOfYear, MonthFromMarch
<1> DEFINE s == ShiftedYear(y, m)
           e == s \div 400
           o == s - e * 400
<1>2. e \in Int /\ o \in Int /\ o \div 4 \in Int /\ o \div 100 \in Int
  BY <1>1, SMT
<1> QED
  BY <1>1, <1>2, SMT DEF DaysFromCivil, YearStart

\* The year that ends with a February has a day more when it is a leap year:
\* inside a period of 400 years, and at its end.
LEMMA YearStartStep ==
  ASSUME NEW y \in Int
  PROVE  YearStart(y) = YearStart(y - 1) + (IF Leap(y) THEN 366 ELSE 365)
<1> DEFINE e == (y - 1) \div 400
           o == (y - 1) - e * 400
<1>1. e \in Int /\ o \in 0..399 /\ y = e * 400 + o + 1
  BY SMT
<1>2. CASE o = 399
  <2>1. y \div 400 = e + 1 /\ y - (y \div 400) * 400 = 0
    BY <1>1, <1>2, SMT
  <2>2. Leap(y)
    BY <1>1, <1>2, SMT DEF Leap
  <2>3. YearStart(y) = (e + 1) * 146097
    BY <2>1, <1>1, SMT DEF YearStart
  <2>4. YearStart(y - 1) = e * 146097 + 399 * 365 + 99 - 3
    BY <1>1, <1>2, SMT DEF YearStart
  <2> QED
    BY <2>2, <2>3, <2>4, <1>1, SMT
<1>3. CASE o < 399
  <2>1. y \div 400 = e /\ y - (y \div 400) * 400 = o + 1
    BY <1>1, <1>3, SMT
  <2>2. Leap(y) <=> (o + 1) % 4 = 0 /\ (o + 1) % 100 # 0
    <3>1. y % 4 = (o + 1) % 4 /\ y % 100 = (o + 1) % 100 /\ y % 400 # 0
      BY <1>1, <1>3, SMT
    <3> QED
      BY <3>1 DEF Leap
  <2>3. YearStart(y) = e * 146097 + (o + 1) * 365 + (o + 1) \div 4 - (o + 1) \div 100
    BY <2>1, <1>1, SMT DEF YearStart
  <2>4. YearStart(y - 1) = e * 146097 + o * 365 + o \div 4 - o \div 100
    BY <1>1, SMT DEF YearStart
  <2>5. (o + 1) \div 4 = IF (o + 1) % 4 = 0 THEN o \div 4 + 1 ELSE o \div 4
    BY <1>1, SMT
  <2>6. (o + 1) \div 100 = IF (o + 1) % 100 = 0 THEN o \div 100 + 1 ELSE o \div 100
    BY <1>1, SMT
  <2>7. (o + 1) % 100 = 0 => (o + 1) % 4 = 0
    BY <1>1, SMT
  <2>8. o \div 4 \in Int /\ o \div 100 \in Int /\ e * 146097 \in Int
    BY <1>1, SMT
  <2> QED
    BY <2>2, <2>3, <2>4, <2>5, <2>6, <2>7, <2>8, <1>1, SMT
<1> QED
  BY <1>1, <1>2, <1>3, SMT

\* From the last of February to the first of March.
LEMMA FebruaryStep ==
  ASSUME NEW y \in Int
  PROVE  DaysFromCivil(y, 3, 1) = DaysFromCivil(y, 2, DaysIn(y, 2)) + 1
<1>1. DaysIn(y, 2) = (IF Leap(y) THEN 29 ELSE 28) /\ DaysIn(y, 2) \in Int
  BY DEF DaysIn
<1>2. DaysFromCivil(y, 3, 1) = YearStart(y) + DayOfYear(3, 1) - 719468
  BY DaysByYear, SMT DEF ShiftedYear
<1>3. DaysFromCivil(y, 2, DaysIn(y, 2)) = YearStart(y - 1) + DayOfYear(2, DaysIn(y, 2)) - 719468
  BY <1>1, DaysByYear, SMT DEF ShiftedYear
<1>4. DayOfYear(3, 1) = 0 /\ DayOfYear(2, DaysIn(y, 2)) = 336 + DaysIn(y, 2)
  BY <1>1, SMT DEF DayOfYear, MonthFromMarch
<1>5. YearStart(y) \in Int /\ YearStart(y - 1) \in Int
  BY SMT DEF YearStart
<1> QED
  BY <1>1, <1>2, <1>3, <1>4, <1>5, YearStartStep, SMT

\* The day number counts the days: the day after a date has the next number,
\* across the ends of months, leap days, centuries and periods of 400 years.
\* This is what daysFromCivil claims ("works for all valid inputs").
THEOREM DaysAreCounted ==
  ASSUME NEW y, NEW m, NEW d, IsDate(y, m, d)
  PROVE  DaysFromCivil(NextYear(y, m, d), NextMonth(y, m, d), NextDay(y, m, d))
           = DaysFromCivil(y, m, d) + 1
<1>1. y \in Int /\ m \in 1..12 /\ d \in 1..DaysIn(y, m) /\ DaysIn(y, m) \in 28..31
  BY DEF IsDate, DaysIn
<1>2. CASE m = 2 /\ d = DaysIn(y, m)
  <2>1. NextYear(y, m, d) = y /\ NextMonth(y, m, d) = 3 /\ NextDay(y, m, d) = 1
    BY <1>1, <1>2, SMT DEF NextYear, NextMonth, NextDay
  <2> QED
    BY <1>1, <1>2, <2>1, FebruaryStep
<1>3. CASE m # 2 \/ d < DaysIn(y, m)
  <2> DEFINE yy == NextYear(y, m, d)
             mm == NextMonth(y, m, d)
             dd == NextDay(y, m, d)
  <2>1. yy \in Int /\ mm \in 1..12 /\ dd \in Int
    BY <1>1, SMT DEF NextYear, NextMonth, NextDay
  <2>2. DaysFromCivil(yy, mm, dd) = YearStart(ShiftedYear(yy, mm)) + DayOfYear(mm, dd) - 719468
    BY <2>1, DaysByYear
  <2>3. DaysFromCivil(y, m, d) = YearStart(ShiftedYear(y, m)) + DayOfYear(m, d) - 719468
    BY <1>1, DaysByYear, SMT
  <2>4. ShiftedYear(yy, mm) = ShiftedYear(y, m) /\ DayOfYear(mm, dd) = DayOfYear(m, d) + 1
    BY <1>1, <1>3, ShiftedYearStep, DayOfYearStep
  <2>5. ShiftedYear(y, m) \in Int /\ DayOfYear(m, d) \in Int
    BY <1>1, SMT DEF ShiftedYear, DayOfYear, MonthFromMarch
  <2>6. YearStart(ShiftedYear(y, m)) \in Int
    BY <2>5, SMT DEF YearStart
  <2> HIDE DEF yy, mm, dd
  <2>7. DaysFromCivil(yy, mm, dd) = DaysFromCivil(y, m, d) + 1
    BY <2>2, <2>3, <2>4, <2>5, <2>6, SMT
  <2> QED
    BY <2>7 DEF yy, mm, dd
<1> QED
  BY <1>1, <1>2, <1>3, SMT

\* The count starts at the epoch of Unix time, and the weekday moves by one
\* from Sunday to Monday as from any day to the next.
THEOREM EpochIsDayZero == DaysFromCivil(1970, 1, 1) = 0
BY SMT DEF DaysFromCivil, ShiftedYear, DayOfYear, MonthFromMarch

THEOREM WeekdaysFollow ==
  ASSUME NEW t, NEW u, IsDate(t.y, t.m, t.d),
         u.y = NextYear(t.y, t.m, t.d), u.m = NextMonth(t.y, t.m, t.d),
         u.d = NextDay(t.y, t.m, t.d)
  PROVE  WeekdayMondayZero(u) = (WeekdayMondayZero(t) + 1) % 7
<1>1. DaysFromCivil(u.y, u.m, u.d) = DaysFromCivil(t.y, t.m, t.d) + 1
  BY DaysAreCounted
<1>2. DaysFromCivil(t.y, t.m, t.d) \in Int
  <2>1. t.y \in Int /\ t.m \in 1..12 /\ t.d \in Int
    BY DEF IsDate, DaysIn
  <2>2. ShiftedYear(t.y, t.m) \in Int /\ DayOfYear(t.m, t.d) \in Int
    BY <2>1, SMT DEF ShiftedYear, DayOfYear, MonthFromMarch
  <2>3. YearStart(ShiftedYear(t.y, t.m)) \in Int
    BY <2>2, SMT DEF YearStart
  <2> QED
    BY <2>1, <2>2, <2>3, DaysByYear, SMT
<1> QED
  BY <1>1, <1>2, SMT DEF WeekdayMondayZero

-----------------------------------------------------------------------------
(* The risk table. *)

Entries == [key : Seq(0..10), risk : 0..100]

LEMMA CodesAreIntegers ==
  ASSUME NEW s \in Seq(0..10)
  PROVE  Code4(s) \in Int
<1>1. CASE Len(s) >= 4 /\ \A i \in 1..4 : s[i] \in 0..9
  <2>1. s[1] \in 0..9 /\ s[2] \in 0..9 /\ s[3] \in 0..9 /\ s[4] \in 0..9
    BY <1>1
  <2>2. PICK i \in 0..9, j \in 0..9, k \in 0..9, l \in 0..9 :
          s[1] = i /\ s[2] = j /\ s[3] = k /\ s[4] = l
    BY <2>1, Zenon
  <2> DEFINE Number4(a, b, c, d) == a * 1000 + b * 100 + c * 10 + d
  <2>3. Code4(s) = Number4(s[1], s[2], s[3], s[4])
    BY <1>1, Zenon DEF Code4
  <2>4. Number4(i, j, k, l) \in Int
    OBVIOUS
  <2> HIDE DEF Number4
  <2>5. Code4(s) = Number4(i, j, k, l)
    BY <2>2, <2>3, Zenon
  <2> QED
    BY <2>4, <2>5, Zenon
<1>2. CASE ~(Len(s) >= 4 /\ \A i \in 1..4 : s[i] \in 0..9)
  <2>1. Code4(s) = NoCode
    BY <1>2, Zenon DEF Code4
  <2> QED
    BY <2>1 DEF NoCode
<1> QED
  BY <1>1, <1>2

\* Removing an element leaves the others.
LEMMA RemoveAtKeepsTheOthers ==
  ASSUME NEW S, NEW s \in Seq(S), NEW i \in 1..Len(s)
  PROVE  /\ RemoveAt(s, i) \in Seq(S)
         /\ \A j \in 1..Len(RemoveAt(s, i)) : \E k \in 1..Len(s) : RemoveAt(s, i)[j] = s[k]
         /\ \A k \in 1..Len(s) : k # i => \E j \in 1..Len(RemoveAt(s, i)) : RemoveAt(s, i)[j] = s[k]
<1> DEFINE a == SubSeq(s, 1, i - 1)
           b == SubSeq(s, i + 1, Len(s))
           t == a \o b
<1>1. a \in Seq(S) /\ Len(a) = i - 1 /\ \A j \in 1..(i - 1) : a[j] = s[j]
  <2>1. \A k \in 1..(i - 1) : s[k] \in S
    OBVIOUS
  <2>2. /\ a \in Seq(S)
        /\ Len(a) = IF 1 <= i - 1 THEN (i - 1) - 1 + 1 ELSE 0
        /\ \A j \in 1..((i - 1) - 1 + 1) : a[j] = s[1 + j - 1]
    BY <2>1, SubSeqProperties
  <2> QED
    BY <2>2
<1>2. b \in Seq(S) /\ Len(b) = Len(s) - i /\ \A j \in 1..(Len(s) - i) : b[j] = s[i + j]
  <2>1. \A k \in (i + 1)..Len(s) : s[k] \in S
    OBVIOUS
  <2>2. /\ b \in Seq(S)
        /\ Len(b) = IF i + 1 <= Len(s) THEN Len(s) - (i + 1) + 1 ELSE 0
        /\ \A j \in 1..(Len(s) - (i + 1) + 1) : b[j] = s[(i + 1) + j - 1]
    BY <2>1, SubSeqProperties
  <2> HIDE DEF b
  <2>3. \A j \in 1..(Len(s) - i) : b[j] = s[i + j]
    <3> TAKE j \in 1..(Len(s) - i)
    <3>1. j \in 1..(Len(s) - (i + 1) + 1) /\ (i + 1) + j - 1 = i + j
      OBVIOUS
    <3> QED
      BY <2>2, <3>1
  <2> QED
    BY <2>2, <2>3
<1> HIDE DEF a, b
<1>3. t \in Seq(S) /\ Len(t) = Len(s) - 1
  <2>1. t \in Seq(S) /\ Len(t) = Len(a) + Len(b)
    BY <1>1, <1>2, ConcatProperties
  <2>2. Len(s) \in Nat
    OBVIOUS
  <2> QED
    BY <1>1, <1>2, <2>1, <2>2
<1>4. \A j \in 1..(Len(s) - 1) : t[j] = IF j < i THEN s[j] ELSE s[j + 1]
  BY <1>1, <1>2
<1>5. RemoveAt(s, i) = t
  BY DEF RemoveAt, a, b
<1> HIDE DEF t
<1>6. \A j \in 1..Len(t) : \E k \in 1..Len(s) : t[j] = s[k]
  BY <1>3, <1>4
<1>7. ASSUME NEW k \in 1..Len(s), k # i
      PROVE  \E j \in 1..Len(t) : t[j] = s[k]
  <2>1. CASE k < i
    BY <1>3, <1>4, <1>7, <2>1
  <2>2. CASE k > i
    <3>1. k - 1 \in 1..Len(t) /\ t[k - 1] = s[k]
      BY <1>3, <1>4, <1>7, <2>2
    <3> QED
      BY <3>1
  <2> QED
    BY <1>7, <2>1, <2>2
<1> QED
  BY <1>3, <1>5, <1>6, <1>7

\* Where a code has its risk from while the table is loaded: from an entry of
\* the file that was applied, or still from the defaults, and then the entries
\* of the file that have it are still to be applied.
HasEntry(c) == \E j \in 1..Len(file) : Code4(file[j].key) = c
FromFile(c) ==
  /\ c \in DOMAIN risks
  /\ \E j \in 1..Len(file) : Code4(file[j].key) = c /\ risks[c] = file[j].risk
FromDefaults(c) ==
  /\ c \in DOMAIN risks <=> c \in DOMAIN LoadDefaults
  /\ c \in DOMAIN risks => risks[c] = LoadDefaults[c]
  /\ \A j \in 1..Len(file) : Code4(file[j].key) = c => \E i \in 1..Len(todo) : todo[i] = file[j]

RiskInv ==
  /\ file \in Seq(Entries) /\ todo \in Seq(Entries)
  /\ NoCode \notin DOMAIN risks
  /\ \A i \in 1..Len(todo) : \E j \in 1..Len(file) : todo[i] = file[j]
  /\ \A c \in Int : c # NoCode => FromFile(c) \/ FromDefaults(c)
  /\ phase = "start" => file = <<>> /\ risks = LoadDefaults
  /\ phase # "load" => todo = <<>>

LEMMA DefaultsHaveCodes == NoCode \notin DOMAIN LoadDefaults /\ DOMAIN LoadDefaults \subseteq Int
BY DEF NoCode, LoadDefaults, DefaultCodes

LEMMA RiskInit == Init => RiskInv
<1> SUFFICES ASSUME Init PROVE RiskInv
  OBVIOUS
<1>1. file = <<>> /\ todo = <<>> /\ risks = LoadDefaults /\ phase = "start"
  BY Zenon DEF Init
<1>2. file \in Seq(Entries) /\ todo \in Seq(Entries) /\ Len(file) = 0 /\ Len(todo) = 0
  BY <1>1
<1>3. \A c \in Int : FromDefaults(c)
  BY <1>1, <1>2 DEF FromDefaults
<1> QED
  BY <1>1, <1>2, <1>3, DefaultsHaveCodes DEF RiskInv

\* Applying an entry settles its code and leaves the others alone.
LEMMA RiskApply == RiskInv /\ ApplyEntry => RiskInv'
<1> SUFFICES ASSUME RiskInv, ApplyEntry PROVE RiskInv'
  OBVIOUS
<1>1. PICK i \in 1..Len(todo) : /\ risks' = Apply(risks, todo[i].key, todo[i].risk)
                               /\ todo' = RemoveAt(todo, i)
  BY Zenon DEF ApplyEntry
<1>2. phase = "load" /\ file' = file /\ phase' = phase
  BY DEF ApplyEntry
<1>3. file \in Seq(Entries) /\ todo \in Seq(Entries) /\ NoCode \notin DOMAIN risks
  BY DEF RiskInv
<1>4. PICK e \in Entries, k \in Int : e = todo[i] /\ k = Code4(e.key)
  <2>1. todo[i] \in Entries
    BY <1>3
  <2>2. todo[i].key \in Seq(0..10)
    BY <2>1 DEF Entries
  <2> QED
    BY <2>1, <2>2, CodesAreIntegers
<1>5. /\ todo' \in Seq(Entries)
      /\ \A j \in 1..Len(todo') : \E m \in 1..Len(todo) : todo'[j] = todo[m]
      /\ \A m \in 1..Len(todo) : m # i => \E j \in 1..Len(todo') : todo'[j] = todo[m]
  BY <1>1, <1>3, RemoveAtKeepsTheOthers, ZenonT(40)
<1>6. PICK f \in 1..Len(file) : e = file[f]
  BY <1>4 DEF RiskInv
<1>7. \A j \in 1..Len(todo') : \E m \in 1..Len(file') : todo'[j] = file'[m]
  <2> TAKE j \in 1..Len(todo')
  <2>1. PICK m \in 1..Len(todo) : todo'[j] = todo[m]
    BY <1>5
  <2>2. PICK n \in 1..Len(file) : todo[m] = file[n]
    BY DEF RiskInv
  <2> QED
    BY <1>2, <2>1, <2>2
\* What is removed has another code than c.
<1>8. ASSUME NEW c \in Int, c # k, c # NoCode,
             (c \in DOMAIN risks') <=> (c \in DOMAIN risks), c \in DOMAIN risks => risks'[c] = risks[c]
      PROVE  FromFile(c)' \/ FromDefaults(c)'
  <2>1. CASE FromFile(c)
    BY <1>2, <1>8, <2>1 DEF FromFile
  <2>2. CASE FromDefaults(c)
    <3>1. ASSUME NEW j \in 1..Len(file), Code4(file[j].key) = c
          PROVE  \E m \in 1..Len(todo') : todo'[m] = file[j]
      <4>1. PICK m \in 1..Len(todo) : todo[m] = file[j]
        BY <2>2, <3>1 DEF FromDefaults
      <4>2. m # i
        BY <1>4, <1>8, <3>1, <4>1
      <4> QED
        BY <1>5, <4>1, <4>2
    <3> QED
      BY <1>2, <1>8, <2>2, <3>1 DEF FromDefaults
  <2> QED
    BY <1>8, <2>1, <2>2 DEF RiskInv
<1>9. CASE k = NoCode
  <2>1. risks' = risks
    BY <1>1, <1>4, <1>9, Zenon DEF Apply
  <2>2. \A c \in Int : c # NoCode => FromFile(c)' \/ FromDefaults(c)'
    BY <1>8, <1>9, <2>1
  <2> QED
    BY <1>2, <1>3, <1>5, <1>7, <2>1, <2>2 DEF RiskInv
<1>10. CASE k # NoCode
  <2>1. risks' = [c \in DOMAIN risks \cup {k} |-> IF c = k THEN e.risk ELSE risks[c]]
    BY <1>1, <1>4, <1>10, Zenon DEF Apply, With
  <2>2. /\ DOMAIN risks' = DOMAIN risks \cup {k}
        /\ risks'[k] = e.risk
        /\ \A c \in DOMAIN risks : c # k => risks'[c] = risks[c]
    BY <2>1
  <2>3. NoCode \notin DOMAIN risks'
    BY <1>3, <1>10, <2>2
  <2>4. FromFile(k)'
    BY <1>2, <1>4, <1>6, <2>2 DEF FromFile
  <2>5. \A c \in Int : c # NoCode => FromFile(c)' \/ FromDefaults(c)'
    BY <1>8, <2>2, <2>4
  <2> QED
    BY <1>2, <1>3, <1>5, <1>7, <2>3, <2>5 DEF RiskInv
<1> QED
  BY <1>9, <1>10

LEMMA RiskBegin == RiskInv /\ BeginLoad => RiskInv'
<1> SUFFICES ASSUME RiskInv, BeginLoad PROVE RiskInv'
  OBVIOUS
<1>1. PICK f \in TableFiles : file' = f /\ todo' = f
  BY Zenon DEF BeginLoad
<1>2. f \in Seq(Entries)
  BY TablesAssumption DEF Entries
<1>3. risks' = LoadDefaults /\ phase' = "load"
  BY DEF BeginLoad
<1>4. \A c \in Int : FromDefaults(c)'
  BY <1>1, <1>3 DEF FromDefaults
<1> QED
  BY <1>1, <1>2, <1>3, <1>4, DefaultsHaveCodes DEF RiskInv

LEMMA RiskElse ==
  ASSUME RiskInv, UNCHANGED <<risks, file, todo>>, phase' # "start", phase' = "load" <=> FALSE,
         phase # "load" \/ todo = <<>>
  PROVE  RiskInv'
<1>1. \A c \in Int : c # NoCode => FromFile(c)' \/ FromDefaults(c)'
  BY DEF RiskInv, FromFile, FromDefaults
<1> QED
  BY <1>1 DEF RiskInv

LEMMA RiskStep == RiskInv /\ [Next]_vars => RiskInv'
<1> SUFFICES ASSUME RiskInv, [Next]_vars PROVE RiskInv'
  OBVIOUS
<1> USE DEF Reject, ReadField
<1>1. CASE KeepDefaults
  BY <1>1, RiskElse DEF KeepDefaults
<1>2. CASE BeginLoad
  BY <1>2, RiskBegin
<1>3. CASE ApplyEntry
  BY <1>3, RiskApply
<1>4. CASE EndLoad
  BY <1>4, RiskElse DEF EndLoad
<1>5. CASE FindObject
  BY <1>5, RiskElse DEF FindObject
<1>6. CASE ReadRequired
  BY <1>6, RiskElse DEF ReadRequired
<1>7. CASE FindLast
  BY <1>7, RiskElse DEF FindLast
<1>8. CASE ReadOptional
  BY <1>8, RiskElse DEF ReadOptional
<1>9. CASE Finish
  BY <1>9, RiskElse DEF Finish
<1>10. CASE UNCHANGED vars
  BY <1>10 DEF vars, RiskInv, FromFile, FromDefaults
<1> QED
  BY <1>1, <1>2, <1>3, <1>4, <1>5, <1>6, <1>7, <1>8, <1>9, <1>10 DEF Next

\* mcc.Load: when the table is loaded, each category has the risk of an entry of
\* the file that has its code, or its default when there is none; no entry is
\* lost to another one, in whatever order the map is iterated.
THEOREM RisksAreThoseOfTheFile == Spec => []RisksFollowTheFile
<1>1. RiskInv => RisksFollowTheFile
  <2> SUFFICES ASSUME RiskInv, phase \notin {"start", "load"},
                      NEW c \in DOMAIN LoadDefaults \cup {Code4(file[i].key) : i \in 1..Len(file)}
               PROVE
        LET entries == {file[i].risk : i \in {j \in 1..Len(file) : Code4(file[j].key) = c}}
            risk    == IF c \in DOMAIN risks THEN risks[c] ELSE DefaultRisk
        IN  IF c # NoCode /\ entries # {} THEN risk \in entries
            ELSE risk = IF c \in DOMAIN LoadDefaults THEN LoadDefaults[c] ELSE DefaultRisk
    BY DEF RisksFollowTheFile
  <2> DEFINE entries == {file[i].risk : i \in {j \in 1..Len(file) : Code4(file[j].key) = c}}
             risk    == IF c \in DOMAIN risks THEN risks[c] ELSE DefaultRisk
  <2>1. file \in Seq(Entries) /\ todo = <<>> /\ NoCode \notin DOMAIN risks
    BY DEF RiskInv
  <2>2. CASE c = NoCode
    BY <2>1, <2>2, DefaultsHaveCodes
  <2>3. CASE c # NoCode
    <3>1. c \in Int
      <4>1. \A i \in 1..Len(file) : file[i].key \in Seq(0..10)
        <5> TAKE i \in 1..Len(file)
        <5>1. file[i] \in Entries
          BY <2>1
        <5> QED
          BY <5>1 DEF Entries
      <4>2. \A i \in 1..Len(file) : Code4(file[i].key) \in Int
        BY <4>1, CodesAreIntegers
      <4> QED
        BY <4>2, DefaultsHaveCodes
    <3>2. CASE FromFile(c)
      <4>1. risk \in entries
        BY <3>2 DEF FromFile
      <4> QED
        BY <2>3, <4>1
    <3>3. CASE FromDefaults(c)
      <4>1. entries = {}
        BY <2>1, <3>3 DEF FromDefaults
      <4>2. risk = IF c \in DOMAIN LoadDefaults THEN LoadDefaults[c] ELSE DefaultRisk
        BY <3>3 DEF FromDefaults
      <4> QED
        BY <4>1, <4>2
    <3> QED
      BY <2>3, <3>1, <3>2, <3>3 DEF RiskInv
  <2> QED
    BY <2>2, <2>3
<1> QED
  BY <1>1, RiskInit, RiskStep, PTL DEF Spec

-----------------------------------------------------------------------------
(* The text of a request is a sequence of symbols. *)

\* A non-empty set of natural numbers has a least element.
LEMMA LeastNatural ==
  ASSUME NEW S \in SUBSET Nat, S # {}
  PROVE  \E m \in S : \A n \in S : m <= n
<1> DEFINE R == OpToRel(<, Nat)
<1>1. IsWellFoundedOn(R, Nat)
  BY NatLessThanWellFounded, Zenon
<1>2. PICK m \in S : \A n \in S : <<n, m>> \notin R
  BY <1>1, WFMin, Zenon
<1>3. \A n \in S : ~(n < m)
  BY <1>2, Zenon DEF OpToRel
<1> HIDE DEF R
<1>4. m \in Nat /\ \A n \in S : n \in Nat
  BY <1>2
<1>5. \A n \in S : m <= n
  BY <1>3, <1>4
<1> QED
  BY <1>2, <1>5

\* The concatenations of the first i sequences, and that they exist.
AreJoined(f, ss, n) == \A i \in 1..n : f[i] = IF i = 1 THEN ss[i] ELSE f[i - 1] \o ss[i]

LEMMA PrefixesJoin ==
  ASSUME NEW S, NEW n \in Nat, NEW ss \in [1..n -> Seq(S)]
  PROVE  \E f \in [1..n -> Seq(S)] : AreJoined(f, ss, n)
<1> DEFINE Joins(f, i) == f[i] = IF i = 1 THEN ss[i] ELSE f[i - 1] \o ss[i]
           Bad == {k \in 0..n : ~ \E f \in [1..n -> Seq(S)] : \A i \in 1..k : Joins(f, i)}
<1>1. 0 \notin Bad
  <2>1. [i \in 1..n |-> <<>>] \in [1..n -> Seq(S)]
    OBVIOUS
  <2>2. \A i \in 1..0 : Joins([j \in 1..n |-> <<>>], i)
    OBVIOUS
  <2> HIDE DEF Joins
  <2> QED
    BY <2>1, <2>2
<1>2. ASSUME NEW m \in 1..n, m - 1 \notin Bad
      PROVE  m \notin Bad
  <2>1. PICK f \in [1..n -> Seq(S)] : \A i \in 1..(m - 1) : Joins(f, i)
    <3>1. m - 1 \in 0..n
      OBVIOUS
    <3> HIDE DEF Joins
    <3> QED
      BY <1>2, <3>1
  <2> DEFINE v == IF m = 1 THEN ss[m] ELSE f[m - 1] \o ss[m]
             g == [f EXCEPT ![m] = v]
  <2>2. v \in Seq(S)
    <3>1. CASE m = 1
      BY <3>1
    <3>2. CASE m # 1
      <4>1. m - 1 \in 1..n
        BY <3>2
      <4>2. f[m - 1] \in Seq(S) /\ ss[m] \in Seq(S)
        BY <4>1
      <4> QED
        BY <3>2, <4>2, ConcatProperties
    <3> QED
      BY <3>1, <3>2
  <2> HIDE DEF v
  <2>3. g \in [1..n -> Seq(S)] /\ g[m] = v /\ \A i \in 1..n : i # m => g[i] = f[i]
    BY <2>2
  <2> HIDE DEF g
  <2>4. ASSUME NEW i \in 1..m
        PROVE  Joins(g, i)
    <3>1. i - 1 # m /\ (i # 1 => i - 1 \in 1..n)
      OBVIOUS
    <3>2. i # 1 => g[i - 1] = f[i - 1]
      BY <2>3, <3>1
    <3>3. CASE i = m
      BY <2>3, <3>2, <3>3, Zenon DEF v
    <3>4. CASE i # m
      <4>1. Joins(f, i) /\ g[i] = f[i]
        BY <2>1, <2>3, <3>4
      <4> QED
        BY <3>2, <4>1, Zenon
    <3> QED
      BY <3>3, <3>4
  <2> HIDE DEF Joins
  <2> QED
    BY <2>3, <2>4
<1>3. Bad = {}
  <2> SUFFICES ASSUME Bad # {} PROVE FALSE
    OBVIOUS
  <2>1. Bad \in SUBSET Nat /\ Bad \subseteq 0..n
    OBVIOUS
  <2> HIDE DEF Bad
  <2>2. PICK m \in Bad : \A k \in Bad : m <= k
    BY <2>1, LeastNatural
  <2>3. m # 0 /\ m - 1 \notin Bad
    BY <1>1, <2>1, <2>2
  <2> QED
    BY <1>2, <2>1, <2>2, <2>3
<1>4. n \notin Bad
  BY <1>3
<1> QED
  BY <1>4 DEF AreJoined

LEMMA FlattenSeqIsASequence ==
  ASSUME NEW S, NEW ss \in Seq(Seq(S))
  PROVE  FlattenSeq(ss) \in Seq(S)
<1> DEFINE n == Len(ss)
           Flat(g) == g = [i \in 1..n |-> IF i = 1 THEN ss[i] ELSE g[i - 1] \o ss[i]]
           flat == CHOOSE g : Flat(g)
<1>1. CASE n = 0
  <2>1. ss = <<>>
    BY <1>1
  <2> QED
    BY <1>1, <2>1 DEF FlattenSeq
<1>2. CASE n # 0
  <2>1. n \in Nat /\ ss \in [1..n -> Seq(S)]
    OBVIOUS
  <2>2. FlattenSeq(ss) = flat[n]
    BY <1>2, Zenon DEF FlattenSeq
  <2> HIDE DEF n
  <2>3. PICK f \in [1..n -> Seq(S)] : AreJoined(f, ss, n)
    BY <2>1, PrefixesJoin, Zenon
  <2>4. Flat(f)
    BY <2>3 DEF AreJoined
  <2>5. Flat(flat)
    BY <2>4, Zenon
  <2> HIDE DEF flat
  <2>6. \A i \in 1..n : flat[i] = IF i = 1 THEN ss[i] ELSE flat[i - 1] \o ss[i]
    BY <2>5
  <2> DEFINE Bad == {i \in 1..n : flat[i] \notin Seq(S)}
  <2>7. Bad = {}
    <3> SUFFICES ASSUME Bad # {} PROVE FALSE
      OBVIOUS
    <3>1. PICK m \in Bad : \A k \in Bad : m <= k
      <4>1. Bad \in SUBSET Nat
        BY <2>1
      <4> HIDE DEF Bad
      <4> QED
        BY <4>1, LeastNatural, Zenon
    <3>2. m \in 1..n /\ flat[m] \notin Seq(S)
      OBVIOUS
    <3>3. m # 1
      BY <2>1, <2>6, <3>2
    <3>4. m - 1 \in 1..n /\ m - 1 \notin Bad
      BY <2>1, <3>1, <3>2, <3>3
    <3>5. flat[m - 1] \in Seq(S) /\ ss[m] \in Seq(S)
      BY <2>1, <3>2, <3>4
    <3>6. flat[m] = flat[m - 1] \o ss[m]
      BY <2>6, <3>2, <3>3
    <3> QED
      BY <3>2, <3>5, <3>6, ConcatProperties
  <2>8. n \in 1..n
    BY <1>2, <2>1
  <2> QED
    BY <2>2, <2>7, <2>8
<1> QED
  BY <1>1, <1>2

\* (STRING has them all, but the provers do not know which strings there are.)
Symbol  == STRING \cup {Quote, ",", ":", "[", "]", "{", "}", " "}
Symbols == Seq(Symbol)

LEMMA ShortSequences ==
  ASSUME NEW S, NEW x \in S
  PROVE  <<>> \in Seq(S) /\ <<x>> \in Seq(S)
OBVIOUS

LEMMA WiderSequences ==
  ASSUME NEW S, NEW T, S \subseteq T, NEW s \in Seq(S)
  PROVE  s \in Seq(T)
OBVIOUS

LEMMA OtherElements ==
  ASSUME NEW S, NEW T, NEW s \in Seq(S), \A i \in 1..Len(s) : s[i] \in T
  PROVE  s \in Seq(T)
OBVIOUS

LEMMA Punctuation ==
  /\ <<>> \in Symbols
  /\ <<Quote>> \in Symbols /\ <<",">> \in Symbols /\ <<":">> \in Symbols
  /\ <<"[">> \in Symbols /\ <<"]">> \in Symbols /\ <<"{">> \in Symbols /\ <<"}">> \in Symbols
  /\ <<" ">> \in Symbols
<1>1. \A x \in Symbol : <<>> \in Seq(Symbol) /\ <<x>> \in Seq(Symbol)
  BY ShortSequences
<1>2. /\ Quote \in Symbol /\ "," \in Symbol /\ ":" \in Symbol /\ "[" \in Symbol
      /\ "]" \in Symbol /\ "{" \in Symbol /\ "}" \in Symbol /\ " " \in Symbol
  BY Zenon DEF Symbol
<1> QED
  BY <1>1, <1>2, Zenon DEF Symbols

LEMMA WordsAreText ==
  ASSUME NEW s \in Seq(STRING)
  PROVE  s \in Symbols
<1>1. STRING \subseteq Symbol
  BY Zenon DEF Symbol
<1> QED
  BY <1>1, WiderSequences, Zenon DEF Symbols

LEMMA StringIsText ==
  ASSUME NEW s \in Symbols
  PROVE  String(s) \in Symbols
<1>1. <<Quote>> \in Symbols
  BY Punctuation
<1>2. <<Quote>> \o s \in Symbols
  BY <1>1, ConcatProperties, Zenon DEF Symbols
<1> QED
  BY <1>1, <1>2, ConcatProperties, Zenon DEF String, Symbols

LEMMA ListedIsText ==
  ASSUME NEW open \in Symbols, NEW parts \in Seq(Symbols), NEW close \in Symbols, NEW gap \in Symbols
  PROVE  Listed(open, parts, close, gap) \in Symbols
<1> DEFINE p == [i \in 1..Len(parts) |-> IF i = 1 THEN parts[i] ELSE <<",">> \o gap \o parts[i]]
<1>1. Len(parts) \in Nat /\ \A i \in 1..Len(parts) : parts[i] \in Symbols
  OBVIOUS
<1>2. ASSUME NEW i \in 1..Len(parts)
      PROVE  (IF i = 1 THEN parts[i] ELSE <<",">> \o gap \o parts[i]) \in Symbols
  <2>1. <<",">> \in Symbols
    BY Punctuation, Zenon
  <2>2. <<",">> \o gap \in Symbols
    BY <2>1, ConcatProperties, Zenon DEF Symbols
  <2>3. <<",">> \o gap \o parts[i] \in Symbols
    BY <1>1, <2>2, ConcatProperties, Zenon DEF Symbols
  <2> QED
    BY <1>1, <2>3, Zenon
<1>3. p \in Seq(Symbols)
  <2> DEFINE v(i) == IF i = 1 THEN parts[i] ELSE <<",">> \o gap \o parts[i]
  <2>1. \A i \in 1..Len(parts) : v(i) \in Symbols
    BY <1>2
  <2> HIDE DEF v
  <2>2. [i \in 1..Len(parts) |-> v(i)] \in Seq(Symbols)
    BY <1>1, <2>1
  <2> QED
    BY <2>2, Zenon DEF v
<1> HIDE DEF p
<1>4. FlattenSeq(p) \in Symbols
  BY <1>3, FlattenSeqIsASequence, Zenon DEF Symbols
<1>5. open \o FlattenSeq(p) \in Symbols
  BY <1>4, ConcatProperties, Zenon DEF Symbols
<1>6. open \o FlattenSeq(p) \o gap \in Symbols
  BY <1>5, ConcatProperties, Zenon DEF Symbols
<1>7. open \o FlattenSeq(p) \o gap \o close \in Symbols
  BY <1>6, ConcatProperties, Zenon DEF Symbols
<1> QED
  BY <1>7, Zenon DEF Listed, p

LEMMA PlainTextIsText ==
  ASSUME NEW m \in Plain, NEW gap \in Symbols
  PROVE  PlainText(m, gap) \in Symbols
<1>1. CASE m.kind = "lit" /\ m.val \in Symbols
  BY <1>1, Zenon DEF PlainText
<1>2. CASE m.kind = "str" /\ m.val \in Symbols
  <2>1. String(m.val) \in Symbols
    BY <1>2, StringIsText
  <2>2. PlainText(m, gap) = String(m.val)
    BY <1>2, Zenon DEF PlainText
  <2> QED
    BY <2>1, <2>2
<1>3. CASE m.kind = "arr" /\ m.val \in Seq(Symbols)
  <2> DEFINE parts == [i \in 1..Len(m.val) |-> String(m.val[i])]
  <2>1. Len(m.val) \in Nat /\ \A i \in 1..Len(m.val) : m.val[i] \in Symbols
    BY <1>3
  <2>2. \A i \in 1..Len(m.val) : String(m.val[i]) \in Symbols
    BY <2>1, StringIsText
  <2>3. parts \in Seq(Symbols)
    BY <2>1, <2>2
  <2> HIDE DEF parts
  <2>4. <<"[">> \in Symbols /\ <<"]">> \in Symbols
    BY Punctuation, Zenon
  <2>5. Listed(<<"[">>, parts, <<"]">>, gap) \in Symbols
    BY <2>3, <2>4, ListedIsText, Zenon
  <2>6. PlainText(m, gap) = Listed(<<"[">>, parts, <<"]">>, gap)
    BY <1>3, Zenon DEF PlainText, parts
  <2> QED
    BY <2>5, <2>6, Zenon
<1>4. CASE m \in [key : STRING, kind : {"lit", "str"}, val : Seq(STRING)]
  <2>1. m.kind \in {"lit", "str"} /\ m.val \in Seq(STRING)
    BY <1>4
  <2> QED
    BY <1>1, <1>2, <2>1, WordsAreText
<1>5. CASE m \in [key : STRING, kind : {"arr"}, val : Seq(Seq(STRING))]
  <2>1. m.kind = "arr" /\ m.val \in Seq(Seq(STRING))
    BY <1>5
  <2>2. \A i \in 1..Len(m.val) : m.val[i] \in Symbols
    BY <2>1, WordsAreText
  <2>3. m.val \in Seq(Symbols)
    BY <2>1, <2>2, OtherElements, Zenon
  <2> QED
    BY <1>3, <2>1, <2>3
<1> QED
  BY <1>4, <1>5 DEF Plain

LEMMA ObjectTextIsText ==
  ASSUME NEW members, NEW n \in Nat, Len(members) = n,
         \A i \in 1..n : members[i].key \in STRING,
         NEW texts, \A i \in 1..n : texts[i] \in Symbols,
         NEW order, order[n] \in [1..n -> 1..n], NEW gap \in Symbols
  PROVE  ObjectText(members, texts, order, gap) \in Symbols
<1> DEFINE pair(i) == String(<<members[i].key>>) \o gap \o <<":">> \o gap \o texts[i]
           parts == [i \in 1..n |-> pair(order[n][i])]
<1>1. ASSUME NEW i \in 1..n
      PROVE  pair(i) \in Symbols
  <2>1. <<members[i].key>> \in Symbols /\ <<":">> \in Symbols
    <3>1. <<members[i].key>> \in Seq(STRING)
      BY <1>1
    <3> QED
      BY <3>1, Punctuation, WordsAreText, Zenon
  <2>2. String(<<members[i].key>>) \in Symbols
    BY <2>1, StringIsText
  <2>3. String(<<members[i].key>>) \o gap \in Symbols
    BY <2>2, ConcatProperties, Zenon DEF Symbols
  <2>4. String(<<members[i].key>>) \o gap \o <<":">> \in Symbols
    BY <2>1, <2>3, ConcatProperties, Zenon DEF Symbols
  <2>5. String(<<members[i].key>>) \o gap \o <<":">> \o gap \in Symbols
    BY <2>4, ConcatProperties, Zenon DEF Symbols
  <2>6. String(<<members[i].key>>) \o gap \o <<":">> \o gap \o texts[i] \in Symbols
    BY <2>5, ConcatProperties, Zenon DEF Symbols
  <2> QED
    BY <2>6
<1> HIDE DEF pair
<1>2. \A i \in 1..n : pair(order[n][i]) \in Symbols
  BY <1>1
<1>3. parts \in Seq(Symbols)
  BY <1>2
<1> HIDE DEF parts
<1>4. <<"{">> \in Symbols /\ <<"}">> \in Symbols
  BY Punctuation, Zenon
<1>5. Listed(<<"{">>, parts, <<"}">>, gap) \in Symbols
  BY <1>3, <1>4, ListedIsText, Zenon
<1>6. ObjectText(members, texts, order, gap) = Listed(<<"{">>, parts, <<"}">>, gap)
  BY Zenon DEF ObjectText, parts, pair
<1> QED
  BY <1>5, <1>6, Zenon

LEMMA ValueTextIsText ==
  ASSUME NEW m \in Members, NEW gap \in Symbols, NEW order,
         m.kind = "obj" => order[Len(m.val)] \in [1..Len(m.val) -> 1..Len(m.val)]
  PROVE  m.key \in STRING /\ ValueText(m, order, gap) \in Symbols
<1>1. CASE m \in Plain
  <2>1. m.key \in STRING /\ m.kind # "obj"
    BY <1>1 DEF Plain
  <2>2. PlainText(m, gap) \in Symbols
    BY <1>1, PlainTextIsText
  <2> QED
    BY <2>1, <2>2, Zenon DEF ValueText
<1>2. CASE m \in [key : STRING, kind : {"obj"}, val : Seq(Plain)]
  <2>1. m.key \in STRING /\ m.kind = "obj" /\ m.val \in Seq(Plain)
    BY <1>2
  <2> DEFINE n == Len(m.val)
             texts == [i \in 1..n |-> PlainText(m.val[i], gap)]
  <2>2. n \in Nat /\ \A i \in 1..n : m.val[i] \in Plain
    BY <2>1
  <2>3. \A i \in 1..n : m.val[i].key \in STRING
    BY <2>2 DEF Plain
  <2>4. \A i \in 1..n : texts[i] \in Symbols
    BY <2>2, PlainTextIsText
  <2>5. order[n] \in [1..n -> 1..n]
    BY <2>1
  <2>6. ValueText(m, order, gap) = ObjectText(m.val, texts, order, gap)
    BY <2>1, Zenon DEF ValueText
  <2> HIDE DEF texts
  <2>7. ObjectText(m.val, texts, order, gap) \in Symbols
    BY <2>2, <2>3, <2>4, <2>5, ObjectTextIsText
  <2> QED
    BY <2>1, <2>6, <2>7, Zenon
<1> QED
  BY <1>1, <1>2, Zenon DEF Members

\* An order of n members is a permutation of them.
LEMMA OrdersPermute ==
  ASSUME NEW n, Orderly(n), NEW o \in Orders
  PROVE  /\ o[n] \in [1..n -> 1..n]
         /\ \A i, j \in 1..n : o[n][i] = o[n][j] => i = j
         /\ \A k \in 1..n : \E i \in 1..n : o[n][i] = k
<1> DEFINE f == o[n]
           S == 1..n
<1>1. f \in Bijection(S, S)
  BY Zenon DEF Orderly
<1> HIDE DEF f, S
<1>2. f \in Injection(S, S) /\ f \in Surjection(S, S)
  BY <1>1 DEF Bijection
<1>3. f \in [S -> S] /\ \A i, j \in S : f[i] = f[j] => i = j
  BY <1>2 DEF Injection, IsInjective
<1>4. \A k \in S : \E i \in S : f[i] = k
  BY <1>2 DEF Surjection
<1> QED
  BY <1>3, <1>4, Zenon DEF f, S

LEMMA TextIsText ==
  ASSUME NEW r \in 1..Len(Requests), NEW order \in Orders, NEW gap \in Symbols
  PROVE  Text(Requests[r], order, gap) \in Symbols
<1> DEFINE ms == Requests[r]
           n == Len(ms)
           texts == [i \in 1..n |-> ValueText(ms[i], order, gap)]
<1>1. ms \in Seq(Members)
  BY RequestsAssumption
<1>2. n \in Nat /\ \A i \in 1..n : ms[i] \in Members
  BY <1>1
<1>3. order[n] \in [1..n -> 1..n]
  BY RequestsAssumption, OrdersPermute, Zenon
<1>4. \A i \in 1..n : ms[i].kind = "obj" => order[Len(ms[i].val)] \in [1..Len(ms[i].val) -> 1..Len(ms[i].val)]
  BY RequestsAssumption, OrdersPermute, Zenon
<1>5. \A i \in 1..n : ms[i].key \in STRING /\ ValueText(ms[i], order, gap) \in Symbols
  BY <1>2, <1>4, ValueTextIsText, Zenon
<1>6. \A i \in 1..n : texts[i] \in Symbols
  BY <1>5
<1>7. Text(Requests[r], order, gap) = ObjectText(ms, texts, order, gap)
  BY Zenon DEF Text
<1> HIDE DEF texts, ms
<1>8. ObjectText(ms, texts, order, gap) \in Symbols
  BY <1>2, <1>3, <1>5, <1>6, ObjectTextIsText, Zenon
<1> QED
  BY <1>7, <1>8, Zenon

-----------------------------------------------------------------------------
(* The scanner stays in its range. *)

LEMMA FirstOfIsThere ==
  ASSUME NEW S \in SUBSET Nat
  PROVE  FirstOf(S) \in S \cup {0}
<1>1. CASE S = {}
  BY <1>1 DEF FirstOf
<1>2. CASE S # {}
  <2>1. \E p \in S : \A r \in S : p <= r
    BY <1>2, LeastNatural
  <2>2. FirstOf(S) = CHOOSE p \in S : \A r \in S : p <= r
    BY <1>2, Zenon DEF FirstOf
  <2> QED
    BY <2>1, <2>2, Zenon
<1> QED
  BY <1>1, <1>2

LEMMA IndexFromIn ==
  ASSUME NEW b, NEW start \in Nat, NEW end \in Nat, NEW c
  PROVE  IndexFrom(b, start, end, c) \in start..(end - 1) \cup {0}
<1> DEFINE S == {p \in start..(end - 1) : b[p] = c}
<1>1. S \in SUBSET Nat /\ S \subseteq start..(end - 1)
  OBVIOUS
<1>2. IndexFrom(b, start, end, c) = FirstOf(S)
  BY Zenon DEF IndexFrom
<1> HIDE DEF S
<1> QED
  BY <1>1, <1>2, FirstOfIsThere

LEMMA FindKeyIn ==
  ASSUME NEW b, NEW start \in Nat, NEW end \in Nat, NEW key
  PROVE  FindKey(b, start, end, key) \in start..(end - 3) \cup {0}
<1> DEFINE S == {p \in start..(end - 3) : b[p] = Quote /\ b[p + 1] = key /\ b[p + 2] = Quote}
<1>1. S \in SUBSET Nat /\ S \subseteq start..(end - 3)
  OBVIOUS
<1>2. FindKey(b, start, end, key) = FirstOf(S)
  BY Zenon DEF FindKey
<1> HIDE DEF S
<1> QED
  BY <1>1, <1>2, FirstOfIsThere

LEMMA SkipWSIn ==
  ASSUME NEW b, NEW start \in Nat \ {0}, NEW end \in Nat, start <= end
  PROVE  SkipWS(b, start, end) \in start..end
<1> DEFINE S == {r \in start..(end - 1) : b[r] # " "}
           p == FirstOf(S)
<1>1. S \subseteq start..(end - 1)
  BY Zenon
<1>2. SkipWS(b, start, end) = IF p = 0 THEN end ELSE p
  BY Zenon DEF SkipWS
<1> HIDE DEF S
<1>3. p \in S \cup {0}
  BY <1>1, FirstOfIsThere
<1> HIDE DEF p
<1>4. p = 0 \/ p \in start..(end - 1)
  BY <1>1, <1>3
<1> QED
  BY <1>2, <1>4

LEMMA ValueAtIn ==
  ASSUME NEW b, NEW start \in Nat \ {0}, NEW end \in Nat, NEW key
  PROVE  ValueAt(b, start, end, key) \in start..(end - 1) \cup {0}
<1> DEFINE k == FindKey(b, start, end, key)
           i == IndexFrom(b, k + 3, end, ":")
           c == IF k = 0 THEN 0 ELSE i
           w == SkipWS(b, c + 1, end)
           p == IF c = 0 THEN end ELSE w
<1>1. k \in start..(end - 3) \cup {0}
  BY FindKeyIn
<1>2. ValueAt(b, start, end, key) = IF p >= end THEN 0 ELSE p
  BY Zenon DEF ValueAt
<1> HIDE DEF k
<1>3. k + 3 \in Nat
  BY <1>1
<1>4. i \in (k + 3)..(end - 1) \cup {0}
  BY <1>3, IndexFromIn, Zenon
<1> HIDE DEF i
<1>5. c = 0 \/ c \in (start + 3)..(end - 1)
  BY <1>1, <1>4
<1> HIDE DEF c
<1>6. c # 0 => w \in (c + 1)..end
  <2> SUFFICES ASSUME c # 0 PROVE w \in (c + 1)..end
    OBVIOUS
  <2>1. c + 1 \in Nat \ {0} /\ c + 1 <= end
    BY <1>5
  <2> QED
    BY <2>1, SkipWSIn
<1> HIDE DEF w
<1>7. p \in start..end \/ p = end
  BY <1>5, <1>6
<1> HIDE DEF p
<1> QED
  BY <1>2, <1>7

LEMMA MatchBraceIn ==
  ASSUME NEW b, NEW start \in Nat, NEW end \in Nat, MatchBrace(b, start, end) # 0
  PROVE  /\ MatchBrace(b, start, end) \in (start + 1)..end
         /\ b[MatchBrace(b, start, end) - 1] = "}"
<1> DEFINE before == Scan(b, start, end, "code")
           count(c, p) == Cardinality({r \in start..(p - 1) : b[r] = c /\ before[r] = "code"})
           S == {p \in (start + 1)..end : /\ b[p - 1] = "}" /\ before[p - 1] = "code"
                                          /\ count("{", p) = count("}", p)}
<1>1. MatchBrace(b, start, end) = FirstOf(S)
  BY Zenon DEF MatchBrace
<1> HIDE DEF before, count
<1>2. S \subseteq (start + 1)..end
  BY Zenon
<1>3. \A p \in S : b[p - 1] = "}"
  BY Zenon
<1> HIDE DEF S
<1>4. S \in SUBSET Nat
  BY <1>2
<1>5. MatchBrace(b, start, end) \in S
  BY <1>1, <1>4, FirstOfIsThere
<1> QED
  BY <1>2, <1>3, <1>5, Zenon

\* The range of an object that was found lies in the body, from brace to brace.
RangeOK(r, b) ==
  /\ r.start \in 1..Len(b) /\ r.end \in 2..(Len(b) + 1)
  /\ b[r.start] = "{" /\ b[r.end - 1] = "}"

LEMMA ObjectRangeOK ==
  ASSUME body \in Symbols, NEW key, ObjectRange(body, Whole.start, Whole.end, key).end # 0
  PROVE  RangeOK(ObjectRange(body, Whole.start, Whole.end, key), body)
<1> DEFINE n == Len(body)
           p == ValueAt(body, 1, n + 1, key)
           e == MatchBrace(body, p, n + 1)
           r == ObjectRange(body, Whole.start, Whole.end, key)
<1>1. n \in Nat
  BY DEF Symbols
<1>2. p \in 1..n \cup {0}
  <2>1. n + 1 \in Nat /\ (n + 1) - 1 = n
    BY <1>1
  <2>2. p \in 1..((n + 1) - 1) \cup {0}
    BY <2>1, ValueAtIn
  <2> QED
    BY <2>1, <2>2
<1>3. Whole.start = 1 /\ Whole.end = n + 1
  BY DEF Whole
<1> DEFINE v == IF p > 0 /\ body[p] = "{" THEN e ELSE 0
<1>4. r = [start |-> p, end |-> v]
  BY <1>3, Zenon DEF ObjectRange
<1> HIDE DEF r, v, p, e
<1>5. r.start = p /\ r.end = v
  BY <1>4
<1>6. p > 0 /\ body[p] = "{" /\ r.end = e /\ e # 0
  BY <1>5, Zenon DEF v, r
<1>7. e \in (p + 1)..(n + 1) /\ body[e - 1] = "}"
  <2>1. p \in Nat /\ n + 1 \in Nat
    BY <1>1, <1>2
  <2> QED
    BY <1>6, <2>1, MatchBraceIn, Zenon DEF e
<1>8. p \in 1..n /\ e \in 2..(n + 1)
  <2>1. p > 0 /\ e \in (p + 1)..(n + 1)
    BY <1>6, <1>7, Zenon
  <2> QED
    BY <1>1, <1>2, <2>1
<1>9. r.start = p /\ r.end = e
  BY <1>5, <1>6, Zenon
<1>10. RangeOK(r, body)
  <2>1. r.start \in 1..Len(body) /\ r.end \in 2..(Len(body) + 1)
    BY <1>8, <1>9, Zenon
  <2>2. body[r.start] = "{" /\ body[r.end - 1] = "}"
    BY <1>6, <1>7, <1>9, Zenon
  <2> QED
    BY <2>1, <2>2, Zenon DEF RangeOK
<1> QED
  BY <1>10, Zenon DEF r

Phases == {"start", "load", "objects", "fields", "last", "optional", "finish", "built", "rejected"}

\* The look-ups of a phase are counted from 1 on.
Counted ==
  /\ next \in 1..11
  /\ phase = "objects" => next \in 1..4
  /\ phase = "optional" => next \in 1..2
  /\ phase \in {"start", "load", "last"} => next = 1

ScanInv ==
  /\ body \in Symbols
  /\ phase \in Phases
  /\ Counted
  /\ \A o \in DOMAIN range : RangeOK(range[o], body)

LEMMA Lengths == Len(Objects) = 4 /\ Len(Fields) = 11 /\ Len(LastFields) = 2
BY DEF Objects, Fields, LastFields

LEMMA ScanInit == Init => ScanInv
<1> SUFFICES ASSUME Init PROVE ScanInv
  OBVIOUS
<1>1. phase = "start" /\ next = 1 /\ range = <<>>
  BY Zenon DEF Init
<1>2. DOMAIN range = {}
  BY <1>1
<1>3. Counted
  BY <1>1 DEF Counted
<1>4. body \in Symbols
  <2>1. PICK r \in 1..Len(Requests), o \in Orders, gap \in {<<>>, <<" ">>} :
          body = Text(Requests[r], o, gap)
    BY Zenon DEF Init
  <2>2. gap \in Symbols
    BY <2>1, Punctuation, Zenon
  <2> QED
    BY <2>1, <2>2, TextIsText, Zenon
<1> QED
  BY <1>1, <1>2, <1>3, <1>4, Zenon DEF ScanInv, Phases

LEMMA WithOneMore ==
  ASSUME NEW f, NEW x, NEW v
  PROVE  \A y \in DOMAIN With(f, x, v) :
           \/ With(f, x, v)[y] = v
           \/ y \in DOMAIN f /\ With(f, x, v)[y] = f[y]
BY DEF With

\* The ranges found stay good, and one more may be found.
LEMMA RangesStay ==
  ASSUME ScanInv, body' = body, range' = range
  PROVE  body' \in Symbols /\ (\A o \in DOMAIN range : RangeOK(range[o], body))'
BY Zenon DEF ScanInv

LEMMA RangesGrow ==
  ASSUME ScanInv, body' = body, NEW key,
         ObjectRange(body, Whole.start, Whole.end, key).end # 0,
         range' = With(range, key, ObjectRange(body, Whole.start, Whole.end, key))
  PROVE  body' \in Symbols /\ (\A o \in DOMAIN range : RangeOK(range[o], body))'
<1> DEFINE r == ObjectRange(body, Whole.start, Whole.end, key)
<1>1. RangeOK(r, body)
  BY ObjectRangeOK, Zenon DEF ScanInv
<1> HIDE DEF r
<1> DEFINE w == With(range, key, r)
<1>2. range' = w
  BY Zenon DEF r
<1>3. \A o \in DOMAIN w : w[o] = r \/ (o \in DOMAIN range /\ w[o] = range[o])
  BY WithOneMore
<1>4. \A o \in DOMAIN w : RangeOK(w[o], body)
  BY <1>1, <1>3, Zenon DEF ScanInv
<1> HIDE DEF w
<1> QED
  BY <1>2, <1>4, Zenon DEF ScanInv

LEMMA ScanStep == ScanInv /\ [Next]_vars => ScanInv'
<1> SUFFICES ASSUME ScanInv, [Next]_vars PROVE ScanInv'
  OBVIOUS
<1> DEFINE Ranges == body' \in Symbols /\ (\A o \in DOMAIN range : RangeOK(range[o], body))'
           Place  == phase' \in Phases /\ Counted'
<1>1. Counted /\ phase \in Phases
  BY Zenon DEF ScanInv
<1>2. body' = body
  BY Zenon DEF Next, KeepDefaults, BeginLoad, ApplyEntry, EndLoad, FindObject, ReadRequired,
               FindLast, ReadOptional, Finish, vars
<1>3. range' = range => Ranges
  BY <1>2, RangesStay, Zenon
<1>4. CASE KeepDefaults
  <2>1. Place
    BY <1>1, <1>4 DEF KeepDefaults, Counted, Phases
  <2> QED
    BY <1>3, <1>4, <2>1, Zenon DEF KeepDefaults, ScanInv
<1>5. CASE BeginLoad
  <2>1. Place
    BY <1>1, <1>5 DEF BeginLoad, Counted, Phases
  <2> QED
    BY <1>3, <1>5, <2>1, Zenon DEF BeginLoad, ScanInv
<1>6. CASE ApplyEntry
  <2>1. Place
    BY <1>1, <1>6 DEF ApplyEntry, Counted, Phases
  <2> QED
    BY <1>3, <1>6, <2>1, Zenon DEF ApplyEntry, ScanInv
<1>7. CASE EndLoad
  <2>1. Place
    BY <1>1, <1>7 DEF EndLoad, Counted, Phases
  <2> QED
    BY <1>3, <1>7, <2>1, Zenon DEF EndLoad, ScanInv
<1>8. CASE FindObject
  <2> DEFINE r == ObjectRange(body, Whole.start, Whole.end, Objects[next])
  <2>1. phase = "objects" /\ next \in 1..4
    BY <1>1, <1>8, Zenon DEF FindObject, Counted
  <2>2. CASE r.end = 0
    <3>1. Reject
      BY <1>8, <2>2, Zenon DEF FindObject
    <3>2. Place
      BY <1>1, <3>1 DEF Reject, Counted, Phases
    <3> QED
      BY <1>3, <3>1, <3>2, Zenon DEF Reject, ScanInv
  <2>3. CASE r.end # 0
    <3>1. range' = With(range, Objects[next], r)
      BY <1>8, <2>3, Zenon DEF FindObject
    <3>2. Ranges
      BY <1>2, <2>3, <3>1, RangesGrow, Zenon
    <3>3. \/ next < Len(Objects) /\ next' = next + 1 /\ phase' = phase
          \/ next' = 1 /\ phase' = "fields"
      BY <1>8, <2>3, Zenon DEF FindObject
    <3>4. Place
      BY <2>1, <3>3, Lengths DEF Counted, Phases
    <3> QED
      BY <3>2, <3>4, Zenon DEF ScanInv
  <2> QED
    BY <2>2, <2>3, Zenon
<1>9. CASE ReadRequired
  <2>1. phase = "fields" /\ ReadField(Fields, "last")
    BY <1>9, Zenon DEF ReadRequired
  <2>2. \/ Reject
        \/ next < Len(Fields) /\ next' = next + 1 /\ phase' = phase /\ range' = range
        \/ next' = 1 /\ phase' = "last" /\ range' = range
    BY <2>1, Zenon DEF ReadField
  <2>3. Place
    BY <1>1, <2>1, <2>2, Lengths DEF Reject, Counted, Phases
  <2> QED
    BY <1>3, <2>2, <2>3, Zenon DEF Reject, ScanInv
<1>10. CASE FindLast
  <2> DEFINE r == ObjectRange(body, Whole.start, Whole.end, "last_transaction")
  <2>1. phase = "last" /\ next' = next /\ phase' \in {"finish", "optional"}
    BY <1>10, Zenon DEF FindLast
  <2>2. Place
    BY <1>1, <2>1 DEF Counted, Phases
  <2>3. CASE r.end = 0
    BY <1>3, <1>10, <2>2, <2>3, Zenon DEF FindLast, ScanInv
  <2>4. CASE r.end # 0
    <3>1. range' = With(range, "last_transaction", r)
      BY <1>10, <2>4, Zenon DEF FindLast
    <3>2. Ranges
      BY <1>2, <2>4, <3>1, RangesGrow, Zenon
    <3> QED
      BY <2>2, <3>2, Zenon DEF ScanInv
  <2> QED
    BY <2>3, <2>4, Zenon
<1>11. CASE ReadOptional
  <2>1. phase = "optional" /\ ReadField(LastFields, "finish")
    BY <1>11, Zenon DEF ReadOptional
  <2>2. \/ Reject
        \/ next < Len(LastFields) /\ next' = next + 1 /\ phase' = phase /\ range' = range
        \/ next' = 1 /\ phase' = "finish" /\ range' = range
    BY <2>1, Zenon DEF ReadField
  <2>3. Place
    BY <1>1, <2>1, <2>2, Lengths DEF Reject, Counted, Phases
  <2> QED
    BY <1>3, <2>2, <2>3, Zenon DEF Reject, ScanInv
<1>12. CASE Finish
  <2>1. Place
    BY <1>1, <1>12 DEF Finish, Counted, Phases
  <2> QED
    BY <1>3, <1>12, <2>1, Zenon DEF Finish, ScanInv
<1>13. CASE UNCHANGED vars
  <2>1. Place
    BY <1>1, <1>13 DEF vars, Counted, Phases
  <2> QED
    BY <1>3, <1>13, <2>1, Zenon DEF vars, ScanInv
<1> QED
  BY <1>4, <1>5, <1>6, <1>7, <1>8, <1>9, <1>10, <1>11, <1>12, <1>13, Zenon DEF Next

\* Build reads no byte outside of the body: whatever the request, the ranges it
\* searches lie in the body and go from an opening brace to a closing one.
THEOREM TypeCorrect == Spec => []TypeOK
<1>1. ScanInv => TypeOK
  <2>1. Counted => next \in 1..Len(Fields)
    BY Lengths DEF Counted
  <2> QED
    BY <2>1, Zenon DEF ScanInv, TypeOK, RangeOK, Phases
<1> QED
  BY <1>1, ScanInit, ScanStep, PTL DEF Spec
-----------------------------------------------------------------------------
(* Dates counted one by one: there are as many before a date as the        *)
(* difference of day numbers says.                                         *)

FirstYear == 2024

\* The dates from the first of January of that year on, and before a date.
Precedes(e, y, m, d) ==
  e[1] < y \/ (e[1] = y /\ e[2] < m) \/ (e[1] = y /\ e[2] = m /\ e[3] < d)

Earlier(y, m, d) ==
  {e \in (FirstYear..y) \X (1..12) \X (1..31) : e[3] <= DaysIn(e[1], e[2]) /\ Precedes(e, y, m, d)}

LEMMA DatesBeforeIs ==
  ASSUME NEW t
  PROVE  DatesBefore(t) = Cardinality(Earlier(t.y, t.m, t.d))
<1>1. Monday.y = FirstYear
  BY DEF Monday, FirstYear
<1> QED
  BY <1>1, Zenon DEF DatesBefore, Earlier, Precedes

\* What the provers need of a date.
LEMMA DateNumbers ==
  ASSUME NEW y, NEW m, NEW d, IsDate(y, m, d)
  PROVE  /\ y \in Int /\ m \in 1..12 /\ d \in 1..31 /\ d <= DaysIn(y, m)
         /\ DaysIn(y, m) \in 28..31 /\ (m = 12 => DaysIn(y, m) = 31)
         /\ NextYear(y, m, d) \in Int /\ NextMonth(y, m, d) \in 1..12 /\ NextDay(y, m, d) \in 1..31
BY DEF IsDate, DaysIn, NextYear, NextMonth, NextDay

\* Between a date and the day after it there is no other date.
LEMMA NextToEachOther ==
  ASSUME NEW y, NEW m, NEW d, IsDate(y, m, d), NEW a \in Int, NEW b \in 1..12, NEW c \in 1..31,
         c <= DaysIn(a, b)
  PROVE  Precedes(<<a, b, c>>, NextYear(y, m, d), NextMonth(y, m, d), NextDay(y, m, d))
           <=> Precedes(<<a, b, c>>, y, m, d) \/ (a = y /\ b = m /\ c = d)
<1> DEFINE l == DaysIn(y, m)
<1>1. y \in Int /\ m \in 1..12 /\ d \in 1..31 /\ d <= l /\ l \in 28..31 /\ (m = 12 => l = 31)
  BY DateNumbers
<1>2. a = y /\ b = m => c <= l
  OBVIOUS
<1>3. /\ NextYear(y, m, d) = IF m = 12 /\ d = 31 THEN y + 1 ELSE y
      /\ NextMonth(y, m, d) = IF d < l THEN m ELSE IF m = 12 THEN 1 ELSE m + 1
      /\ NextDay(y, m, d) = IF d < l THEN d + 1 ELSE 1
  BY Zenon DEF NextYear, NextMonth, NextDay
<1> HIDE DEF l
<1>4. CASE d < l
  BY <1>1, <1>3, <1>4 DEF Precedes
<1>5. CASE ~(d < l)
  BY <1>1, <1>2, <1>3, <1>5 DEF Precedes
<1> QED
  BY <1>4, <1>5

\* The day after a date has one date more before it.
LEMMA EarlierStep ==
  ASSUME NEW y, NEW m, NEW d, IsDate(y, m, d), y >= FirstYear
  PROVE  /\ Earlier(NextYear(y, m, d), NextMonth(y, m, d), NextDay(y, m, d))
              = Earlier(y, m, d) \cup {<<y, m, d>>}
         /\ <<y, m, d>> \notin Earlier(y, m, d)
<1> DEFINE yy == NextYear(y, m, d)
           mm == NextMonth(y, m, d)
           dd == NextDay(y, m, d)
<1>1. y \in Int /\ m \in 1..12 /\ d \in 1..31 /\ d <= DaysIn(y, m) /\ yy \in Int /\ mm \in 1..12 /\ dd \in 1..31
  BY DateNumbers
<1>2. \A a \in Int, b \in 1..12, c \in 1..31 : c <= DaysIn(a, b) =>
        (Precedes(<<a, b, c>>, yy, mm, dd) <=> Precedes(<<a, b, c>>, y, m, d) \/ (a = y /\ b = m /\ c = d))
  BY NextToEachOther
<1>3. yy >= y
  BY <1>1 DEF NextYear
<1> HIDE DEF yy, mm, dd
<1>4. \A a, b, c : <<a, b, c>> \in Earlier(yy, mm, dd) <=>
        /\ a \in FirstYear..yy /\ b \in 1..12 /\ c \in 1..31 /\ c <= DaysIn(a, b)
        /\ Precedes(<<a, b, c>>, yy, mm, dd)
  BY DEF Earlier
<1>5. \A a, b, c : <<a, b, c>> \in Earlier(y, m, d) <=>
        /\ a \in FirstYear..y /\ b \in 1..12 /\ c \in 1..31 /\ c <= DaysIn(a, b)
        /\ Precedes(<<a, b, c>>, y, m, d)
  BY DEF Earlier
<1>6. \A a \in Int : \A b, c : (Precedes(<<a, b, c>>, yy, mm, dd) => a <= yy) /\ (Precedes(<<a, b, c>>, y, m, d) => a <= y)
  BY <1>1 DEF Precedes
<1>7. FirstYear \in Int
  BY DEF FirstYear
<1>8. \A a, b, c : <<a, b, c>> \in Earlier(yy, mm, dd) <=>
        <<a, b, c>> \in Earlier(y, m, d) \/ (a = y /\ b = m /\ c = d)
  <2> TAKE a, b, c
  <2>1. CASE a \in Int /\ b \in 1..12 /\ c \in 1..31 /\ c <= DaysIn(a, b)
    <3>1. Precedes(<<a, b, c>>, yy, mm, dd) <=> Precedes(<<a, b, c>>, y, m, d) \/ (a = y /\ b = m /\ c = d)
      BY <1>2, <2>1
    <3>2. (Precedes(<<a, b, c>>, yy, mm, dd) => a <= yy) /\ (Precedes(<<a, b, c>>, y, m, d) => a <= y)
      BY <1>6, <2>1
    <3>3. <<a, b, c>> \in Earlier(yy, mm, dd) <=> a >= FirstYear /\ Precedes(<<a, b, c>>, yy, mm, dd)
      BY <1>1, <1>4, <1>7, <2>1, <3>2
    <3>4. <<a, b, c>> \in Earlier(y, m, d) <=> a >= FirstYear /\ Precedes(<<a, b, c>>, y, m, d)
      BY <1>1, <1>5, <1>7, <2>1, <3>2
    <3> QED
      BY <3>1, <3>3, <3>4
  <2>2. CASE ~(a \in Int /\ b \in 1..12 /\ c \in 1..31 /\ c <= DaysIn(a, b))
    <3>1. \A z : z \in FirstYear..yy \/ z \in FirstYear..y => z \in Int
      BY <1>1, <1>7
    <3>2. <<a, b, c>> \notin Earlier(yy, mm, dd) /\ <<a, b, c>> \notin Earlier(y, m, d)
      BY <1>4, <1>5, <2>2, <3>1, Zenon
    <3> QED
      BY <1>1, <2>2, <3>2
  <2> QED
    BY <2>1, <2>2
<1>9. \A e \in Earlier(yy, mm, dd) \cup Earlier(y, m, d) : \E a, b, c : e = <<a, b, c>>
  BY DEF Earlier
<1>10. ~Precedes(<<y, m, d>>, y, m, d)
  BY <1>1 DEF Precedes
<1>11. <<y, m, d>> \notin Earlier(y, m, d)
  BY <1>5, <1>10, Zenon
<1>12. Earlier(yy, mm, dd) = Earlier(y, m, d) \cup {<<y, m, d>>}
  <2>1. \A a, b, c : <<a, b, c>> = <<y, m, d>> <=> (a = y /\ b = m /\ c = d)
    OBVIOUS
  <2>2. ASSUME NEW e, e \in Earlier(yy, mm, dd) PROVE e \in Earlier(y, m, d) \cup {<<y, m, d>>}
    <3>1. PICK a, b, c : e = <<a, b, c>>
      BY <1>9, <2>2, Zenon
    <3> QED
      BY <1>8, <2>1, <2>2, <3>1, Zenon
  <2>3. ASSUME NEW e, e \in Earlier(y, m, d) PROVE e \in Earlier(yy, mm, dd)
    <3>1. PICK a, b, c : e = <<a, b, c>>
      BY <1>9, <2>3, Zenon
    <3> QED
      BY <1>8, <2>3, <3>1, Zenon
  <2>4. <<y, m, d>> \in Earlier(yy, mm, dd)
    BY <1>8, Zenon
  <2> QED
    BY <2>2, <2>3, <2>4, Zenon
<1> QED
  BY <1>11, <1>12, Zenon DEF yy, mm, dd

\* Each date but the first is the day after another one.
Order(y, m, d) == (y - FirstYear) * 400 + m * 32 + d

LEMMA DayBefore ==
  ASSUME NEW y, NEW m, NEW d, IsDate(y, m, d), y >= FirstYear, y # FirstYear \/ m # 1 \/ d # 1
  PROVE  \E a, b, c : /\ IsDate(a, b, c) /\ a >= FirstYear
                      /\ y = NextYear(a, b, c) /\ m = NextMonth(a, b, c) /\ d = NextDay(a, b, c)
                      /\ Order(a, b, c) < Order(y, m, d)
<1>1. y \in Int /\ m \in 1..12 /\ d \in 1..31 /\ d <= DaysIn(y, m) /\ FirstYear \in Int
  BY DateNumbers DEF FirstYear
<1>2. \A a \in Int, b \in 1..12 : DaysIn(a, b) \in 28..31 /\ (b = 12 => DaysIn(a, b) = 31)
  BY DEF DaysIn
<1>3. CASE d > 1
  <2>1. /\ IsDate(y, m, d - 1) /\ y = NextYear(y, m, d - 1) /\ m = NextMonth(y, m, d - 1)
        /\ d = NextDay(y, m, d - 1)
    BY <1>1, <1>2, <1>3 DEF IsDate, NextYear, NextMonth, NextDay
  <2>2. Order(y, m, d - 1) < Order(y, m, d)
    BY <1>1 DEF Order
  <2> QED
    BY <2>1, <2>2, Zenon
<1>4. CASE d = 1 /\ m > 1
  <2> DEFINE b == m - 1
             c == DaysIn(y, m - 1)
  <2>1. b \in 1..12 /\ c \in 28..31 /\ b # 12
    BY <1>1, <1>2, <1>4
  <2>2. IsDate(y, b, c) /\ y = NextYear(y, b, c) /\ m = NextMonth(y, b, c) /\ d = NextDay(y, b, c)
    BY <1>1, <1>4, <2>1 DEF IsDate, NextYear, NextMonth, NextDay
  <2>3. Order(y, b, c) < Order(y, m, d)
    <3> HIDE DEF c
    <3> QED
      BY <1>1, <1>4, <2>1 DEF Order
  <2> QED
    BY <2>2, <2>3, Zenon
<1>5. CASE d = 1 /\ m = 1
  <2> DEFINE a == y - 1
  <2>1. a \in Int /\ a >= FirstYear
    BY <1>1, <1>5
  <2>2. DaysIn(a, 12) = 31
    BY <1>2, <2>1
  <2>3. IsDate(a, 12, 31) /\ y = NextYear(a, 12, 31) /\ m = NextMonth(a, 12, 31) /\ d = NextDay(a, 12, 31)
    BY <1>1, <1>5, <2>1, <2>2 DEF IsDate, NextYear, NextMonth, NextDay
  <2>4. Order(a, 12, 31) < Order(y, m, d)
    BY <1>1, <1>5 DEF Order
  <2> QED
    BY <2>1, <2>3, <2>4, Zenon
<1> QED
  BY <1>1, <1>3, <1>4, <1>5

\* The dates before a date are as many as its day number says.
Numbered(y, m, d) ==
  /\ IsFiniteSet(Earlier(y, m, d))
  /\ Cardinality(Earlier(y, m, d)) = DaysFromCivil(y, m, d) - DaysFromCivil(FirstYear, 1, 1)

LEMMA DayNumbersAreIntegers ==
  ASSUME NEW y \in Int, NEW m \in 1..12, NEW d \in Int
  PROVE  DaysFromCivil(y, m, d) \in Int
<1>1. ShiftedYear(y, m) \in Int /\ DayOfYear(m, d) \in Int
  BY SMT DEF ShiftedYear, DayOfYear, MonthFromMarch
<1>2. YearStart(ShiftedYear(y, m)) \in Int
  BY <1>1, SMT DEF YearStart
<1> QED
  BY <1>1, <1>2, DaysByYear, SMT

LEMMA NumberedFirst == Numbered(FirstYear, 1, 1)
<1>1. \A a \in FirstYear..FirstYear, b \in 1..12, c \in 1..31 : ~Precedes(<<a, b, c>>, FirstYear, 1, 1)
  BY DEF Precedes, FirstYear
<1>2. Earlier(FirstYear, 1, 1) = {}
  <2> SUFFICES ASSUME NEW e \in Earlier(FirstYear, 1, 1) PROVE FALSE
    OBVIOUS
  <2>1. e \in (FirstYear..FirstYear) \X (1..12) \X (1..31) /\ Precedes(e, FirstYear, 1, 1)
    BY Zenon DEF Earlier
  <2>2. PICK a \in FirstYear..FirstYear, b \in 1..12, c \in 1..31 : e = <<a, b, c>>
    BY <2>1
  <2> QED
    BY <1>1, <2>1, <2>2, Zenon
<1>3. DaysFromCivil(FirstYear, 1, 1) \in Int
  BY DayNumbersAreIntegers DEF FirstYear
<1> QED
  BY <1>2, <1>3, FS_EmptySet DEF Numbered

LEMMA NumberedStep ==
  ASSUME NEW a, NEW b, NEW c, IsDate(a, b, c), a >= FirstYear, Numbered(a, b, c)
  PROVE  Numbered(NextYear(a, b, c), NextMonth(a, b, c), NextDay(a, b, c))
<1> DEFINE S == Earlier(a, b, c)
           T == Earlier(NextYear(a, b, c), NextMonth(a, b, c), NextDay(a, b, c))
           e == <<a, b, c>>
           n == DaysFromCivil(a, b, c)
           n1 == DaysFromCivil(NextYear(a, b, c), NextMonth(a, b, c), NextDay(a, b, c))
           n0 == DaysFromCivil(FirstYear, 1, 1)
<1>1. T = S \cup {e} /\ e \notin S
  BY EarlierStep
<1>2. IsFiniteSet(S) /\ Cardinality(S) = n - n0
  BY DEF Numbered
<1>3. n1 = n + 1
  BY DaysAreCounted
<1>4. n \in Int /\ n0 \in Int
  <2>1. a \in Int /\ b \in 1..12 /\ c \in Int
    BY DateNumbers
  <2>2. FirstYear \in Int /\ 1 \in 1..12 /\ 1 \in Int
    BY DEF FirstYear
  <2> QED
    BY <2>1, <2>2, DayNumbersAreIntegers, Zenon
<1> HIDE DEF S, e, n, n0, n1, T
<1>5. IsFiniteSet(T) /\ Cardinality(T) = Cardinality(S) + 1
  BY <1>1, <1>2, FS_AddElement
<1>6. Cardinality(T) = n1 - n0
  BY <1>2, <1>3, <1>4, <1>5
<1> QED
  BY <1>5, <1>6 DEF Numbered, T, n1, n0

\* By the least counterexample in the order of the dates.
LEMMA DatesAreNumbered ==
  ASSUME NEW y, NEW m, NEW d, IsDate(y, m, d), y >= FirstYear
  PROVE  Numbered(y, m, d)
<1> DEFINE At(k, a, b, c) == IsDate(a, b, c) /\ a >= FirstYear /\ Order(a, b, c) = k
           Bad == {k \in Nat : \E a, b, c : At(k, a, b, c) /\ ~Numbered(a, b, c)}
<1>1. \A a, b, c : IsDate(a, b, c) /\ a >= FirstYear => Order(a, b, c) \in Nat
  BY DateNumbers DEF Order, FirstYear
<1> SUFFICES ASSUME Bad # {} PROVE FALSE
  <2>1. Order(y, m, d) \in Nat
    BY <1>1
  <2> QED
    BY <2>1, Zenon
<1>2. Bad \in SUBSET Nat
  OBVIOUS
<1>3. PICK k \in Bad : \A l \in Bad : k <= l
  <2> HIDE DEF Bad
  <2> QED
    BY <1>2, LeastNatural, Zenon
<1>4. PICK a, b, c : At(k, a, b, c) /\ ~Numbered(a, b, c)
  BY <1>3, Zenon
<1>5. IsDate(a, b, c) /\ a >= FirstYear /\ Order(a, b, c) = k
  BY <1>4, Zenon
<1>6. a # FirstYear \/ b # 1 \/ c # 1
  BY <1>4, NumberedFirst, Zenon
<1>7. PICK u, v, w : /\ IsDate(u, v, w) /\ u >= FirstYear
                     /\ a = NextYear(u, v, w) /\ b = NextMonth(u, v, w) /\ c = NextDay(u, v, w)
                     /\ Order(u, v, w) < k
  BY <1>5, <1>6, DayBefore, Zenon
<1> DEFINE l == Order(u, v, w)
<1>8. l \in Nat
  BY <1>1, <1>7, Zenon
<1>9. l < k
  BY <1>7
<1> HIDE DEF l
<1>10. ~(k <= l)
  BY <1>2, <1>8, <1>9
<1>11. l \notin Bad
  BY <1>3, <1>10, Zenon
<1>12. Numbered(u, v, w)
  BY <1>7, <1>8, <1>11, Zenon DEF l
<1>13. Numbered(a, b, c)
  BY <1>7, <1>12, NumberedStep, Zenon
<1> QED
  BY <1>4, <1>13, Zenon

\* The dates before t, counted one by one from the year of Monday on, are as
\* many as daysFromCivil says: the arithmetic with shifted months misses no date.
THEOREM DatesAreCounted ==
  ASSUME NEW t, IsDate(t.y, t.m, t.d), t.y >= Monday.y
  PROVE  /\ DatesBefore(t) \in Nat
         /\ DatesBefore(t) = DaysFromCivil(t.y, t.m, t.d) - DaysFromCivil(Monday.y, 1, 1)
<1>1. Monday.y = FirstYear
  BY DEF Monday, FirstYear
<1>2. Numbered(t.y, t.m, t.d)
  BY <1>1, DatesAreNumbered, Zenon
<1>3. Cardinality(Earlier(t.y, t.m, t.d)) \in Nat
  BY <1>2, FS_CardinalityType, Zenon DEF Numbered
<1> QED
  BY <1>1, <1>2, <1>3, DatesBeforeIs, Zenon DEF Numbered

\* The day number of the first of January of the year of Monday.
Zero == DaysFromCivil(Monday.y, 1, 1)

\* The weekday and the minutes of two timestamps that are dates, by counting.
LEMMA TimesAreNumbers ==
  ASSUME NEW s \in DOMAIN Stamp, Dated(Stamp[s])
  PROVE  LET t == Stamp[s]
         IN  /\ t.hh \in Nat /\ t.mm \in Nat /\ t.ss \in Nat
             /\ DatesBefore(t) \in Nat /\ DaysFromCivil(t.y, t.m, t.d) \in Int
             /\ DatesBefore(t) = DaysFromCivil(t.y, t.m, t.d) - Zero
<1> DEFINE t == Stamp[s]
<1>1. IsDate(t.y, t.m, t.d) /\ t.y >= Monday.y
  BY Zenon DEF Dated
<1>2. t.hh \in Nat /\ t.mm \in Nat /\ t.ss \in Nat
  BY SymbolsAssumption
<1> HIDE DEF t
<1>3. DatesBefore(t) \in Nat /\ DatesBefore(t) = DaysFromCivil(t.y, t.m, t.d) - Zero
  BY <1>1, DatesAreCounted, Zenon DEF Zero
<1>4. t.y \in Int /\ t.m \in 1..12 /\ t.d \in Int
  BY <1>1, DateNumbers
<1>5. DaysFromCivil(t.y, t.m, t.d) \in Int
  BY <1>4, DayNumbersAreIntegers, Zenon
<1> QED
  BY <1>1, <1>2, <1>3, <1>5, Zenon DEF t

LEMMA FirstNumbers ==
  /\ Zero = 19723 /\ DatesBefore(Monday) = 19779 - 19723
  /\ IsDate(Monday.y, Monday.m, Monday.d) /\ Monday.y >= Monday.y
<1>1. Monday.y = 2024 /\ Monday.m = 2 /\ Monday.d = 26
  BY DEF Monday
<1>2. DaysFromCivil(2024, 1, 1) = 19723 /\ DaysFromCivil(2024, 2, 26) = 19779
  BY SMT DEF DaysFromCivil, ShiftedYear, DayOfYear, MonthFromMarch
<1>3. IsDate(2024, 2, 26)
  BY DEF IsDate, DaysIn, Leap
<1>4. Zero = 19723 /\ DaysFromCivil(Monday.y, Monday.m, Monday.d) = 19779
  BY <1>1, <1>2 DEF Zero
<1>5. IsDate(Monday.y, Monday.m, Monday.d) /\ Monday.y >= Monday.y
  BY <1>1, <1>3
<1>6. DatesBefore(Monday) = DaysFromCivil(Monday.y, Monday.m, Monday.d) - Zero
  BY <1>5, DatesAreCounted, Zenon DEF Zero
<1> QED
  BY <1>4, <1>5, <1>6

\* The weekday is the number of dates since a Monday, modulo seven.
LEMMA WeekdayIs ==
  ASSUME NEW s \in DOMAIN Stamp, Dated(Stamp[s])
  PROVE  Ratio(WeekdayMondayZero(Stamp[s]), 6) = <<(DatesBefore(Stamp[s]) - DatesBefore(Monday)) % 7, 6>>
<1> DEFINE t == Stamp[s]
           n == DaysFromCivil(t.y, t.m, t.d)
           a == DatesBefore(t)
           b == DatesBefore(Monday)
<1>1. n \in Int /\ a = n - Zero
  BY TimesAreNumbers, Zenon
<1>2. Zero = 19723 /\ b = 19779 - 19723
  BY FirstNumbers
<1>3. WeekdayMondayZero(t) = (n + 3) % 7
  BY Zenon DEF WeekdayMondayZero
<1> HIDE DEF t, n, a, b
<1>4. (n + 3) % 7 = (a - b) % 7 /\ (n + 3) % 7 \in 0..6
  BY <1>1, <1>2
<1> DEFINE w == (n + 3) % 7
<1>5. w \in 0..6
  BY <1>4
<1> HIDE DEF w
<1>6. Ratio(w, 6) = <<w, 6>>
  BY <1>5 DEF Ratio
<1> QED
  BY <1>3, <1>4, <1>6, Zenon DEF w, t, a, b

\* The minutes between two timestamps, by counting.
LEMMA MinutesAre ==
  ASSUME NEW s \in DOMAIN Stamp, NEW u \in DOMAIN Stamp, Dated(Stamp[s]), Dated(Stamp[u])
  PROVE  LET d == Seconds(Stamp[s]) - Seconds(Stamp[u])
         IN  /\ MinutesBetween(Stamp[s], Stamp[u]) = (IF d < 0 THEN -d ELSE d) \div 60
             /\ MinutesBetween(Stamp[s], Stamp[u]) \in Int
<1> DEFINE t == Stamp[s]
           v == Stamp[u]
           n == DaysFromCivil(t.y, t.m, t.d)
           m == DaysFromCivil(v.y, v.m, v.d)
           x == t.hh * 3600 + t.mm * 60 + t.ss
           z == v.hh * 3600 + v.mm * 60 + v.ss
<1>1. /\ n \in Int /\ DatesBefore(t) = n - Zero /\ m \in Int /\ DatesBefore(v) = m - Zero
      /\ t.hh \in Nat /\ t.mm \in Nat /\ t.ss \in Nat /\ v.hh \in Nat /\ v.mm \in Nat /\ v.ss \in Nat
  BY TimesAreNumbers, Zenon
<1>0. Zero \in Int
  BY FirstNumbers
<1> HIDE DEF n, m, t, v
<1>2. x \in Nat /\ z \in Nat
  BY <1>1
<1>3. /\ Seconds(t) = (n - Zero) * 86400 + x /\ Seconds(v) = (m - Zero) * 86400 + z
      /\ IsoToEpochSeconds(t) = n * 86400 + x /\ IsoToEpochSeconds(v) = m * 86400 + z
  BY <1>0, <1>1 DEF Seconds, IsoToEpochSeconds, n, m
<1> HIDE DEF x, z
<1> DEFINE d == Seconds(t) - Seconds(v)
           e == IsoToEpochSeconds(t) - IsoToEpochSeconds(v)
<1>4. d = e /\ e \in Int
  BY <1>0, <1>1, <1>2, <1>3
<1>5. MinutesBetween(t, v) = (IF e < 0 THEN -e ELSE e) \div 60
  BY Zenon DEF MinutesBetween
<1> HIDE DEF d, e
<1>6. (IF d < 0 THEN -d ELSE d) \div 60 \in Int
  BY <1>4
<1> QED
  BY <1>4, <1>5, <1>6, Zenon DEF d, t, v

\* A ratio is no sentinel.
LEMMA RatioIs ==
  ASSUME NEW x, NEW m \in Nat, m > 1
  PROVE  Ratio(x, m) # <<-1, 1>>
BY DEF Ratio

=============================================================================
