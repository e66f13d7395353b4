------------------------------ MODULE Vectorize ------------------------------
(***************************************************************************)
(* From the start of a server to the query vector of a request: the risk   *)
(* table is loaded (mcc.Load, its entries in any order), then a body is    *)
(* scanned look-up by look-up (vectorize.Build) and either rejected with   *)
(* ErrParse or turned into the 14 features.                                *)
(*                                                                         *)
(* A request is a JSON value and its text: the client may write the        *)
(* members of every object in any order, with or without spaces.  Floats   *)
(* are exact here: a feature is a pair <<numerator, denominator>>.         *)
(***************************************************************************)
EXTENDS JsonScan, Calendar, Mcc, SequencesExt, FiniteSets

CONSTANTS
  Numbers,     \* the symbols that are numbers, and do not only begin with one
  Stamp,       \* the strings of 19 characters or more: symbols -> what is read
               \* at the places of the year, the month, ..., date or not
  Spelling,    \* the characters of the symbols used as merchant categories
  Requests,    \* a sequence of JSON objects
  Orders,      \* how a client may order n members: functions n -> permutation
  TableFiles   \* the contents of the risk file: sequences of [key, risk]

\* An object is a sequence of members [key, kind, val].  kind is "lit" (a
\* number, true, false or null, val its symbols), "str" (val its symbols), "arr"
\* (val a sequence of such strings) or "obj" (val an object of the others).
Plain   == [key : STRING, kind : {"lit", "str"}, val : Seq(STRING)]
             \cup [key : STRING, kind : {"arr"}, val : Seq(Seq(STRING))]
Members == Plain \cup [key : STRING, kind : {"obj"}, val : Seq(Plain)]

\* The orders are defined for a number n of members.
Orderly(n) == \A o \in Orders : n \in DOMAIN o /\ o[n] \in Bijection(1..n, 1..n)

ASSUME RequestsAssumption ==
  /\ Requests \in Seq(Seq(Members))
  /\ \A r \in 1..Len(Requests) :
       /\ Orderly(Len(Requests[r]))
       /\ \A i \in 1..Len(Requests[r]) :
            Requests[r][i].kind = "obj" => Orderly(Len(Requests[r][i].val))

ASSUME TablesAssumption ==
  \A f \in TableFiles : f \in Seq([key : Seq(0..10), risk : 0..100])

\* Any characters are read as some natural numbers; numbers and truth values are
\* not punctuation marks, nor what stands for no value.
ASSUME SymbolsAssumption ==
  /\ \A s \in DOMAIN Stamp :
       {Stamp[s].y, Stamp[s].m, Stamp[s].d, Stamp[s].hh, Stamp[s].mm, Stamp[s].ss} \subseteq Nat
  /\ {Quote, "{", "[", NotFound[1]} \cap (DOMAIN Numeral \cup DOMAIN Truth) = {}
  /\ \A s \in DOMAIN Truth : Truth[s] \in BOOLEAN

String(s) == <<Quote>> \o s \o <<Quote>>

\* The parts with commas between them, in brackets.
Listed(open, parts, close, gap) ==
  open \o FlattenSeq([i \in 1..Len(parts) |->
            IF i = 1 THEN parts[i] ELSE <<",">> \o gap \o parts[i]]) \o gap \o close

PlainText(m, gap) ==
  CASE m.kind = "lit" -> m.val
    [] m.kind = "str" -> String(m.val)
    [] m.kind = "arr" -> Listed(<<"[">>, [i \in 1..Len(m.val) |-> String(m.val[i])], <<"]">>, gap)

\* An object whose values have the given texts.
ObjectText(members, texts, order, gap) ==
  LET n       == Len(members)
      pair(i) == String(<<members[i].key>>) \o gap \o <<":">> \o gap \o texts[i]
  IN  Listed(<<"{">>, [i \in 1..n |-> pair(order[n][i])], <<"}">>, gap)

ValueText(m, order, gap) ==
  IF m.kind = "obj"
  THEN ObjectText(m.val, [i \in 1..Len(m.val) |-> PlainText(m.val[i], gap)], order, gap)
  ELSE PlainText(m, gap)

Text(members, order, gap) ==
  ObjectText(members, [i \in 1..Len(members) |-> ValueText(members[i], order, gap)], order, gap)

VARIABLES
  request,     \* the JSON object that was sent
  body,        \* its text
  risks,       \* the risk table
  file, todo,  \* the risk file that is loaded, its entries not yet applied
  phase,       \* "start", "load", "objects", "fields", "last", "finish", ...
  next,        \* next object or field to look up
  range,       \* ranges of the objects found
  got,         \* values of the fields found
  q            \* the features

vars == <<request, body, risks, file, todo, phase, next, range, got, q>>

Init ==
  /\ \E r \in 1..Len(Requests), o \in Orders, gap \in {<<>>, <<" ">>} :
       /\ request = r
       /\ body = Text(Requests[r], o, gap)
  /\ risks = LoadDefaults /\ file = <<>> /\ todo = <<>>
  /\ phase = "start" /\ next = 1 /\ range = <<>> /\ got = <<>> /\ q = <<>>

-----------------------------------------------------------------------------
(* The risk table. *)

\* No file, an unreadable or malformed one, an empty one: the defaults stay,
\* with or without an error in the log.
KeepDefaults ==
  /\ phase = "start"
  /\ phase' = "objects"
  /\ UNCHANGED <<request, body, risks, file, todo, next, range, got, q>>

BeginLoad ==
  /\ phase = "start"
  /\ \E f \in TableFiles : f # <<>> /\ file' = f /\ todo' = f
  /\ risks' = LoadDefaults /\ phase' = "load"
  /\ UNCHANGED <<request, body, next, range, got, q>>

\* The iteration order of a Go map is arbitrary.
ApplyEntry ==
  /\ phase = "load" /\ todo # <<>>
  /\ \E i \in 1..Len(todo) : /\ risks' = Apply(risks, todo[i].key, todo[i].risk)
                             /\ todo' = RemoveAt(todo, i)
  /\ UNCHANGED <<request, body, file, phase, next, range, got, q>>

EndLoad ==
  /\ phase = "load" /\ todo = <<>>
  /\ phase' = "objects"
  /\ UNCHANGED <<request, body, risks, file, todo, next, range, got, q>>

-----------------------------------------------------------------------------
(* Build. *)

Whole   == [start |-> 1, end |-> Len(body) + 1]
Objects == <<"transaction", "customer", "merchant", "terminal">>

Field(obj, key, kind) == [obj |-> obj, key |-> key, kind |-> kind]

Fields == <<
  Field("transaction", "amount", "number"), Field("transaction", "installments", "number"),
  Field("transaction", "requested_at", "stamp"),
  Field("customer", "avg_amount", "number"), Field("customer", "tx_count_24h", "number"),
  Field("merchant", "id", "string"), Field("merchant", "mcc", "string"),
  Field("merchant", "avg_amount", "number"),
  Field("terminal", "is_online", "bool"), Field("terminal", "card_present", "bool"),
  Field("terminal", "km_from_home", "number") >>

LastFields == << Field("last_transaction", "timestamp", "stamp"),
                 Field("last_transaction", "km_from_current", "number") >>

Reject == phase' = "rejected" /\ UNCHANGED <<next, range, got>>

FindObject ==
  /\ phase = "objects"
  /\ LET r == ObjectRange(body, Whole.start, Whole.end, Objects[next])
     IN  IF r.end = 0 THEN Reject
         ELSE /\ range' = With(range, Objects[next], r)
              /\ IF next < Len(Objects) THEN next' = next + 1 /\ UNCHANGED phase
                 ELSE next' = 1 /\ phase' = "fields"
              /\ UNCHANGED got
  /\ UNCHANGED <<request, body, risks, file, todo, q>>

\* A mutant: keys are searched in the whole body.
ValueAnywhere(f) ==
  LET s == JsonString(body, Whole, f.key)
  IN  CASE f.kind = "number" -> JsonNumber(body, Whole, f.key)
        [] f.kind = "bool"   -> JsonBool(body, Whole, f.key)
        [] f.kind = "string" -> s
        [] f.kind = "stamp"  -> IF s \in DOMAIN Stamp THEN s ELSE NotFound

\* A timestamp is accepted when it is long enough, whatever its characters.
Value(f) ==
  LET r == range[f.obj]
      s == JsonString(body, r, f.key)
  IN  CASE f.kind = "number" -> JsonNumber(body, r, f.key)
        [] f.kind = "bool"   -> JsonBool(body, r, f.key)
        [] f.kind = "string" -> s
        [] f.kind = "stamp"  -> IF s \in DOMAIN Stamp THEN s ELSE NotFound

ReadField(fields, then) ==
  LET f == fields[next]
      v == Value(f)
  IN  IF v = NotFound THEN Reject
      ELSE /\ got' = With(got, <<f.obj, f.key>>, v)
           /\ IF next < Len(fields) THEN next' = next + 1 /\ UNCHANGED phase
              ELSE next' = 1 /\ phase' = then
           /\ UNCHANGED range

ReadRequired ==
  /\ phase = "fields"
  /\ ReadField(Fields, "last")
  /\ UNCHANGED <<request, body, risks, file, todo, q>>

\* last_transaction is looked at only if its value is an object.
FindLast ==
  /\ phase = "last"
  /\ LET r == ObjectRange(body, Whole.start, Whole.end, "last_transaction")
     IN  IF r.end = 0 THEN phase' = "finish" /\ UNCHANGED range
         ELSE phase' = "optional" /\ range' = With(range, "last_transaction", r)
  /\ UNCHANGED <<request, body, risks, file, todo, next, got, q>>

ReadOptional ==
  /\ phase = "optional"
  /\ ReadField(LastFields, "finish")
  /\ UNCHANGED <<request, body, risks, file, todo, q>>

\* clamp01(x / m)
Ratio(x, m) == <<IF x < 0 THEN 0 ELSE IF x > m THEN m ELSE x, m>>

IsoHourUTC(t) == IF t.hh > 23 THEN 23 ELSE t.hh

Number(obj, key) == Numeral[got[<<obj, key>>][1]]
Time(obj, key)   == Stamp[got[<<obj, key>>]]
Flag(obj, key)   == IF Truth[got[<<obj, key>>][1]] THEN <<1, 1>> ELSE <<0, 1>>

\* The characters of a string; what is not in Spelling is not a category.
Characters(s) == IF Len(s) = 1 /\ s[1] \in DOMAIN Spelling THEN Spelling[s[1]] ELSE <<>>

Features ==
  LET amount == Number("transaction", "amount")
      avg    == Number("customer", "avg_amount")
      at     == Time("transaction", "requested_at")
      last   == "last_transaction" \in DOMAIN range
      known  == ArrayContainsString(body, range["customer"], "known_merchants",
                                    got[<<"merchant", "id">>])
  IN  << Ratio(amount, 10000),
         Ratio(Number("transaction", "installments"), 12),
         IF avg > 0 THEN Ratio(amount, 10 * avg) ELSE <<1, 1>>,
         Ratio(IsoHourUTC(at), 23),
         Ratio(WeekdayMondayZero(at), 6),
         IF last THEN Ratio(MinutesBetween(at, Time("last_transaction", "timestamp")), 1440)
                 ELSE <<-1, 1>>,
         IF last THEN Ratio(Number("last_transaction", "km_from_current"), 1000) ELSE <<-1, 1>>,
         Ratio(Number("terminal", "km_from_home"), 1000),
         Ratio(Number("customer", "tx_count_24h"), 20),
         Flag("terminal", "is_online"),
         Flag("terminal", "card_present"),
         IF known THEN <<0, 1>> ELSE <<1, 1>>,
         <<Get(risks, Characters(got[<<"merchant", "mcc">>])), 100>>,
         Ratio(Number("merchant", "avg_amount"), 10000) >>

Finish ==
  /\ phase = "finish"
  /\ q' = Features /\ phase' = "built"
  /\ UNCHANGED <<request, body, risks, file, todo, next, range, got>>

Next ==
  \/ KeepDefaults \/ BeginLoad \/ ApplyEntry \/ EndLoad
  \/ FindObject \/ ReadRequired \/ FindLast \/ ReadOptional \/ Finish

Spec == Init /\ [][Next]_vars

-----------------------------------------------------------------------------
(* Properties.  They read the request as a JSON value, not as a text. *)

Has(members, key)    == \E i \in 1..Len(members) : members[i].key = key
Member(members, key) == members[CHOOSE i \in 1..Len(members) : members[i].key = key]

Sent       == Requests[request]
Inner(obj) == Member(Sent, obj).val

IsObject(obj) == Has(Sent, obj) /\ Member(Sent, obj).kind = "obj"

\* What a getter takes for a value of the field.
Acceptable(f) ==
  /\ Has(Inner(f.obj), f.key)
  /\ LET m == Member(Inner(f.obj), f.key)
     IN  CASE f.kind = "number" -> m.kind = "lit" /\ m.val[1] \in DOMAIN Numeral
           [] f.kind = "bool"   -> m.kind = "lit" /\ m.val[1] \in DOMAIN Truth
           [] f.kind = "string" -> m.kind = "str"
           [] f.kind = "stamp"  -> m.kind = "str" /\ m.val \in DOMAIN Stamp

AllAcceptable ==
  /\ \A i \in 1..Len(Objects) : IsObject(Objects[i])
  /\ \A i \in 1..Len(Fields) : Acceptable(Fields[i])
  /\ IsObject("last_transaction") => \A i \in 1..Len(LastFields) : Acceptable(LastFields[i])

\* What is a value of the kind the field has: more than what is taken for one.
IsTimestamp(t) == IsDate(t.y, t.m, t.d) /\ t.hh <= 23 /\ t.mm <= 59 /\ t.ss <= 60

Sound(f) ==
  LET m == Member(Inner(f.obj), f.key)
  IN  CASE f.kind = "number" -> m.val[1] \in Numbers
        [] f.kind = "bool"   -> m.val[1] \in {"true", "false"}
        [] f.kind = "string" -> TRUE
        [] f.kind = "stamp"  -> IsTimestamp(Stamp[m.val])

WellFormed ==
  /\ AllAcceptable
  /\ \A i \in 1..Len(Fields) : Sound(Fields[i])
  /\ IsObject("last_transaction") => \A i \in 1..Len(LastFields) : Sound(LastFields[i])

\* The scanner searches keys as text and knows no escapes in the values it takes,
\* so not every JSON object is one it can read.  Those that are: keys are words,
\* no object has a key twice, and inside an object no key is one that Build
\* searches in the whole body; ...
Keyed(members) ==
  /\ \A i \in 1..Len(members) : members[i].key \notin {Quote, Backslash}
  /\ \A i, j \in 1..Len(members) : members[i].key = members[j].key => i = j

ObjectNames == {Objects[i] : i \in 1..Len(Objects)} \cup {"last_transaction"}
FieldNames  == {Fields[i].key : i \in 1..Len(Fields)}
                 \cup {LastFields[i].key : i \in 1..Len(LastFields)} \cup {"known_merchants"}

\* ... a number, true, false or null is one symbol; quotes in strings are
\* escaped; no string is, or ends with an escaped quote and, one of the names
\* (an id "customer", say, would be taken for the key); ...
Marks == {Quote, Backslash, " ", ",", ":", "[", "]", "{", "}"}

Strings(m) == CASE m.kind = "str" -> {m.val}
                [] m.kind = "arr" -> {m.val[i] : i \in 1..Len(m.val)}
                [] OTHER          -> {}

Escaped(s) ==
  LET escaped[p \in 1..(Len(s) + 1)] == p # 1 /\ s[p - 1] = Backslash /\ ~escaped[p - 1]
  IN  ~escaped[Len(s) + 1] /\ \A p \in 1..Len(s) : s[p] = Quote => escaped[p]

Mentions(t, name) == \E p \in 1..(Len(t) - 2) : t[p] = Quote /\ t[p + 1] = name /\ t[p + 2] = Quote

Clear(m) ==
  /\ m.kind = "lit" => Len(m.val) = 1 /\ m.val[1] \notin Marks
  /\ \A s \in Strings(m) :
       Escaped(s) /\ \A name \in ObjectNames \cup FieldNames : ~Mentions(String(s), name)

\* ... the strings that Build takes have no quotes in them; and what is no list
\* of merchants is not followed by a bracket the list could seem to begin with.
Taken(m) == \A s \in Strings(m) : s # NotFound /\ \A i \in 1..Len(s) : s[i] # Quote

Bracketless(inner) ==
  \A e \in 1..Len(inner) :
    /\ inner[e].kind # "arr" /\ inner[e].key # "["
    /\ \A s \in Strings(inner[e]) : \A p \in 1..Len(s) : s[p] # "["

Inside(inner) ==
  /\ Keyed(inner)
  /\ \A j \in 1..Len(inner) :
       /\ Clear(inner[j]) /\ inner[j].key \notin ObjectNames
       /\ inner[j].key \in FieldNames => Taken(inner[j])
       /\ inner[j].key = "known_merchants" /\ inner[j].kind # "arr" => Bracketless(inner)

Legible(members) ==
  /\ Keyed(members)
  /\ \A i \in 1..Len(members) :
       IF members[i].kind = "obj" THEN Inside(members[i].val) ELSE Clear(members[i])

\* The sequences of the scan stay in their bounds, and the ranges lie in the
\* body and begin and end with the braces of an object.
TypeOK ==
  /\ phase \in {"start", "load", "objects", "fields", "last", "optional", "finish",
               "built", "rejected"}
  /\ next \in 1..Len(Fields)
  /\ \A o \in DOMAIN range :
       /\ range[o].start \in 1..Len(body) /\ range[o].end \in 2..(Len(body) + 1)
       /\ body[range[o].start] = "{" /\ body[range[o].end - 1] = "}"

\* Every value found is the one of that member of that object, although keys
\* are searched as text, avg_amount occurs in two objects, id in two places,
\* and members come in any order, with any spaces and any inner strings.
ReadsItsOwnFields ==
  Legible(Sent) => \A f \in DOMAIN got :
    Has(Inner(f[1]), f[2]) /\ got[f] = Member(Inner(f[1]), f[2]).val

\* A request is rejected only if an object or a required member is missing or
\* has a value the getters do not take, and is turned into features only if none
\* is: no text between the members, and no order of them, makes a difference.  A
\* well-formed request, in particular, is never rejected.
RejectsTheUnacceptable ==
  Legible(Sent) => /\ phase = "rejected" => ~AllAcceptable
                   /\ phase = "built" => AllAcceptable

\* ErrParse "is returned when the JSON payload is missing required fields or has
\* malformed values".  It is not: a timestamp need only be long enough, a number
\* or a truth value only begin like one.
RejectsTheMalformed ==
  phase = "built" /\ Legible(Sent) => WellFormed

\* A Monday, and the dates from its year on: those that can be counted from it.
Monday == [y |-> 2024, m |-> 2, d |-> 26]

Dated(t) == IsDate(t.y, t.m, t.d) /\ t.y >= Monday.y

\* The dates of the calendar before t, from the year of Monday on, counted.
DatesBefore(t) ==
  Cardinality({e \in (Monday.y..t.y) \X (1..12) \X (1..31) :
    /\ e[3] <= DaysIn(e[1], e[2])
    /\ \/ e[1] < t.y
       \/ e[1] = t.y /\ e[2] < t.m
       \/ e[1] = t.y /\ e[2] = t.m /\ e[3] < t.d})

Seconds(t) == DatesBefore(t) * 86400 + t.hh * 3600 + t.mm * 60 + t.ss

\* Features that take more than one value, or a search, to find: the weekday
\* and the minutes since the last transaction agree, for dates, with the dates
\* counted one by one; there are two sentinels exactly when there is no last
\* transaction; and the merchant is unknown exactly when its id is not in the
\* customer's list.
FeaturesFollowTheRequest ==
  phase = "built" /\ Legible(Sent) =>
    LET at   == Time("transaction", "requested_at")
        last == IsObject("last_transaction")
        id   == Member(Inner("merchant"), "id").val
        cust == Inner("customer")
    IN  /\ Dated(at) => q[5] = <<(DatesBefore(at) - DatesBefore(Monday)) % 7, 6>>
        /\ last => LET before == Stamp[Member(Inner("last_transaction"), "timestamp").val]
                       s      == Seconds(at) - Seconds(before)
                   IN  Dated(at) /\ Dated(before) =>
                         q[6] = Ratio((IF s < 0 THEN -s ELSE s) \div 60, 1440)
        /\ ~last <=> q[6] = <<-1, 1>>
        /\ ~last <=> q[7] = <<-1, 1>>
        /\ q[12] = <<0, 1>> <=>
             /\ Has(cust, "known_merchants")
             /\ Member(cust, "known_merchants").kind = "arr"
             /\ \E i \in 1..Len(Member(cust, "known_merchants").val) :
                  Member(cust, "known_merchants").val[i] = id

\* Once the table is loaded, a category has the risk of an entry of the file
\* whose first four characters are its code, or its default if there is none:
\* no entry is lost, whatever the order in which they are applied.
RisksFollowTheFile ==
  phase \notin {"start", "load"} =>
    \A c \in DOMAIN LoadDefaults \cup {Code4(file[i].key) : i \in 1..Len(file)} :
      LET entries == {file[i].risk : i \in {j \in 1..Len(file) : Code4(file[j].key) = c}}
          risk    == IF c \in DOMAIN risks THEN risks[c] ELSE DefaultRisk
      IN  IF c # NoCode /\ entries # {} THEN risk \in entries
          ELSE risk = IF c \in DOMAIN LoadDefaults THEN LoadDefaults[c] ELSE DefaultRisk
=============================================================================
