----------------------------- MODULE MCVectorize -----------------------------
(***************************************************************************)
(* Small instances of Vectorize: requests that differ in the shape the     *)
(* scanner sees, several orders of their members, three risk files.        *)
(***************************************************************************)
EXTENDS Vectorize, TLC

SomeNumbers == {"0", "3", "100", "384", "20000", "-5"}

\* The last one begins with a number.
Numerals ==
  "0" :> 0 @@ "3" :> 3 @@ "100" :> 100 @@ "384" :> 384 @@ "20000" :> 20000 @@ "-5" :> -5
  @@ "12abc" :> 12

Truths == "true" :> TRUE @@ "false" :> FALSE @@ "truex" :> TRUE @@ "falsetto" :> FALSE

At(y, m, d, hh, mm, ss) ==
  [y |-> y, m |-> m, d |-> d, hh |-> hh, mm |-> mm, ss |-> ss]

\* Around a leap day, the end of a year, an hour no clock shows, and two strings
\* that are long enough and no dates.
Stamps ==
  <<"2024-02-28T23:59:30Z">> :> At(2024, 2, 28, 23, 59, 30)
  @@ <<"2024-02-29T12:00:00Z">> :> At(2024, 2, 29, 12, 0, 0)
  @@ <<"2024-03-01T00:00:29Z">> :> At(2024, 3, 1, 0, 0, 29)
  @@ <<"2024-12-31T23:00:00Z">> :> At(2024, 12, 31, 23, 0, 0)
  @@ <<"2025-01-01T99:10:00Z">> :> At(2025, 1, 1, 99, 10, 0)
  @@ <<"2023-02-29T12:00:00Z">> :> At(2023, 2, 29, 12, 0, 0)
  @@ <<"2024-13-45", " ", "99:99:99">> :> At(2024, 13, 45, 99, 99, 99)

Categories == "5411" :> <<5, 4, 1, 1>> @@ "7995" :> <<7, 9, 9, 5>> @@ "12" :> <<1, 2>>

Lit(key, v) == [key |-> key, kind |-> "lit", val |-> <<v>>]
Str(key, v) == [key |-> key, kind |-> "str", val |-> v]
Arr(key, v) == [key |-> key, kind |-> "arr", val |-> v]
Obj(key, v) == [key |-> key, kind |-> "obj", val |-> v]

Transaction(amount, at) ==
  Obj("transaction", <<Lit("amount", amount), Lit("installments", "3"), Str("requested_at", <<at>>)>>)
Customer(avg, known) ==
  Obj("customer", <<Lit("avg_amount", avg), Lit("tx_count_24h", "3"), known>>)
Merchant(id, mcc) ==
  Obj("merchant", <<Str("id", id), Str("mcc", <<mcc>>), Lit("avg_amount", "20000")>>)
Terminal(online, km) ==
  Obj("terminal", <<Lit("is_online", online), Lit("card_present", "true"), Lit("km_from_home", km)>>)
LastAt(at) ==
  Obj("last_transaction", <<Str("timestamp", <<at>>), Lit("km_from_current", "3")>>)
NoLast  == Lit("last_transaction", "null")
Id      == Str("id", <<"tx-1">>)
Known   == Arr("known_merchants", <<<<"MERC-1">>, <<"MERC-2">>>>)

SomeRequests == <<
  \* known merchant, a leap day between the transactions
  <<Id, Transaction("384", "2024-03-01T00:00:29Z"), Customer("100", Known),
    Merchant(<<"MERC-2">>, "5411"), Terminal("true", "3"), LastAt("2024-02-28T23:59:30Z")>>,
  \* no last transaction, unknown merchant whose id ends like a known one
  <<Id, Transaction("20000", "2024-12-31T23:00:00Z"), Customer("0", Known),
    Merchant(<<"MERC-1", "-", "1">>, "7995"), Terminal("false", "20000"), NoLast>>,
  \* the last one is later, an empty list, a category with too few digits
  <<Id, Transaction("-5", "2024-02-29T12:00:00Z"), Customer("3", Arr("known_merchants", <<>>)),
    Merchant(<<"MERC-1">>, "12"), Terminal("true", "0"), LastAt("2025-01-01T99:10:00Z")>>,
  \* braces, brackets and an escaped quote in strings that are not looked at
  <<Str("id", <<"}", "[", "{">>),
    Obj("transaction", <<Lit("amount", "3"), Lit("installments", "0"),
                         Str("requested_at", <<"2025-01-01T99:10:00Z">>),
                         Str("memo", <<Backslash, Quote, "}">>)>>),
    Customer("100", Arr("known_merchants", <<<<"]">>, <<"}">>>>)),
    Merchant(<<"}">>, "5411"), Terminal("true", "3"), LastAt("2024-12-31T23:00:00Z")>>,
  \* the list is null, no last transaction at all
  <<Id, Transaction("3", "2024-02-28T23:59:30Z"), Customer("100", Lit("known_merchants", "null")),
    Merchant(<<"MERC-1">>, "5411"), Terminal("true", "3")>>,
  \* no list at all, a last transaction that is a word
  <<Id, Transaction("3", "2024-02-28T23:59:30Z"),
    Obj("customer", <<Lit("avg_amount", "100"), Lit("tx_count_24h", "3")>>),
    Merchant(<<"MERC-1">>, "5411"), Terminal("true", "3"), Str("last_transaction", <<"null">>)>>,
  \* faults: an object missing, a member missing, a number as a string, a short
  \* timestamp, a faulty last transaction, an object that is null
  <<Id, Transaction("3", "2024-02-28T23:59:30Z"), Customer("100", Known),
    Merchant(<<"MERC-1">>, "5411"), NoLast>>,
  <<Id, Transaction("3", "2024-02-28T23:59:30Z"),
    Obj("customer", <<Lit("tx_count_24h", "3"), Known>>),
    Merchant(<<"MERC-1">>, "5411"), Terminal("true", "3"), NoLast>>,
  <<Id, Transaction("3", "2024-02-28T23:59:30Z"), Customer("100", Known),
    Obj("merchant", <<Str("id", <<"MERC-1">>), Str("mcc", <<"5411">>), Str("avg_amount", <<"3">>)>>),
    Terminal("true", "3"), NoLast>>,
  <<Id, Transaction("3", "noon"), Customer("100", Known),
    Merchant(<<"MERC-1">>, "5411"), Terminal("true", "3"), NoLast>>,
  <<Id, Transaction("3", "2024-02-28T23:59:30Z"), Customer("100", Known),
    Merchant(<<"MERC-1">>, "5411"), Terminal("true", "3"),
    Obj("last_transaction", <<Str("timestamp", <<"2024-02-28T23:59:30Z">>)>>)>>,
  <<Id, Transaction("3", "2024-02-28T23:59:30Z"), Lit("customer", "null"),
    Merchant(<<"MERC-1">>, "5411"), Terminal("yes", "3"), NoLast>>,
  \* taken all the same: a string that is no date, a number and a truth value with
  \* something after them, a last transaction on a day the calendar does not have
  <<Id, Obj("transaction", <<Lit("amount", "3"), Lit("installments", "3"),
                             Str("requested_at", <<"2024-13-45", " ", "99:99:99">>)>>),
    Customer("100", Known), Merchant(<<"MERC-2">>, "5411"), Terminal("true", "3"),
    LastAt("2024-02-28T23:59:30Z")>>,
  <<Id, Transaction("12abc", "2024-02-28T23:59:30Z"), Customer("100", Known),
    Merchant(<<"MERC-1">>, "5411"), Terminal("falsetto", "12abc"), NoLast>>,
  <<Id, Transaction("3", "2024-02-29T12:00:00Z"), Customer("100", Known),
    Merchant(<<"MERC-1">>, "7995"), Terminal("truex", "3"), LastAt("2023-02-29T12:00:00Z")>>,
  \* not legible: an id that is a key, an escaped quote in an id that is taken, a
  \* bracket after a list that is null
  <<Str("id", <<"customer">>), Transaction("3", "2024-02-28T23:59:30Z"), Customer("100", Known),
    Merchant(<<"MERC-1">>, "5411"), Terminal("true", "3"), NoLast>>,
  <<Id, Transaction("3", "2024-02-28T23:59:30Z"), Customer("100", Known),
    Merchant(<<"MERC", Backslash, Quote>>, "5411"), Terminal("true", "3"), NoLast>>,
  <<Id, Transaction("3", "2024-02-28T23:59:30Z"),
    Obj("customer", <<Lit("avg_amount", "100"), Lit("tx_count_24h", "3"),
                      Lit("known_merchants", "null"), Arr("tags", <<<<"MERC-1">>>>)>>),
    Merchant(<<"MERC-1">>, "5411"), Terminal("true", "3"), NoLast>> >>

\* The properties are about all of them but the last three.
ASSUME OthersAreLegible ==
  \A r \in 1..Len(SomeRequests) : Legible(SomeRequests[r]) <=> r <= Len(SomeRequests) - 3

\* Orders of six members, and what they make of fewer.
SomeOrders ==
  {[n \in 0..6 |-> SelectSeq(o, LAMBDA i : i <= n)] : o \in
    {<<1, 2, 3, 4, 5, 6>>, <<6, 5, 4, 3, 2, 1>>, <<4, 6, 2, 3, 5, 1>>, <<3, 4, 1, 6, 2, 5>>,
     <<5, 1, 3, 2, 6, 4>>, <<2, 6, 4, 1, 5, 3>>}}

Entry(key, risk) == [key |-> key, risk |-> risk]

\* A new code and a default one, two keys of one code, keys that are no codes.
SomeTables ==
  {<<Entry(<<5, 4, 1, 1>>, 99), Entry(<<1, 2, 3, 4>>, 10)>>,
   <<Entry(<<5, 4, 1, 1>>, 20), Entry(<<5, 4, 1, 1, 0>>, 30), Entry(<<7, 9>>, 1)>>,
   <<Entry(<<7, 9, 9, 10>>, 5)>>}
=============================================================================
