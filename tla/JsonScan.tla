------------------------------ MODULE JsonScan ------------------------------
(***************************************************************************)
(* The hand-written JSON scanner of vectorize.go.  A body is a sequence of *)
(* symbols: each punctuation mark, quote, backslash and space is one, each *)
(* run of other characters (a name, a number, true, a timestamp) is one.   *)
(* Ranges are half open, [start, end), positions begin with 1 and 0 says   *)
(* "not found".  No structure is parsed: keys are searched as text.        *)
(***************************************************************************)
EXTENDS Integers, Sequences, FiniteSets

CONSTANTS
  Numeral,     \* the symbols that begin with a number: symbol -> its value
  Truth        \* the symbols that begin with true or false: symbol -> BOOLEAN

Quote     == "\""
Backslash == "\\"

\* What a getter returns when the value is absent or of another kind.
NotFound == <<"not found">>

FirstOf(S) == IF S = {} THEN 0 ELSE CHOOSE p \in S : \A r \in S : p <= r

FindKey(b, start, end, key) ==
  FirstOf({p \in start..(end - 3) : b[p] = Quote /\ b[p + 1] = key /\ b[p + 2] = Quote})

IndexFrom(b, start, end, c) == FirstOf({p \in start..(end - 1) : b[p] = c})

SkipWS(b, start, end) ==
  LET p == FirstOf({r \in start..(end - 1) : b[r] # " "}) IN IF p = 0 THEN end ELSE p

\* Where the value of a key begins: after the next colon, wherever that is.
ValueAt(b, start, end, key) ==
  LET k == FindKey(b, start, end, key)
      c == IF k = 0 THEN 0 ELSE IndexFrom(b, k + 3, end, ":")
      p == IF c = 0 THEN end ELSE SkipWS(b, c + 1, end)
  IN  IF p >= end THEN 0 ELSE p

\* A mutant: a backslash does not escape the quote after it.
AfterUnescaped(c) ==
  IF c = Quote THEN [code |-> "string", string |-> "code"] ELSE [code |-> "code", string |-> "string"]

\* Where the scanner of matchBrace is after one more symbol, given where it was:
\* outside of strings ("code"), inside ("string"), or there after a backslash.
After(c) ==
  CASE c = Quote     -> [code |-> "string", string |-> "code",    escaped |-> "string"]
    [] c = Backslash -> [code |-> "code",   string |-> "escaped", escaped |-> "string"]
    [] OTHER         -> [code |-> "code",   string |-> "string",  escaped |-> "string"]

\* Where it is before each symbol from start on, given where it is at start.
Scan(b, start, end, first) ==
  LET before[p \in start..end] == IF p = start THEN first ELSE After(b[p - 1])[before[p - 1]]
  IN  before

\* The position after the brace that closes the one at start; braces in
\* strings do not count.
MatchBrace(b, start, end) ==
  LET before      == Scan(b, start, end, "code")
      count(c, p) == Cardinality({r \in start..(p - 1) : b[r] = c /\ before[r] = "code"})
  IN  FirstOf({p \in (start + 1)..end : /\ b[p - 1] = "}" /\ before[p - 1] = "code"
                                        /\ count("{", p) = count("}", p)})

\* A mutant: the closing brace is left out.
ObjectRangeOpen(b, start, end, key) ==
  LET p == ValueAt(b, start, end, key)
  IN  [start |-> p, end |-> IF p > 0 /\ b[p] = "{" THEN MatchBrace(b, p, end) - 1 ELSE 0]

\* The range of the object that is the value of a key; it ends at 0 if the
\* value is no object or is not closed.
ObjectRange(b, start, end, key) ==
  LET p == ValueAt(b, start, end, key)
  IN  [start |-> p, end |-> IF p > 0 /\ b[p] = "{" THEN MatchBrace(b, p, end) ELSE 0]

\* What follows the number in its symbol is not looked at: 12abc is 12.
JsonNumber(b, r, key) ==
  LET p == ValueAt(b, r.start, r.end, key)
  IN  IF p > 0 /\ b[p] \in DOMAIN Numeral THEN <<b[p]>> ELSE NotFound

\* Nor is what follows the word: truex is true.
JsonBool(b, r, key) ==
  LET p == ValueAt(b, r.start, r.end, key)
  IN  IF p > 0 /\ b[p] \in DOMAIN Truth THEN <<b[p]>> ELSE NotFound

\* The text up to the next quote, an escaped one included.
JsonString(b, r, key) ==
  LET p == ValueAt(b, r.start, r.end, key)
      q == IF p > 0 /\ b[p] = Quote THEN IndexFrom(b, p + 1, r.end, Quote) ELSE 0
  IN  IF q > 0 THEN SubSeq(b, p + 1, q - 1) ELSE NotFound

\* Whether one of the strings of an array is the given one.
ArrayContainsString(b, r, key, needle) ==
  LET c  == ValueAt(b, r.start, r.end, key)
      lb == IF c = 0 THEN 0 ELSE IndexFrom(b, c, r.end, "[")
      within[p \in Nat] ==
        LET s == SkipWS(b, p, r.end)
            q == IndexFrom(b, s + 1, r.end, Quote)
        IN  /\ s < r.end /\ b[s] # "]"
            /\ IF b[s] # Quote THEN within[s + 1]
               ELSE q > 0 /\ (SubSeq(b, s + 1, q - 1) = needle \/ within[q + 1])
  IN  lb > 0 /\ within[lb + 1]
=============================================================================
