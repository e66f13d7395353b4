------------------------------ MODULE Requests ------------------------------
(***************************************************************************)
(* The requests a client can send and the reply each of them deserves.     *)
(*                                                                         *)
(* A request is a header block of head units, the last one holding the     *)
(* empty line, followed by body units.  Of the header block the server     *)
(* looks at the request line, at whether there is any header line after    *)
(* it, and at the Content-Length.  Of the body it matters whether          *)
(* vectorize.Build accepts it and which fraud count the search finds.      *)
(* The reply for a count outside 0..5 is not modelled: IvfSearchProofs     *)
(* shows that the search returns no such count.                            *)
(***************************************************************************)
EXTENDS Integers, Sequences

CONSTANTS
  Cap,       \* maxRequestSize, in units
  NoLength,  \* parseContentLength found no Content-Length or no number in it
  Scripts    \* the sequences of requests clients send

Requests ==
  [line : {"GET /ready", "POST /fraud-score", "other"}, headers : BOOLEAN,
   head : Nat \ {0}, length : Int \cup {NoLength}, body : Nat,
   valid : BOOLEAN, frauds : 0..5]

\* A client states the length of its body correctly or gives no usable one,
\* sends no body with a GET, and an empty body is never valid.
ASSUME ScriptsAssumption ==
  /\ Cap \in Nat \ {0}
  /\ NoLength \notin Int
  /\ \A s \in Scripts : s \in Seq(Requests)
  /\ \A s \in Scripts : \A m \in DOMAIN s :
       /\ s[m].line = "GET /ready" => s[m].body = 0
       /\ s[m].length \in {NoLength, s[m].body, -1}
       /\ s[m].valid => s[m].body > 0

\* A reply: its status, the fraud count it reports, and whether the server
\* closes the connection after it.
Score(f)   == [status |-> 200, frauds |-> f, close |-> FALSE]
Ready      == [status |-> 200, frauds |-> -1, close |-> FALSE]
NotFound   == [status |-> 404, frauds |-> -1, close |-> TRUE]
BadRequest == [status |-> 400, frauds |-> -1, close |-> TRUE]
TooLarge   == [status |-> 413, frauds |-> -1, close |-> TRUE]

\* The reply a request gets, by itself, whatever comes before or after it and
\* however its bytes are cut into reads.
ReplyTo(r) ==
  CASE r.head > Cap                  -> TooLarge
    [] r.head <= Cap /\ ~r.headers   -> BadRequest
    [] r.head <= Cap /\ r.headers /\ r.line = "GET /ready" -> Ready
    [] r.head <= Cap /\ r.headers /\ r.line = "other"      -> NotFound
    [] r.head <= Cap /\ r.headers /\ r.line = "POST /fraud-score" ->
         IF r.length = NoLength THEN BadRequest
         ELSE IF r.length < 0 \/ r.head + r.length > Cap THEN TooLarge
         ELSE IF r.valid THEN Score(r.frauds) ELSE BadRequest
=============================================================================
