----------------------------- MODULE Connection -----------------------------
(***************************************************************************)
(* One keep-alive connection of the API server (server.handle) and the     *)
(* client at its other end.                                                *)
(*                                                                         *)
(* The server reads whatever the socket holds into one buffer, parses the  *)
(* buffer from its front, and once a complete request is there answers it  *)
(* and shifts the rest of the buffer to the front.  The bytes of request m *)
(* are the units <<m, 1>>, <<m, 2>>, ...: head of them up to the empty     *)
(* line, then the body.  A read returns any non-empty prefix of what was   *)
(* sent that fits the buffer, so that requests arrive in pieces or several *)
(* at a time.                                                              *)
(*                                                                         *)
(* Parsing, vectorizing and the search touch nothing another connection    *)
(* writes, so they are one step with the read that completes the request.  *)
(***************************************************************************)
EXTENDS Requests, FiniteSetsExt, SequencesExt

VARIABLES
  script,    \* the requests the client sends
  sent,      \* how many of them it has sent
  client,    \* "open", "shut" (no more requests, still reading) or "gone"
  wire,      \* bytes sent and not read yet
  pc,        \* "read", "write" or "closed"
  buf,       \* buf[:used]
  resp,      \* the reply about to be written; its close is closeAfter
  msgEnd,    \* end of the request it answers
  replies    \* replies written

vars == <<script, sent, client, wire, pc, buf, resp, msgEnd, replies>>

Size(m) == script[m].head + script[m].body

Units(m) == [j \in 1..Size(m) |-> <<m, j>>]

EndsHead(u) == u[2] = script[u[1]].head

ClosedByReply == replies # <<>> /\ Last(replies).close

Init ==
  /\ script \in Scripts
  /\ sent = 0 /\ client = "open" /\ wire = <<>>
  /\ pc = "read" /\ buf = <<>> /\ resp = Ready /\ msgEnd = 0
  /\ replies = <<>>

-----------------------------------------------------------------------------
(* The client. *)

\* It need not wait for the reply to a request before it sends the next.
Send ==
  /\ client = "open" /\ sent < Len(script) /\ ~ClosedByReply
  /\ sent' = sent + 1
  /\ wire' = wire \o Units(sent')
  /\ UNCHANGED <<script, client, pc, buf, resp, msgEnd, replies>>

\* The client has sent its last request, and waits for the replies.
Shut ==
  /\ client = "open" /\ client' = "shut"
  /\ UNCHANGED <<script, sent, wire, pc, buf, resp, msgEnd, replies>>

\* The client closes the socket, maybe in the middle of a request.
Vanish ==
  /\ client # "gone" /\ client' = "gone"
  /\ \E n \in 0..Len(wire) : wire' = SubSeq(wire, 1, n)
  /\ UNCHANGED <<script, sent, pc, buf, resp, msgEnd, replies>>

-----------------------------------------------------------------------------
(* The server. *)

Answer(r, end) == pc' = "write" /\ resp' = r /\ msgEnd' = end

ReadMore == UNCHANGED <<pc, resp, msgEnd>>

\* A mutant: the body is not waited for.
BodyNotAwaited(b, end) == TRUE

\* A mutant: waits for one byte more than the request has.
BodyAwaitedTooLong(b, end) == Len(b) > end

BodyArrived(b, end) == Len(b) >= end

\* What the inner loop makes of the buffer b after a read.  The request line is
\* only intact if b starts with the first byte of a request.
Parse(b) ==
  LET heads     == {p \in 1..Len(b) : EndsHead(b[p])}
      bodyStart == Min(heads)
      r         == script[b[bodyStart][1]]
      line      == IF b[1] = <<b[bodyStart][1], 1>> THEN r.line ELSE "other"
      fraud     == heads # {} /\ r.headers /\ line = "POST /fraud-score"
      fits      == r.length >= 0 /\ r.length <= Cap - bodyStart
      end       == bodyStart + r.length
  IN  \/ heads = {} /\ ReadMore
      \/ heads # {} /\ ~r.headers /\ Answer(BadRequest, 0)
      \/ heads # {} /\ r.headers /\ line = "GET /ready" /\ Answer(Ready, bodyStart)
      \/ heads # {} /\ r.headers /\ line = "other" /\ Answer(NotFound, bodyStart)
      \/ fraud /\ r.length = NoLength /\ Answer(BadRequest, bodyStart)
      \/ fraud /\ r.length # NoLength /\
           \/ ~fits /\ Answer(TooLarge, bodyStart)
           \/ fits /\ ~BodyArrived(b, end) /\ ReadMore
           \/ /\ fits /\ BodyArrived(b, end)
              /\ Answer(IF r.valid THEN Score(r.frauds) ELSE BadRequest, end)

\* The buffer is full and holds no complete request.
Overflow ==
  /\ pc = "read" /\ Len(buf) >= Cap
  /\ Answer(TooLarge, 0)
  /\ UNCHANGED <<script, sent, client, wire, buf, replies>>

\* A mutant: the read is not limited to the free part of the buffer.
ReceiveUnbounded ==
  /\ pc = "read" /\ Len(buf) < Cap
  /\ \E n \in 1..Len(wire) :
       /\ buf' = buf \o SubSeq(wire, 1, n)
       /\ wire' = SubSeq(wire, n + 1, Len(wire))
  /\ Parse(buf')
  /\ UNCHANGED <<script, sent, client, replies>>

Receive ==
  /\ pc = "read" /\ Len(buf) < Cap
  /\ \E n \in 1..Min({Len(wire), Cap - Len(buf)}) :
       /\ buf' = buf \o SubSeq(wire, 1, n)
       /\ wire' = SubSeq(wire, n + 1, Len(wire))
  /\ Parse(buf')
  /\ UNCHANGED <<script, sent, client, replies>>

\* End of stream, or a reset by the client: the connection is dropped with
\* whatever the buffer holds.
ReadFails ==
  /\ pc = "read" /\ Len(buf) < Cap
  /\ wire = <<>> /\ client # "open"
  /\ pc' = "closed"
  /\ UNCHANGED <<script, sent, client, wire, buf, resp, msgEnd, replies>>

\* A mutant: the buffer is emptied after a reply, not shifted.
WriteDropsRest ==
  /\ pc = "write" /\ client # "gone"
  /\ replies' = Append(replies, resp)
  /\ IF resp.close THEN pc' = "closed" /\ UNCHANGED buf
     ELSE pc' = "read" /\ buf' = <<>>
  /\ UNCHANGED <<script, sent, client, wire, resp, msgEnd>>

Write ==
  /\ pc = "write" /\ client # "gone"
  /\ replies' = Append(replies, resp)
  /\ IF resp.close THEN pc' = "closed" /\ UNCHANGED buf
     ELSE pc' = "read" /\ buf' = SubSeq(buf, msgEnd + 1, Len(buf))
  /\ UNCHANGED <<script, sent, client, wire, resp, msgEnd>>

WriteFails ==
  /\ pc = "write" /\ client = "gone"
  /\ pc' = "closed"
  /\ UNCHANGED <<script, sent, client, wire, buf, resp, msgEnd, replies>>

Server == Overflow \/ Receive \/ ReadFails \/ Write \/ WriteFails

Next == Send \/ Shut \/ Vanish \/ Server

\* The goroutine of a connection is scheduled as long as it can run; a client
\* owes nothing.
Spec == Init /\ [][Next]_vars /\ WF_vars(Server)

-----------------------------------------------------------------------------
(* Properties. *)

\* Every variable stays in its domain; the buffer never outgrows its capacity
\* and the end of the request answered lies within it.
TypeOK ==
  /\ script \in Scripts
  /\ sent \in 0..Len(script)
  /\ client \in {"open", "shut", "gone"}
  /\ pc \in {"read", "write", "closed"}
  /\ Len(buf) <= Cap
  /\ msgEnd \in 0..Cap
  /\ pc = "write" /\ ~resp.close => msgEnd \in 1..Len(buf)
  /\ Len(replies) <= sent

\* The byte a client sends after byte u.
NextByte(u) == IF u[2] < Size(u[1]) THEN <<u[1], u[2] + 1>> ELSE <<u[1] + 1, 1>>

\* The bytes of the requests sent that the server has not done with.
Rest == buf \o wire

\* Whatever the reads and the pipelining, buffer and socket together always
\* hold the unanswered requests, from the first byte of the first one on and,
\* unless the client is gone, to the last byte of the last one: no byte is
\* lost, repeated or left over by the shift (server.go:114-116, 266).
BufferStartsAtRequest ==
  pc # "closed" =>
    /\ Rest # <<>> => Rest[1] = <<Len(replies) + 1, 1>>
    /\ \A i \in DOMAIN Rest : Rest[i][1] <= sent
    /\ \A i \in 1..(Len(Rest) - 1) : Rest[i + 1] = NextByte(Rest[i])
    /\ client = "gone" \/ IF Rest = <<>> THEN sent = Len(replies)
                          ELSE Last(Rest) = <<sent, Size(sent)>>

\* A connection implements RequestReply: replies come in order, each is the one
\* its request deserves whatever the segmentation, and a 413 is never the fault
\* of a neighbour in the buffer.
Abstract == INSTANCE RequestReply WITH open <- pc # "closed"

ImplementsRequestReply == Abstract!Spec

\* Every request sent is answered, unless an error reply closed the connection
\* before or the client is gone.  It should hold of every client, as the outer
\* loop is meant to "ensure we have at least one full request"
\* (server.go:124-125), but does not: the inner loop reads before it looks at what
\* the last read left in the buffer.
EveryRequestAnswered ==
  \A m \in UNION {DOMAIN s : s \in Scripts} :
    sent >= m ~> Len(replies) >= m \/ ClosedByReply \/ client = "gone"

\* It holds for a client that waits for each reply, in whatever pieces its
\* requests arrive.
WaitingClientsAreAnswered == [](sent <= Len(replies) + 1) => EveryRequestAnswered

\* GET /ready returns 200 (README.md:22).  It does not when the request has no
\* header line: the request line is then looked for before the end of a buffer
\* slice that excludes its own CRLF (server.go:159).
ReadyGets200 ==
  \A m \in DOMAIN replies : script[m].line = "GET /ready" => replies[m].status = 200
=============================================================================
