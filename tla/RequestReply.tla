---------------------------- MODULE RequestReply ----------------------------
(***************************************************************************)
(* What a connection promises its client, without bytes or buffers: the    *)
(* requests are answered one by one in the order they were sent, each with *)
(* its own reply, until an error reply ends the connection or one side     *)
(* hangs up.                                                               *)
(***************************************************************************)
EXTENDS Requests

VARIABLES
  script,    \* the requests the client sends
  sent,      \* how many it has sent
  replies,   \* the replies it got
  open       \* the server still serves the connection

vars == <<script, sent, replies, open>>

Init ==
  /\ script \in Scripts
  /\ sent = 0 /\ replies = <<>> /\ open = TRUE

Send ==
  /\ sent < Len(script)
  /\ sent' = sent + 1
  /\ UNCHANGED <<script, replies, open>>

Reply ==
  /\ open /\ Len(replies) < sent
  /\ LET r == ReplyTo(script[Len(replies) + 1])
     IN  replies' = Append(replies, r) /\ open' = ~r.close
  /\ UNCHANGED <<script, sent>>

HangUp ==
  /\ open /\ open' = FALSE
  /\ UNCHANGED <<script, sent, replies>>

Next == Send \/ Reply \/ HangUp

Spec == Init /\ [][Next]_vars
=============================================================================
