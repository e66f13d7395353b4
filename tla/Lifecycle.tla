------------------------------ MODULE Lifecycle ------------------------------
(***************************************************************************)
(* The life of an API server process (cmd/api and server.Run): it loads    *)
(* its index, clears and binds the path of its socket, accepts connections *)
(* and, on SIGTERM, closes the listener, removes the path and ends without *)
(* waiting for its goroutines.  At any moment it may be killed, which      *)
(* leaves the socket file behind.  A process starts only when the one      *)
(* before has ended: a container runs one, on a path of its own.           *)
(*                                                                         *)
(* Clients (the load balancer) connect through the path, send one request  *)
(* at a time over a connection, and close it at some time; the server      *)
(* closes it after an error reply.                                         *)
(***************************************************************************)
EXTENDS Integers, Sequences, FiniteSets, SequencesExt

CONSTANTS
  Servers,     \* processes, one after the other
  Clients,     \* connections of the load balancer
  MaxFds,      \* file descriptors for connections (ulimit nofile)
  MaxStops,    \* bound on the ends of processes
  None

ASSUME LifecycleAssumption ==
  MaxFds \in Nat \ {0} /\ MaxStops \in Nat /\ None \notin Servers

VARIABLES
  pc,          \* what a process does
  path,        \* the process whose socket is at the path, or None
  public,      \* may others connect to it?
  looping,     \* is the accept loop of a process running?
  queue,       \* connections a process has yet to accept
  conn, to,    \* state and server of a connection
  stops        \* processes that ended

process == <<pc, path, public, stops>>
clients == <<conn, to>>
vars    == <<process, looping, queue, clients>>

Init ==
  /\ pc = [s \in Servers |-> "down"]
  /\ path = None /\ public = FALSE /\ stops = 0
  /\ looping = [s \in Servers |-> FALSE] /\ queue = [s \in Servers |-> <<>>]
  /\ conn = [c \in Clients |-> "none"] /\ to = [c \in Clients |-> None]

-----------------------------------------------------------------------------
(* Start. *)

Start(s) ==
  /\ \A r \in Servers : pc[r] = "down"
  /\ pc' = [pc EXCEPT ![s] = "load"]
  /\ UNCHANGED <<path, public, stops, looping, queue, clients>>

LoadIndex(s) ==
  /\ pc[s] = "load"
  /\ pc' = [pc EXCEPT ![s] = "clear"]
  /\ UNCHANGED <<path, public, stops, looping, queue, clients>>

\* A mutant: the path is taken as it is found.
NoRemoval(s) ==
  /\ pc[s] = "clear"
  /\ pc' = [pc EXCEPT ![s] = "bind"]
  /\ UNCHANGED <<path, public, stops, looping, queue, clients>>

\* Whatever is at the path is removed, without looking whose it is.
RemoveStale(s) ==
  /\ pc[s] = "clear"
  /\ pc' = [pc EXCEPT ![s] = "bind"] /\ path' = None
  /\ UNCHANGED <<public, stops, looping, queue, clients>>

\* bind fails on a path that exists, which ends the process; until Chmod only
\* the owner may connect.
Listen(s) ==
  /\ pc[s] = "bind"
  /\ IF path = None
     THEN pc' = [pc EXCEPT ![s] = "chmod"] /\ path' = s /\ public' = FALSE
     ELSE pc' = [pc EXCEPT ![s] = "down"] /\ UNCHANGED <<path, public>>
  /\ UNCHANGED <<stops, looping, queue, clients>>

\* A mutant: the cleanup comes after the bind.
ChmodThenRemove(s) ==
  /\ pc[s] = "chmod"
  /\ pc' = [pc EXCEPT ![s] = "serving"] /\ public' = TRUE /\ path' = None
  /\ looping' = [looping EXCEPT ![s] = TRUE]
  /\ UNCHANGED <<stops, queue, clients>>

Chmod(s) ==
  /\ pc[s] = "chmod"
  /\ pc' = [pc EXCEPT ![s] = "serving"] /\ public' = TRUE
  /\ looping' = [looping EXCEPT ![s] = TRUE]
  /\ UNCHANGED <<path, stops, queue, clients>>

-----------------------------------------------------------------------------
(* End. *)

Open(c) == conn[c] \in {"queued", "idle", "busy"}

\* The process is gone: its connections break, and a request that was being
\* served gets no reply.
End(s) ==
  /\ pc' = [pc EXCEPT ![s] = "down"] /\ stops' = stops + 1
  /\ looping' = [looping EXCEPT ![s] = FALSE] /\ queue' = [queue EXCEPT ![s] = <<>>]
  /\ conn' = [c \in Clients |-> IF Open(c) /\ to[c] = s THEN "broken" ELSE conn[c]]
  /\ UNCHANGED to

\* No index, no bind, no chmod: log.Fatal; Run closes a listener that it has,
\* which unlinks the path.
StartFails(s) ==
  /\ stops < MaxStops /\ pc[s] \in {"load", "bind", "chmod"}
  /\ path' = IF pc[s] = "chmod" THEN None ELSE path
  /\ End(s)
  /\ UNCHANGED public

Kill(s) ==
  /\ stops < MaxStops /\ pc[s] # "down"
  /\ End(s)
  /\ UNCHANGED <<path, public>>

\* A mutant: closing the listener closes every connection.
CloseAll(s) ==
  /\ stops < MaxStops /\ pc[s] = "serving"
  /\ pc' = [pc EXCEPT ![s] = "closing"] /\ path' = None
  /\ looping' = [looping EXCEPT ![s] = FALSE] /\ queue' = [queue EXCEPT ![s] = <<>>]
  /\ conn' = [c \in Clients |-> IF Open(c) /\ to[c] = s THEN "broken" ELSE conn[c]]
  /\ UNCHANGED <<public, stops, to>>

\* SIGTERM: ln.Close unlinks the path, breaks what waits to be accepted and
\* ends the accept loop.
CloseListener(s) ==
  /\ stops < MaxStops /\ pc[s] = "serving"
  /\ pc' = [pc EXCEPT ![s] = "closing"] /\ path' = None
  /\ looping' = [looping EXCEPT ![s] = FALSE] /\ queue' = [queue EXCEPT ![s] = <<>>]
  /\ conn' = [c \in Clients |-> IF conn[c] = "queued" /\ to[c] = s THEN "broken" ELSE conn[c]]
  /\ UNCHANGED <<public, stops, to>>

\* os.Remove, and the return from main.
Exit(s) ==
  /\ pc[s] = "closing" /\ stops < MaxStops
  /\ path' = None
  /\ End(s)
  /\ UNCHANGED public

-----------------------------------------------------------------------------
(* Connections. *)

\* The kernel completes a connection to a socket that is listened to.
Connect(c) ==
  /\ conn[c] = "none" /\ path # None /\ public
  /\ pc[path] = "serving"
  /\ conn' = [conn EXCEPT ![c] = "queued"] /\ to' = [to EXCEPT ![c] = path]
  /\ queue' = [queue EXCEPT ![path] = Append(@, c)]
  /\ UNCHANGED <<process, looping>>

Fds(s) == Cardinality({c \in Clients : conn[c] \in {"idle", "busy"} /\ to[c] = s})

\* A mutant: the connection stays in the queue.
AcceptPeeks(s) ==
  /\ looping[s] /\ queue[s] # <<>> /\ Fds(s) < MaxFds
  /\ conn' = [conn EXCEPT ![Head(queue[s])] = "idle"]
  /\ UNCHANGED <<process, looping, queue, to>>

Accept(s) ==
  /\ looping[s] /\ queue[s] # <<>> /\ Fds(s) < MaxFds
  /\ conn' = [conn EXCEPT ![Head(queue[s])] = "idle"]
  /\ queue' = [queue EXCEPT ![s] = Tail(@)]
  /\ UNCHANGED <<process, looping, to>>

\* A mutant: the accept loop ends at any error.
AcceptErrorEnds(s) ==
  /\ looping[s] /\ queue[s] # <<>> /\ Fds(s) >= MaxFds
  /\ looping' = [looping EXCEPT ![s] = FALSE]
  /\ UNCHANGED <<process, queue, clients>>

\* No descriptor is left: the loop tries again at once.
AcceptError(s) ==
  /\ looping[s] /\ queue[s] # <<>> /\ Fds(s) >= MaxFds
  /\ UNCHANGED vars

Send(c) ==
  /\ conn[c] = "idle"
  /\ conn' = [conn EXCEPT ![c] = "busy"]
  /\ UNCHANGED <<process, looping, queue, to>>

Closed(c) == conn' = [conn EXCEPT ![c] = "none"] /\ to' = [to EXCEPT ![c] = None]

\* The goroutine of the connection, which runs until the process ends, replies;
\* it closes the connection after an error reply, or when it cannot write.
Reply(c) ==
  /\ conn[c] = "busy"
  /\ \/ conn' = [conn EXCEPT ![c] = "idle"] /\ UNCHANGED to
     \/ Closed(c)
  /\ UNCHANGED <<process, looping, queue>>

\* The client closes an idle connection, on which the server closes it too, or
\* notices that it is broken.
Close(c) ==
  /\ conn[c] \in {"idle", "broken"}
  /\ Closed(c)
  /\ UNCHANGED <<process, looping, queue>>

StartUp(s) == LoadIndex(s) \/ RemoveStale(s) \/ Listen(s) \/ Chmod(s)
Serve(s)   == Accept(s) \/ AcceptError(s)
Stop(s)    == StartFails(s) \/ Kill(s) \/ CloseListener(s) \/ Exit(s)

Next ==
  \/ \E s \in Servers : Start(s) \/ StartUp(s) \/ Serve(s) \/ Stop(s)
  \/ \E c \in Clients : Connect(c) \/ Send(c) \/ Reply(c) \/ Close(c)

\* A process and its goroutines go on.  That a client closes its connections
\* is an assumption on the clients: the server closes one on its own only after
\* an error, and lets an idle one be.
Fairness ==
  /\ \A s \in Servers : WF_vars(StartUp(s)) /\ WF_vars(Accept(s)) /\ WF_vars(Exit(s))
  /\ \A c \in Clients : WF_vars(Reply(c)) /\ SF_vars(Close(c))

Spec == Init /\ [][Next]_vars /\ Fairness

-----------------------------------------------------------------------------
(* Properties. *)

\* Every variable stays in its domain, and a connection that waits is in the
\* queue of its server exactly once.
TypeOK ==
  /\ pc \in [Servers -> {"down", "load", "clear", "bind", "chmod", "serving", "closing"}]
  /\ path \in Servers \cup {None} /\ public \in BOOLEAN /\ stops \in 0..MaxStops
  /\ looping \in [Servers -> BOOLEAN] /\ to \in [Clients -> Servers \cup {None}]
  /\ conn \in [Clients -> {"none", "queued", "idle", "busy", "broken"}]
  /\ \A s \in Servers : /\ IsInjective(queue[s])
                        /\ ToSet(queue[s]) = {c \in Clients : conn[c] = "queued" /\ to[c] = s}

\* A process that serves can be reached by its path, whatever was left there by
\* the processes before it and however they ended.
ServingIsReachable ==
  \A s \in Servers : pc[s] = "serving" => path = s /\ public /\ looping[s]

\* A request that is being served loses its reply only with the end of its
\* process: closing the listener leaves the accepted connections alone.
BrokenOnlyAtTheEnd ==
  [][\A c \in Clients : conn[c] = "busy" /\ conn'[c] = "broken" => pc'[to[c]] = "down"]_vars

\* A stale socket of a killed process never keeps the next one from starting:
\* when nothing stops it, it serves in the end.
StartEndsInServing ==
  \A s \in Servers : (pc[s] = "load" /\ stops = MaxStops) ~> pc[s] = "serving"

\* A connection that waits to be accepted is accepted, or broken by the end of
\* the process, also after the descriptors have run out.
QueueDrains == \A c \in Clients : conn[c] = "queued" ~> conn[c] # "queued"
=============================================================================
