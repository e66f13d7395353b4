--------------------------- MODULE LifecycleProofs ---------------------------
(***************************************************************************)
(* Lifecycle for any number of processes, connections and descriptors.     *)
(*                                                                         *)
(* That a serving process is reachable needs no inspection of the path: it *)
(* follows from Single, at most one process is alive, so nobody removes or *)
(* takes the path between the bind and the end of a process.               *)
(***************************************************************************)
EXTENDS Lifecycle, SequenceTheorems, TLAPS

Types ==
  /\ pc \in [Servers -> {"down", "load", "clear", "bind", "chmod", "serving", "closing"}]
  /\ path \in Servers \cup {None} /\ public \in BOOLEAN /\ stops \in 0..MaxStops
  /\ looping \in [Servers -> BOOLEAN] /\ to \in [Clients -> Servers \cup {None}]
  /\ conn \in [Clients -> {"none", "queued", "idle", "busy", "broken"}]
  /\ queue \in [Servers -> Seq(Clients)]

Waiting(s) == {c \in Clients : conn[c] = "queued" /\ to[c] = s}

\* The queue q holds the connections W, each once.
Holds(q, W) == IsInjective(q) /\ ToSet(q) = W

Queues == \A s \in Servers : Holds(queue[s], Waiting(s))

Single == \A r, s \in Servers : pc[r] # "down" /\ pc[s] # "down" => r = s

Bound ==
  \A s \in Servers : /\ pc[s] = "chmod" => path = s
                     /\ pc[s] = "serving" => path = s /\ public /\ looping[s]

IInv == Types /\ Queues /\ Single /\ Bound

-----------------------------------------------------------------------------
(* Queues. *)

LEMMA EmptyHolds == Holds(<<>>, {})
BY DEF Holds, IsInjective, ToSet

LEMMA AppendHolds ==
  ASSUME NEW q \in Seq(Clients), NEW W, Holds(q, W), NEW c \in Clients, c \notin W
  PROVE  Holds(Append(q, c), W \cup {c})
<1> DEFINE a == Append(q, c)
<1>1. /\ a \in Seq(Clients) /\ Len(a) = Len(q) + 1 /\ Len(q) \in Nat
      /\ \A i \in 1..Len(q) : a[i] = q[i]
      /\ a[Len(q) + 1] = c
  BY AppendProperties
<1>2. DOMAIN a = 1..Len(q) + 1 /\ DOMAIN q = 1..Len(q)
  BY <1>1
<1> HIDE DEF a
<1>3. \A i \in 1..Len(q) : q[i] # c
  BY <1>2 DEF Holds, ToSet
<1>4. IsInjective(a)
  BY <1>1, <1>2, <1>3 DEF Holds, IsInjective
<1>5. ToSet(a) = W \cup {c}
  BY <1>1, <1>2 DEF Holds, ToSet
<1> QED
  BY <1>4, <1>5 DEF Holds, a

LEMMA TailHolds ==
  ASSUME NEW q \in Seq(Clients), q # <<>>, NEW W, Holds(q, W)
  PROVE  Head(q) \in W /\ Tail(q) \in Seq(Clients) /\ Holds(Tail(q), W \ {Head(q)})
<1> DEFINE t == Tail(q)
<1>1. /\ t \in Seq(Clients) /\ Len(t) = Len(q) - 1 /\ Len(q) \in Nat \ {0}
      /\ \A i \in 1..Len(t) : t[i] = q[i + 1]
  BY HeadTailProperties, EmptySeq
<1>2. DOMAIN t = 1..Len(q) - 1 /\ DOMAIN q = 1..Len(q) /\ Head(q) = q[1]
  BY <1>1
<1> HIDE DEF t
<1>3. IsInjective(t)
  BY <1>1, <1>2, SMTT(30) DEF Holds, IsInjective
<1>4. \A i \in 2..Len(q) : q[i] # q[1]
  BY <1>1, <1>2 DEF Holds, IsInjective
<1>5. ToSet(t) = W \ {Head(q)}
  <2>1. \A i \in 1..Len(q) - 1 : t[i] \in W \ {Head(q)}
    BY <1>1, <1>2, <1>4 DEF Holds, ToSet
  <2>2. ASSUME NEW x \in W, x # Head(q) PROVE \E i \in 1..Len(q) - 1 : t[i] = x
    <3>1. PICK i \in 1..Len(q) : q[i] = x
      BY <1>2 DEF Holds, ToSet
    <3>2. i - 1 \in 1..Len(q) - 1 /\ t[i - 1] = x
      BY <1>1, <1>2, <2>2, <3>1
    <3> QED
      BY <3>2
  <2>3. ToSet(t) = {t[i] : i \in 1..Len(q) - 1}
    BY <1>2, Zenon DEF ToSet
  <2> QED
    BY <2>1, <2>2, <2>3
<1>6. Head(q) \in W
  BY <1>1, <1>2 DEF Holds, ToSet
<1> QED
  BY <1>1, <1>3, <1>5, <1>6 DEF Holds, t

-----------------------------------------------------------------------------
(* The invariant. *)

LEMMA InitInv == Init => IInv
<1> SUFFICES ASSUME Init PROVE IInv
  OBVIOUS
<1>1. Types
  <2>1. <<>> \in Seq(Clients) /\ stops \in 0..MaxStops
    BY LifecycleAssumption DEF Init
  <2>2. looping \in [Servers -> BOOLEAN] /\ public \in BOOLEAN
    BY DEF Init
  <2> QED
    BY <2>1, <2>2 DEF Init, Types
<1>2. Queues
  BY EmptyHolds DEF Init, Queues, Waiting
<1> QED
  BY <1>1, <1>2 DEF Init, IInv, Single, Bound

\* A step of a process that is starting: nobody else is alive.
LEMMA StartInv ==
  ASSUME IInv, NEW s \in Servers, Start(s) \/ StartUp(s)
  PROVE  IInv'
<1>0. Types /\ Queues /\ Single /\ Bound
  BY DEF IInv
<1>1. UNCHANGED <<queue, conn, to, stops>>
  BY DEF Start, StartUp, LoadIndex, RemoveStale, Listen, Chmod, clients
<1>2. Types'
  BY <1>0, <1>1 DEF Types, Start, StartUp, LoadIndex, RemoveStale, Listen, Chmod
<1>3. Queues'
  BY <1>0, <1>1 DEF Queues, Waiting
<1>4. \A r \in Servers \ {s} : pc[r] = "down" /\ pc'[r] = "down"
  BY <1>0 DEF Types, Single, Start, StartUp, LoadIndex, RemoveStale, Listen, Chmod
<1>5. Single'
  BY <1>4 DEF Single
<1>6. (pc'[s] = "chmod" => path' = s) /\ (pc'[s] = "serving" => path' = s /\ public' /\ looping'[s])
  BY <1>0 DEF Types, Bound, Start, StartUp, LoadIndex, RemoveStale, Listen, Chmod
<1> QED
  BY <1>2, <1>3, <1>4, <1>5, <1>6 DEF IInv, Bound

\* The end of a process empties its queue and breaks what was in it.
LEMMA EndQueues ==
  ASSUME IInv, NEW s \in Servers, queue' = [queue EXCEPT ![s] = <<>>], to' = to,
         \/ conn' = [c \in Clients |-> IF Open(c) /\ to[c] = s THEN "broken" ELSE conn[c]]
         \/ conn' = [c \in Clients |-> IF conn[c] = "queued" /\ to[c] = s THEN "broken" ELSE conn[c]]
  PROVE  Queues' /\ queue' \in [Servers -> Seq(Clients)]
         /\ conn' \in [Clients -> {"none", "queued", "idle", "busy", "broken"}]
<1>1. Types /\ Queues
  BY DEF IInv
<1>2. \A r \in Servers \ {s} : Waiting(r)' = Waiting(r) /\ queue'[r] = queue[r]
  BY <1>1 DEF Waiting, Types, Open
<1>3. Waiting(s)' = {} /\ queue'[s] = <<>>
  BY <1>1 DEF Waiting, Types, Open
<1>4. \A r \in Servers : Holds(queue'[r], Waiting(r)')
  BY <1>1, <1>2, <1>3, EmptyHolds DEF Queues
<1>5. queue' \in [Servers -> Seq(Clients)]
  BY <1>1, EmptySeq DEF Types
<1>6. conn' \in [Clients -> {"none", "queued", "idle", "busy", "broken"}]
  BY <1>1 DEF Types
<1> QED
  BY <1>4, <1>5, <1>6 DEF Queues, Holds

LEMMA StopInv ==
  ASSUME IInv, NEW s \in Servers, Stop(s)
  PROVE  IInv'
<1>0. Types /\ Queues /\ Single /\ Bound
  BY DEF IInv
<1>1. Queues' /\ queue' \in [Servers -> Seq(Clients)]
      /\ conn' \in [Clients -> {"none", "queued", "idle", "busy", "broken"}]
  BY EndQueues DEF Stop, StartFails, Kill, CloseListener, Exit, End
<1>2. /\ pc' = [pc EXCEPT ![s] = "down"] \/ pc' = [pc EXCEPT ![s] = "closing"]
      /\ looping' = [looping EXCEPT ![s] = FALSE] /\ to' = to /\ public' = public
      /\ pc[s] # "down" /\ path' \in {path, None} /\ stops' \in {stops, stops + 1} /\ stops < MaxStops
  BY DEF Stop, StartFails, Kill, CloseListener, Exit, End
<1>3. Types'
  <2>1. stops' \in 0..MaxStops
    BY <1>0, <1>2, LifecycleAssumption DEF Types
  <2>2. looping' \in [Servers -> BOOLEAN]
    BY <1>0, <1>2 DEF Types
  <2>3. pc' \in [Servers -> {"down", "load", "clear", "bind", "chmod", "serving", "closing"}]
    BY <1>0, <1>2 DEF Types
  <2> QED
    BY <1>0, <1>1, <1>2, <2>1, <2>2, <2>3 DEF Types
<1>4. \A r \in Servers \ {s} : pc[r] = "down" /\ pc'[r] = "down"
  BY <1>0, <1>2 DEF Types, Single
<1>5. pc'[s] \in {"down", "closing"}
  BY <1>0, <1>2 DEF Types
<1> QED
  BY <1>1, <1>3, <1>4, <1>5 DEF IInv, Single, Bound

\* A connection that is not queued stays out of all queues.
LEMMA ClientInv ==
  ASSUME IInv, NEW c \in Clients, Connect(c) \/ Send(c) \/ Reply(c) \/ Close(c)
  PROVE  IInv'
<1>0. Types /\ Queues /\ Single /\ Bound
  BY DEF IInv
<1>1. UNCHANGED <<pc, path, public, stops, looping>>
  BY DEF Connect, Send, Reply, Close, process
<1>2. Single' /\ Bound'
  BY <1>0, <1>1 DEF Single, Bound
<1>3. CASE Connect(c)
  <2>1. path \in Servers /\ conn[c] = "none" /\ queue[path] \in Seq(Clients)
    BY <1>0, <1>3 DEF Connect, Types
  <2>2. Types'
    BY <1>0, <1>1, <1>3, <2>1, AppendProperties DEF Connect, Types
  <2>3. Waiting(path)' = Waiting(path) \cup {c} /\ c \notin Waiting(path)
    BY <1>0, <1>1, <1>3, <2>1 DEF Connect, Types, Waiting
  <2>4. \A s \in Servers \ {path} : Waiting(s)' = Waiting(s)
    BY <1>0, <1>3, <2>1 DEF Connect, Types, Waiting
  <2>5. Holds(Append(queue[path], c), Waiting(path) \cup {c})
    BY <1>0, <2>1, <2>3, AppendHolds DEF Queues
  <2>6. queue'[path] = Append(queue[path], c) /\ \A s \in Servers \ {path} : queue'[s] = queue[s]
    BY <1>0, <1>3, <2>1 DEF Connect, Types
  <2>7. \A s \in Servers : Holds(queue'[s], Waiting(s)')
    <3> TAKE s \in Servers
    <3>1. CASE s = path
      <4>1. queue'[s] = Append(queue[path], c) /\ Waiting(s)' = Waiting(path) \cup {c}
        BY <1>1, <2>3, <2>6, <3>1
      <4> QED
        BY <2>5, <4>1
    <3>2. CASE s # path
      BY <1>0, <2>4, <2>6, <3>2 DEF Queues
    <3> QED
      BY <3>1, <3>2
  <2> QED
    BY <1>2, <2>2, <2>7 DEF IInv, Queues, Holds
<1>4. CASE Send(c) \/ Reply(c) \/ Close(c)
  <2>1. queue' = queue /\ conn[c] # "queued" /\ conn'[c] # "queued"
        /\ \A d \in Clients \ {c} : conn'[d] = conn[d] /\ to'[d] = to[d]
    BY <1>0, <1>4 DEF Send, Reply, Close, Closed, Types
  <2>2. Types'
    BY <1>0, <1>1, <1>4 DEF Send, Reply, Close, Closed, Types
  <2>3. \A s \in Servers : Waiting(s)' = Waiting(s)
    BY <2>1 DEF Waiting
  <2> QED
    BY <1>0, <1>2, <2>1, <2>2, <2>3 DEF IInv, Queues, Holds
<1> QED
  BY <1>3, <1>4

\* The connection at the head leaves the queue as it leaves its state.
LEMMA ServeInv ==
  ASSUME IInv, NEW s \in Servers, Serve(s)
  PROVE  IInv'
<1>0. Types /\ Queues /\ Single /\ Bound
  BY DEF IInv
<1>1. CASE AcceptError(s)
  BY <1>0, <1>1 DEF AcceptError, vars, process, clients, IInv, Types, Queues, Waiting, Single, Bound
<1>2. CASE Accept(s)
  <2> DEFINE c == Head(queue[s])
  <2>1. UNCHANGED <<pc, path, public, stops, looping, to>>
    BY <1>2 DEF Accept, process
  <2>2. queue[s] \in Seq(Clients) /\ queue[s] # <<>> /\ Holds(queue[s], Waiting(s))
    BY <1>0, <1>2 DEF Accept, Types, Queues
  <2>3. c \in Waiting(s) /\ Tail(queue[s]) \in Seq(Clients)
        /\ Holds(Tail(queue[s]), Waiting(s) \ {c})
    BY <2>2, TailHolds
  <2>4. c \in Clients /\ to[c] = s
    BY <2>3 DEF Waiting
  <2>5. conn' = [conn EXCEPT ![c] = "idle"] /\ queue' = [queue EXCEPT ![s] = Tail(queue[s])]
    BY <1>2 DEF Accept
  <2> HIDE DEF c
  <2>6. Types'
    BY <1>0, <2>1, <2>3, <2>4, <2>5 DEF Types
  <2>7. Waiting(s)' = Waiting(s) \ {c} /\ \A r \in Servers \ {s} : Waiting(r)' = Waiting(r)
    BY <1>0, <2>1, <2>4, <2>5 DEF Waiting, Types
  <2>8. \A r \in Servers : Holds(queue'[r], Waiting(r)')
    BY <1>0, <2>3, <2>5, <2>7 DEF Queues, Types
  <2> QED
    BY <1>0, <2>1, <2>6, <2>8 DEF IInv, Queues, Holds, Single, Bound
<1> QED
  BY <1>1, <1>2 DEF Serve

LEMMA NextInv == IInv /\ [Next]_vars => IInv'
<1> SUFFICES ASSUME IInv, [Next]_vars PROVE IInv'
  OBVIOUS
<1>1. CASE Next
  BY <1>1, StartInv, StopInv, ServeInv, ClientInv DEF Next
<1>2. CASE UNCHANGED vars
  BY <1>2 DEF vars, process, clients, IInv, Types, Queues, Waiting, Single, Bound
<1> QED
  BY <1>1, <1>2

LEMMA Invariance == Spec => []IInv
BY InitInv, NextInv, PTL DEF Spec

-----------------------------------------------------------------------------
(* Theorems. *)

\* A waiting connection is in the queue of its server exactly once, however
\* processes start, fail, are killed and stop.
THEOREM TypeCorrect == Spec => []TypeOK
<1>1. IInv => TypeOK
  BY DEF IInv, Types, Queues, Holds, Waiting, TypeOK
<1> QED
  BY <1>1, Invariance, PTL

\* Removing whatever is at the path and binding it is safe, because at most one
\* process is alive (main.go 50-61, server.go 46-71).
THEOREM ServingStaysReachable == Spec => []ServingIsReachable
<1>1. IInv => ServingIsReachable
  BY DEF IInv, Bound, ServingIsReachable
<1> QED
  BY <1>1, Invariance, PTL

\* Only the end of its process breaks a connection with a request in service;
\* closing the listener (main.go 58) breaks those still waiting.
THEOREM BreaksAreEnds == Spec => BrokenOnlyAtTheEnd
<1>1. IInv /\ [Next]_vars =>
        [\A c \in Clients : conn[c] = "busy" /\ conn'[c] = "broken" => pc'[to[c]] = "down"]_vars
  <2> SUFFICES ASSUME IInv, Next, NEW c \in Clients, conn[c] = "busy", conn'[c] = "broken"
               PROVE  pc'[to[c]] = "down"
    BY DEF vars
  <2>1. Types
    BY DEF IInv
  <2>2. ASSUME NEW s \in Servers, Start(s) \/ StartUp(s)
        PROVE  FALSE
    BY <2>2 DEF Start, StartUp, LoadIndex, RemoveStale, Listen, Chmod, clients
  <2>3. ASSUME NEW s \in Servers, Serve(s)
        PROVE  FALSE
    BY <2>1, <2>3 DEF Serve, Accept, AcceptError, Types, vars, clients
  <2>4. ASSUME NEW s \in Servers, Stop(s)
        PROVE  pc'[to[c]] = "down"
    <3>1. CASE CloseListener(s)
      BY <2>1, <3>1 DEF CloseListener, Types
    <3>2. CASE End(s)
      BY <2>1, <3>2 DEF End, Types, Open
    <3> QED
      BY <2>4, <3>1, <3>2 DEF Stop, StartFails, Kill, Exit
  <2>5. ASSUME NEW d \in Clients, Connect(d) \/ Send(d) \/ Reply(d) \/ Close(d)
        PROVE  FALSE
    BY <2>1, <2>5 DEF Connect, Send, Reply, Close, Closed, Types
  <2> QED
    BY <2>2, <2>3, <2>4, <2>5 DEF Next
<1> QED
  BY <1>1, Invariance, PTL DEF Spec, BrokenOnlyAtTheEnd
=============================================================================
