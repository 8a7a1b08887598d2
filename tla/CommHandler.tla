----------------------------- MODULE CommHandler -----------------------------
(***************************************************************************)
(* The unicast part of comm_handler (src/comm_zmq/src): on every node one  *)
(* communication thread runs start_handler; application threads call       *)
(* connect_to, get_one_connection, send, recv, recv_async and shutdown,    *)
(* which talk to it through inproc PUSH/PULL pipes, the queue clientq, the *)
(* flag errcode and the mutex sync_mtx used as a rendezvous.               *)
(*                                                                         *)
(* 0MQ is external.  A PUSH socket with several peers deals messages in    *)
(* turn and blocks while it has none; a PULL or ROUTER socket takes the    *)
(* next message of any peer that has one; a ROUTER with ROUTER_MANDATORY   *)
(* refuses a message to an identity it has not met.  Messages of one pair  *)
(* arrive in order.  High-water marks are not reached.                     *)
(*                                                                         *)
(* An application thread makes the calls of Program[t] in order.           *)
(* Definitions named X_<Bug> are X with a plausible programming error;     *)
(* nothing uses them, they document which error a property would catch.    *)
(***************************************************************************)
EXTENDS Integers, Sequences, FiniteSets, Functions

CONSTANTS Node,        \* one comm_handler each; a node stands for its id and address
          Acceptors,   \* nodes with accept_conns set
          Thread,      \* application threads
          NodeOf,      \* NodeOf[t]: the node whose comm_handler t uses
          Program,     \* Program[t]: sequence of calls [op, peer]
          Faults       \* which calls into 0MQ can fail

Op == {"connect", "accept", "send", "recv", "recv_async", "shutdown"}

ASSUME ConfigAssumption ==
  /\ Acceptors \subseteq Node
  /\ IsFiniteSet(Thread)
  /\ NodeOf \in [Thread -> Node]
  /\ Program \in [Thread -> Seq([op : Op, peer : Node])]
  /\ "hello" \notin Thread
  /\ Faults \subseteq {"setup", "monitor", "poll", "recv", "connect", "push"}

\* COMM_HANDLER_INIT, and the message thread t passes to its k-th call.
Hello      == <<"hello", 0>>
Data(t, k) == <<t, k>>
Message    == {Hello} \union (Thread \X Nat)

\* What a call returned: -1, or success with the peer and the message.
Result == [ret : {"error", "ok"}, peer : Node, msg : Message]

VARIABLES
  hpc,        \* communication thread: "start", "handle", "poll", "push", "hello",
              \* "stopped" (after shutdown) or "dead" (after an error)
  seen,       \* items that were ready when the running zmq::poll began
  todo,       \* items whose revents are set and that are not handled yet
  peerOf,     \* in "push" the sender, in "hello" the destination
  pend,       \* in "push" the message being handed to taskq
  errcode, mtx, ctor,
  clientmap, clientq,
  bound,      \* nodes whose router_sock is bound
  link,       \* connections asked for and not yet established
  route,      \* route[n]: identities router_sock of n can reach
  net,        \* net[n][p]: messages from n to p not yet received
  msgpipe, connpipe, shutpipe,  \* pipes from the threads to msgq, conn_sock, shutdown_sock
  pullers, turn,                \* threads connected to taskq, and whose turn it is
  taskpipe,                     \* messages in a thread's taskpull
  step,       \* where thread t is inside its call; "idle" between calls
  result      \* what the calls of t returned

hVars   == <<hpc, seen, todo, peerOf, pend>>
netVars == <<bound, link, route, net>>
inVars  == <<msgpipe, connpipe, shutpipe>>
outVars == <<pullers, turn, taskpipe>>
vars == <<hpc, seen, todo, peerOf, pend, errcode, mtx, ctor, clientmap, clientq,
          bound, link, route, net, msgpipe, connpipe, shutpipe,
          pullers, turn, taskpipe, step, result>>

Init ==
  /\ hpc = [n \in Node |-> "start"]
  /\ seen = [n \in Node |-> {}]
  /\ todo = [n \in Node |-> {}]
  /\ peerOf = [n \in Node |-> n]
  /\ pend = [n \in Node |-> Hello]
  /\ errcode = [n \in Node |-> FALSE]
  /\ mtx = [n \in Node |-> TRUE]        \* the constructor holds it
  /\ ctor = [n \in Node |-> "wait"]
  /\ clientmap = [n \in Node |-> {}]
  /\ clientq = [n \in Node |-> <<>>]
  /\ bound = {}
  /\ link = {}
  /\ route = [n \in Node |-> {}]
  /\ net = [n \in Node |-> [p \in Node |-> <<>>]]
  /\ msgpipe = [t \in Thread |-> <<>>]
  /\ connpipe = [t \in Thread |-> <<>>]
  /\ shutpipe = {}
  /\ pullers = [n \in Node |-> <<>>]
  /\ turn = [n \in Node |-> 1]
  /\ taskpipe = [t \in Thread |-> <<>>]
  /\ step = [t \in Thread |-> "idle"]
  /\ result = [t \in Thread |-> <<>>]

-----------------------------------------------------------------------------
(* The constructor and the setup part of start_handler *)

Unlock(n) == mtx' = [mtx EXCEPT ![n] = FALSE]
Die(n)    == hpc' = [hpc EXCEPT ![n] = "dead"]
Fail(n)   == Die(n) /\ errcode' = [errcode EXCEPT ![n] = TRUE]

appVars   == <<step, result>>
setupRest == <<seen, todo, peerOf, pend, ctor, clientmap, clientq, link, route, net,
               inVars, outVars, appVars>>

HandlerStarts(n) ==
  /\ hpc[n] = "start"
  /\ hpc' = [hpc EXCEPT ![n] = "handle"]
  /\ bound' = bound \union ({n} \intersect Acceptors)
  /\ Unlock(n)
  /\ UNCHANGED <<errcode, setupRest>>

\* zmq_socket_monitor fails.
MonitorFails(n) ==
  /\ "monitor" \in Faults
  /\ hpc[n] = "start"
  /\ Fail(n)
  /\ Unlock(n)
  /\ UNCHANGED <<bound, setupRest>>

\* setsockopt, connect to the monitor or bind throws: errcode stays 0.
SetupThrows(n) ==
  /\ "setup" \in Faults
  /\ hpc[n] = "start"
  /\ Die(n)
  /\ Unlock(n)
  /\ UNCHANGED <<errcode, bound, setupRest>>

\* The second pthread_mutex_lock of the constructor and what follows it.
CtorReturns(n) ==
  /\ ctor[n] = "wait"
  /\ ~mtx[n]
  /\ ctor' = [ctor EXCEPT ![n] = IF errcode[n] THEN "thrown" ELSE "ok"]
  /\ UNCHANGED <<hVars, errcode, mtx, clientmap, clientq, netVars, inVars, outVars, appVars>>

-----------------------------------------------------------------------------
(* zmq::poll *)

ThreadsOf(n) == {t \in Thread : NodeOf[t] = n}

Ready(n) ==
     {i \in {"msgq"}     : \E t \in ThreadsOf(n) : msgpipe[t] # <<>>}
  \union {i \in {"router"}   : \E p \in Node : net[p][n] # <<>>}
  \union {i \in {"conn"}     : \E t \in ThreadsOf(n) : connpipe[t] # <<>>}
  \union {i \in {"shutdown"} : n \in shutpipe}

pollRest == <<peerOf, pend, mtx, ctor, clientmap, clientq, netVars, inVars, outVars, appVars>>

\* The loop goes round: zmq_poll starts to look at the sockets one by one.
PollBegins(n) ==
  /\ hpc[n] = "handle"
  /\ todo[n] = {}
  /\ hpc' = [hpc EXCEPT ![n] = "poll"]
  /\ seen' = [seen EXCEPT ![n] = Ready(n)]
  /\ UNCHANGED <<todo, errcode, pollRest>>

\* It reports every socket that was ready when it began, and of those that
\* became ready meanwhile the ones it looked at late enough.
PollReturns(n) ==
  /\ hpc[n] = "poll"
  /\ \E R \in SUBSET Ready(n) :
       /\ R # {}
       /\ seen[n] \subseteq R
       /\ todo' = [todo EXCEPT ![n] = R]
  /\ hpc' = [hpc EXCEPT ![n] = "handle"]
  /\ seen' = [seen EXCEPT ![n] = {}]
  /\ UNCHANGED <<errcode, pollRest>>

PollFails(n) ==
  /\ "poll" \in Faults
  /\ hpc[n] = "poll"
  /\ Fail(n)
  /\ UNCHANGED <<seen, todo, pollRest>>

-----------------------------------------------------------------------------
(* The body of the loop: the items of pollitems in the order of the code,   *)
(* one message of each; shutdown comes last.                                *)

Order == [msgq |-> 1, router |-> 2, conn |-> 3, shutdown |-> 4]

Turn(n, item) ==
  /\ hpc[n] = "handle"
  /\ item \in todo[n]
  /\ \A other \in todo[n] : Order[item] <= Order[other]

ItemDone(n, item) == todo' = [todo EXCEPT ![n] = @ \ {item}]

\* The first frame, the identity, is for the ROUTER; the second one travels.
Frame(m) == m.msg

\* pollitems[0]: a message to send; the result of router_sock.send is ignored.
HandleMsgq(n, t) ==
  /\ Turn(n, "msgq")
  /\ NodeOf[t] = n
  /\ msgpipe[t] # <<>>
  /\ LET m == Head(msgpipe[t])
     IN  net' = IF m.peer \in route[n]
                THEN [net EXCEPT ![n][m.peer] = Append(@, Frame(m))]
                ELSE net
  /\ msgpipe' = [msgpipe EXCEPT ![t] = Tail(@)]
  /\ ItemDone(n, "msgq")
  /\ UNCHANGED <<hpc, seen, peerOf, pend, errcode, mtx, ctor, clientmap, clientq,
                 bound, link, route, connpipe, shutpipe, outVars, appVars>>

\* The first message of an identity makes it a client, whatever it says.
Register(n, p) ==
  /\ clientq' = [clientq EXCEPT ![n] = Append(@, p)]
  /\ clientmap' = [clientmap EXCEPT ![n] = @ \union {p}]

\* pollitems[1]: a message from peer p.
HandleRouter(n, p) ==
  /\ Turn(n, "router")
  /\ net[p][n] # <<>>
  /\ net' = [net EXCEPT ![p][n] = Tail(@)]
  /\ \/ /\ p \notin clientmap[n]
        /\ Register(n, p)
        /\ UNCHANGED <<hpc, peerOf, pend>>
     \/ /\ p \in clientmap[n]
        /\ hpc' = [hpc EXCEPT ![n] = "push"]
        /\ peerOf' = [peerOf EXCEPT ![n] = p]
        /\ pend' = [pend EXCEPT ![n] = Head(net[p][n])]
        /\ UNCHANGED <<clientmap, clientq>>
  /\ ItemDone(n, "router")
  /\ UNCHANGED <<seen, errcode, mtx, ctor, bound, link, route, inVars, outVars, appVars>>

\* taskq is a PUSH socket: it deals to the connected threads in turn, and
\* blocks the communication thread while no thread has called recv yet.
PushTask(n) ==
  /\ hpc[n] = "push"
  /\ pullers[n] # <<>>
  /\ LET t == pullers[n][turn[n]]
     IN  taskpipe' = [taskpipe EXCEPT ![t] = Append(@, [peer |-> peerOf[n], msg |-> pend[n]])]
  /\ turn' = [turn EXCEPT ![n] = (@ % Len(pullers[n])) + 1]
  /\ hpc' = [hpc EXCEPT ![n] = "handle"]
  /\ UNCHANGED <<seen, todo, peerOf, pend, errcode, mtx, ctor, clientmap, clientq,
                 netVars, inVars, pullers, appVars>>

DestKnown_Not(n, d) == UNCHANGED clientmap

\* clientmap[destid] = true: what the server says later is no registration.
DestKnown(n, d) == clientmap' = [clientmap EXCEPT ![n] = @ \union {d}]

connRest == <<seen, pend, ctor, clientq, bound, route, net, msgpipe, shutpipe, outVars, appVars>>

TakeRequest(n, t) ==
  /\ Turn(n, "conn")
  /\ NodeOf[t] = n
  /\ connpipe[t] # <<>>
  /\ connpipe' = [connpipe EXCEPT ![t] = Tail(@)]
  /\ ItemDone(n, "conn")

KeepWaiting_Released(n) == Unlock(n)

\* The requester is not released before the greeting is out.
KeepWaiting(n) == UNCHANGED mtx

\* pollitems[4]: connect router_sock, then greet the destination until it works.
HandleConn(n, t) ==
  /\ TakeRequest(n, t)
  /\ LET d == Head(connpipe[t])
     IN  /\ link' = link \union {<<n, d>>}
         /\ DestKnown(n, d)
         /\ peerOf' = [peerOf EXCEPT ![n] = d]
  /\ hpc' = [hpc EXCEPT ![n] = "hello"]
  /\ KeepWaiting(n)
  /\ UNCHANGED <<errcode, connRest>>

HandleConnFails(n, t) ==
  /\ "connect" \in Faults
  /\ TakeRequest(n, t)
  /\ Fail(n)
  /\ Unlock(n)
  /\ UNCHANGED <<link, clientmap, peerOf, connRest>>

ReleaseRequester_Forgotten(n) == UNCHANGED mtx

ReleaseRequester(n) == Unlock(n)

\* The loop while(ret < 0) ends when the identity of the peer is known.
SendHello(n) ==
  /\ hpc[n] = "hello"
  /\ peerOf[n] \in route[n]
  /\ net' = [net EXCEPT ![n][peerOf[n]] = Append(@, Hello)]
  /\ ReleaseRequester(n)
  /\ hpc' = [hpc EXCEPT ![n] = "handle"]
  /\ UNCHANGED <<seen, todo, peerOf, pend, errcode, ctor, clientmap, clientq,
                 bound, link, route, inVars, outVars, appVars>>

\* recv_msg fails in the branch whose turn it is; only the one for conn_sock
\* unlocks sync_mtx.
RecvFails(n) ==
  /\ "recv" \in Faults
  /\ \/ /\ Turn(n, "msgq") \/ Turn(n, "router")
        /\ UNCHANGED <<mtx, todo, connpipe>>
     \/ /\ Unlock(n)
        /\ \E t \in Thread : TakeRequest(n, t)
  /\ Fail(n)
  /\ UNCHANGED <<seen, peerOf, pend, ctor, clientmap, clientq, netVars,
                 msgpipe, shutpipe, outVars, appVars>>

\* pollitems[3], between the router and the connection requests: an event of the
\* monitor that cannot be received or is not expected.  (The expected events
\* change nothing; zmq::poll may also have returned for the monitor alone.)
EventFails(n) ==
  /\ "recv" \in Faults
  /\ \/ hpc[n] = "handle" /\ todo[n] \intersect {"msgq", "router"} = {}
     \/ hpc[n] = "poll" /\ seen[n] = {}
  /\ Fail(n)
  /\ UNCHANGED <<seen, todo, pollRest>>

\* pollitems[2], tested last: the thread ends.
HandleShutdown(n) ==
  /\ Turn(n, "shutdown")
  /\ hpc' = [hpc EXCEPT ![n] = "stopped"]
  /\ shutpipe' = shutpipe \ {n}
  /\ ItemDone(n, "shutdown")
  /\ UNCHANGED <<seen, peerOf, pend, errcode, mtx, ctor, clientmap, clientq, netVars,
                 msgpipe, connpipe, outVars, appVars>>

\* 0MQ's I/O threads: both ends learn each other's identity.
Handshake(n, d) ==
  /\ <<n, d>> \in link
  /\ d \in bound
  /\ link' = link \ {<<n, d>>}
  /\ route' = [route EXCEPT ![n] = @ \union {d}, ![d] = @ \union {n}]
  /\ UNCHANGED <<hVars, errcode, mtx, ctor, clientmap, clientq, bound, net,
                 inVars, outVars, appVars>>

-----------------------------------------------------------------------------
(* Calls of the application threads *)

handlerRest == <<hVars, errcode, ctor, clientmap, netVars>>

Index(t) == Len(result[t]) + 1       \* of the call t makes now or next
Call(t)  == Program[t][Index(t)]

Calls(t, op) ==
  /\ step[t] = "idle"
  /\ ctor[NodeOf[t]] = "ok"
  /\ Index(t) <= Len(Program[t])
  /\ Call(t).op = op

Goto(t, s) == step' = [step EXCEPT ![t] = s] /\ UNCHANGED result

Return(t, ret, peer, msg) ==
  /\ step' = [step EXCEPT ![t] = "idle"]
  /\ result' = [result EXCEPT ![t] = Append(@, [ret |-> ret, peer |-> peer, msg |-> msg])]

\* if(errcode) return -1; at the start of every call but shutdown.
Refused(t) ==
  /\ \E op \in Op \ {"shutdown"} : Calls(t, op)
  /\ errcode[NodeOf[t]]
  /\ Return(t, "error", Call(t).peer, Hello)
  /\ UNCHANGED <<handlerRest, mtx, clientq, inVars, outVars>>

Verdict_Unchecked(n) == "ok"

\* if(errcode) return -1; at the end of a call.
Verdict(n) == IF errcode[n] THEN "error" ELSE "ok"

(* connect_to *)

connect_to(t) ==
  /\ Calls(t, "connect")
  /\ ~errcode[NodeOf[t]]
  /\ Goto(t, "lock")
  /\ UNCHANGED <<handlerRest, mtx, clientq, inVars, outVars>>

\* The first pthread_mutex_lock, and the request to the communication thread.
ConnectRequest(t) ==
  /\ step[t] = "lock"
  /\ ~mtx[NodeOf[t]]
  /\ mtx' = [mtx EXCEPT ![NodeOf[t]] = TRUE]
  /\ connpipe' = [connpipe EXCEPT ![t] = Append(@, Call(t).peer)]
  /\ Goto(t, "lock again")
  /\ UNCHANGED <<handlerRest, clientq, msgpipe, shutpipe, outVars>>

\* The request cannot be pushed: unlock and give up.
ConnectPushFails(t) ==
  /\ "push" \in Faults
  /\ step[t] = "lock"
  /\ ~mtx[NodeOf[t]]
  /\ Return(t, "error", Call(t).peer, Hello)
  /\ UNCHANGED <<handlerRest, mtx, clientq, inVars, outVars>>

\* The second lock succeeds after somebody's unlock, and is given up at once.
ConnectWakes(t) ==
  /\ step[t] = "lock again"
  /\ ~mtx[NodeOf[t]]
  /\ Goto(t, "check")
  /\ UNCHANGED <<handlerRest, mtx, clientq, inVars, outVars>>

ConnectReturns(t) ==
  /\ step[t] = "check"
  /\ Call(t).op = "connect"
  /\ Return(t, Verdict(NodeOf[t]), Call(t).peer, Hello)
  /\ UNCHANGED <<handlerRest, mtx, clientq, inVars, outVars>>

(* get_one_connection *)

AcceptRefused(t) ==
  /\ Calls(t, "accept")
  /\ NodeOf[t] \notin Acceptors
  /\ Return(t, "error", Call(t).peer, Hello)
  /\ UNCHANGED <<handlerRest, mtx, clientq, inVars, outVars>>

get_one_connection(t) ==
  /\ Calls(t, "accept")
  /\ NodeOf[t] \in Acceptors
  /\ ~errcode[NodeOf[t]]
  /\ Goto(t, "pop")
  /\ UNCHANGED <<handlerRest, mtx, clientq, inVars, outVars>>

\* clientq.pop() blocks until the communication thread has pushed a client.
AcceptReturns(t) ==
  LET n == NodeOf[t]
  IN  /\ step[t] = "pop"
      /\ clientq[n] # <<>>
      /\ clientq' = [clientq EXCEPT ![n] = Tail(@)]
      /\ Return(t, "ok", Head(clientq[n]), Hello)
      /\ UNCHANGED <<handlerRest, mtx, inVars, outVars>>

(* send *)

send(t) ==
  /\ Calls(t, "send")
  /\ ~errcode[NodeOf[t]]
  /\ msgpipe' = [msgpipe EXCEPT ![t] =
                   Append(@, [peer |-> Call(t).peer, msg |-> Data(t, Index(t))])]
  /\ Goto(t, "check")
  /\ UNCHANGED <<handlerRest, mtx, clientq, connpipe, shutpipe, outVars>>

SendReturns(t) ==
  /\ step[t] = "check"
  /\ Call(t).op = "send"
  /\ Return(t, Verdict(NodeOf[t]), Call(t).peer, Data(t, Index(t)))
  /\ UNCHANGED <<handlerRest, mtx, clientq, inVars, outVars>>

(* recv and recv_async *)

Connected(t) == \E i \in DOMAIN pullers[NodeOf[t]] : pullers[NodeOf[t]][i] = t

\* The first recv or recv_async of a thread connects its taskpull.
ConnectPull(t) ==
  pullers' = IF Connected(t) THEN pullers
             ELSE [pullers EXCEPT ![NodeOf[t]] = Append(@, t)]

recv(t) ==
  /\ Calls(t, "recv")
  /\ ~errcode[NodeOf[t]]
  /\ ConnectPull(t)
  /\ Goto(t, "wait")
  /\ UNCHANGED <<handlerRest, mtx, clientq, inVars, turn, taskpipe>>

Pulled_NotRemoved(q) == q

\* What recv_msg leaves in the pipe.
Pulled(q) == Tail(q)

\* The message is taken first; if errcode is set by then it is thrown away.
TakeTask(t) ==
  LET m == Head(taskpipe[t])
  IN  /\ taskpipe[t] # <<>>
      /\ taskpipe' = [taskpipe EXCEPT ![t] = Pulled(@)]
      /\ Return(t, Verdict(NodeOf[t]), m.peer, m.msg)

RecvReturns(t) ==
  /\ step[t] = "wait"
  /\ TakeTask(t)
  /\ UNCHANGED <<handlerRest, mtx, clientq, inVars, pullers, turn>>

\* recv_async returns 0 when nothing has come; the programs then call it again.
recv_async(t) ==
  /\ Calls(t, "recv_async")
  /\ ~errcode[NodeOf[t]]
  /\ ConnectPull(t)
  /\ \/ TakeTask(t)
     \/ /\ taskpipe[t] = <<>>
        /\ UNCHANGED <<taskpipe, appVars>>
  /\ UNCHANGED <<handlerRest, mtx, clientq, inVars, turn>>

(* shutdown *)

shutdown(t) ==
  /\ Calls(t, "shutdown")
  /\ shutpipe' = shutpipe \union {NodeOf[t]}
  /\ Goto(t, "join")
  /\ UNCHANGED <<handlerRest, mtx, clientq, msgpipe, connpipe, outVars>>

ShutdownReturns(t) ==
  /\ step[t] = "join"
  /\ hpc[NodeOf[t]] \in {"stopped", "dead"}
  /\ Return(t, "ok", NodeOf[t], Hello)
  /\ UNCHANGED <<handlerRest, mtx, clientq, inVars, outVars>>

-----------------------------------------------------------------------------
SetupNext(n) ==
  HandlerStarts(n) \/ MonitorFails(n) \/ SetupThrows(n)

HandlerNext(n) ==
  \/ SetupNext(n) \/ PollBegins(n) \/ PollReturns(n) \/ PollFails(n)
  \/ \E t \in Thread : HandleMsgq(n, t) \/ HandleConn(n, t) \/ HandleConnFails(n, t)
  \/ \E p \in Node : HandleRouter(n, p)
  \/ PushTask(n) \/ SendHello(n) \/ RecvFails(n) \/ EventFails(n) \/ HandleShutdown(n)

ThreadNext(t) ==
  \/ Refused(t)
  \/ connect_to(t) \/ ConnectRequest(t) \/ ConnectPushFails(t)
  \/ ConnectWakes(t) \/ ConnectReturns(t)
  \/ AcceptRefused(t) \/ get_one_connection(t) \/ AcceptReturns(t)
  \/ send(t) \/ SendReturns(t)
  \/ recv(t) \/ RecvReturns(t) \/ recv_async(t)
  \/ shutdown(t) \/ ShutdownReturns(t)

Next == \/ \E n \in Node : HandlerNext(n) \/ CtorReturns(n)
        \/ \E n, d \in Node : Handshake(n, d)
        \/ \E t \in Thread : ThreadNext(t)

Spec == Init /\ [][Next]_vars

\* Every thread that can run runs, and 0MQ establishes connections to bound
\* sockets.  A thread blocked on sync_mtx is only weakly fair: it may be
\* overtaken, but the mutex is free for good once the others are done.
Fairness ==
  /\ \A n \in Node : WF_vars(HandlerNext(n)) /\ WF_vars(CtorReturns(n))
  /\ \A n, d \in Node : WF_vars(Handshake(n, d))
  /\ \A t \in Thread : WF_vars(ThreadNext(t))

FairSpec == Spec /\ Fairness

\* With faults: a communication thread that can go on without failing does not
\* wait for a failure.
FaultFairSpec ==
  /\ Spec
  /\ \A n \in Node : WF_vars(HandlerNext(n) /\ hpc'[n] # "dead") /\ WF_vars(CtorReturns(n))
  /\ \A n, d \in Node : WF_vars(Handshake(n, d))
  /\ \A t \in Thread : WF_vars(ThreadNext(t))

-----------------------------------------------------------------------------
(* Correctness *)

Item == {"msgq", "router", "conn", "shutdown"}

\* What every variable of start_handler and of the calls holds; a message that
\* travels is the frame after the identity.
TypeOK ==
  /\ hpc \in [Node -> {"start", "handle", "poll", "push", "hello", "stopped", "dead"}]
  /\ seen \in [Node -> SUBSET Item]
  /\ todo \in [Node -> SUBSET Item]
  /\ peerOf \in [Node -> Node]
  /\ pend \in [Node -> Message]
  /\ errcode \in [Node -> BOOLEAN]
  /\ mtx \in [Node -> BOOLEAN]
  /\ ctor \in [Node -> {"wait", "ok", "thrown"}]
  /\ clientmap \in [Node -> SUBSET Node]
  /\ clientq \in [Node -> Seq(Node)]
  /\ bound \in SUBSET Node
  /\ link \in SUBSET (Node \X Node)
  /\ route \in [Node -> SUBSET Node]
  /\ net \in [Node -> [Node -> Seq(Message)]]
  /\ msgpipe \in [Thread -> Seq([peer : Node, msg : Message])]
  /\ connpipe \in [Thread -> Seq(Node)]
  /\ shutpipe \in SUBSET Node
  /\ pullers \in [Node -> Seq(Thread)]
  /\ turn \in [Node -> Nat]
  /\ taskpipe \in [Thread -> Seq([peer : Node, msg : Message])]
  /\ step \in [Thread -> {"idle", "lock", "lock again", "check", "pop", "wait", "join"}]
  /\ result \in [Thread -> Seq(Result)]

\* Requests the communication thread of n has not finished with.
Outstanding(n) == {t \in ThreadsOf(n) : connpipe[t] # <<>>}

\* sync_mtx is a rendezvous although nobody owns it: while a request waits or
\* is being served (or the setup runs) the mutex is locked and the request is
\* the only one, so no unlock can be taken for the answer to another request.
OneRendezvous ==
  \A n \in Node :
    /\ hpc[n] \in {"start", "hello"} => mtx[n] /\ Outstanding(n) = {}
    /\ Outstanding(n) # {} => mtx[n]
    /\ \A t, u \in Outstanding(n) : t = u
    /\ \A t \in Outstanding(n) : Len(connpipe[t]) = 1

\* n has greeted d: d has registered it, or the greeting is on its way.
Announced(n, d) == n \in clientmap[d] \/ Hello \in Range(net[n][d])

\* When connect_to returns 0 the destination has been reached, however many
\* threads connect at the same time and whatever fails.
ConnectHonest ==
  \A t \in Thread : \A k \in DOMAIN result[t] :
    Program[t][k].op = "connect" /\ result[t][k].ret = "ok"
      => Announced(NodeOf[t], Program[t][k].peer)

CallsMade == UNION {{t} \X DOMAIN result[t] : t \in Thread}
OpOf(c)   == Program[c[1]][c[2]].op
Res(c)    == result[c[1]][c[2]]

Got      == {c \in CallsMade : OpOf(c) \in {"recv", "recv_async"} /\ Res(c).ret = "ok"}
Accepted == {c \in CallsMade : OpOf(c) = "accept" /\ Res(c).ret = "ok"}

\* Thread t has begun its k-th call.
Begun(t, k) == k < Index(t) \/ (k = Index(t) /\ step[t] # "idle")

\* The calls of connect_to with the address of n that threads of p have begun.
ConnectCalls(p, n) ==
  {c \in UNION {{t} \X DOMAIN Program[t] : t \in ThreadsOf(p)} :
     Begun(c[1], c[2]) /\ Program[c[1]][c[2]] = [op |-> "connect", peer |-> n]}

CalledConnect(p, n) == ConnectCalls(p, n) # {}

GotMessage == {c \in Got : Res(c).msg # Hello}

\* Greetings of p that recv or recv_async handed to the threads of n.
Greetings(p, n) == {c \in Got \ GotMessage : Res(c).peer = p /\ NodeOf[c[1]] = n}

\* What recv returns was sent to this node by the peer recv names; no message
\* is received twice, by whichever threads; the messages one thread gets from
\* another come in the order they were sent, although they pass through the
\* pipes of four sockets; and a greeting is handed to the application at most
\* once for each connect_to of its sender, the first one only if this node
\* called connect_to for that peer itself (and so knows it without a greeting).
DeliveredOnceInOrder ==
  /\ \A c \in GotMessage :
       LET m == Res(c).msg
       IN  /\ NodeOf[m[1]] = Res(c).peer
           /\ Program[m[1]][m[2]].peer = NodeOf[c[1]]
  /\ \A c, d \in GotMessage : Res(c).msg = Res(d).msg => c = d
  /\ \A c, d \in GotMessage :
       c[1] = d[1] /\ c[2] < d[2] /\ Res(c).msg[1] = Res(d).msg[1]
         => Res(c).msg[2] < Res(d).msg[2]
  /\ \A p, n \in Node :
       Cardinality(Greetings(p, n)) + (IF CalledConnect(n, p) \/ Greetings(p, n) = {} THEN 0 ELSE 1)
         <= Cardinality(ConnectCalls(p, n))

\* get_one_connection yields the nodes that connected to this one and no
\* others, each of them once: no reply of a server is taken for a new client,
\* and no later message of a client for a new connection.
AcceptHonest ==
  \A n \in Node :
    LET mine == {c \in Accepted : NodeOf[c[1]] = n}
    IN  /\ \A p \in Range(clientq[n]) \union {Res(c).peer : c \in mine} : CalledConnect(p, n)
        /\ \A c, d \in mine : Res(c).peer = Res(d).peer => c = d
        /\ \A c \in mine : Res(c).peer \notin Range(clientq[n])
        /\ \A i, j \in DOMAIN clientq[n] : clientq[n][i] = clientq[n][j] => i = j

\* Every call of every thread returns.
AllCallsReturn == \A t \in Thread : <>(Len(result[t]) = Len(Program[t]))

\* A communication thread has died, or a call has reported an error.
Failure ==
  \/ \E n \in Node : hpc[n] = "dead"
  \/ \E t \in Thread : \E k \in DOMAIN result[t] : result[t][k].ret = "error"

\* A call hangs only after a failure: errcode is checked before a call blocks
\* and not while it does (get_one_connection, recv), so the death of a handler
\* can leave callers waiting; in a process that receives what it is sent
\* nothing else can.
HangsOnlyAfterFailure == \A t \in Thread : <>(Len(result[t]) = Len(Program[t]) \/ Failure)

\* The usage note of comm_handler: connections are accepted all the time, not
\* only when get_one_connection is called.  A greeting that has arrived at the
\* socket of an acceptor is registered in the end.
AcceptsAllTheTime ==
  \A n, d \in Node : (Hello \in Range(net[n][d])) ~> (n \in clientmap[d])
=============================================================================
