------------------------------- MODULE PubSub -------------------------------
(***************************************************************************)
(* The publish/subscribe part of comm_handler (src/comm_zmq/src), with the *)
(* unicast operations it rests on.  A publisher calls init_pub, which      *)
(* publishes greetings until enough subscribers have answered through the  *)
(* router sockets; a subscriber calls connect_to and then subscribe_to,    *)
(* which waits on sync_mtx until its communication thread has met the      *)
(* publisher's greeting.  The constructors have returned in Init.          *)
(*                                                                         *)
(* 0MQ is external, as in CommHandler; besides, a PUB socket keeps the     *)
(* subscriptions that have reached it (they travel asynchronously), sends  *)
(* a message to the subscribers of its group at that moment and to nobody  *)
(* else, and keeps the order of the messages to one subscriber.            *)
(*                                                                         *)
(* Definitions named X_<Bug> are X with a plausible programming error;     *)
(* nothing uses them, they document which error a property would catch.    *)
(***************************************************************************)
EXTENDS Integers, Sequences, FiniteSets, FiniteSetsExt, SequencesExt

CONSTANTS Node,        \* one comm_handler each; a node stands for its id and addresses
          Group,       \* publication groups, the ids publish and subscribe_to take
          NoAddr,      \* empty ip and port
          Thread,      \* application threads
          NodeOf,      \* NodeOf[t]: the node whose comm_handler t uses
          Programs,    \* Programs[p][t]: the calls of t in program p
          MaxHellos,   \* greetings of one publisher a subscriber has not read
          Faults       \* which operations on 0MQ sockets can fail

Op == {"accept", "connect", "subscribe", "init_pub", "publish", "recv"}

\* A call names a node (its own or NoAddr for init_pub), groups and a number.
\* connect_to takes an address, init_pub and publish take one group.
CallType ==
  {c \in [op : Op, peer : Node \union {NoAddr}, groups : SUBSET Group, num : Nat] :
     /\ c.op = "connect" => c.peer \in Node
     /\ c.op \in {"init_pub", "publish"} => c.groups # {}}

ASSUME PubSubAssumption ==
  /\ NodeOf \in [Thread -> Node]
  /\ NoAddr \notin Node
  /\ \A p \in DOMAIN Programs : Programs[p] \in [Thread -> Seq(CallType)]
  /\ MaxHellos \in Nat \ {0}
  /\ Faults \subseteq {"poll", "recv", "connect", "pubsub"}

\* COMM_HANDLER_INIT and COMM_HANDLER_SUB_INIT travel between routers;
\* COMM_HANDLER_PUB_INIT and the application's messages are published.
PubHello   == <<"pub_hello", 0>>
Data(t, k) == <<t, k>>

VARIABLES
  prog,         \* the program that runs
  hpc,          \* communication thread: "handle", "poll", "push" (taskq),
                \* "pushsub" (suberq), "hello" or "dead"
  seen, todo,   \* items ready when zmq::poll began; items not handled yet
  pend,         \* what the communication thread holds in "push", "pushsub", "hello"
  errcode, mtx,
  clientmap, clientq, publishermap,
  link, route,  \* connections of router_sock asked for; identities it can reach
  net,          \* net[n][p]: messages between routers
  pubbound,     \* nodes whose pub_sock is bound
  subconn,      \* subconn[n]: publishers sub_sock of n is connected to
  subgroups,    \* subgroups[n]: groups set with ZMQ_SUBSCRIBE
  joined,       \* joined[p]: subscriptions <<n, g>> known to pub_sock of p
  pubnet,       \* pubnet[p][n]: published messages on their way
  connpipe, pubpipe, subpipe, startpipe,    \* requests to the communication thread
  pullers, turn, taskpipe,                  \* taskq and the threads connected to it
  subpullers, subturn, suberpipe,           \* suberq likewise
  step, nsubs, result                       \* the calls

hVars   == <<hpc, seen, todo, pend>>
mapVars == <<clientmap, clientq, publishermap>>
netVars == <<link, route, net>>
pubVars == <<pubbound, subconn, subgroups, joined, pubnet>>
inVars  == <<connpipe, pubpipe, subpipe, startpipe>>
outVars == <<pullers, turn, taskpipe, subpullers, subturn, suberpipe>>
appVars == <<prog, step, nsubs, result>>
vars == <<prog, hpc, seen, todo, pend, errcode, mtx, clientmap, clientq, publishermap,
          link, route, net, pubbound, subconn, subgroups, joined, pubnet,
          connpipe, pubpipe, subpipe, startpipe, pullers, turn, taskpipe,
          subpullers, subturn, suberpipe, step, nsubs, result>>

Program == Programs[prog]

Nothing == [to |-> NoAddr, msg |-> PubHello]

Init ==
  /\ prog \in DOMAIN Programs
  /\ hpc = [n \in Node |-> "handle"]
  /\ seen = [n \in Node |-> {}]
  /\ todo = [n \in Node |-> {}]
  /\ pend = [n \in Node |-> Nothing]
  /\ errcode = [n \in Node |-> FALSE]
  /\ mtx = [n \in Node |-> FALSE]
  /\ clientmap = [n \in Node |-> {}]
  /\ clientq = [n \in Node |-> <<>>]
  /\ publishermap = [n \in Node |-> {}]
  /\ link = {}
  /\ route = [n \in Node |-> {}]
  /\ net = [n \in Node |-> [p \in Node |-> <<>>]]
  /\ pubbound = {}
  /\ subconn = [n \in Node |-> {}]
  /\ subgroups = [n \in Node |-> {}]
  /\ joined = [n \in Node |-> {}]
  /\ pubnet = [n \in Node |-> [p \in Node |-> <<>>]]
  /\ connpipe = [t \in Thread |-> <<>>]
  /\ pubpipe = [t \in Thread |-> <<>>]
  /\ subpipe = [t \in Thread |-> <<>>]
  /\ startpipe = [t \in Thread |-> <<>>]
  /\ pullers = [n \in Node |-> <<>>]
  /\ turn = [n \in Node |-> 1]
  /\ taskpipe = [t \in Thread |-> <<>>]
  /\ subpullers = [n \in Node |-> <<>>]
  /\ subturn = [n \in Node |-> 1]
  /\ suberpipe = [t \in Thread |-> <<>>]
  /\ step = [t \in Thread |-> "idle"]
  /\ nsubs = [t \in Thread |-> 0]
  /\ result = [t \in Thread |-> <<>>]

-----------------------------------------------------------------------------
(* zmq::poll *)

ThreadsOf(n) == {t \in Thread : NodeOf[t] = n}

Waiting(n, pipe) == \E t \in ThreadsOf(n) : pipe[t] # <<>>

Ready(n) ==
     {i \in {"router"}   : \E p \in Node : net[p][n] # <<>>}
  \union {i \in {"conn"}     : Waiting(n, connpipe)}
  \union {i \in {"pubsend"}  : Waiting(n, pubpipe)}
  \union {i \in {"sub"}      : Waiting(n, subpipe)}
  \union {i \in {"subsock"}  : \E p \in Node : pubnet[p][n] # <<>>}
  \union {i \in {"pubstart"} : Waiting(n, startpipe)}

Unlock(n) == mtx' = [mtx EXCEPT ![n] = FALSE]
Fail(n)   == /\ hpc' = [hpc EXCEPT ![n] = "dead"]
             /\ errcode' = [errcode EXCEPT ![n] = TRUE]

pollRest == <<pend, mtx, mapVars, netVars, pubVars, inVars, outVars, appVars>>

PollBegins(n) ==
  /\ hpc[n] = "handle"
  /\ todo[n] = {}
  /\ hpc' = [hpc EXCEPT ![n] = "poll"]
  /\ seen' = [seen EXCEPT ![n] = Ready(n)]
  /\ UNCHANGED <<todo, errcode, pollRest>>

\* What was ready when poll began is reported; what became ready meanwhile
\* may be.
PollReturns(n) ==
  /\ hpc[n] = "poll"
  /\ \E R \in SUBSET Ready(n) :
       /\ R # {}
       /\ seen[n] \subseteq R
       /\ todo' = [todo EXCEPT ![n] = R]
  /\ hpc' = [hpc EXCEPT ![n] = "handle"]
  /\ seen' = [seen EXCEPT ![n] = {}]
  /\ UNCHANGED <<errcode, pollRest>>

PollFails(n) ==
  /\ "poll" \in Faults
  /\ hpc[n] = "poll"
  /\ Fail(n)
  /\ UNCHANGED <<seen, todo, pollRest>>

-----------------------------------------------------------------------------
(* The body of the loop: one message of each reported item, in this order.  *)

Order == [router |-> 1, conn |-> 2, pubsend |-> 3, sub |-> 4, subsock |-> 5, pubstart |-> 6]

Turn(n, item) ==
  /\ hpc[n] = "handle"
  /\ item \in todo[n]
  /\ \A other \in todo[n] : Order[item] <= Order[other]

ItemDone(n, item) == todo' = [todo EXCEPT ![n] = @ \ {item}]

\* Go on to something that may block: a push, or greeting a destination.
Blocks(n, where, to, msg) ==
  /\ hpc' = [hpc EXCEPT ![n] = where]
  /\ pend' = [pend EXCEPT ![n] = [to |-> to, msg |-> msg]]

\* pollitems[1]: a subscriber's answer goes to suberq; a new identity is a new
\* client; anything else is a task.
HandleRouter(n, p) ==
  /\ Turn(n, "router")
  /\ net[p][n] # <<>>
  /\ net' = [net EXCEPT ![p][n] = Tail(@)]
  /\ \/ /\ Head(net[p][n]) = "sub_hello"
        /\ Blocks(n, "pushsub", p, PubHello)
        /\ UNCHANGED <<clientmap, clientq>>
     \/ /\ Head(net[p][n]) = "hello"
        /\ p \notin clientmap[n]
        /\ clientmap' = [clientmap EXCEPT ![n] = @ \union {p}]
        /\ clientq' = [clientq EXCEPT ![n] = Append(@, p)]
        /\ UNCHANGED <<hpc, pend>>
     \/ /\ Head(net[p][n]) = "hello"
        /\ p \in clientmap[n]
        /\ Blocks(n, "push", p, PubHello)
        /\ UNCHANGED <<clientmap, clientq>>
  /\ ItemDone(n, "router")
  /\ UNCHANGED <<seen, errcode, mtx, publishermap, link, route, pubVars, inVars, outVars, appVars>>

\* suberq deals to the threads that have called init_pub, in turn.  Whoever
\* waits on sync_mtx is released, although nobody waits for this.
PushSuber(n) ==
  /\ hpc[n] = "pushsub"
  /\ subpullers[n] # <<>>
  /\ LET t == subpullers[n][subturn[n]]
     IN  suberpipe' = [suberpipe EXCEPT ![t] = Append(@, pend[n].to)]
  /\ subturn' = [subturn EXCEPT ![n] = (@ % Len(subpullers[n])) + 1]
  /\ Unlock(n)
  /\ hpc' = [hpc EXCEPT ![n] = "handle"]
  /\ pend' = [pend EXCEPT ![n] = Nothing]
  /\ UNCHANGED <<seen, todo, errcode, mapVars, netVars, pubVars, inVars,
                 pullers, turn, taskpipe, subpullers, appVars>>

\* taskq likewise, to the threads that have called recv.
PushTask(n) ==
  /\ hpc[n] = "push"
  /\ pullers[n] # <<>>
  /\ LET t == pullers[n][turn[n]]
     IN  taskpipe' = [taskpipe EXCEPT ![t] = Append(@, [from |-> pend[n].to, msg |-> pend[n].msg])]
  /\ turn' = [turn EXCEPT ![n] = (@ % Len(pullers[n])) + 1]
  /\ hpc' = [hpc EXCEPT ![n] = "handle"]
  /\ pend' = [pend EXCEPT ![n] = Nothing]
  /\ UNCHANGED <<seen, todo, errcode, mtx, mapVars, netVars, pubVars, inVars,
                 pullers, subpullers, subturn, suberpipe, appVars>>

\* Take the oldest request of one of the node's threads from a pipe.
TakeConn(n, t) ==
  /\ Turn(n, "conn")
  /\ NodeOf[t] = n
  /\ connpipe[t] # <<>>
  /\ connpipe' = [connpipe EXCEPT ![t] = Tail(@)]
  /\ ItemDone(n, "conn")

\* pollitems[4]: connect router_sock and greet the destination until it works.
HandleConn(n, t) ==
  /\ TakeConn(n, t)
  /\ LET d == Head(connpipe[t])
     IN  /\ link' = link \union {<<n, d>>}
         /\ clientmap' = [clientmap EXCEPT ![n] = @ \union {d}]
         /\ Blocks(n, "hello", d, PubHello)
  /\ UNCHANGED <<seen, errcode, mtx, clientq, publishermap, route, net, pubVars,
                 pubpipe, subpipe, startpipe, outVars, appVars>>

SendHello(n) ==
  /\ hpc[n] = "hello"
  /\ pend[n].to \in route[n]
  /\ net' = [net EXCEPT ![n][pend[n].to] = Append(@, "hello")]
  /\ Unlock(n)
  /\ hpc' = [hpc EXCEPT ![n] = "handle"]
  /\ pend' = [pend EXCEPT ![n] = Nothing]
  /\ UNCHANGED <<seen, todo, errcode, mapVars, link, route, pubVars, inVars, outVars, appVars>>

HelloOf(m) == m.msg = PubHello

Unread(p, n) == Cardinality({i \in DOMAIN pubnet[p][n] : HelloOf(pubnet[p][n][i])})

\* What reaches subscriber m when p publishes msg.  A greeting behind MaxHellos
\* unread ones of the same publisher is left out: it would be ignored.
Travels(p, m, msg) ==
  /\ <<m, msg.group>> \in joined[p]
  /\ HelloOf(msg) => Unread(p, m) < MaxHellos

\* pollitems[5]: publish.
HandlePubsend(n, t) ==
  /\ Turn(n, "pubsend")
  /\ NodeOf[t] = n
  /\ pubpipe[t] # <<>>
  /\ LET msg == Head(pubpipe[t])
     IN  pubnet' = [pubnet EXCEPT ![n] =
                      [m \in Node |-> IF Travels(n, m, msg) THEN Append(@[m], msg) ELSE @[m]]]
  /\ pubpipe' = [pubpipe EXCEPT ![t] = Tail(@)]
  /\ ItemDone(n, "pubsend")
  /\ UNCHANGED <<hpc, seen, pend, errcode, mtx, mapVars, netVars, pubbound, subconn, subgroups,
                 joined, connpipe, subpipe, startpipe, outVars, appVars>>

SubWaits_Released(n) == Unlock(n)

\* The subscriber is not released before a publisher has greeted it.
SubWaits(n) == UNCHANGED mtx

\* The groups the loop over the list sets.  It also runs once for an empty list,
\* with a gid that was not read: some group, or none that anybody uses.
Listed(gs) == IF gs # {} THEN {gs} ELSE {{}} \union {{g} : g \in Group}

\* pollitems[6]: connect sub_sock if there is an address, subscribe to every
\* group.
TakeSub(n, t) ==
  /\ Turn(n, "sub")
  /\ NodeOf[t] = n
  /\ subpipe[t] # <<>>
  /\ subconn' = [subconn EXCEPT ![n] = @ \union ({Head(subpipe[t]).peer} \ {NoAddr})]
  /\ subpipe' = [subpipe EXCEPT ![t] = Tail(@)]
  /\ ItemDone(n, "sub")

HandleSub(n, t) ==
  /\ TakeSub(n, t)
  /\ \E gs \in Listed(Head(subpipe[t]).groups) : subgroups' = [subgroups EXCEPT ![n] = @ \union gs]
  /\ SubWaits(n)
  /\ UNCHANGED <<hpc, seen, pend, errcode, mapVars, netVars, pubbound, joined, pubnet,
                 connpipe, pubpipe, startpipe, outVars, appVars>>

Answer_Always(n, p) ==
  /\ net' = IF p \in route[n] THEN [net EXCEPT ![n][p] = Append(@, "sub_hello")] ELSE net
  /\ UNCHANGED publishermap
  /\ Unlock(n)

Answer_NoUnlock(n, p) ==
  /\ net' = IF p \in route[n] THEN [net EXCEPT ![n][p] = Append(@, "sub_hello")] ELSE net
  /\ publishermap' = [publishermap EXCEPT ![n] = @ \union {p}]
  /\ UNCHANGED mtx

\* The first greeting of publisher p: answer it (in vain if router_sock does
\* not know p), remember p, release subscribe_to.
Answer(n, p) ==
  /\ net' = IF p \in route[n] THEN [net EXCEPT ![n][p] = Append(@, "sub_hello")] ELSE net
  /\ publishermap' = [publishermap EXCEPT ![n] = @ \union {p}]
  /\ Unlock(n)

\* pollitems[7]: a published message; a task is handed on under its group's id.
HandleSubsock(n, p) ==
  /\ Turn(n, "subsock")
  /\ pubnet[p][n] # <<>>
  /\ pubnet' = [pubnet EXCEPT ![p][n] = Tail(@)]
  /\ LET m == Head(pubnet[p][n])
     IN  \/ /\ HelloOf(m) /\ p \notin publishermap[n]
            /\ Answer(n, p)
            /\ UNCHANGED <<hpc, pend>>
         \/ /\ HelloOf(m) /\ p \in publishermap[n]
            /\ UNCHANGED <<hpc, pend, net, publishermap, mtx>>
         \/ /\ ~HelloOf(m)
            /\ Blocks(n, "push", m.group, m.msg)
            /\ UNCHANGED <<net, publishermap, mtx>>
  /\ ItemDone(n, "subsock")
  /\ UNCHANGED <<seen, errcode, clientmap, clientq, link, route, pubbound, subconn, subgroups,
                 joined, inVars, outVars, appVars>>

\* pollitems[8]: bind pub_sock and release init_pub.
HandlePubstart(n, t) ==
  /\ Turn(n, "pubstart")
  /\ NodeOf[t] = n
  /\ startpipe[t] # <<>>
  /\ startpipe' = [startpipe EXCEPT ![t] = Tail(@)]
  /\ pubbound' = pubbound \union {n}
  /\ Unlock(n)
  /\ ItemDone(n, "pubstart")
  /\ UNCHANGED <<hpc, seen, pend, errcode, mapVars, netVars, subconn, subgroups, joined, pubnet,
                 connpipe, pubpipe, subpipe, outVars, appVars>>

failRest == <<seen, pend, mapVars, netVars, pubVars, pubpipe, subpipe, startpipe, outVars, appVars>>

\* A request for a connection cannot be received or router_sock.connect
\* throws: the caller is released.
ConnFails(n, t) ==
  /\ "connect" \in Faults
  /\ TakeConn(n, t)
  /\ Fail(n)
  /\ Unlock(n)
  /\ UNCHANGED failRest

\* Every other failure of a branch ends the thread with sync_mtx as it is:
\* recv_msg from the router, and recv_msg, send_msg, connect, setsockopt or
\* bind in the branches for publications and subscriptions.
BranchFails(n) ==
  /\ \/ "recv" \in Faults /\ Turn(n, "router")
     \/ "pubsub" \in Faults /\ \E i \in {"pubsend", "sub", "subsock", "pubstart"} : Turn(n, i)
  /\ Fail(n)
  /\ UNCHANGED <<mtx, todo, connpipe, failRest>>

\* setsockopt fails after the connect, and after some of the groups.
SubFails(n, t) ==
  /\ "pubsub" \in Faults
  /\ TakeSub(n, t)
  /\ \E gs \in SUBSET Head(subpipe[t]).groups : subgroups' = [subgroups EXCEPT ![n] = @ \union gs]
  /\ Fail(n)
  /\ UNCHANGED <<seen, pend, mtx, mapVars, netVars, pubbound, joined, pubnet, connpipe, pubpipe, startpipe,
                 outVars, appVars>>

\* 0MQ's I/O threads: two routers learn each other's identity; a subscription
\* reaches a publisher's socket.
Handshake(n, d) ==
  /\ <<n, d>> \in link
  /\ link' = link \ {<<n, d>>}
  /\ route' = [route EXCEPT ![n] = @ \union {d}, ![d] = @ \union {n}]
  /\ UNCHANGED <<hVars, errcode, mtx, mapVars, net, pubVars, inVars, outVars, appVars>>

Join(p, n, g) ==
  /\ p \in subconn[n] \intersect pubbound
  /\ g \in subgroups[n]
  /\ <<n, g>> \notin joined[p]
  /\ joined' = [joined EXCEPT ![p] = @ \union {<<n, g>>}]
  /\ UNCHANGED <<hVars, errcode, mtx, mapVars, netVars, pubbound, subconn, subgroups, pubnet,
                 inVars, outVars, appVars>>

-----------------------------------------------------------------------------
(* Calls of the application threads *)

handlerRest == <<prog, hVars, errcode, mapVars, netVars, pubVars>>

Index(t) == Len(result[t]) + 1
Call(t)  == Program[t][Index(t)]

Calls(t, op) ==
  /\ step[t] = "idle"
  /\ Index(t) <= Len(Program[t])
  /\ Call(t).op = op

Goto(t, s) == step' = [step EXCEPT ![t] = s] /\ UNCHANGED result

Return(t, ret, from, msg) ==
  /\ step' = [step EXCEPT ![t] = "idle"]
  /\ result' = [result EXCEPT ![t] = Append(@, [ret |-> ret, from |-> from, msg |-> msg])]

Verdict_Unchecked(n) == "ok"

Verdict(n) == IF errcode[n] THEN "error" ELSE "ok"

\* if(errcode) return -1; at the start of every call but init_pub.
Refused(t) ==
  /\ \E op \in Op \ {"init_pub"} : Calls(t, op)
  /\ errcode[NodeOf[t]]
  /\ Return(t, "error", NoAddr, PubHello)
  /\ UNCHANGED <<handlerRest, mtx, inVars, outVars, nsubs>>

(* get_one_connection, on nodes that accept connections *)

get_one_connection(t) ==
  /\ Calls(t, "accept")
  /\ ~errcode[NodeOf[t]]
  /\ Goto(t, "pop")
  /\ UNCHANGED <<handlerRest, mtx, inVars, outVars, nsubs>>

AcceptReturns(t) ==
  LET n == NodeOf[t]
  IN  /\ step[t] = "pop"
      /\ clientq[n] # <<>>
      /\ clientq' = [clientq EXCEPT ![n] = Tail(@)]
      /\ Return(t, "ok", Head(clientq[n]), PubHello)
      /\ UNCHANGED <<prog, hVars, errcode, clientmap, publishermap, netVars, pubVars, mtx, inVars,
                     outVars, nsubs>>

(* connect_to, subscribe_to and the first part of init_pub: lock sync_mtx,  *)
(* push the request, lock again.                                            *)

connect_to(t) ==
  /\ Calls(t, "connect")
  /\ ~errcode[NodeOf[t]]
  /\ Goto(t, "lock")
  /\ UNCHANGED <<handlerRest, mtx, inVars, outVars, nsubs>>

subscribe_to(t) ==
  /\ Calls(t, "subscribe")
  /\ ~errcode[NodeOf[t]]
  /\ Goto(t, "lock")
  /\ UNCHANGED <<handlerRest, mtx, inVars, outVars, nsubs>>

\* The first lock, and the request into the pipe of the call's socket.
PushRequest(t) ==
  /\ step[t] = "lock"
  /\ ~mtx[NodeOf[t]]
  /\ mtx' = [mtx EXCEPT ![NodeOf[t]] = TRUE]
  /\ \/ /\ Call(t).op = "connect"
        /\ connpipe' = [connpipe EXCEPT ![t] = Append(@, Call(t).peer)]
        /\ UNCHANGED <<subpipe, startpipe>>
     \/ /\ Call(t).op = "subscribe"
        /\ subpipe' = [subpipe EXCEPT ![t] = Append(@, Call(t))]
        /\ UNCHANGED <<connpipe, startpipe>>
     \/ /\ Call(t).op = "init_pub"
        /\ startpipe' = [startpipe EXCEPT ![t] = Append(@, Call(t).peer)]
        /\ UNCHANGED <<connpipe, subpipe>>
  /\ Goto(t, "lock again")
  /\ UNCHANGED <<handlerRest, pubpipe, outVars, nsubs>>

\* The second lock, given up at once.
Wakes(t) ==
  /\ step[t] = "lock again"
  /\ ~mtx[NodeOf[t]]
  /\ Goto(t, IF Call(t).op = "init_pub" THEN "pull" ELSE "check")
  /\ UNCHANGED <<handlerRest, mtx, inVars, outVars, nsubs>>

\* if(errcode) return -1; at the end of connect_to, subscribe_to and publish.
CheckReturns(t) ==
  /\ step[t] = "check"
  /\ Return(t, Verdict(NodeOf[t]), NoAddr, PubHello)
  /\ UNCHANGED <<handlerRest, mtx, inVars, outVars, nsubs>>

(* publish and init_pub *)

TheGroup(t) == CHOOSE g \in Call(t).groups : TRUE

PushPub_OwnId(t, msg) == pubpipe' = [pubpipe EXCEPT ![t] = Append(@, [group |-> NodeOf[t], msg |-> msg])]

PushPub(t, msg) == pubpipe' = [pubpipe EXCEPT ![t] = Append(@, [group |-> TheGroup(t), msg |-> msg])]

publish(t) ==
  /\ Calls(t, "publish")
  /\ ~errcode[NodeOf[t]]
  /\ PushPub(t, Data(t, Index(t)))
  /\ Goto(t, "check")
  /\ UNCHANGED <<handlerRest, mtx, connpipe, subpipe, startpipe, outVars, nsubs>>

\* Only a call with an address binds pub_sock.
init_pub(t) ==
  /\ Calls(t, "init_pub")
  /\ Goto(t, IF Call(t).peer = NoAddr THEN "pull" ELSE "lock")
  /\ UNCHANGED <<handlerRest, mtx, inVars, outVars, nsubs>>

\* suberq_pull is connected once per thread; the count starts at 0.
InitPubPull(t) ==
  LET n == NodeOf[t]
  IN  /\ step[t] = "pull"
      /\ subpullers' = IF t \in Range(subpullers[n]) THEN subpullers
                       ELSE [subpullers EXCEPT ![n] = Append(@, t)]
      /\ nsubs' = [nsubs EXCEPT ![t] = 0]
      /\ Goto(t, "greet")
      /\ UNCHANGED <<handlerRest, mtx, inVars, pullers, turn, taskpipe, subturn, suberpipe>>

Enough(t) == nsubs[t] >= Call(t).num

\* while(nsubs < num_subs): publish a greeting.  The call sleeps a second in
\* each round; a greeting that is still in the pipe is not followed by another.
InitPubGreets(t) ==
  /\ step[t] = "greet"
  /\ ~Enough(t)
  /\ \/ /\ errcode[NodeOf[t]]
        /\ Return(t, "error", NoAddr, PubHello)
        /\ UNCHANGED pubpipe
     \/ /\ ~errcode[NodeOf[t]]
        /\ pubpipe[t] = <<>>
        /\ PushPub(t, PubHello)
        /\ Goto(t, "greeted")
  /\ UNCHANGED <<handlerRest, mtx, connpipe, subpipe, startpipe, outVars, nsubs>>

\* publish looks at errcode again when the greeting has been pushed.
InitPubGreeted(t) ==
  /\ step[t] = "greeted"
  /\ \/ errcode[NodeOf[t]] /\ Return(t, "error", NoAddr, PubHello)
     \/ ~errcode[NodeOf[t]] /\ Goto(t, "drain")
  /\ UNCHANGED <<handlerRest, mtx, inVars, outVars, nsubs>>

CountSuber(t) == nsubs' = [nsubs EXCEPT ![t] = @ + 1]

\* recv_msg_async until nothing is left; whoever answered counts.
InitPubDrains(t) ==
  /\ step[t] = "drain"
  /\ \/ /\ suberpipe[t] # <<>>
        /\ suberpipe' = [suberpipe EXCEPT ![t] = Tail(@)]
        /\ CountSuber(t)
        /\ UNCHANGED <<step, result>>
     \/ /\ suberpipe[t] = <<>>
        /\ Goto(t, "greet")
        /\ UNCHANGED <<suberpipe, nsubs>>
  /\ UNCHANGED <<handlerRest, mtx, inVars, pullers, turn, taskpipe, subpullers, subturn>>

\* return 0, whatever errcode says.
InitPubReturns(t) ==
  /\ step[t] = "greet"
  /\ Enough(t)
  /\ Return(t, "ok", NoAddr, PubHello)
  /\ UNCHANGED <<handlerRest, mtx, inVars, outVars, nsubs>>

(* recv *)

recv(t) ==
  LET n == NodeOf[t]
  IN  /\ Calls(t, "recv")
      /\ ~errcode[n]
      /\ pullers' = IF t \in Range(pullers[n]) THEN pullers
                    ELSE [pullers EXCEPT ![n] = Append(@, t)]
      /\ Goto(t, "wait")
      /\ UNCHANGED <<handlerRest, mtx, inVars, turn, taskpipe, subpullers, subturn, suberpipe, nsubs>>

RecvReturns(t) ==
  /\ step[t] = "wait"
  /\ taskpipe[t] # <<>>
  /\ taskpipe' = [taskpipe EXCEPT ![t] = Tail(@)]
  /\ Return(t, Verdict(NodeOf[t]), Head(taskpipe[t]).from, Head(taskpipe[t]).msg)
  /\ UNCHANGED <<handlerRest, mtx, inVars, pullers, turn, subpullers, subturn, suberpipe, nsubs>>

-----------------------------------------------------------------------------
HandlerNext(n) ==
  \/ PollBegins(n) \/ PollReturns(n)
  \/ \E p \in Node : HandleRouter(n, p) \/ HandleSubsock(n, p)
  \/ \E t \in Thread : \/ HandleConn(n, t) \/ HandlePubsend(n, t)
                       \/ HandleSub(n, t) \/ HandlePubstart(n, t)
  \/ PushSuber(n) \/ PushTask(n) \/ SendHello(n)

HandlerFails(n) ==
  PollFails(n) \/ BranchFails(n) \/ \E t \in Thread : ConnFails(n, t) \/ SubFails(n, t)

ThreadNext(t) ==
  \/ Refused(t) \/ get_one_connection(t) \/ AcceptReturns(t)
  \/ connect_to(t) \/ subscribe_to(t) \/ PushRequest(t) \/ Wakes(t) \/ CheckReturns(t)
  \/ publish(t) \/ init_pub(t) \/ InitPubPull(t) \/ InitPubGreets(t) \/ InitPubGreeted(t)
  \/ InitPubDrains(t) \/ InitPubReturns(t)
  \/ recv(t) \/ RecvReturns(t)

NetworkNext ==
  \/ \E n, d \in Node : Handshake(n, d)
  \/ \E p, n \in Node, g \in Group : Join(p, n, g)

Next == \/ \E n \in Node : HandlerNext(n) \/ HandlerFails(n)
        \/ NetworkNext
        \/ \E t \in Thread : ThreadNext(t)

Spec == Init /\ [][Next]_vars

\* Every thread that can run runs, and none has to fail; 0MQ establishes connections and delivers
\* subscriptions (each of these happens once, so one condition is enough).
Fairness ==
  /\ \A n \in Node : WF_vars(HandlerNext(n))
  /\ WF_vars(NetworkNext)
  /\ \A t \in Thread : WF_vars(ThreadNext(t))

FairSpec == Spec /\ Fairness

-----------------------------------------------------------------------------
(* Correctness *)

Message == {PubHello} \union (Thread \X Nat)
Item    == {"router", "conn", "pubsend", "sub", "subsock", "pubstart"}
Names   == Node \union Group \union {NoAddr}

\* What the variables of start_handler and of the calls hold: routers carry the
\* two greetings, pub_sock and its pipe messages under a group's id, and the
\* tasks of recv come from a node or a group.
TypeOK ==
  /\ prog \in DOMAIN Programs
  /\ hpc \in [Node -> {"handle", "poll", "push", "pushsub", "hello", "dead"}]
  /\ seen \in [Node -> SUBSET Item] /\ todo \in [Node -> SUBSET Item]
  /\ pend \in [Node -> [to : Names, msg : Message]]
  /\ errcode \in [Node -> BOOLEAN] /\ mtx \in [Node -> BOOLEAN]
  /\ clientmap \in [Node -> SUBSET Node] /\ publishermap \in [Node -> SUBSET Node]
  /\ clientq \in [Node -> Seq(Node)]
  /\ link \subseteq Node \X Node /\ route \in [Node -> SUBSET Node]
  /\ net \in [Node -> [Node -> Seq({"hello", "sub_hello"})]]
  /\ pubbound \subseteq Node
  /\ subconn \in [Node -> SUBSET Node] /\ subgroups \in [Node -> SUBSET Group]
  /\ joined \in [Node -> SUBSET (Node \X Group)]
  /\ pubnet \in [Node -> [Node -> Seq([group : Group, msg : Message])]]
  /\ pubpipe \in [Thread -> Seq([group : Group, msg : Message])]
  /\ connpipe \in [Thread -> Seq(Node)] /\ startpipe \in [Thread -> Seq(Node)]
  /\ subpipe \in [Thread -> Seq(CallType)]
  /\ pullers \in [Node -> Seq(Thread)] /\ subpullers \in [Node -> Seq(Thread)]
  /\ turn \in [Node -> Nat] /\ subturn \in [Node -> Nat]
  /\ taskpipe \in [Thread -> Seq([from : Names, msg : Message])]
  /\ suberpipe \in [Thread -> Seq(Node)]
  /\ step \in [Thread -> {"idle", "pop", "lock", "lock again", "check", "pull",
                          "greet", "greeted", "drain", "wait"}]
  /\ nsubs \in [Thread -> Nat]
  /\ result \in [Thread -> Seq([ret : {"ok", "error"}, from : Names, msg : Message])]

CallsMade == UNION {{t} \X DOMAIN result[t] : t \in Thread}
CallOf(c) == Program[c[1]][c[2]]
Succeeded(op) == {c \in CallsMade : CallOf(c).op = op /\ result[c[1]][c[2]].ret = "ok"}

Begun(t, op) == \E k \in DOMAIN Program[t] : k <= Index(t) /\ Program[t][k].op = op

Subscribers(p, g) == {n \in Node : <<n, g>> \in joined[p]}

\* "does not return until get enough subscribers": when init_pub(gid, num_subs)
\* has returned 0, the publications of that group reach num_subs nodes; unless
\* an earlier init_pub waited for fewer subscribers than its group had, whose
\* answers stay in suberq and are counted by the next one.
InitPubHonest ==
  LET Reached(c) == Cardinality(Subscribers(NodeOf[c[1]], CHOOSE g \in CallOf(c).groups : TRUE))
  IN  \A c \in Succeeded("init_pub") :
        \/ Reached(c) >= CallOf(c).num
        \/ \E d \in Succeeded("init_pub") : d[1] = c[1] /\ d[2] < c[2] /\ Reached(d) > CallOf(d).num

Publishes(n) == \E t \in ThreadsOf(n) : Begun(t, "init_pub")

\* connect_to and subscribe_to return 0 only when the other side has been
\* reached: the destination has been greeted; the publisher's socket knows a
\* subscription of this node and its first greeting has been answered.  The
\* exception is a process that also calls init_pub: the answers of its
\* subscribers release whoever waits.
RequestsHonest ==
  /\ \A c \in Succeeded("connect") :
       LET n == NodeOf[c[1]]  d == CallOf(c).peer
       IN  n \in clientmap[d] \/ "hello" \in Range(net[n][d]) \/ Publishes(n)
  /\ \A c \in Succeeded("subscribe") :
       LET n == NodeOf[c[1]]  p == CallOf(c).peer
       IN  \/ p = NoAddr \/ Publishes(n)
           \/ p \in publishermap[n] /\ \E g \in subgroups[n] : <<n, g>> \in joined[p]

\* The publications of group g that thread t has made so far, in order.
Published(t, g) ==
  SelectSeq([k \in 1 .. Len(result[t]) |-> k],
            LAMBDA k : Program[t][k].op = "publish" /\ g \in Program[t][k].groups)

\* The publications of t in group g that thread u has received, in order.
ReceivedFrom(u, t, g) ==
  LET ks == SelectSeq([k \in 1 .. Len(result[u]) |-> k],
                      LAMBDA k : /\ Program[u][k].op = "recv" /\ result[u][k].ret = "ok"
                                 /\ result[u][k].from = g /\ result[u][k].msg[1] = t)
  IN  [i \in DOMAIN ks |-> result[u][ks[i]].msg[2]]

\* Nothing published after init_pub is missed, repeated or overtaken: a
\* subscriber with one receiving thread gets a group's publications from the
\* first one on, although its subscription travelled on its own; and no
\* greeting of a publisher is ever handed to the application.
NoGap ==
  /\ \A u, t \in Thread, g \in Group :
       LET all == Published(t, g) \o (IF Index(t) <= Len(Program[t]) THEN <<Index(t)>> ELSE <<>>)
       IN  IsPrefix(ReceivedFrom(u, t, g), all)
  /\ \A c \in Succeeded("recv") :
       result[c[1]][c[2]].from \in Group => result[c[1]][c[2]].msg # PubHello

Done(t) == Len(result[t]) = Len(Program[t])

\* publishermap lets a node answer the first greeting of a publisher only.  So
\* t may wait in vain in a subscribe_to to a publisher, or without an address,
\* when an earlier one of this process has met that publisher, or any; and in
\* an init_pub that needs subscribers which an earlier init_pub has greeted.
Repeats(t) ==
  LET Earlier(op) == {c \in Succeeded(op) : NodeOf[c[1]] = NodeOf[t]}
      Greeted(m)  == \E c \in Earlier("init_pub") :
                       CallOf(c).num > 0 /\ \E g \in CallOf(c).groups : m \in Subscribers(NodeOf[t], g)
  IN  /\ ~Done(t)
      /\ \/ /\ Call(t).op = "subscribe"
            /\ \E c \in Earlier("subscribe") : Call(t).peer \in {CallOf(c).peer, NoAddr}
         \/ /\ Call(t).op = "init_pub"
            /\ \E g \in Call(t).groups :
                 Cardinality({m \in Subscribers(NodeOf[t], g) : ~Greeted(m)}) < Call(t).num
            /\ \E m \in Node : Greeted(m)

\* Every call returns: init_pub finds its subscribers, subscribe_to its
\* publisher, and every publication is received, unless a communication thread
\* has failed or the call repeats an earlier one.
HangsOnlyAfterFailure ==
  \A t \in Thread : <>[](Done(t) \/ Repeats(t) \/ \E n \in Node : hpc[n] = "dead")
=============================================================================
