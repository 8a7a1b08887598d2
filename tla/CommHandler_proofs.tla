------------------------- MODULE CommHandler_proofs -------------------------
(***************************************************************************)
(* Proofs about CommHandler for any nodes, threads, programs and faults.   *)
(***************************************************************************)
EXTENDS CommHandler, SequenceTheorems, FiniteSetTheorems, TLAPS

-----------------------------------------------------------------------------
(* Queues: what Head, Tail and Append do to the set of the elements *)

\* Taking the head leaves a queue with no new element.
LEMMA PopFacts ==
  ASSUME NEW S, NEW q \in Seq(S), q # <<>>
  PROVE  /\ Head(q) \in S
         /\ Tail(q) \in Seq(S)
         /\ Head(q) \in Range(q)
         /\ Range(Tail(q)) \subseteq Range(q)
<1>1. /\ Head(q) \in S
      /\ Tail(q) \in Seq(S)
      /\ Len(Tail(q)) = Len(q) - 1
      /\ \A i \in 1 .. Len(Tail(q)) : Tail(q)[i] = q[i + 1]
  BY HeadTailProperties
<1>2. Len(q) \in Nat \ {0} /\ DOMAIN q = 1 .. Len(q) /\ DOMAIN Tail(q) = 1 .. Len(Tail(q))
  BY <1>1, EmptySeq, LenProperties
<1>3. Head(q) = q[1]
  OBVIOUS
<1>4. Head(q) \in Range(q)
  BY <1>2, <1>3 DEF Range
<1>5. Range(Tail(q)) \subseteq Range(q)
  <2> SUFFICES ASSUME NEW k \in DOMAIN Tail(q)
               PROVE  \E j \in DOMAIN q : Tail(q)[k] = q[j]
    BY DEF Range
  <2>1. k + 1 \in DOMAIN q /\ Tail(q)[k] = q[k + 1]
    BY <1>1, <1>2
  <2> QED BY <2>1
<1> QED BY <1>1, <1>4, <1>5

\* Appending adds exactly the one element.
LEMMA PushFacts ==
  ASSUME NEW S, NEW q \in Seq(S), NEW x \in S
  PROVE  /\ Append(q, x) \in Seq(S)
         /\ Append(q, x) # <<>>
         /\ Range(Append(q, x)) = Range(q) \union {x}
<1>1. /\ Append(q, x) \in Seq(S)
      /\ Append(q, x) # <<>>
      /\ Len(Append(q, x)) = Len(q) + 1
      /\ \A i \in 1 .. Len(q) : Append(q, x)[i] = q[i]
      /\ Append(q, x)[Len(q) + 1] = x
  BY AppendProperties
<1>2. /\ Len(q) \in Nat
      /\ DOMAIN q = 1 .. Len(q)
      /\ DOMAIN Append(q, x) = 1 .. Len(q) + 1
  BY <1>1, LenProperties
<1>3. ASSUME NEW e PROVE e \in Range(Append(q, x)) <=> e \in Range(q) \union {x}
  BY <1>1, <1>2 DEF Range
<1> QED BY <1>1, <1>3

\* The empty queue has no element.
LEMMA NothingQueued == \A S : <<>> \in Seq(S) /\ Range(<<>>) = {}
  BY DEF Range

\* A queue of one element.
LEMMA OneQueued ==
  ASSUME NEW S, NEW x \in S
  PROVE  Append(<<>>, x) = <<x>> /\ Head(<<x>>) = x /\ Tail(<<x>>) = <<>>
<1>1. <<x>> \in Seq(S) /\ Len(<<x>>) = 1 /\ <<x>>[1] = x
  OBVIOUS
<1>2. Head(<<x>>) = x
  BY <1>1
<1>3. Tail(<<x>>) \in Seq(S) /\ Len(Tail(<<x>>)) = 0
  BY <1>1, HeadTailProperties
<1>4. Tail(<<x>>) = <<>>
  BY <1>3, EmptySeq
<1>5. Append(<<>>, x) = <<x>>
  <2>1. <<>> \in Seq(S) /\ Len(<<>>) = 0
    OBVIOUS
  <2>2. /\ Append(<<>>, x) \in Seq(S)
        /\ Len(Append(<<>>, x)) = 1
        /\ Append(<<>>, x)[1] = x
    BY <2>1, AppendProperties
  <2> QED BY <1>1, <2>2, SeqEqual
<1> QED BY <1>2, <1>4, <1>5


\* The calls during which a thread can be at a step.
CallAt(s) ==
  CASE s \in {"lock", "lock again"} -> {"connect"}
    [] s = "check" -> {"connect", "send"}
    [] s = "pop"   -> {"accept"}
    [] s = "wait"  -> {"recv"}
    [] s = "join"  -> {"shutdown"}
    [] OTHER -> {}

\* A thread that is not idle is inside a call of its program.
InsideCall ==
  \A t \in Thread :
    step[t] # "idle" => /\ Index(t) \in 1 .. Len(Program[t])
                        /\ Call(t).op \in CallAt(step[t])

TypeInv == TypeOK /\ InsideCall

-----------------------------------------------------------------------------
\* The k-th call of a program.
LEMMA CallType ==
  ASSUME NEW t \in Thread, NEW k \in 1 .. Len(Program[t])
  PROVE  Program[t][k].op \in Op /\ Program[t][k].peer \in Node
<1>1. Program[t] \in Seq([op : Op, peer : Node])
  BY ConfigAssumption
<1>2. Program[t][k] \in [op : Op, peer : Node]
  BY <1>1, ElementOfSeq
<1> QED BY <1>2

\* The index of the call a thread makes.
LEMMA IndexType ==
  ASSUME TypeOK, NEW t \in Thread
  PROVE  Index(t) \in Nat \ {0}
<1>1. Len(result[t]) \in Nat
  BY LenProperties DEF TypeOK
<1> QED BY <1>1 DEF Index

\* A call that starts is a call of the program.
LEMMA StartedCall ==
  ASSUME TypeOK, NEW t \in Thread, NEW op, Calls(t, op)
  PROVE  /\ Index(t) \in 1 .. Len(Program[t])
         /\ Call(t).op = op
         /\ Call(t).peer \in Node
<1>1. Len(Program[t]) \in Nat
  BY ConfigAssumption, LenProperties
<1>2. Index(t) \in 1 .. Len(Program[t])
  BY <1>1, IndexType DEF Calls
<1> QED BY <1>2, CallType DEF Calls, Call

\* A thread inside a call knows its peer.
LEMMA RunningCall ==
  ASSUME InsideCall, NEW t \in Thread, step[t] # "idle"
  PROVE  Call(t).op \in Op /\ Call(t).peer \in Node
  BY CallType DEF InsideCall, Call

\* Messages keep their type.
LEMMA MessageType ==
  /\ Hello \in Message
  /\ \A t \in Thread : \A k \in Nat : Data(t, k) \in Message
  BY DEF Hello, Data, Message

\* Results of returning calls keep their type.
LEMMA ReturnType ==
  ASSUME TypeOK, NEW t \in Thread, NEW ret \in {"error", "ok"},
         NEW peer \in Node, NEW msg \in Message, Return(t, ret, peer, msg)
  PROVE  /\ result' \in [Thread -> Seq(Result)]
         /\ step' \in [Thread -> {"idle", "lock", "lock again", "check", "pop", "wait", "join"}]
<1>1. [ret |-> ret, peer |-> peer, msg |-> msg] \in Result
  BY DEF Result
<1>2. Append(result[t], [ret |-> ret, peer |-> peer, msg |-> msg]) \in Seq(Result)
  BY <1>1, PushFacts DEF TypeOK
<1> QED BY <1>2 DEF TypeOK, Return

\* The other threads stay where they are, and the one that returns is idle.
LEMMA ReturnInside ==
  ASSUME TypeOK, InsideCall, NEW t \in Thread, NEW ret, NEW peer, NEW msg,
         Return(t, ret, peer, msg)
  PROVE  InsideCall'
  BY DEF TypeOK, InsideCall, Return, Index, Call

\* A thread that goes on inside its call.
LEMMA GotoInside ==
  ASSUME TypeOK, InsideCall, NEW t \in Thread, NEW s,
         Index(t) \in 1 .. Len(Program[t]), Call(t).op \in CallAt(s), Goto(t, s)
  PROVE  InsideCall'
  BY DEF TypeOK, InsideCall, Goto, Index, Call

-----------------------------------------------------------------------------
(* The type invariant: one step per action. *)

\* Nothing the communication thread or 0MQ does moves an application thread.
LEMMA HandlerKeepsCalls ==
  ASSUME InsideCall, UNCHANGED appVars PROVE InsideCall'
  BY DEF InsideCall, appVars, Index, Call

\* The turn of a PUSH socket is a natural number.
LEMMA NextTurn ==
  ASSUME NEW i \in Nat, NEW len \in Nat \ {0} PROVE (i % len) + 1 \in Nat
  OBVIOUS

\* A channel is a queue of messages.
LEMMA NetType ==
  ASSUME TypeOK, NEW n \in Node, NEW p \in Node PROVE net[n][p] \in Seq(Message)
<1>1. net \in [Node -> [Node -> Seq(Message)]]
  BY DEF TypeOK
<1>2. net[n] \in [Node -> Seq(Message)]
  BY <1>1
<1> QED BY <1>2

\* Every step of a communication thread preserves the types.
LEMMA HandlerType ==
  ASSUME TypeInv, NEW n \in Node, HandlerNext(n) PROVE TypeInv'
<1> USE DEF TypeInv
<1>1. CASE HandlerStarts(n)
  BY <1>1, HandlerKeepsCalls DEF TypeOK, HandlerStarts, Unlock, setupRest, inVars, outVars, appVars
<1>2. CASE MonitorFails(n)
  BY <1>2, HandlerKeepsCalls
     DEF TypeOK, MonitorFails, Fail, Die, Unlock, setupRest, inVars, outVars, appVars
<1>3. CASE SetupThrows(n)
  BY <1>3, HandlerKeepsCalls
     DEF TypeOK, SetupThrows, Die, Unlock, setupRest, inVars, outVars, appVars
<1>4. Ready(n) \in SUBSET Item
  BY DEF Ready, Item
<1>5. CASE PollBegins(n)
  BY <1>4, <1>5, HandlerKeepsCalls
     DEF TypeOK, PollBegins, pollRest, netVars, inVars, outVars, appVars
<1>6. CASE PollReturns(n)
  <2>1. PICK R \in SUBSET Ready(n) : todo' = [todo EXCEPT ![n] = R]
    BY <1>6 DEF PollReturns
  <2>2. R \in SUBSET Item
    BY <1>4
  <2>3. todo' \in [Node -> SUBSET Item] /\ seen' \in [Node -> SUBSET Item]
    BY <1>6, <2>1, <2>2 DEF TypeOK, PollReturns
  <2> QED BY <1>6, <2>3, HandlerKeepsCalls
             DEF TypeOK, PollReturns, pollRest, netVars, inVars, outVars, appVars
<1>7. CASE PollFails(n) \/ EventFails(n)
  BY <1>7, HandlerKeepsCalls
     DEF TypeOK, PollFails, EventFails, Fail, Die, pollRest, netVars, inVars, outVars, appVars
<1>8. ASSUME NEW t \in Thread, HandleMsgq(n, t) PROVE TypeInv'
  <2> DEFINE m == Head(msgpipe[t])
  <2>1. m \in [peer : Node, msg : Message] /\ Tail(msgpipe[t]) \in Seq([peer : Node, msg : Message])
    BY <1>8, PopFacts DEF TypeOK, HandleMsgq
  <2>5. m.peer \in Node /\ m.msg \in Message /\ net[n][m.peer] \in Seq(Message)
    BY <2>1, NetType
  <2>2. m.peer \in Node /\ Append(net[n][m.peer], m.msg) \in Seq(Message)
    BY <2>5, PushFacts
  <2>3. net' \in [Node -> [Node -> Seq(Message)]]
    BY <1>8, <2>2 DEF TypeOK, HandleMsgq, Frame
  <2>4. UNCHANGED appVars
    BY <1>8 DEF HandleMsgq
  <2> QED BY <1>8, <2>1, <2>3, <2>4, HandlerKeepsCalls
             DEF TypeOK, HandleMsgq, ItemDone, outVars, appVars
<1>9. ASSUME NEW t \in Thread, HandleConn(n, t) PROVE TypeInv'
  <2>1. Head(connpipe[t]) \in Node /\ Tail(connpipe[t]) \in Seq(Node)
    BY <1>9, PopFacts DEF TypeOK, HandleConn, TakeRequest
  <2>2. /\ link' \in SUBSET (Node \X Node)
        /\ clientmap' \in [Node -> SUBSET Node]
        /\ peerOf' \in [Node -> Node]
    <3> DEFINE d == Head(connpipe[t])
    <3>1. link' = link \union {<<n, d>>} /\ peerOf' = [peerOf EXCEPT ![n] = d]
      BY <1>9 DEF HandleConn
    <3>2. clientmap' = [clientmap EXCEPT ![n] = @ \union {d}]
      BY <1>9 DEF HandleConn, DestKnown
    <3>3. <<n, d>> \in Node \X Node
      BY <2>1
    <3>4. link' \in SUBSET (Node \X Node)
      BY <3>1, <3>3 DEF TypeOK
    <3> HIDE DEF d
    <3>5. d \in Node
      BY <2>1 DEF d
    <3>6. clientmap' \in [Node -> SUBSET Node] /\ peerOf' \in [Node -> Node]
      BY <3>1, <3>2, <3>5 DEF TypeOK
    <3> QED BY <3>4, <3>6
  <2>3. connpipe' \in [Thread -> Seq(Node)] /\ todo' \in [Node -> SUBSET Item]
    BY <1>9, <2>1 DEF TypeOK, HandleConn, TakeRequest, ItemDone
  <2> QED BY <1>9, <2>2, <2>3, HandlerKeepsCalls
             DEF TypeOK, HandleConn, KeepWaiting, connRest, outVars, appVars
<1>10. ASSUME NEW t \in Thread, HandleConnFails(n, t) PROVE TypeInv'
  <2>1. Tail(connpipe[t]) \in Seq(Node)
    BY <1>10, PopFacts DEF TypeOK, HandleConnFails, TakeRequest
  <2> QED BY <1>10, <2>1, HandlerKeepsCalls
             DEF TypeOK, HandleConnFails, TakeRequest, Fail, Die, Unlock, ItemDone,
                 connRest, outVars, appVars
<1>11. ASSUME NEW p \in Node, HandleRouter(n, p) PROVE TypeInv'
  <2>0. net[p][n] \in Seq(Message) /\ net[p][n] # <<>>
    BY <1>11, NetType DEF HandleRouter
  <2>1. Head(net[p][n]) \in Message /\ Tail(net[p][n]) \in Seq(Message)
    BY <2>0, PopFacts
  <2>2. Append(clientq[n], p) \in Seq(Node)
    BY PushFacts DEF TypeOK
  <2>3. net' \in [Node -> [Node -> Seq(Message)]]
    BY <1>11, <2>1 DEF TypeOK, HandleRouter
  <2>4. CASE Register(n, p) /\ UNCHANGED <<hpc, peerOf, pend>>
    <3>1. clientq' \in [Node -> Seq(Node)] /\ clientmap' \in [Node -> SUBSET Node]
      BY <2>2, <2>4 DEF TypeOK, Register
    <3> QED BY <1>11, <2>3, <2>4, <3>1, HandlerKeepsCalls
               DEF TypeOK, HandleRouter, ItemDone, inVars, outVars, appVars
  <2>5. CASE /\ hpc' = [hpc EXCEPT ![n] = "push"]
             /\ peerOf' = [peerOf EXCEPT ![n] = p]
             /\ pend' = [pend EXCEPT ![n] = Head(net[p][n])]
             /\ UNCHANGED <<clientmap, clientq>>
    BY <1>11, <2>1, <2>3, <2>5, HandlerKeepsCalls
       DEF TypeOK, HandleRouter, ItemDone, inVars, outVars, appVars
  <2> QED BY <1>11, <2>4, <2>5 DEF HandleRouter
<1>12. CASE PushTask(n)
  <2> DEFINE t == pullers[n][turn[n]]
             m == [peer |-> peerOf[n], msg |-> pend[n]]
  <2>1. \A u \in Thread : Append(taskpipe[u], m) \in Seq([peer : Node, msg : Message])
    BY PushFacts DEF TypeOK
  <2>2. taskpipe' \in [Thread -> Seq([peer : Node, msg : Message])]
    BY <1>12, <2>1 DEF TypeOK, PushTask
  <2>3. Len(pullers[n]) \in Nat \ {0}
    BY <1>12, EmptySeq DEF TypeOK, PushTask
  <2>4. (turn[n] % Len(pullers[n])) + 1 \in Nat
    <3>1. turn[n] \in Nat
      BY DEF TypeOK
    <3> QED BY <2>3, <3>1, NextTurn
  <2>5. turn' \in [Node -> Nat]
    BY <1>12, <2>4 DEF TypeOK, PushTask
  <2> QED BY <1>12, <2>2, <2>5, HandlerKeepsCalls
             DEF TypeOK, PushTask, netVars, inVars, appVars
<1>13. CASE SendHello(n)
  <2>0. net[n][peerOf[n]] \in Seq(Message)
    <3>1. peerOf[n] \in Node
      BY DEF TypeOK
    <3> QED BY <3>1, NetType
  <2>1. Append(net[n][peerOf[n]], Hello) \in Seq(Message)
    BY <2>0, PushFacts, MessageType
  <2>2. net' \in [Node -> [Node -> Seq(Message)]]
    BY <1>13, <2>1 DEF TypeOK, SendHello
  <2> QED BY <1>13, <2>2, HandlerKeepsCalls
             DEF TypeOK, SendHello, ReleaseRequester, Unlock, inVars, outVars, appVars
<1>14. CASE RecvFails(n)
  <2>1. connpipe' \in [Thread -> Seq(Node)] /\ todo' \in [Node -> SUBSET Item]
    <3>1. CASE UNCHANGED <<connpipe, todo>>
      BY <3>1 DEF TypeOK
    <3>2. ASSUME NEW t \in Thread, TakeRequest(n, t) PROVE <2>1
      <4>1. Tail(connpipe[t]) \in Seq(Node)
        BY <3>2, PopFacts DEF TypeOK, TakeRequest
      <4> QED BY <3>2, <4>1 DEF TypeOK, TakeRequest, ItemDone
    <3> QED BY <1>14, <3>1, <3>2 DEF RecvFails
  <2>2. mtx' \in [Node -> BOOLEAN]
    BY <1>14 DEF TypeOK, RecvFails, Unlock
  <2> QED BY <1>14, <2>1, <2>2, HandlerKeepsCalls
             DEF TypeOK, RecvFails, Fail, Die, netVars, outVars, appVars
<1>15. CASE HandleShutdown(n)
  BY <1>15, HandlerKeepsCalls
     DEF TypeOK, HandleShutdown, ItemDone, netVars, outVars, appVars
<1> QED
  BY <1>1, <1>2, <1>3, <1>5, <1>6, <1>7, <1>8, <1>9, <1>10, <1>11, <1>12, <1>13, <1>14, <1>15
     DEF HandlerNext, SetupNext

\* What a call returns at its end.
LEMMA VerdictType == \A n : Verdict(n) \in {"error", "ok"}
  BY DEF Verdict

\* A thread that takes a message from its taskpull.
LEMMA TakeTaskType ==
  ASSUME TypeInv, NEW t \in Thread, TakeTask(t)
  PROVE  /\ taskpipe' \in [Thread -> Seq([peer : Node, msg : Message])]
         /\ result' \in [Thread -> Seq(Result)]
         /\ step' \in [Thread -> {"idle", "lock", "lock again", "check", "pop", "wait", "join"}]
         /\ InsideCall'
<1> DEFINE m == Head(taskpipe[t])
<1>1. /\ m \in [peer : Node, msg : Message]
      /\ Tail(taskpipe[t]) \in Seq([peer : Node, msg : Message])
  BY PopFacts DEF TypeInv, TypeOK, TakeTask
<1>2. Return(t, Verdict(NodeOf[t]), m.peer, m.msg)
  BY DEF TakeTask
<1>3. m.peer \in Node /\ m.msg \in Message
  BY <1>1
<1> HIDE DEF m
<1>4. /\ result' \in [Thread -> Seq(Result)]
      /\ step' \in [Thread -> {"idle", "lock", "lock again", "check", "pop", "wait", "join"}]
  BY <1>2, <1>3, VerdictType, ReturnType DEF TypeInv
<1>5. InsideCall'
  BY <1>2, ReturnInside DEF TypeInv
<1>6. taskpipe' \in [Thread -> Seq([peer : Node, msg : Message])]
  BY <1>1 DEF TypeInv, TypeOK, TakeTask, Pulled
<1> QED BY <1>4, <1>5, <1>6

\* A call that returns and touches nothing else.
LEMMA OnlyReturnType ==
  ASSUME TypeInv, NEW t \in Thread, NEW ret \in {"error", "ok"},
         NEW peer \in Node, NEW msg \in Message, Return(t, ret, peer, msg),
         UNCHANGED <<handlerRest, mtx, clientq, inVars, outVars>>
  PROVE  TypeInv'
  BY ReturnType, ReturnInside DEF TypeInv, TypeOK, handlerRest, hVars, netVars, inVars, outVars

\* A call that goes on and touches nothing else.
LEMMA OnlyGotoType ==
  ASSUME TypeInv, NEW t \in Thread,
         NEW s \in {"lock", "lock again", "check", "pop", "wait", "join"},
         Index(t) \in 1 .. Len(Program[t]), Call(t).op \in CallAt(s), Goto(t, s),
         UNCHANGED <<handlerRest, mtx, clientq, inVars, outVars>>
  PROVE  TypeInv'
<1>1. step' \in [Thread -> {"idle", "lock", "lock again", "check", "pop", "wait", "join"}]
  BY DEF TypeInv, TypeOK, Goto
<1> QED BY <1>1, GotoInside
           DEF TypeInv, TypeOK, Goto, handlerRest, hVars, netVars, inVars, outVars

\* Every step of an application thread preserves the types.
LEMMA ThreadType ==
  ASSUME TypeInv, NEW t \in Thread, ThreadNext(t) PROVE TypeInv'
<1>0. TypeOK /\ InsideCall /\ NodeOf[t] \in Node /\ Hello \in Message
  BY ConfigAssumption, MessageType DEF TypeInv
<1>1. CASE Refused(t)
  <2>1. Call(t).peer \in Node
    BY <1>0, <1>1, StartedCall DEF Refused
  <2> QED BY <1>0, <1>1, <2>1, OnlyReturnType DEF Refused
<1>2. CASE connect_to(t)
  <2>1. Index(t) \in 1 .. Len(Program[t]) /\ Call(t).op \in CallAt("lock")
    BY <1>0, <1>2, StartedCall DEF connect_to, CallAt
  <2> QED BY <1>2, <2>1, OnlyGotoType DEF connect_to
<1>3. CASE ConnectRequest(t)
  <2>1. Call(t).peer \in Node /\ Index(t) \in 1 .. Len(Program[t]) /\ Call(t).op \in CallAt(step[t])
    BY <1>0, <1>3, RunningCall DEF ConnectRequest, InsideCall
  <2>2. Call(t).op \in Op
    BY <1>0, <1>3, RunningCall DEF ConnectRequest
  <2>3. Call(t).op \in CallAt("lock again")
    BY <1>3, <2>1, <2>2 DEF ConnectRequest, CallAt, Op
  <2>4. InsideCall'
    BY <1>0, <1>3, <2>1, <2>3, GotoInside DEF ConnectRequest
  <2>5. Append(connpipe[t], Call(t).peer) \in Seq(Node)
    BY <1>0, <2>1, PushFacts DEF TypeOK
  <2>6. connpipe' \in [Thread -> Seq(Node)] /\ mtx' \in [Node -> BOOLEAN]
    BY <1>0, <1>3, <2>5 DEF TypeOK, ConnectRequest
  <2>7. step' \in [Thread -> {"idle", "lock", "lock again", "check", "pop", "wait", "join"}]
        /\ UNCHANGED result
    BY <1>0, <1>3 DEF TypeOK, ConnectRequest, Goto
  <2> QED BY <1>0, <1>3, <2>4, <2>6, <2>7
             DEF TypeInv, TypeOK, ConnectRequest, handlerRest, hVars, netVars, outVars
<1>4. CASE ConnectPushFails(t)
  <2>1. Call(t).peer \in Node
    BY <1>0, <1>4, RunningCall DEF ConnectPushFails
  <2> QED BY <1>0, <1>4, <2>1, OnlyReturnType DEF ConnectPushFails
<1>5. CASE ConnectWakes(t)
  <2>1. Index(t) \in 1 .. Len(Program[t]) /\ Call(t).op \in CallAt(step[t]) /\ Call(t).op \in Op
    BY <1>0, <1>5, RunningCall DEF ConnectWakes, InsideCall
  <2>2. Call(t).op \in CallAt("check")
    BY <1>5, <2>1 DEF ConnectWakes, CallAt, Op
  <2> QED BY <1>5, <2>1, <2>2, OnlyGotoType DEF ConnectWakes
<1>6. CASE ConnectReturns(t)
  <2>1. Call(t).peer \in Node
    BY <1>0, <1>6, RunningCall DEF ConnectReturns
  <2> QED BY <1>0, <1>6, <2>1, VerdictType, OnlyReturnType DEF ConnectReturns
<1>7. CASE AcceptRefused(t)
  <2>1. Call(t).peer \in Node
    BY <1>0, <1>7, StartedCall DEF AcceptRefused
  <2> QED BY <1>0, <1>7, <2>1, OnlyReturnType DEF AcceptRefused
<1>8. CASE get_one_connection(t)
  <2>1. Index(t) \in 1 .. Len(Program[t]) /\ Call(t).op \in CallAt("pop")
    BY <1>0, <1>8, StartedCall DEF get_one_connection, CallAt
  <2> QED BY <1>8, <2>1, OnlyGotoType DEF get_one_connection
<1>9. CASE AcceptReturns(t)
  <2> DEFINE n == NodeOf[t]
  <2>1. Head(clientq[n]) \in Node /\ Tail(clientq[n]) \in Seq(Node)
    BY <1>0, <1>9, PopFacts DEF TypeOK, AcceptReturns
  <2>2. Return(t, "ok", Head(clientq[n]), Hello)
    BY <1>9 DEF AcceptReturns
  <2>3. /\ result' \in [Thread -> Seq(Result)]
        /\ step' \in [Thread -> {"idle", "lock", "lock again", "check", "pop", "wait", "join"}]
        /\ InsideCall'
    BY <1>0, <2>1, <2>2, ReturnType, ReturnInside
  <2>4. clientq' \in [Node -> Seq(Node)]
    BY <1>0, <1>9, <2>1 DEF TypeOK, AcceptReturns
  <2> QED BY <1>0, <1>9, <2>3, <2>4
             DEF TypeInv, TypeOK, AcceptReturns, handlerRest, hVars, netVars, inVars, outVars
<1>10. CASE send(t)
  <2>1. Index(t) \in 1 .. Len(Program[t]) /\ Call(t).op \in CallAt("check") /\ Call(t).peer \in Node
    BY <1>0, <1>10, StartedCall DEF send, CallAt
  <2>2. InsideCall'
    BY <1>0, <1>10, <2>1, GotoInside DEF send
  <2>3. Data(t, Index(t)) \in Message
    BY <1>0, IndexType, MessageType
  <2>4. Append(msgpipe[t], [peer |-> Call(t).peer, msg |-> Data(t, Index(t))])
          \in Seq([peer : Node, msg : Message])
    BY <1>0, <2>1, <2>3, PushFacts DEF TypeOK
  <2>5. msgpipe' \in [Thread -> Seq([peer : Node, msg : Message])]
    BY <1>0, <1>10, <2>4 DEF TypeOK, send
  <2>6. step' \in [Thread -> {"idle", "lock", "lock again", "check", "pop", "wait", "join"}]
        /\ UNCHANGED result
    BY <1>0, <1>10 DEF TypeOK, send, Goto
  <2> QED BY <1>0, <1>10, <2>2, <2>5, <2>6
             DEF TypeInv, TypeOK, send, handlerRest, hVars, netVars, outVars
<1>11. CASE SendReturns(t)
  <2>1. Call(t).peer \in Node /\ Data(t, Index(t)) \in Message
    BY <1>0, <1>11, RunningCall, IndexType, MessageType DEF SendReturns
  <2> QED BY <1>0, <1>11, <2>1, VerdictType, OnlyReturnType DEF SendReturns
<1>12. ConnectPull(t) => pullers' \in [Node -> Seq(Thread)]
  <2>1. Append(pullers[NodeOf[t]], t) \in Seq(Thread)
    BY <1>0, PushFacts DEF TypeOK
  <2> QED BY <1>0, <2>1 DEF TypeOK, ConnectPull
<1>13. CASE recv(t)
  <2>1. Index(t) \in 1 .. Len(Program[t]) /\ Call(t).op \in CallAt("wait")
    BY <1>0, <1>13, StartedCall DEF recv, CallAt
  <2>2. InsideCall'
    BY <1>0, <1>13, <2>1, GotoInside DEF recv
  <2>3. step' \in [Thread -> {"idle", "lock", "lock again", "check", "pop", "wait", "join"}]
        /\ UNCHANGED result
    BY <1>0, <1>13 DEF TypeOK, recv, Goto
  <2> QED BY <1>0, <1>12, <1>13, <2>2, <2>3
             DEF TypeInv, TypeOK, recv, handlerRest, hVars, netVars, inVars
<1>14. CASE RecvReturns(t)
  BY <1>0, <1>14, TakeTaskType
     DEF TypeInv, TypeOK, RecvReturns, handlerRest, hVars, netVars, inVars
<1>15. CASE recv_async(t)
  <2>1. CASE TakeTask(t)
    BY <1>0, <1>12, <1>15, <2>1, TakeTaskType
       DEF TypeInv, TypeOK, recv_async, handlerRest, hVars, netVars, inVars
  <2>2. CASE UNCHANGED <<taskpipe, appVars>>
    BY <1>0, <1>12, <1>15, <2>2, HandlerKeepsCalls
       DEF TypeInv, TypeOK, recv_async, handlerRest, hVars, netVars, inVars, appVars
  <2> QED BY <1>15, <2>1, <2>2 DEF recv_async
<1>16. CASE shutdown(t)
  <2>1. Index(t) \in 1 .. Len(Program[t]) /\ Call(t).op \in CallAt("join")
    BY <1>0, <1>16, StartedCall DEF shutdown, CallAt
  <2>2. InsideCall'
    BY <1>0, <1>16, <2>1, GotoInside DEF shutdown
  <2>3. step' \in [Thread -> {"idle", "lock", "lock again", "check", "pop", "wait", "join"}]
        /\ UNCHANGED result
    BY <1>0, <1>16 DEF TypeOK, shutdown, Goto
  <2> QED BY <1>0, <1>16, <2>2, <2>3
             DEF TypeInv, TypeOK, shutdown, handlerRest, hVars, netVars, outVars
<1>17. CASE ShutdownReturns(t)
  BY <1>0, <1>17, OnlyReturnType DEF ShutdownReturns
<1> QED
  BY <1>1, <1>2, <1>3, <1>4, <1>5, <1>6, <1>7, <1>8, <1>9, <1>10, <1>11, <1>13, <1>14,
     <1>15, <1>16, <1>17 DEF ThreadNext

\* The initial state, and every step of the system, have the types.
LEMMA InitType == Init => TypeInv
<1> SUFFICES ASSUME Init PROVE TypeInv
  OBVIOUS
<1>1. TypeOK
  <2>1. Hello \in Message /\ \A S : <<>> \in Seq(S)
    BY MessageType, NothingQueued
  <2> QED BY <2>1 DEF Init, TypeOK
<1>2. InsideCall
  BY DEF Init, InsideCall
<1> QED BY <1>1, <1>2 DEF TypeInv

\* Every step of a communication thread, of the network or of a call keeps the
\* types and leaves every thread inside the call it is in.
LEMMA NextType == TypeInv /\ [Next]_vars => TypeInv'
<1> SUFFICES ASSUME TypeInv, [Next]_vars PROVE TypeInv'
  OBVIOUS
<1>1. ASSUME NEW n \in Node, CtorReturns(n) PROVE TypeInv'
  BY <1>1, HandlerKeepsCalls
     DEF TypeInv, TypeOK, CtorReturns, hVars, netVars, inVars, outVars, appVars
<1>2. ASSUME NEW n \in Node, NEW d \in Node, Handshake(n, d) PROVE TypeInv'
  BY <1>2, HandlerKeepsCalls
     DEF TypeInv, TypeOK, Handshake, hVars, inVars, outVars, appVars
<1>3. CASE UNCHANGED vars
  BY <1>3, HandlerKeepsCalls DEF TypeInv, TypeOK, vars, appVars
<1> QED BY <1>1, <1>2, <1>3, HandlerType, ThreadType DEF Next

\* Every variable of comm_handler keeps its type, and every thread that is
\* inside a call is where that call can be.
THEOREM TypeCorrect == Spec => []TypeOK
<1>1. TypeInv => TypeOK
  BY DEF TypeInv
<1> QED BY <1>1, InitType, NextType, PTL DEF Spec

-----------------------------------------------------------------------------
(* The rendezvous on sync_mtx. *)

\* The communication thread of n has failed for good, or n has greeted d.
Settled(n, d) == errcode[n] \/ Announced(n, d)

\* A request in the pipe is the one its thread waits for; a thread that waits
\* has its request in the pipe, or in the hands of the communication thread,
\* or settled; and a thread about to read errcode has it settled.
RequestOf(t) ==
  LET n == NodeOf[t]
      d == Call(t).peer
  IN  /\ connpipe[t] # <<>> => step[t] = "lock again" /\ connpipe[t] = <<d>>
      /\ step[t] = "lock again" =>
           \/ connpipe[t] # <<>>
           \/ hpc[n] = "hello" /\ peerOf[n] = d
           \/ Settled(n, d)
      /\ step[t] = "check" /\ Call(t).op = "connect" => Settled(n, d)

RequestInv == \A t \in Thread : RequestOf(t)

\* No thread makes more calls than its program has.
MadeCalls == \A t \in Thread : Len(result[t]) <= Len(Program[t])

RendezvousInv == OneRendezvous /\ RequestInv /\ MadeCalls /\ ConnectHonest

\* A registered client stays registered.
LEMMA ClientsStay ==
  ASSUME TypeInv, [Next]_vars, NEW n \in Node, NEW d \in Node, n \in clientmap[d]
  PROVE  n \in clientmap'[d]
<1>1. \/ UNCHANGED clientmap
      \/ \E m, p \in Node : clientmap' = [clientmap EXCEPT ![m] = @ \union {p}]
  <2>1. ASSUME NEW m \in Node, HandlerNext(m) PROVE <1>1
    <3>1. ASSUME NEW t \in Thread, HandleConn(m, t) PROVE <1>1
      <4>1. Head(connpipe[t]) \in Node
        BY <3>1, PopFacts DEF TypeInv, TypeOK, HandleConn, TakeRequest
      <4> QED BY <3>1, <4>1 DEF HandleConn, DestKnown
    <3>2. ASSUME NEW t \in Thread, HandleMsgq(m, t) \/ HandleConnFails(m, t) PROVE <1>1
      BY <3>2 DEF HandleMsgq, HandleConnFails
    <3>3. ASSUME NEW p \in Node, HandleRouter(m, p) PROVE <1>1
      BY <3>3 DEF HandleRouter, Register
    <3>4. CASE SetupNext(m)
      BY <3>4 DEF SetupNext, HandlerStarts, MonitorFails, SetupThrows, setupRest
    <3>5. CASE PollBegins(m) \/ PollReturns(m) \/ PollFails(m) \/ EventFails(m)
      BY <3>5 DEF PollBegins, PollReturns, PollFails, EventFails, pollRest
    <3>6. CASE PushTask(m) \/ SendHello(m) \/ RecvFails(m) \/ HandleShutdown(m)
      BY <3>6 DEF PushTask, SendHello, RecvFails, HandleShutdown
    <3> QED BY <2>1, <3>1, <3>2, <3>3, <3>4, <3>5, <3>6 DEF HandlerNext
  <2>2. ASSUME NEW t \in Thread, ThreadNext(t) PROVE UNCHANGED clientmap
    BY <2>2 DEF ThreadNext, Refused, connect_to, ConnectRequest, ConnectPushFails, ConnectWakes,
         ConnectReturns, AcceptRefused, get_one_connection, AcceptReturns, send, SendReturns,
         recv, RecvReturns, recv_async, shutdown, ShutdownReturns, handlerRest
  <2>3. ASSUME NEW m \in Node, CtorReturns(m) PROVE UNCHANGED clientmap
    BY <2>3 DEF CtorReturns
  <2>4. ASSUME NEW m \in Node, NEW p \in Node, Handshake(m, p) PROVE UNCHANGED clientmap
    BY <2>4 DEF Handshake
  <2>5. CASE UNCHANGED vars
    BY <2>5 DEF vars
  <2> QED BY <2>1, <2>2, <2>3, <2>4, <2>5 DEF Next
<1>2. clientmap \in [Node -> SUBSET Node]
  BY DEF TypeInv, TypeOK
<1> QED BY <1>1, <1>2

\* A greeting stays in its channel until the receiver registers the sender.
LEMMA AnnouncedStays ==
  ASSUME TypeInv, [Next]_vars, NEW n \in Node, NEW d \in Node, Announced(n, d)
  PROVE  Announced(n, d)'
<1>1. CASE n \in clientmap[d]
  BY <1>1, ClientsStay DEF Announced
<1>2. CASE Range(net[n][d]) \subseteq Range(net'[n][d])
  BY <1>1, <1>2 DEF Announced
<1>3. CASE UNCHANGED net
  BY <1>2, <1>3
<1>4. ASSUME NEW m \in Node, NEW p \in Node, NEW x \in Message,
             net' = [net EXCEPT ![m][p] = Append(@, x)]
      PROVE  Announced(n, d)'
  <2>1. net[n] \in [Node -> Seq(Message)] /\ net[m] \in [Node -> Seq(Message)]
    BY DEF TypeInv, TypeOK
  <2>2. net'[n][d] = IF n = m /\ d = p THEN Append(net[n][d], x) ELSE net[n][d]
    BY <1>4, <2>1 DEF TypeInv, TypeOK
  <2>3. Range(Append(net[n][d], x)) = Range(net[n][d]) \union {x}
    BY NetType, PushFacts DEF TypeInv
  <2> QED BY <1>2, <2>2, <2>3
<1>5. ASSUME NEW m \in Node, HandlerNext(m) PROVE Announced(n, d)'
  <2>1. ASSUME NEW t \in Thread, HandleMsgq(m, t) PROVE Announced(n, d)'
    <3> DEFINE q == Head(msgpipe[t])
    <3>1. q \in [peer : Node, msg : Message]
      BY <2>1, PopFacts DEF TypeInv, TypeOK, HandleMsgq
    <3>2. q.peer \in Node /\ q.msg \in Message
      BY <3>1
    <3>3. UNCHANGED net \/ net' = [net EXCEPT ![m][q.peer] = Append(@, q.msg)]
      BY <2>1 DEF HandleMsgq, Frame
    <3> HIDE DEF q
    <3> QED BY <1>3, <1>4, <3>2, <3>3
  <2>2. ASSUME NEW p \in Node, HandleRouter(m, p) PROVE Announced(n, d)'
    <3>1. net' = [net EXCEPT ![p][m] = Tail(@)]
      BY <2>2 DEF HandleRouter
    <3>2. p \in clientmap'[m]
      <4>1. clientmap \in [Node -> SUBSET Node]
        BY DEF TypeInv, TypeOK
      <4> QED BY <2>2, <4>1 DEF HandleRouter, Register
    <3>3. CASE n = p /\ d = m
      BY <3>2, <3>3 DEF Announced
    <3>4. CASE ~(n = p /\ d = m)
      <4>1. net[n] \in [Node -> Seq(Message)] /\ net[p] \in [Node -> Seq(Message)]
        BY DEF TypeInv, TypeOK
      <4>2. net'[n][d] = net[n][d]
        BY <3>1, <3>4, <4>1 DEF TypeInv, TypeOK
      <4> QED BY <1>2, <4>2
    <3> QED BY <3>3, <3>4
  <2>3. CASE SendHello(m)
    <3>1. peerOf[m] \in Node
      BY DEF TypeInv, TypeOK
    <3>2. net' = [net EXCEPT ![m][peerOf[m]] = Append(@, Hello)]
      BY <2>3 DEF SendHello
    <3> QED BY <1>4, <3>1, <3>2, MessageType
  <2>4. ASSUME NEW t \in Thread, HandleConn(m, t) \/ HandleConnFails(m, t) PROVE UNCHANGED net
    BY <2>4 DEF HandleConn, HandleConnFails, connRest
  <2>5. CASE SetupNext(m)
    BY <1>3, <2>5 DEF SetupNext, HandlerStarts, MonitorFails, SetupThrows, setupRest
  <2>6. CASE PollBegins(m) \/ PollReturns(m) \/ PollFails(m) \/ EventFails(m)
    BY <1>3, <2>6 DEF PollBegins, PollReturns, PollFails, EventFails, pollRest, netVars
  <2>7. CASE PushTask(m) \/ RecvFails(m) \/ HandleShutdown(m)
    BY <1>3, <2>7 DEF PushTask, RecvFails, HandleShutdown, netVars
  <2> QED BY <1>3, <1>5, <2>1, <2>2, <2>3, <2>4, <2>5, <2>6, <2>7 DEF HandlerNext
<1>6. ASSUME NEW t \in Thread, ThreadNext(t) PROVE UNCHANGED net
  BY <1>6 DEF ThreadNext, Refused, connect_to, ConnectRequest, ConnectPushFails, ConnectWakes,
       ConnectReturns, AcceptRefused, get_one_connection, AcceptReturns, send, SendReturns,
       recv, RecvReturns, recv_async, shutdown, ShutdownReturns, handlerRest, netVars
<1>7. ASSUME NEW m \in Node, CtorReturns(m) PROVE UNCHANGED net
  BY <1>7 DEF CtorReturns, netVars
<1>8. ASSUME NEW m \in Node, NEW p \in Node, Handshake(m, p) PROVE UNCHANGED net
  BY <1>8 DEF Handshake
<1>9. CASE UNCHANGED vars
  BY <1>3, <1>9 DEF vars
<1> QED BY <1>3, <1>5, <1>6, <1>7, <1>8, <1>9 DEF Next

\* errcode is never reset.
LEMMA ErrcodeStays ==
  ASSUME TypeInv, [Next]_vars, NEW n \in Node, errcode[n] PROVE errcode'[n]
<1>1. \/ UNCHANGED errcode
      \/ \E m \in Node : errcode' = [errcode EXCEPT ![m] = TRUE]
  <2>1. ASSUME NEW m \in Node, HandlerNext(m) PROVE <1>1
    <3>1. ASSUME NEW t \in Thread, HandleMsgq(m, t) \/ HandleConn(m, t) \/ HandleConnFails(m, t)
          PROVE  <1>1
      BY <3>1 DEF HandleMsgq, HandleConn, HandleConnFails, Fail
    <3>2. ASSUME NEW p \in Node, HandleRouter(m, p) PROVE <1>1
      BY <3>2 DEF HandleRouter
    <3>3. CASE SetupNext(m)
      BY <3>3 DEF SetupNext, HandlerStarts, MonitorFails, SetupThrows, Fail
    <3>4. CASE PollBegins(m) \/ PollReturns(m) \/ PollFails(m) \/ EventFails(m)
      BY <3>4 DEF PollBegins, PollReturns, PollFails, EventFails, Fail
    <3>5. CASE PushTask(m) \/ SendHello(m) \/ RecvFails(m) \/ HandleShutdown(m)
      BY <3>5 DEF PushTask, SendHello, RecvFails, HandleShutdown, Fail
    <3> QED BY <2>1, <3>1, <3>2, <3>3, <3>4, <3>5 DEF HandlerNext
  <2>2. ASSUME NEW t \in Thread, ThreadNext(t) PROVE UNCHANGED errcode
    BY <2>2 DEF ThreadNext, Refused, connect_to, ConnectRequest, ConnectPushFails, ConnectWakes,
         ConnectReturns, AcceptRefused, get_one_connection, AcceptReturns, send, SendReturns,
         recv, RecvReturns, recv_async, shutdown, ShutdownReturns, handlerRest
  <2>3. ASSUME NEW m \in Node, CtorReturns(m) PROVE UNCHANGED errcode
    BY <2>3 DEF CtorReturns
  <2>4. ASSUME NEW m \in Node, NEW p \in Node, Handshake(m, p) PROVE UNCHANGED errcode
    BY <2>4 DEF Handshake
  <2>5. CASE UNCHANGED vars
    BY <2>5 DEF vars
  <2> QED BY <2>1, <2>2, <2>3, <2>4, <2>5 DEF Next
<1> QED BY <1>1 DEF TypeInv, TypeOK

\* What is settled stays settled.
LEMMA SettledStays ==
  ASSUME TypeInv, [Next]_vars, NEW n \in Node, NEW d \in Node, Settled(n, d)
  PROVE  Settled(n, d)'
  BY AnnouncedStays, ErrcodeStays DEF Settled

(* OneRendezvous *)

\* A step that leaves sync_mtx and the requests alone.
LEMMA QuietRendezvous ==
  ASSUME OneRendezvous, UNCHANGED <<mtx, connpipe>>,
         \A n \in Node : hpc'[n] \in {"start", "hello"} => hpc'[n] = hpc[n]
  PROVE  OneRendezvous'
<1>1. \A n \in Node : Outstanding(n)' = Outstanding(n)
  BY DEF Outstanding, ThreadsOf
<1> QED BY <1>1 DEF OneRendezvous

\* sync_mtx may be unlocked when no request is outstanding.
LEMMA ReleaseRendezvous ==
  ASSUME TypeInv, OneRendezvous, NEW n \in Node, NEW s, s \notin {"start", "hello"},
         hpc' = [hpc EXCEPT ![n] = s], Unlock(n), UNCHANGED connpipe, Outstanding(n) = {}
  PROVE  OneRendezvous'
<1>1. \A m \in Node : Outstanding(m)' = Outstanding(m)
  BY DEF Outstanding, ThreadsOf
<1>2. \A m \in Node \ {n} : mtx'[m] = mtx[m] /\ hpc'[m] = hpc[m]
  BY DEF Unlock, TypeInv, TypeOK
<1>3. hpc'[n] = s
  BY DEF TypeInv, TypeOK
<1>4. ASSUME NEW m \in Node
      PROVE  /\ hpc'[m] \in {"start", "hello"} => mtx'[m] /\ Outstanding(m)' = {}
             /\ Outstanding(m)' # {} => mtx'[m]
             /\ \A t, u \in Outstanding(m)' : t = u
             /\ \A t \in Outstanding(m)' : Len(connpipe'[t]) = 1
  <2>1. CASE m = n
    BY <1>1, <1>3, <2>1
  <2>2. CASE m # n
    BY <1>1, <1>2, <2>2 DEF OneRendezvous
  <2> QED BY <2>1, <2>2
<1> QED BY <1>4 DEF OneRendezvous

\* Taking the only outstanding request leaves none.
LEMMA TakeOutstanding ==
  ASSUME TypeInv, OneRendezvous, RequestInv, NEW n \in Node, NEW t \in Thread, TakeRequest(n, t)
  PROVE  /\ mtx[n]
         /\ step[t] = "lock again"
         /\ Head(connpipe[t]) = Call(t).peer
         /\ connpipe' = [connpipe EXCEPT ![t] = <<>>]
         /\ Outstanding(n)' = {}
         /\ \A m \in Node \ {n} : Outstanding(m)' = Outstanding(m)
<1>1. t \in Outstanding(n) /\ connpipe[t] # <<>> /\ NodeOf[t] = n
  BY DEF TakeRequest, Outstanding, ThreadsOf
<1>2. step[t] = "lock again" /\ connpipe[t] = <<Call(t).peer>>
  BY <1>1 DEF RequestInv, RequestOf
<1>3. Head(connpipe[t]) = Call(t).peer /\ Tail(connpipe[t]) = <<>>
  <2>1. Call(t).peer \in Node
    BY <1>2, RunningCall DEF TypeInv
  <2> QED BY <1>2, <2>1, OneQueued
<1>4. mtx[n] /\ \A u \in Outstanding(n) : u = t
  BY <1>1 DEF OneRendezvous
<1>5. connpipe' = [connpipe EXCEPT ![t] = <<>>]
  BY <1>3 DEF TakeRequest
<1>6. connpipe'[t] = <<>> /\ \A u \in Thread \ {t} : connpipe'[u] = connpipe[u]
  BY <1>5 DEF TypeInv, TypeOK
<1>7. Outstanding(n)' = {}
  BY <1>4, <1>6 DEF Outstanding, ThreadsOf
<1>8. \A m \in Node \ {n} : Outstanding(m)' = Outstanding(m)
  BY <1>1, <1>6 DEF Outstanding, ThreadsOf
<1> QED BY <1>2, <1>3, <1>4, <1>5, <1>7, <1>8

\* The communication thread hands the rendezvous on: it greets, or unlocks.
LEMMA TakeRendezvous ==
  ASSUME TypeInv, OneRendezvous, RequestInv, NEW n \in Node, NEW t \in Thread,
         TakeRequest(n, t), NEW s, s # "start", hpc' = [hpc EXCEPT ![n] = s],
         (s # "hello" /\ Unlock(n)) \/ UNCHANGED mtx
  PROVE  OneRendezvous'
<1>1. /\ mtx[n]
      /\ Outstanding(n)' = {}
      /\ \A m \in Node \ {n} : Outstanding(m)' = Outstanding(m)
  BY TakeOutstanding
<1>2. \A m \in Node \ {n} : mtx'[m] = mtx[m] /\ hpc'[m] = hpc[m]
  BY DEF Unlock, TypeInv, TypeOK
<1>3. hpc'[n] = s
  BY DEF TypeInv, TypeOK
<1>4. \A u \in Thread : connpipe'[u] # <<>> => connpipe'[u] = connpipe[u]
  <2>1. connpipe' = [connpipe EXCEPT ![t] = <<>>]
    BY TakeOutstanding
  <2> QED BY <2>1 DEF TypeInv, TypeOK
<1>5. ASSUME NEW m \in Node
      PROVE  /\ hpc'[m] \in {"start", "hello"} => mtx'[m] /\ Outstanding(m)' = {}
             /\ Outstanding(m)' # {} => mtx'[m]
             /\ \A v, u \in Outstanding(m)' : v = u
             /\ \A u \in Outstanding(m)' : Len(connpipe'[u]) = 1
  <2>1. CASE m = n
    BY <1>1, <1>3, <2>1
  <2>2. CASE m # n
    <3>1. \A u \in Outstanding(m)' : connpipe'[u] = connpipe[u]
      BY <1>4 DEF Outstanding, ThreadsOf
    <3> QED BY <1>1, <1>2, <2>2, <3>1 DEF OneRendezvous
  <2> QED BY <2>1, <2>2
<1> QED BY <1>5 DEF OneRendezvous

\* A step of an application thread: only ConnectRequest takes part.
LEMMA RequestRendezvous ==
  ASSUME TypeInv, OneRendezvous, RequestInv, NEW t \in Thread, ConnectRequest(t)
  PROVE  OneRendezvous'
<1> DEFINE n == NodeOf[t]
<1>1. n \in Node
  BY ConfigAssumption
<1>2. ~mtx[n] /\ Outstanding(n) = {} /\ hpc[n] \notin {"start", "hello"}
  BY <1>1 DEF ConnectRequest, OneRendezvous
<1>3. connpipe[t] = <<>>
  BY DEF RequestInv, RequestOf, ConnectRequest
<1>4. connpipe' = [connpipe EXCEPT ![t] = <<Call(t).peer>>]
  <2>1. Call(t).peer \in Node
    BY RunningCall DEF TypeInv, ConnectRequest
  <2>2. Append(connpipe[t], Call(t).peer) = <<Call(t).peer>>
    BY <1>3, <2>1, OneQueued
  <2> QED BY <2>2 DEF ConnectRequest
<1>5. connpipe'[t] = <<Call(t).peer>> /\ \A u \in Thread \ {t} : connpipe'[u] = connpipe[u]
  BY <1>4 DEF TypeInv, TypeOK
<1>6. Outstanding(n)' = {t} /\ \A m \in Node \ {n} : Outstanding(m)' = Outstanding(m)
  BY <1>2, <1>5 DEF Outstanding, ThreadsOf
<1>7. mtx'[n] = TRUE /\ \A m \in Node \ {n} : mtx'[m] = mtx[m]
  BY <1>1 DEF ConnectRequest, TypeInv, TypeOK
<1>8. UNCHANGED hpc /\ Len(connpipe'[t]) = 1
  BY <1>5 DEF ConnectRequest, handlerRest, hVars
<1>9. ASSUME NEW m \in Node
      PROVE  /\ hpc'[m] \in {"start", "hello"} => mtx'[m] /\ Outstanding(m)' = {}
             /\ Outstanding(m)' # {} => mtx'[m]
             /\ \A v, u \in Outstanding(m)' : v = u
             /\ \A u \in Outstanding(m)' : Len(connpipe'[u]) = 1
  <2>1. CASE m = n
    BY <1>2, <1>6, <1>7, <1>8, <2>1
  <2>2. CASE m # n
    <3>1. t \notin Outstanding(m)
      BY <2>2 DEF Outstanding, ThreadsOf
    <3>2. \A u \in Outstanding(m) : connpipe'[u] = connpipe[u]
      BY <1>5, <3>1 DEF Outstanding, ThreadsOf
    <3> QED BY <1>6, <1>7, <1>8, <2>2, <3>2 DEF OneRendezvous
  <2> QED BY <2>1, <2>2
<1> QED BY <1>9 DEF OneRendezvous

(* RequestInv and ConnectHonest *)

\* Nothing happens to the request of a thread.
LEMMA QuietRequest ==
  ASSUME TypeInv, [Next]_vars, NEW t \in Thread, RequestOf(t),
         connpipe'[t] = connpipe[t], step'[t] = step[t], result'[t] = result[t],
         hpc[NodeOf[t]] = "hello" =>
           hpc'[NodeOf[t]] = "hello" /\ peerOf'[NodeOf[t]] = peerOf[NodeOf[t]]
  PROVE  RequestOf(t)'
<1>1. NodeOf[t] \in Node /\ Call(t)' = Call(t)
  BY ConfigAssumption DEF Call, Index
<1>2. CASE step[t] = "idle"
  BY <1>2 DEF RequestOf
<1>3. CASE step[t] # "idle"
  <2>1. Call(t).peer \in Node
    BY <1>3, RunningCall DEF TypeInv
  <2>2. Settled(NodeOf[t], Call(t).peer) => Settled(NodeOf[t], Call(t).peer)'
    BY <1>1, <2>1, SettledStays
  <2> QED BY <1>1, <2>2 DEF RequestOf
<1> QED BY <1>2, <1>3

\* A step of the communication thread of n, when it does not take a request.
LEMMA HandlerRequest ==
  ASSUME TypeInv, [Next]_vars, RequestInv, NEW n \in Node,
         UNCHANGED <<connpipe, step, result>>,
         hpc'[n] = hpc[n] \/ hpc[n] # "hello",
         hpc[n] = "hello" => UNCHANGED peerOf,
         \A m \in Node \ {n} : hpc'[m] = hpc[m] /\ peerOf'[m] = peerOf[m]
  PROVE  RequestInv'
<1>1. ASSUME NEW t \in Thread PROVE RequestOf(t)'
  <2>1. RequestOf(t) /\ NodeOf[t] \in Node
    BY ConfigAssumption DEF RequestInv
  <2> QED BY <2>1, QuietRequest
<1> QED BY <1>1 DEF RequestInv

\* The communication thread takes the request of t: it goes on to greet the
\* destination t asked for, or it fails for good.
LEMMA TakeRequestInv ==
  ASSUME TypeInv, [Next]_vars, OneRendezvous, RequestInv, NEW n \in Node, NEW t \in Thread,
         TakeRequest(n, t), UNCHANGED <<step, result>>,
         \A m \in Node \ {n} : hpc'[m] = hpc[m] /\ peerOf'[m] = peerOf[m],
         errcode'[n] \/ (hpc'[n] = "hello" /\ peerOf'[n] = Head(connpipe[t]))
  PROVE  RequestInv'
<1>1. NodeOf[t] = n /\ hpc[n] = "handle"
  BY DEF TakeRequest, Turn
<1>2. step[t] = "lock again" /\ Head(connpipe[t]) = Call(t).peer
  BY TakeOutstanding
<1>3. connpipe'[t] = <<>> /\ \A u \in Thread \ {t} : connpipe'[u] = connpipe[u]
  <2>1. connpipe' = [connpipe EXCEPT ![t] = <<>>]
    BY TakeOutstanding
  <2> QED BY <2>1 DEF TypeInv, TypeOK
<1>4. \A u \in Thread : Call(u)' = Call(u)
  BY DEF Call, Index
<1>5. RequestOf(t)'
  BY <1>1, <1>2, <1>3, <1>4 DEF RequestOf, Settled
<1>6. ASSUME NEW u \in Thread \ {t} PROVE RequestOf(u)'
  <2>1. RequestOf(u) /\ NodeOf[u] \in Node
    BY ConfigAssumption DEF RequestInv
  <2> QED BY <1>1, <1>3, <2>1, QuietRequest
<1> QED BY <1>5, <1>6 DEF RequestInv

\* A thread that is neither waiting nor about to read errcode afterwards.
LEMMA ThreadRequest ==
  ASSUME TypeInv, [Next]_vars, RequestInv, NEW t \in Thread,
         step[t] # "lock again", step'[t] \notin {"lock again", "check"},
         UNCHANGED <<hpc, peerOf, connpipe>>,
         \A u \in Thread \ {t} : step'[u] = step[u] /\ result'[u] = result[u]
  PROVE  RequestInv'
<1>1. connpipe[t] = <<>>
  BY DEF RequestInv, RequestOf
<1>2. RequestOf(t)'
  BY <1>1 DEF RequestOf
<1>3. ASSUME NEW u \in Thread \ {t} PROVE RequestOf(u)'
  <2>1. RequestOf(u) /\ NodeOf[u] \in Node
    BY ConfigAssumption DEF RequestInv
  <2> QED BY <2>1, QuietRequest
<1> QED BY <1>2, <1>3 DEF RequestInv

\* A thread that stays inside a call: the others keep what they have.
LEMMA GotoRequest ==
  ASSUME TypeInv, [Next]_vars, RequestInv, NEW t \in Thread, NEW s, Goto(t, s),
         UNCHANGED <<hpc, peerOf>>,
         \A u \in Thread \ {t} : connpipe'[u] = connpipe[u],
         RequestOf(t)'
  PROVE  RequestInv'
<1>1. ASSUME NEW u \in Thread \ {t} PROVE RequestOf(u)'
  <2>1. RequestOf(u) /\ NodeOf[u] \in Node
    BY ConfigAssumption DEF RequestInv
  <2>2. step'[u] = step[u] /\ result'[u] = result[u]
    BY DEF Goto, TypeInv, TypeOK
  <2> QED BY <2>1, <2>2, QuietRequest
<1> QED BY <1>1 DEF RequestInv

\* The results of a step that no call returns in.
LEMMA SameResults ==
  ASSUME TypeInv, [Next]_vars, MadeCalls, ConnectHonest, UNCHANGED result
  PROVE  MadeCalls' /\ ConnectHonest'
<1>1. MadeCalls'
  BY DEF MadeCalls
<1>2. ASSUME NEW t \in Thread, NEW k \in DOMAIN result[t],
             Program[t][k].op = "connect", result[t][k].ret = "ok"
      PROVE  Announced(NodeOf[t], Program[t][k].peer)'
  <2>1. k \in 1 .. Len(Program[t])
    <3>1. DOMAIN result[t] = 1 .. Len(result[t]) /\ Len(result[t]) \in Nat
      BY LenProperties DEF TypeInv, TypeOK
    <3>2. Len(Program[t]) \in Nat
      BY ConfigAssumption, LenProperties
    <3> QED BY <3>1, <3>2 DEF MadeCalls
  <2>2. NodeOf[t] \in Node /\ Program[t][k].peer \in Node
    BY <2>1, ConfigAssumption, CallType
  <2>3. Announced(NodeOf[t], Program[t][k].peer)
    BY <1>2 DEF ConnectHonest
  <2> QED BY <2>2, <2>3, AnnouncedStays
<1> QED BY <1>1, <1>2 DEF ConnectHonest

\* The results of a step in which the call of t returns.
LEMMA NewResult ==
  ASSUME TypeInv, [Next]_vars, MadeCalls, ConnectHonest, NEW t \in Thread,
         NEW ret \in {"error", "ok"}, NEW peer \in Node, NEW msg \in Message,
         Return(t, ret, peer, msg), Index(t) \in 1 .. Len(Program[t]),
         Call(t).op = "connect" /\ ret = "ok" => Announced(NodeOf[t], Call(t).peer)
  PROVE  MadeCalls' /\ ConnectHonest'
<1> DEFINE r == [ret |-> ret, peer |-> peer, msg |-> msg]
<1>1. r \in Result /\ r.ret = ret
  BY DEF Result
<1> HIDE DEF r
<1>2. result'[t] = Append(result[t], r) /\ \A u \in Thread \ {t} : result'[u] = result[u]
  BY DEF Return, TypeInv, TypeOK, r
<1>3. \A u \in Thread : /\ result[u] \in Seq(Result)
                        /\ Len(result[u]) \in Nat
                        /\ DOMAIN result[u] = 1 .. Len(result[u])
                        /\ Len(Program[u]) \in Nat
  BY ConfigAssumption, LenProperties DEF TypeInv, TypeOK
<1>4. /\ Append(result[t], r) \in Seq(Result)
      /\ Len(Append(result[t], r)) = Len(result[t]) + 1
      /\ \A i \in 1 .. Len(result[t]) : Append(result[t], r)[i] = result[t][i]
      /\ Append(result[t], r)[Len(result[t]) + 1] = r
  BY <1>1, <1>3, AppendProperties
<1>5. DOMAIN result'[t] = 1 .. Len(result[t]) + 1
  BY <1>2, <1>4, LenProperties
<1>6. MadeCalls'
  BY <1>2, <1>3, <1>4 DEF MadeCalls, Index
<1>7. ASSUME NEW u \in Thread, NEW k \in DOMAIN result'[u],
             Program[u][k].op = "connect", result'[u][k].ret = "ok"
      PROVE  Announced(NodeOf[u], Program[u][k].peer)'
  <2>1. k \in 1 .. Len(Program[u])
    <3>1. CASE u = t
      BY <1>3, <1>5, <3>1 DEF Index
    <3>2. CASE u # t
      BY <1>2, <1>3, <3>2 DEF MadeCalls
    <3> QED BY <3>1, <3>2
  <2>2. NodeOf[u] \in Node /\ Program[u][k].peer \in Node
    BY <2>1, ConfigAssumption, CallType
  <2>3. Announced(NodeOf[u], Program[u][k].peer)
    <3>1. CASE u = t /\ k = Len(result[t]) + 1
      BY <1>1, <1>2, <1>4, <1>7, <3>1 DEF Call, Index
    <3>2. CASE k \in DOMAIN result[u] /\ result'[u][k] = result[u][k]
      BY <1>7, <3>2 DEF ConnectHonest
    <3>3. CASE u = t /\ k # Len(result[t]) + 1
      <4>1. k \in 1 .. Len(result[t])
        BY <1>3, <1>5, <3>3
      <4> QED BY <1>2, <1>3, <1>4, <3>2, <3>3, <4>1
    <3>4. CASE u # t
      BY <1>2, <3>2, <3>4
    <3> QED BY <3>1, <3>3, <3>4
  <2> QED BY <2>2, <2>3, AnnouncedStays
<1> QED BY <1>6, <1>7 DEF ConnectHonest

\* Every step of a communication thread preserves the rendezvous.
LEMMA HandlerRendezvous ==
  ASSUME TypeInv, Next, RendezvousInv, NEW n \in Node, HandlerNext(n)
  PROVE  RendezvousInv'
<1>0. OneRendezvous /\ RequestInv /\ MadeCalls /\ ConnectHonest /\ [Next]_vars
  BY DEF RendezvousInv
<1>1. UNCHANGED <<step, result>> => MadeCalls' /\ ConnectHonest'
  BY <1>0, SameResults
<1>2. ASSUME UNCHANGED <<mtx, connpipe, step, result>>,
             NEW s, s \notin {"start", "hello"}, hpc' = [hpc EXCEPT ![n] = s],
             hpc[n] # "hello", \A m \in Node \ {n} : peerOf'[m] = peerOf[m]
      PROVE  RendezvousInv'
  <2>1. hpc'[n] = s /\ \A m \in Node \ {n} : hpc'[m] = hpc[m]
    BY <1>2 DEF TypeInv, TypeOK
  <2>2. OneRendezvous'
    BY <1>0, <1>2, <2>1, QuietRendezvous
  <2>3. RequestInv'
    BY <1>0, <1>2, <2>1, HandlerRequest
  <2> QED BY <1>1, <1>2, <2>2, <2>3 DEF RendezvousInv
<1>3. CASE SetupNext(n)
  <2>1. PICK s \in {"handle", "dead"} : hpc' = [hpc EXCEPT ![n] = s]
    BY <1>3 DEF SetupNext, HandlerStarts, MonitorFails, SetupThrows, Fail, Die
  <2>2. hpc[n] = "start" /\ Unlock(n) /\ UNCHANGED <<connpipe, step, result, peerOf>>
    BY <1>3 DEF SetupNext, HandlerStarts, MonitorFails, SetupThrows, setupRest, inVars, appVars
  <2>3. \A m \in Node \ {n} : hpc'[m] = hpc[m]
    BY <2>1 DEF TypeInv, TypeOK
  <2>4. Outstanding(n) = {}
    BY <1>0, <2>2 DEF OneRendezvous
  <2>5. OneRendezvous'
    BY <1>0, <2>1, <2>2, <2>4, ReleaseRendezvous
  <2>6. RequestInv'
    BY <1>0, <2>2, <2>3, HandlerRequest
  <2> QED BY <1>1, <2>2, <2>5, <2>6 DEF RendezvousInv
<1>4. CASE PollBegins(n)
  BY <1>2, <1>4 DEF PollBegins, pollRest, inVars, appVars
<1>5. CASE PollReturns(n)
  BY <1>2, <1>5 DEF PollReturns, pollRest, inVars, appVars
<1>6. CASE PollFails(n) \/ EventFails(n)
  BY <1>2, <1>6 DEF PollFails, EventFails, Fail, Die, pollRest, inVars, appVars
<1>7. ASSUME NEW t \in Thread, HandleMsgq(n, t) PROVE RendezvousInv'
  <2>1. hpc[n] = "handle" /\ UNCHANGED <<hpc, peerOf, mtx, connpipe, step, result>>
    BY <1>7 DEF HandleMsgq, Turn, appVars
  <2>2. hpc' = [hpc EXCEPT ![n] = "handle"]
    BY <2>1 DEF TypeInv, TypeOK
  <2> QED BY <1>2, <2>1, <2>2
<1>8. ASSUME NEW t \in Thread, HandleConn(n, t) PROVE RendezvousInv'
  <2>1. /\ TakeRequest(n, t)
        /\ hpc' = [hpc EXCEPT ![n] = "hello"]
        /\ peerOf' = [peerOf EXCEPT ![n] = Head(connpipe[t])]
        /\ UNCHANGED <<mtx, step, result>>
    BY <1>8 DEF HandleConn, KeepWaiting, connRest, appVars
  <2>2. /\ hpc'[n] = "hello" /\ peerOf'[n] = Head(connpipe[t])
        /\ \A m \in Node \ {n} : hpc'[m] = hpc[m] /\ peerOf'[m] = peerOf[m]
    BY <2>1 DEF TypeInv, TypeOK
  <2>3. OneRendezvous'
    BY <1>0, <2>1, TakeRendezvous
  <2>4. RequestInv'
    BY <1>0, <2>1, <2>2, TakeRequestInv
  <2> QED BY <1>1, <2>1, <2>3, <2>4 DEF RendezvousInv
<1>9. ASSUME NEW t \in Thread, TakeRequest(n, t), Fail(n), Unlock(n),
             UNCHANGED <<peerOf, step, result>>
      PROVE  RendezvousInv'
  <2>1. hpc' = [hpc EXCEPT ![n] = "dead"] /\ errcode' = [errcode EXCEPT ![n] = TRUE]
    BY <1>9 DEF Fail, Die
  <2>2. errcode'[n] /\ \A m \in Node \ {n} : hpc'[m] = hpc[m] /\ peerOf'[m] = peerOf[m]
    BY <1>9, <2>1 DEF TypeInv, TypeOK
  <2>3. OneRendezvous'
    BY <1>0, <1>9, <2>1, TakeRendezvous
  <2>4. RequestInv'
    BY <1>0, <1>9, <2>2, TakeRequestInv
  <2> QED BY <1>1, <1>9, <2>3, <2>4 DEF RendezvousInv
<1>10. ASSUME NEW t \in Thread, HandleConnFails(n, t) PROVE RendezvousInv'
  BY <1>9, <1>10 DEF HandleConnFails, connRest, appVars
<1>11. ASSUME NEW p \in Node, HandleRouter(n, p) PROVE RendezvousInv'
  <2>1. hpc[n] = "handle" /\ UNCHANGED <<mtx, connpipe, step, result>>
    BY <1>11 DEF HandleRouter, Turn, inVars, appVars
  <2>2. \A m \in Node \ {n} : peerOf'[m] = peerOf[m]
    BY <1>11 DEF HandleRouter, TypeInv, TypeOK
  <2>3. hpc' = [hpc EXCEPT ![n] = "push"] \/ hpc' = [hpc EXCEPT ![n] = "handle"]
    BY <1>11, <2>1 DEF HandleRouter, TypeInv, TypeOK
  <2> QED BY <1>2, <2>1, <2>2, <2>3
<1>12. CASE PushTask(n)
  BY <1>2, <1>12 DEF PushTask, inVars, appVars
<1>13. CASE SendHello(n)
  <2>1. /\ hpc[n] = "hello" /\ hpc' = [hpc EXCEPT ![n] = "handle"] /\ Unlock(n)
        /\ UNCHANGED <<connpipe, step, result, peerOf>>
        /\ net' = [net EXCEPT ![n][peerOf[n]] = Append(@, Hello)]
    BY <1>13 DEF SendHello, ReleaseRequester, inVars, appVars
  <2>2. \A m \in Node \ {n} : hpc'[m] = hpc[m]
    BY <2>1 DEF TypeInv, TypeOK
  <2>3. OneRendezvous'
    <3>1. Outstanding(n) = {}
      BY <1>0, <2>1 DEF OneRendezvous
    <3> QED BY <1>0, <2>1, <3>1, ReleaseRendezvous
  <2>4. Announced(n, peerOf[n])'
    <3>1. peerOf[n] \in Node
      BY DEF TypeInv, TypeOK
    <3>2. net[n] \in [Node -> Seq(Message)] /\ net \in [Node -> [Node -> Seq(Message)]]
      BY DEF TypeInv, TypeOK
    <3>3. net'[n][peerOf[n]] = Append(net[n][peerOf[n]], Hello)
      BY <2>1, <3>1, <3>2
    <3>4. Hello \in Range(Append(net[n][peerOf[n]], Hello))
      BY <3>1, <3>2, MessageType, PushFacts
    <3> QED BY <2>1, <3>3, <3>4 DEF Announced
  <2>5. ASSUME NEW t \in Thread PROVE RequestOf(t)'
    <3>1. RequestOf(t) /\ NodeOf[t] \in Node /\ Call(t)' = Call(t)
      BY <1>0, <2>1, ConfigAssumption DEF RequestInv, Call, Index
    <3>2. CASE NodeOf[t] = n /\ step[t] = "lock again" /\ peerOf[n] = Call(t).peer
      <4>1. Settled(n, Call(t).peer)'
        BY <2>1, <2>4, <3>1, <3>2 DEF Settled
      <4> QED BY <2>1, <3>1, <3>2, <4>1 DEF RequestOf
    <3>3. CASE NodeOf[t] # n
      BY <1>0, <2>1, <2>2, <3>1, <3>3, QuietRequest
    <3>4. CASE NodeOf[t] = n /\ ~(step[t] = "lock again" /\ peerOf[n] = Call(t).peer)
      <4>1. CASE step[t] \in {"lock again", "check"}
        <5>1. Call(t).peer \in Node
          BY <4>1, RunningCall DEF TypeInv
        <5>2. Settled(n, Call(t).peer) => Settled(n, Call(t).peer)'
          BY <1>0, <3>1, <5>1, SettledStays
        <5> QED BY <2>1, <3>1, <3>4, <5>2 DEF RequestOf
      <4>2. CASE step[t] \notin {"lock again", "check"}
        BY <2>1, <3>1, <4>2 DEF RequestOf
      <4> QED BY <4>1, <4>2
    <3> QED BY <3>2, <3>3, <3>4
  <2> QED BY <1>1, <2>1, <2>3, <2>5 DEF RendezvousInv, RequestInv
<1>14. CASE RecvFails(n)
  <2>1. Fail(n) /\ UNCHANGED <<peerOf, step, result>>
    BY <1>14 DEF RecvFails, appVars
  <2>2. CASE (Turn(n, "msgq") \/ Turn(n, "router")) /\ UNCHANGED <<mtx, todo, connpipe>>
    BY <1>2, <2>1, <2>2 DEF Turn, Fail, Die
  <2>3. CASE Unlock(n) /\ \E t \in Thread : TakeRequest(n, t)
    BY <1>9, <2>1, <2>3
  <2> QED BY <1>14, <2>2, <2>3 DEF RecvFails
<1>15. CASE HandleShutdown(n)
  BY <1>2, <1>15 DEF HandleShutdown, Turn, appVars
<1> QED
  BY <1>3, <1>4, <1>5, <1>6, <1>7, <1>8, <1>10, <1>11, <1>12, <1>13, <1>14, <1>15
     DEF HandlerNext

\* Every step of an application thread preserves the rendezvous.
LEMMA ThreadRendezvous ==
  ASSUME TypeInv, Next, RendezvousInv, NEW t \in Thread, ThreadNext(t)
  PROVE  RendezvousInv'
<1>0. /\ OneRendezvous /\ RequestInv /\ MadeCalls /\ ConnectHonest /\ [Next]_vars
      /\ TypeOK /\ InsideCall /\ NodeOf[t] \in Node /\ Hello \in Message
  BY ConfigAssumption, MessageType DEF RendezvousInv, TypeInv
<1>1. UNCHANGED <<hpc, peerOf>>
  BY DEF ThreadNext, Refused, connect_to, ConnectRequest, ConnectPushFails, ConnectWakes,
       ConnectReturns, AcceptRefused, get_one_connection, AcceptReturns, send, SendReturns,
       recv, RecvReturns, recv_async, shutdown, ShutdownReturns, handlerRest, hVars
<1>2. UNCHANGED <<mtx, connpipe>> => OneRendezvous'
  BY <1>0, <1>1, QuietRendezvous
<1>3. ASSUME NEW s, Goto(t, s), UNCHANGED <<mtx, connpipe>>, step[t] = "idle",
             s \notin {"lock again", "check"}
      PROVE  RendezvousInv'
  <2>1. step'[t] = s /\ \A u \in Thread \ {t} : step'[u] = step[u] /\ result'[u] = result[u]
    BY <1>3 DEF Goto, TypeInv, TypeOK
  <2>2. RequestInv'
    BY <1>0, <1>1, <1>3, <2>1, ThreadRequest
  <2>3. MadeCalls' /\ ConnectHonest'
    BY <1>0, <1>3, SameResults DEF Goto
  <2> QED BY <1>2, <1>3, <2>2, <2>3 DEF RendezvousInv
<1>4. ASSUME NEW ret \in {"error", "ok"}, NEW peer \in Node, NEW msg \in Message,
             Return(t, ret, peer, msg), UNCHANGED <<mtx, connpipe>>,
             step[t] # "lock again", Index(t) \in 1 .. Len(Program[t]),
             Call(t).op = "connect" /\ ret = "ok" => Announced(NodeOf[t], Call(t).peer)
      PROVE  RendezvousInv'
  <2>1. step'[t] = "idle" /\ \A u \in Thread \ {t} : step'[u] = step[u] /\ result'[u] = result[u]
    BY <1>4 DEF Return, TypeInv, TypeOK
  <2>2. RequestInv'
    BY <1>0, <1>1, <1>4, <2>1, ThreadRequest
  <2>3. MadeCalls' /\ ConnectHonest'
    BY <1>0, <1>4, NewResult
  <2> QED BY <1>2, <1>4, <2>2, <2>3 DEF RendezvousInv
<1>5. CASE Refused(t)
  <2>1. step[t] = "idle" /\ UNCHANGED <<mtx, connpipe>>
    BY <1>5 DEF Refused, Calls, inVars
  <2>2. Call(t).peer \in Node /\ Index(t) \in 1 .. Len(Program[t])
    BY <1>0, <1>5, StartedCall DEF Refused
  <2> QED BY <1>0, <1>4, <1>5, <2>1, <2>2 DEF Refused
<1>6. CASE connect_to(t)
  BY <1>3, <1>6 DEF connect_to, Calls, inVars
<1>7. CASE ConnectRequest(t)
  <2>1. OneRendezvous'
    BY <1>0, <1>7, RequestRendezvous
  <2>2. MadeCalls' /\ ConnectHonest'
    BY <1>0, <1>7, SameResults DEF ConnectRequest, Goto
  <2>3. connpipe[t] = <<>>
    BY <1>0, <1>7 DEF RequestInv, RequestOf, ConnectRequest
  <2>4. Append(connpipe[t], Call(t).peer) = <<Call(t).peer>>
    <3>1. Call(t).peer \in Node
      BY <1>0, <1>7, RunningCall DEF ConnectRequest
    <3> QED BY <2>3, <3>1, OneQueued
  <2>5. connpipe'[t] = <<Call(t).peer>> /\ \A u \in Thread \ {t} : connpipe'[u] = connpipe[u]
    BY <1>0, <1>7, <2>4 DEF ConnectRequest, TypeOK
  <2>6. step'[t] = "lock again" /\ Call(t)' = Call(t)
    BY <1>0, <1>7 DEF ConnectRequest, Goto, TypeOK, Call, Index
  <2>7. RequestOf(t)'
    <3>1. connpipe'[t] # <<>>
      BY <2>5
    <3> QED BY <2>5, <2>6, <3>1 DEF RequestOf
  <2>8. RequestInv'
    BY <1>0, <1>1, <1>7, <2>5, <2>7, GotoRequest DEF ConnectRequest
  <2> QED BY <2>1, <2>2, <2>8 DEF RendezvousInv
<1>8. CASE ConnectPushFails(t)
  <2>1. Call(t).peer \in Node /\ Index(t) \in 1 .. Len(Program[t])
    BY <1>0, <1>8, RunningCall DEF ConnectPushFails, InsideCall
  <2>2. step[t] = "lock" /\ UNCHANGED <<mtx, connpipe>>
    BY <1>8 DEF ConnectPushFails, inVars
  <2> QED BY <1>0, <1>4, <1>8, <2>1, <2>2 DEF ConnectPushFails
<1>9. CASE ConnectWakes(t)
  <2>1. UNCHANGED <<mtx, connpipe>> /\ step[t] = "lock again" /\ ~mtx[NodeOf[t]] /\ Goto(t, "check")
    BY <1>9 DEF ConnectWakes, inVars
  <2>2. connpipe[t] = <<>> /\ hpc[NodeOf[t]] # "hello"
    <3>1. Outstanding(NodeOf[t]) = {} /\ hpc[NodeOf[t]] # "hello"
      BY <1>0, <2>1 DEF OneRendezvous
    <3> QED BY <3>1 DEF Outstanding, ThreadsOf
  <2>3. Settled(NodeOf[t], Call(t).peer)
    BY <1>0, <2>1, <2>2 DEF RequestInv, RequestOf
  <2>4. step'[t] = "check" /\ Call(t)' = Call(t)
    BY <1>0, <2>1 DEF Goto, TypeOK, Call, Index
  <2>5. Settled(NodeOf[t], Call(t).peer)'
    <3>1. Call(t).peer \in Node
      BY <1>0, <2>1, RunningCall
    <3> QED BY <1>0, <2>3, <2>4, <3>1, SettledStays
  <2>6. RequestOf(t)'
    BY <2>1, <2>2, <2>4, <2>5 DEF RequestOf
  <2>7. RequestInv'
    BY <1>0, <1>1, <2>1, <2>6, GotoRequest
  <2>8. MadeCalls' /\ ConnectHonest'
    BY <1>0, <2>1, SameResults DEF Goto
  <2> QED BY <1>2, <2>1, <2>7, <2>8 DEF RendezvousInv
<1>10. CASE ConnectReturns(t)
  <2>1. Call(t).peer \in Node /\ Index(t) \in 1 .. Len(Program[t])
    BY <1>0, <1>10, RunningCall DEF ConnectReturns, InsideCall
  <2>2. /\ step[t] = "check" /\ Call(t).op = "connect" /\ UNCHANGED <<mtx, connpipe>>
        /\ Return(t, Verdict(NodeOf[t]), Call(t).peer, Hello)
    BY <1>10 DEF ConnectReturns, inVars
  <2>3. Settled(NodeOf[t], Call(t).peer)
    BY <1>0, <2>2 DEF RequestInv, RequestOf
  <2>4. Verdict(NodeOf[t]) = "ok" => Announced(NodeOf[t], Call(t).peer)
    BY <2>3 DEF Verdict, Settled
  <2> QED BY <1>0, <1>4, <2>1, <2>2, <2>4, VerdictType
<1>11. CASE AcceptRefused(t)
  <2>1. Call(t).peer \in Node /\ Index(t) \in 1 .. Len(Program[t])
    BY <1>0, <1>11, StartedCall DEF AcceptRefused
  <2>2. step[t] = "idle" /\ UNCHANGED <<mtx, connpipe>>
    BY <1>11 DEF AcceptRefused, Calls, inVars
  <2> QED BY <1>0, <1>4, <1>11, <2>1, <2>2 DEF AcceptRefused
<1>12. CASE get_one_connection(t)
  BY <1>3, <1>12 DEF get_one_connection, Calls, inVars
<1>13. CASE AcceptReturns(t)
  <2>1. /\ step[t] = "pop" /\ UNCHANGED <<mtx, connpipe>>
        /\ Return(t, "ok", Head(clientq[NodeOf[t]]), Hello)
    BY <1>13 DEF AcceptReturns, inVars
  <2>2. Head(clientq[NodeOf[t]]) \in Node
    BY <1>0, <1>13, PopFacts DEF TypeOK, AcceptReturns
  <2>3. Index(t) \in 1 .. Len(Program[t]) /\ Call(t).op = "accept"
    BY <1>0, <2>1 DEF InsideCall, CallAt
  <2> QED BY <1>0, <1>4, <2>1, <2>2, <2>3
<1>14. CASE send(t)
  <2>1. UNCHANGED <<mtx, connpipe>> /\ step[t] = "idle" /\ Call(t).op = "send" /\ Goto(t, "check")
    BY <1>14 DEF send, Calls
  <2>2. connpipe[t] = <<>>
    BY <1>0, <2>1 DEF RequestInv, RequestOf
  <2>3. step'[t] = "check" /\ Call(t)' = Call(t)
    BY <1>0, <2>1 DEF Goto, TypeOK, Call, Index
  <2>4. RequestOf(t)'
    BY <2>1, <2>2, <2>3 DEF RequestOf
  <2>5. RequestInv'
    BY <1>0, <1>1, <2>1, <2>4, GotoRequest
  <2>6. MadeCalls' /\ ConnectHonest'
    BY <1>0, <2>1, SameResults DEF Goto
  <2> QED BY <1>2, <2>1, <2>5, <2>6 DEF RendezvousInv
<1>15. CASE SendReturns(t)
  <2>1. /\ Call(t).peer \in Node /\ Index(t) \in 1 .. Len(Program[t])
        /\ Data(t, Index(t)) \in Message
    BY <1>0, <1>15, RunningCall, IndexType, MessageType DEF SendReturns, InsideCall
  <2>2. /\ step[t] = "check" /\ Call(t).op = "send" /\ UNCHANGED <<mtx, connpipe>>
        /\ Return(t, Verdict(NodeOf[t]), Call(t).peer, Data(t, Index(t)))
    BY <1>15 DEF SendReturns, inVars
  <2> QED BY <1>4, <2>1, <2>2, VerdictType
<1>16. ASSUME TakeTask(t), UNCHANGED <<mtx, connpipe>>, step[t] # "lock again",
              Index(t) \in 1 .. Len(Program[t]), Call(t).op # "connect"
       PROVE  RendezvousInv'
  <2> DEFINE m == Head(taskpipe[t])
  <2>1. m \in [peer : Node, msg : Message]
    BY <1>0, <1>16, PopFacts DEF TypeOK, TakeTask
  <2>2. m.peer \in Node /\ m.msg \in Message /\ Return(t, Verdict(NodeOf[t]), m.peer, m.msg)
    BY <1>16, <2>1 DEF TakeTask
  <2> HIDE DEF m
  <2> QED BY <1>4, <1>16, <2>2, VerdictType
<1>17. CASE recv(t)
  BY <1>3, <1>17 DEF recv, Calls, inVars
<1>18. CASE RecvReturns(t)
  <2>1. step[t] = "wait" /\ UNCHANGED <<mtx, connpipe>> /\ TakeTask(t)
    BY <1>18 DEF RecvReturns, inVars
  <2>2. Index(t) \in 1 .. Len(Program[t]) /\ Call(t).op = "recv"
    BY <1>0, <2>1 DEF InsideCall, CallAt
  <2> QED BY <1>16, <2>1, <2>2
<1>19. CASE recv_async(t)
  <2>1. step[t] = "idle" /\ UNCHANGED <<mtx, connpipe>>
    BY <1>19 DEF recv_async, Calls, inVars
  <2>2. Index(t) \in 1 .. Len(Program[t]) /\ Call(t).op = "recv_async"
    BY <1>0, <1>19, StartedCall DEF recv_async
  <2>3. CASE TakeTask(t)
    BY <1>16, <2>1, <2>2, <2>3
  <2>4. CASE UNCHANGED appVars
    <3>1. MadeCalls' /\ ConnectHonest'
      BY <1>0, <2>4, SameResults DEF appVars
    <3>2. RequestInv'
      BY <1>0, <1>1, <2>1, <2>4, HandlerRequest DEF appVars
    <3> QED BY <1>2, <2>1, <3>1, <3>2 DEF RendezvousInv
  <2> QED BY <1>19, <2>3, <2>4 DEF recv_async
<1>20. CASE shutdown(t)
  BY <1>3, <1>20 DEF shutdown, Calls
<1>21. CASE ShutdownReturns(t)
  <2>1. /\ step[t] = "join" /\ UNCHANGED <<mtx, connpipe>>
        /\ Return(t, "ok", NodeOf[t], Hello)
    BY <1>21 DEF ShutdownReturns, inVars
  <2>2. Index(t) \in 1 .. Len(Program[t]) /\ Call(t).op = "shutdown"
    BY <1>0, <2>1 DEF InsideCall, CallAt
  <2> QED BY <1>0, <1>4, <2>1, <2>2
<1> QED
  BY <1>5, <1>6, <1>7, <1>8, <1>9, <1>10, <1>11, <1>12, <1>13, <1>14, <1>15, <1>17, <1>18,
     <1>19, <1>20, <1>21 DEF ThreadNext

\* No thread has asked for anything yet, and the constructor holds sync_mtx.
LEMMA InitRendezvous == Init => RendezvousInv
<1> SUFFICES ASSUME Init PROVE RendezvousInv
  OBVIOUS
<1>1. OneRendezvous
  BY DEF Init, OneRendezvous, Outstanding, ThreadsOf
<1>2. RequestInv
  BY DEF Init, RequestInv, RequestOf
<1>3. \A t \in Thread : DOMAIN result[t] = {} /\ Len(result[t]) = 0 /\ Len(Program[t]) \in Nat
  BY ConfigAssumption, LenProperties DEF Init
<1>4. MadeCalls /\ ConnectHonest
  BY <1>3 DEF MadeCalls, ConnectHonest
<1> QED BY <1>1, <1>2, <1>4 DEF RendezvousInv

\* Every step of the system preserves the rendezvous.
LEMMA NextRendezvous == TypeInv /\ RendezvousInv /\ [Next]_vars => RendezvousInv'
<1> SUFFICES ASSUME TypeInv, RendezvousInv, [Next]_vars PROVE RendezvousInv'
  OBVIOUS
<1>0. OneRendezvous /\ RequestInv /\ MadeCalls /\ ConnectHonest
  BY DEF RendezvousInv
<1>1. ASSUME UNCHANGED <<hpc, peerOf, mtx, connpipe, step, result>> PROVE RendezvousInv'
  <2>1. OneRendezvous'
    BY <1>0, <1>1, QuietRendezvous
  <2>2. MadeCalls' /\ ConnectHonest'
    BY <1>0, <1>1, SameResults
  <2>3. ASSUME NEW t \in Thread PROVE RequestOf(t)'
    <3>1. RequestOf(t)
      BY <1>0 DEF RequestInv
    <3> QED BY <1>1, <3>1, QuietRequest
  <2> QED BY <2>1, <2>2, <2>3 DEF RendezvousInv, RequestInv
<1>2. ASSUME NEW n \in Node, CtorReturns(n) PROVE RendezvousInv'
  BY <1>1, <1>2 DEF CtorReturns, hVars, inVars, appVars
<1>3. ASSUME NEW n \in Node, NEW d \in Node, Handshake(n, d) PROVE RendezvousInv'
  BY <1>1, <1>3 DEF Handshake, hVars, inVars, appVars
<1>4. CASE UNCHANGED vars
  BY <1>1, <1>4 DEF vars
<1>5. ASSUME Next, NEW n \in Node, HandlerNext(n) PROVE RendezvousInv'
  BY <1>5, HandlerRendezvous
<1>6. ASSUME Next, NEW t \in Thread, ThreadNext(t) PROVE RendezvousInv'
  BY <1>6, ThreadRendezvous
<1>7. CASE Next
  BY <1>2, <1>3, <1>5, <1>6, <1>7 DEF Next
<1> QED BY <1>4, <1>7

\* sync_mtx works as a rendezvous between connect_to and the communication
\* thread, with any number of threads, any programs and any failures: a request
\* in the pipe or in service is the only one, and the mutex is locked.
THEOREM RendezvousIsExclusive == Spec => []OneRendezvous
<1>1. RendezvousInv => OneRendezvous
  BY DEF RendezvousInv
<1> QED BY <1>1, InitType, NextType, InitRendezvous, NextRendezvous, PTL DEF Spec

\* connect_to returns 0 only after the destination was greeted.
THEOREM ConnectIsHonest == Spec => []ConnectHonest
<1>1. RendezvousInv => ConnectHonest
  BY DEF RendezvousInv
<1> QED BY <1>1, InitType, NextType, InitRendezvous, NextRendezvous, PTL DEF Spec

-----------------------------------------------------------------------------
(* Which calls have begun. *)

\* The steps of a call.
Step == {"idle", "lock", "lock again", "check", "pop", "wait", "join"}

\* What a step of an application thread does to its call: nothing, going on
\* inside it, or returning from it.
LEMMA ThreadMoves ==
  ASSUME TypeInv, NEW t \in Thread, ThreadNext(t)
  PROVE  \/ UNCHANGED appVars
         \/ \E s \in Step \ {"idle"} : Goto(t, s)
         \/ /\ Index(t) \in 1 .. Len(Program[t])
            /\ \E ret \in {"error", "ok"} : \E peer \in Node : \E msg \in Message :
                 Return(t, ret, peer, msg)
<1> DEFINE Returns == /\ Index(t) \in 1 .. Len(Program[t])
                      /\ \E ret \in {"error", "ok"} : \E peer \in Node : \E msg \in Message :
                           Return(t, ret, peer, msg)
           Goes == \E s \in Step \ {"idle"} : Goto(t, s)
<1>0. TypeOK /\ InsideCall /\ NodeOf[t] \in Node /\ Hello \in Message
  BY ConfigAssumption, MessageType DEF TypeInv
<1>1. ASSUME NEW ret \in {"error", "ok"}, NEW peer \in Node, NEW msg \in Message,
             Return(t, ret, peer, msg), Index(t) \in 1 .. Len(Program[t])
      PROVE  Returns
  BY <1>1
<1>2. ASSUME TakeTask(t), Index(t) \in 1 .. Len(Program[t]) PROVE Returns
  <2>1. PICK m : m = Head(taskpipe[t])
    OBVIOUS
  <2>2. m \in [peer : Node, msg : Message]
    BY <1>0, <1>2, <2>1, PopFacts DEF TypeOK, TakeTask
  <2>3. m.peer \in Node /\ m.msg \in Message /\ Return(t, Verdict(NodeOf[t]), m.peer, m.msg)
    BY <1>2, <2>1, <2>2 DEF TakeTask
  <2> QED BY <1>1, <1>2, <2>3, VerdictType
<1>3. step[t] # "idle" => Index(t) \in 1 .. Len(Program[t]) /\ Call(t).peer \in Node
  BY <1>0, RunningCall DEF InsideCall
<1>4. \A op : Calls(t, op) => Index(t) \in 1 .. Len(Program[t]) /\ Call(t).peer \in Node
  BY <1>0, StartedCall
<1> HIDE DEF Returns
<1>5. CASE Refused(t) \/ AcceptRefused(t)
  BY <1>0, <1>1, <1>4, <1>5 DEF Refused, AcceptRefused
<1>6. CASE ConnectPushFails(t) \/ ShutdownReturns(t)
  BY <1>0, <1>1, <1>3, <1>6 DEF ConnectPushFails, ShutdownReturns
<1>7. CASE ConnectReturns(t)
  BY <1>0, <1>1, <1>3, <1>7, VerdictType DEF ConnectReturns
<1>8. CASE SendReturns(t)
  <2>1. Data(t, Index(t)) \in Message
    BY <1>0, IndexType, MessageType
  <2> QED BY <1>1, <1>3, <1>8, <2>1, VerdictType DEF SendReturns
<1>9. CASE AcceptReturns(t)
  <2>1. Head(clientq[NodeOf[t]]) \in Node
    BY <1>0, <1>9, PopFacts DEF TypeOK, AcceptReturns
  <2> QED BY <1>0, <1>1, <1>3, <1>9, <2>1 DEF AcceptReturns
<1>10. CASE RecvReturns(t)
  <2>1. TakeTask(t) /\ step[t] = "wait"
    BY <1>10 DEF RecvReturns
  <2> QED BY <1>2, <1>3, <2>1 DEF Returns
<1>11. CASE recv_async(t)
  <2>1. Index(t) \in 1 .. Len(Program[t]) /\ (TakeTask(t) \/ UNCHANGED appVars)
    BY <1>4, <1>11 DEF recv_async
  <2> QED BY <1>2, <2>1 DEF Returns
<1>12. CASE connect_to(t) \/ ConnectRequest(t) \/ ConnectWakes(t) \/ get_one_connection(t)
            \/ send(t) \/ recv(t) \/ shutdown(t)
  BY <1>12 DEF connect_to, ConnectRequest, ConnectWakes, get_one_connection, send, recv,
       shutdown, Step
<1> QED
  BY <1>5, <1>6, <1>7, <1>8, <1>9, <1>10, <1>11, <1>12 DEF ThreadNext, Returns

\* The communication threads and 0MQ move no application thread.
LEMMA OthersMove ==
  ASSUME [Next]_vars
  PROVE  UNCHANGED appVars \/ \E t \in Thread : ThreadNext(t)
<1>1. ASSUME NEW m \in Node, HandlerNext(m) PROVE UNCHANGED appVars
  <2>1. ASSUME NEW t \in Thread, HandleMsgq(m, t) \/ HandleConn(m, t) \/ HandleConnFails(m, t)
        PROVE  UNCHANGED appVars
    BY <2>1 DEF HandleMsgq, HandleConn, HandleConnFails, connRest
  <2>2. ASSUME NEW p \in Node, HandleRouter(m, p) PROVE UNCHANGED appVars
    BY <2>2 DEF HandleRouter
  <2>3. CASE SetupNext(m)
    BY <2>3 DEF SetupNext, HandlerStarts, MonitorFails, SetupThrows, setupRest
  <2>4. CASE PollBegins(m) \/ PollReturns(m) \/ PollFails(m) \/ EventFails(m)
    BY <2>4 DEF PollBegins, PollReturns, PollFails, EventFails, pollRest
  <2>5. CASE PushTask(m) \/ SendHello(m) \/ RecvFails(m) \/ HandleShutdown(m)
    BY <2>5 DEF PushTask, SendHello, RecvFails, HandleShutdown
  <2> QED BY <1>1, <2>1, <2>2, <2>3, <2>4, <2>5 DEF HandlerNext
<1>2. ASSUME NEW m \in Node, CtorReturns(m) PROVE UNCHANGED appVars
  BY <1>2 DEF CtorReturns
<1>3. ASSUME NEW m \in Node, NEW p \in Node, Handshake(m, p) PROVE UNCHANGED appVars
  BY <1>3 DEF Handshake
<1>4. CASE UNCHANGED vars
  BY <1>4 DEF vars, appVars
<1> QED BY <1>1, <1>2, <1>3, <1>4 DEF Next

\* A returning call adds its result; the thread is ready for the next one.
LEMMA ReturnFacts ==
  ASSUME TypeInv, NEW t \in Thread, NEW ret \in {"error", "ok"}, NEW peer \in Node,
         NEW msg \in Message, Return(t, ret, peer, msg)
  PROVE  /\ step'[t] = "idle" /\ Index(t)' = Index(t) + 1 /\ Index(t) \in Nat
         /\ DOMAIN result[t] = 1 .. Index(t) - 1
         /\ DOMAIN result'[t] = 1 .. Index(t)
         /\ \A k \in DOMAIN result[t] : result'[t][k] = result[t][k]
         /\ result'[t][Index(t)] = [ret |-> ret, peer |-> peer, msg |-> msg]
         /\ \A u \in Thread \ {t} : step'[u] = step[u] /\ result'[u] = result[u]
<1>1. PICK r : r = [ret |-> ret, peer |-> peer, msg |-> msg]
  OBVIOUS
<1>2. r \in Result
  BY <1>1 DEF Result
<1>3. /\ step'[t] = "idle"
      /\ \A u \in Thread \ {t} : step'[u] = step[u] /\ result'[u] = result[u]
      /\ result'[t] = Append(result[t], r) /\ result[t] \in Seq(Result)
  BY <1>1 DEF Return, TypeInv, TypeOK
<1>4. /\ Append(result[t], r) \in Seq(Result)
      /\ Len(Append(result[t], r)) = Len(result[t]) + 1
      /\ \A i \in 1 .. Len(result[t]) : Append(result[t], r)[i] = result[t][i]
      /\ Append(result[t], r)[Len(result[t]) + 1] = r
  BY <1>2, <1>3, AppendProperties
<1>5. Len(result[t]) \in Nat /\ DOMAIN result[t] = 1 .. Len(result[t])
  BY <1>3, LenProperties
<1>6. DOMAIN result'[t] = 1 .. Len(result[t]) + 1
  BY <1>3, <1>4, LenProperties
<1> QED BY <1>1, <1>3, <1>4, <1>5, <1>6 DEF Index

\* A call that has begun has begun for good.
LEMMA BegunStays ==
  ASSUME TypeInv, [Next]_vars, NEW u \in Thread, NEW k \in Nat, Begun(u, k)
  PROVE  Begun(u, k)'
<1>1. CASE UNCHANGED appVars
  BY <1>1 DEF Begun, Index, appVars
<1>2. ASSUME NEW t \in Thread, ThreadNext(t) PROVE Begun(u, k)'
  <2>1. ASSUME NEW s \in Step \ {"idle"}, Goto(t, s) PROVE Begun(u, k)'
    BY <2>1 DEF Goto, Begun, Index, TypeInv, TypeOK
  <2>2. ASSUME NEW ret \in {"error", "ok"}, NEW peer \in Node, NEW msg \in Message,
               Return(t, ret, peer, msg)
        PROVE  Begun(u, k)'
    <3>1. CASE u = t
      <4>1. Index(t)' = Index(t) + 1 /\ Index(t) \in Nat
        BY <2>2, ReturnFacts
      <4>2. k <= Index(t)
        BY <3>1, <4>1 DEF Begun
      <4> QED BY <3>1, <4>1, <4>2 DEF Begun
    <3>2. CASE u # t
      <4>1. step'[u] = step[u] /\ result'[u] = result[u]
        BY <2>2, <3>2, ReturnFacts
      <4> QED BY <4>1 DEF Begun, Index
    <3> QED BY <3>1, <3>2
  <2> QED BY <1>1, <1>2, <2>1, <2>2, ThreadMoves
<1> QED BY <1>1, <1>2, OthersMove

\* What it means that p has called connect_to for n.
LEMMA CalledMeans ==
  ASSUME NEW p, NEW n
  PROVE  CalledConnect(p, n) <=>
           \E t \in ThreadsOf(p) : \E k \in DOMAIN Program[t] :
             Begun(t, k) /\ Program[t][k] = [op |-> "connect", peer |-> n]
<1>1. ASSUME NEW c \in ConnectCalls(p, n)
      PROVE  \E t \in ThreadsOf(p) : \E k \in DOMAIN Program[t] :
               Begun(t, k) /\ Program[t][k] = [op |-> "connect", peer |-> n]
  <2>1. PICK t \in ThreadsOf(p) : c \in {t} \X DOMAIN Program[t]
    BY <1>1 DEF ConnectCalls
  <2>2. c[1] = t /\ c[2] \in DOMAIN Program[t]
    BY <2>1
  <2>3. Begun(c[1], c[2]) /\ Program[c[1]][c[2]] = [op |-> "connect", peer |-> n]
    BY <1>1 DEF ConnectCalls
  <2> QED BY <2>2, <2>3
<1>2. ASSUME NEW t \in ThreadsOf(p), NEW k \in DOMAIN Program[t],
             Begun(t, k), Program[t][k] = [op |-> "connect", peer |-> n]
      PROVE  ConnectCalls(p, n) # {}
  <2>1. PICK c : c = <<t, k>>
    OBVIOUS
  <2>2. c[1] = t /\ c[2] = k /\ c \in {t} \X DOMAIN Program[t]
    BY <2>1
  <2>3. c \in ConnectCalls(p, n)
    BY <1>2, <2>2 DEF ConnectCalls
  <2> QED BY <2>3
<1> QED BY <1>1, <1>2 DEF CalledConnect

\* Who has called connect_to has called it for good.
LEMMA CalledStays ==
  ASSUME TypeInv, [Next]_vars, NEW p, NEW n, CalledConnect(p, n)
  PROVE  CalledConnect(p, n)'
<1>1. PICK t \in ThreadsOf(p) : \E k \in DOMAIN Program[t] :
             Begun(t, k) /\ Program[t][k] = [op |-> "connect", peer |-> n]
  BY CalledMeans
<1>2. PICK k \in DOMAIN Program[t] : Begun(t, k) /\ Program[t][k] = [op |-> "connect", peer |-> n]
  BY <1>1
<1>3. t \in Thread /\ k \in Nat
  BY ConfigAssumption, LenProperties DEF ThreadsOf
<1>4. Begun(t, k)'
  BY <1>2, <1>3, BegunStays
<1>5. PICK c : c = <<t, k>>
  OBVIOUS
<1>6. c[1] = t /\ c[2] = k /\ c \in {t} \X DOMAIN Program[t]
  BY <1>5
<1>7. c \in ConnectCalls(p, n)'
  BY <1>1, <1>2, <1>4, <1>6 DEF ConnectCalls, ThreadsOf
<1> QED BY <1>7 DEF CalledConnect

\* A thread at one of the locks of connect_to has called it.
LEMMA LockMeans ==
  ASSUME TypeInv, NEW t \in Thread, step[t] \in {"lock", "lock again"}
  PROVE  CalledConnect(NodeOf[t], Call(t).peer)
<1>1. Index(t) \in 1 .. Len(Program[t]) /\ Call(t).op = "connect"
  BY DEF TypeInv, InsideCall, CallAt
<1>2. Program[t] \in Seq([op : Op, peer : Node])
  BY ConfigAssumption
<1>3. Call(t) \in [op : Op, peer : Node] /\ Index(t) \in DOMAIN Program[t]
  BY <1>1, <1>2, ElementOfSeq, LenProperties DEF Call
<1>4. Call(t) = [op |-> "connect", peer |-> Call(t).peer]
  BY <1>1, <1>3
<1>5. Begun(t, Index(t)) /\ t \in ThreadsOf(NodeOf[t])
  BY DEF Begun, ThreadsOf
<1> QED BY <1>3, <1>4, <1>5, CalledMeans DEF Call

(* Who is taken for a client. *)

\* n has called connect_to for d, or is a client of d already.
Known(n, d) == CalledConnect(n, d) \/ n \in clientmap[d]

\* Connections and greetings come from calls of connect_to; the node that asked
\* for a connection has the destination in its clientmap, so nothing the
\* destination sends back over the new connection is a registration.
GreetInv ==
  /\ \A n \in Node : hpc[n] = "hello" => CalledConnect(n, peerOf[n])
  /\ \A n, d \in Node : <<n, d>> \in link => CalledConnect(n, d) /\ d \in clientmap[n]
  /\ \A n, d \in Node : d \in route[n] => Known(n, d)
  /\ \A n, d \in Node : net[n][d] # <<>> => Known(n, d)

\* Two nodes that know each other go on knowing each other.
LEMMA KnownStays ==
  ASSUME TypeInv, [Next]_vars, NEW n \in Node, NEW d \in Node, Known(n, d)
  PROVE  Known(n, d)'
  BY CalledStays, ClientsStay DEF Known

\* Nothing new is greeted, linked or sent.
LEMMA QuietGreet ==
  ASSUME TypeInv, [Next]_vars, GreetInv, UNCHANGED <<link, route, net>>,
         \A n \in Node : hpc'[n] = "hello" => hpc[n] = "hello" /\ peerOf'[n] = peerOf[n]
  PROVE  GreetInv'
<1>1. ASSUME NEW n \in Node, hpc'[n] = "hello" PROVE CalledConnect(n, peerOf[n])'
  <2>1. PICK d : d = peerOf[n]
    OBVIOUS
  <2>2. CalledConnect(n, d)
    BY <1>1, <2>1 DEF GreetInv
  <2>3. CalledConnect(n, d)'
    BY <2>2, CalledStays
  <2> QED BY <1>1, <2>1, <2>3 DEF CalledConnect, ConnectCalls
<1>2. ASSUME NEW n \in Node, NEW d \in Node, <<n, d>> \in link'
      PROVE  CalledConnect(n, d)' /\ d \in clientmap'[n]
  BY <1>2, CalledStays, ClientsStay DEF GreetInv
<1>3. ASSUME NEW n \in Node, NEW d \in Node, d \in route'[n] \/ net'[n][d] # <<>>
      PROVE  Known(n, d)'
  BY <1>3, KnownStays DEF GreetInv
<1> QED BY <1>1, <1>2, <1>3 DEF GreetInv

\* A message is sent to a node that knows the sender or has been asked for.
LEMMA SentGreet ==
  ASSUME TypeInv, [Next]_vars, GreetInv, UNCHANGED <<link, route>>,
         \A n \in Node : hpc'[n] = "hello" => hpc[n] = "hello" /\ peerOf'[n] = peerOf[n],
         NEW m \in Node, NEW p \in Node, NEW x \in Message, Known(m, p),
         net' = [net EXCEPT ![m][p] = Append(@, x)]
  PROVE  GreetInv'
<1>1. ASSUME NEW n \in Node, hpc'[n] = "hello" PROVE CalledConnect(n, peerOf[n])'
  <2>1. PICK d : d = peerOf[n]
    OBVIOUS
  <2>2. CalledConnect(n, d)
    BY <1>1, <2>1 DEF GreetInv
  <2>3. CalledConnect(n, d)'
    BY <2>2, CalledStays
  <2> QED BY <1>1, <2>1, <2>3 DEF CalledConnect, ConnectCalls
<1>2. ASSUME NEW n \in Node, NEW d \in Node, <<n, d>> \in link'
      PROVE  CalledConnect(n, d)' /\ d \in clientmap'[n]
  BY <1>2, CalledStays, ClientsStay DEF GreetInv
<1>3. ASSUME NEW n \in Node, NEW d \in Node, d \in route'[n] PROVE Known(n, d)'
  BY <1>3, KnownStays DEF GreetInv
<1>4. ASSUME NEW n \in Node, NEW d \in Node, net'[n][d] # <<>> PROVE Known(n, d)'
  <2>1. CASE n = m /\ d = p
    BY <2>1, KnownStays
  <2>2. CASE ~(n = m /\ d = p)
    <3>1. net[n] \in [Node -> Seq(Message)] /\ net[m] \in [Node -> Seq(Message)]
      BY DEF TypeInv, TypeOK
    <3>2. net'[n][d] = net[n][d]
      BY <2>2, <3>1 DEF TypeInv, TypeOK
    <3> QED BY <1>4, <3>2, KnownStays DEF GreetInv
  <2> QED BY <2>1, <2>2
<1> QED BY <1>1, <1>2, <1>3, <1>4 DEF GreetInv

\* Every step of a communication thread preserves it.
LEMMA HandlerGreet ==
  ASSUME TypeInv, RendezvousInv, Next, GreetInv, NEW m \in Node, HandlerNext(m)
  PROVE  GreetInv'
<1>0. [Next]_vars /\ TypeOK /\ hpc \in [Node -> {"start", "handle", "poll", "push", "hello", "stopped", "dead"}]
      /\ peerOf \in [Node -> Node]
  BY DEF TypeInv, TypeOK
<1>1. ASSUME NEW s, s # "hello", hpc' = [hpc EXCEPT ![m] = s], UNCHANGED peerOf
      PROVE  \A n \in Node : hpc'[n] = "hello" => hpc[n] = "hello" /\ peerOf'[n] = peerOf[n]
  BY <1>0, <1>1
<1>2. ASSUME NEW s, s # "hello", hpc' = [hpc EXCEPT ![m] = s], UNCHANGED <<peerOf, link, route, net>>
      PROVE  GreetInv'
  BY <1>0, <1>1, <1>2, QuietGreet
<1>3. CASE SetupNext(m)
  BY <1>2, <1>3 DEF SetupNext, HandlerStarts, MonitorFails, SetupThrows, Fail, Die, setupRest
<1>4. CASE PollBegins(m) \/ PollReturns(m) \/ PollFails(m) \/ EventFails(m)
  BY <1>2, <1>4 DEF PollBegins, PollReturns, PollFails, EventFails, Fail, Die, pollRest, netVars
<1>5. CASE PushTask(m) \/ RecvFails(m) \/ HandleShutdown(m)
  BY <1>2, <1>5 DEF PushTask, RecvFails, HandleShutdown, Fail, Die, netVars
<1>6. ASSUME NEW t \in Thread, HandleMsgq(m, t) PROVE GreetInv'
  <2>1. PICK q : q = Head(msgpipe[t])
    OBVIOUS
  <2>2. q \in [peer : Node, msg : Message]
    BY <1>0, <1>6, <2>1, PopFacts DEF TypeOK, HandleMsgq
  <2>3. q.peer \in Node /\ q.msg \in Message /\ UNCHANGED <<hpc, peerOf, link, route>>
    BY <1>6, <2>2 DEF HandleMsgq
  <2>4. CASE q.peer \in route[m]
    <3>1. net' = [net EXCEPT ![m][q.peer] = Append(@, q.msg)]
      BY <1>6, <2>1, <2>4 DEF HandleMsgq, Frame
    <3>2. Known(m, q.peer)
      BY <2>3, <2>4 DEF GreetInv
    <3> QED BY <1>0, <2>3, <3>1, <3>2, SentGreet
  <2>5. CASE q.peer \notin route[m]
    <3>1. UNCHANGED net
      BY <1>6, <2>1, <2>5 DEF HandleMsgq
    <3> QED BY <1>0, <2>3, <3>1, QuietGreet
  <2> QED BY <2>4, <2>5
<1>7. ASSUME NEW t \in Thread, HandleConnFails(m, t) PROVE GreetInv'
  BY <1>2, <1>7 DEF HandleConnFails, Fail, Die, connRest
<1>8. ASSUME NEW t \in Thread, HandleConn(m, t) PROVE GreetInv'
  <2>1. PICK e : e = Head(connpipe[t])
    OBVIOUS
  <2>2. TakeRequest(m, t) /\ NodeOf[t] = m /\ OneRendezvous /\ RequestInv
    BY <1>8 DEF HandleConn, TakeRequest, RendezvousInv
  <2>3. step[t] = "lock again" /\ e = Call(t).peer
    BY <2>1, <2>2, TakeOutstanding
  <2>4. CalledConnect(m, e) /\ e \in Node
    BY <2>2, <2>3, LockMeans, RunningCall DEF TypeInv
  <2>5. CalledConnect(m, e)'
    BY <1>0, <2>4, CalledStays
  <2>6. /\ link' = link \union {<<m, e>>} /\ peerOf' = [peerOf EXCEPT ![m] = e]
        /\ hpc' = [hpc EXCEPT ![m] = "hello"] /\ UNCHANGED <<route, net>>
        /\ clientmap' = [clientmap EXCEPT ![m] = @ \union {e}]
    BY <1>8, <2>1 DEF HandleConn, DestKnown, connRest
  <2>7. e \in clientmap'[m]
    BY <1>0, <2>6 DEF TypeOK
  <2>8. ASSUME NEW n \in Node, hpc'[n] = "hello" PROVE CalledConnect(n, peerOf[n])'
    <3>1. CASE n = m
      <4>1. peerOf'[n] = e
        BY <1>0, <2>6, <3>1
      <4> QED BY <2>5, <3>1, <4>1 DEF CalledConnect, ConnectCalls
    <3>2. CASE n # m
      <4>1. PICK d : d = peerOf[n]
        OBVIOUS
      <4>2. peerOf'[n] = d /\ hpc[n] = "hello"
        BY <1>0, <2>6, <2>8, <3>2, <4>1
      <4>3. CalledConnect(n, d)
        BY <4>1, <4>2 DEF GreetInv
      <4>4. CalledConnect(n, d)'
        BY <1>0, <4>3, CalledStays
      <4> QED BY <4>2, <4>4 DEF CalledConnect, ConnectCalls
    <3> QED BY <3>1, <3>2
  <2>9. ASSUME NEW n \in Node, NEW d \in Node, <<n, d>> \in link'
        PROVE  CalledConnect(n, d)' /\ d \in clientmap'[n]
    <3>1. <<n, d>> \in link \/ (n = m /\ d = e)
      BY <2>6, <2>9
    <3> QED BY <1>0, <2>5, <2>7, <3>1, CalledStays, ClientsStay DEF GreetInv
  <2>10. ASSUME NEW n \in Node, NEW d \in Node, d \in route'[n] \/ net'[n][d] # <<>>
         PROVE  Known(n, d)'
    BY <1>0, <2>6, <2>10, KnownStays DEF GreetInv
  <2> QED BY <2>8, <2>9, <2>10 DEF GreetInv
<1>9. ASSUME NEW p \in Node, HandleRouter(m, p) PROVE GreetInv'
  <2>1. net' = [net EXCEPT ![p][m] = Tail(@)] /\ net[p][m] # <<>> /\ UNCHANGED <<link, route>>
        /\ (UNCHANGED <<hpc, peerOf>> \/
            (hpc' = [hpc EXCEPT ![m] = "push"] /\ peerOf' = [peerOf EXCEPT ![m] = p]))
    BY <1>9 DEF HandleRouter
  <2>2. ASSUME NEW n \in Node, hpc'[n] = "hello" PROVE CalledConnect(n, peerOf[n])'
    <3>1. PICK d : d = peerOf[n]
      OBVIOUS
    <3>2. hpc[n] = "hello" /\ peerOf'[n] = d
      BY <1>0, <2>1, <2>2, <3>1
    <3>3. CalledConnect(n, d)'
      BY <1>0, <3>1, <3>2, CalledStays DEF GreetInv
    <3> QED BY <3>2, <3>3 DEF CalledConnect, ConnectCalls
  <2>3. ASSUME NEW n \in Node, NEW d \in Node, <<n, d>> \in link'
        PROVE  CalledConnect(n, d)' /\ d \in clientmap'[n]
    BY <1>0, <2>1, <2>3, CalledStays, ClientsStay DEF GreetInv
  <2>4. ASSUME NEW n \in Node, NEW d \in Node, d \in route'[n] PROVE Known(n, d)'
    BY <1>0, <2>1, <2>4, KnownStays DEF GreetInv
  <2>5. ASSUME NEW n \in Node, NEW d \in Node, net'[n][d] # <<>> PROVE Known(n, d)'
    <3>1. net[n] \in [Node -> Seq(Message)] /\ net[p] \in [Node -> Seq(Message)]
      BY DEF TypeInv, TypeOK
    <3>2. net[n][d] # <<>>
      BY <2>1, <2>5, <3>1 DEF TypeInv, TypeOK
    <3> QED BY <1>0, <3>2, KnownStays DEF GreetInv
  <2> QED BY <2>2, <2>3, <2>4, <2>5 DEF GreetInv
<1>10. CASE SendHello(m)
  <2>1. PICK d : d = peerOf[m]
    OBVIOUS
  <2>2. d \in Node /\ Known(m, d) /\ Hello \in Message
    BY <1>0, <1>10, <2>1, MessageType DEF SendHello, GreetInv, Known
  <2>3. /\ net' = [net EXCEPT ![m][d] = Append(@, Hello)] /\ UNCHANGED <<peerOf, link, route>>
        /\ hpc' = [hpc EXCEPT ![m] = "handle"]
    BY <1>10, <2>1 DEF SendHello
  <2>4. \A n \in Node : hpc'[n] = "hello" => hpc[n] = "hello" /\ peerOf'[n] = peerOf[n]
    BY <1>1, <2>3
  <2> QED BY <1>0, <2>2, <2>3, <2>4, SentGreet
<1> QED
  BY <1>3, <1>4, <1>5, <1>6, <1>7, <1>8, <1>9, <1>10 DEF HandlerNext

\* At the start nobody greets and nothing is linked or sent.
LEMMA InitGreet == Init => GreetInv
  BY DEF Init, GreetInv

\* Every step preserves GreetInv.
LEMMA NextGreet == TypeInv /\ RendezvousInv /\ GreetInv /\ [Next]_vars => GreetInv'
<1> SUFFICES ASSUME TypeInv, RendezvousInv, GreetInv, [Next]_vars PROVE GreetInv'
  OBVIOUS
<1>1. CASE UNCHANGED <<hpc, peerOf, link, route, net>>
  BY <1>1, QuietGreet
<1>2. ASSUME NEW m \in Node, CtorReturns(m) PROVE GreetInv'
  BY <1>1, <1>2 DEF CtorReturns, hVars, netVars
<1>3. ASSUME NEW t \in Thread, ThreadNext(t) PROVE UNCHANGED <<hpc, peerOf, link, route, net>>
  BY <1>3 DEF ThreadNext, Refused, connect_to, ConnectRequest, ConnectPushFails, ConnectWakes,
       ConnectReturns, AcceptRefused, get_one_connection, AcceptReturns, send, SendReturns,
       recv, RecvReturns, recv_async, shutdown, ShutdownReturns, handlerRest, hVars, netVars
<1>4. ASSUME NEW a \in Node, NEW b \in Node, Handshake(a, b) PROVE GreetInv'
  <2>1. /\ <<a, b>> \in link /\ link' \subseteq link /\ UNCHANGED <<hpc, peerOf, net>>
        /\ route' = [route EXCEPT ![a] = @ \union {b}, ![b] = @ \union {a}]
    BY <1>4 DEF Handshake, hVars
  <2>2. CalledConnect(a, b) /\ b \in clientmap[a]
    BY <2>1 DEF GreetInv
  <2>3. Known(a, b) /\ Known(b, a)
    BY <2>2 DEF Known
  <2>4. ASSUME NEW n \in Node, hpc'[n] = "hello" PROVE CalledConnect(n, peerOf[n])'
    <3>1. PICK d : d = peerOf[n]
      OBVIOUS
    <3>2. CalledConnect(n, d)'
      BY <2>1, <2>4, <3>1, CalledStays DEF GreetInv
    <3> QED BY <2>1, <3>1, <3>2 DEF CalledConnect, ConnectCalls
  <2>5. ASSUME NEW n \in Node, NEW d \in Node, <<n, d>> \in link'
        PROVE  CalledConnect(n, d)' /\ d \in clientmap'[n]
    BY <2>1, <2>5, CalledStays, ClientsStay DEF GreetInv
  <2>6. ASSUME NEW n \in Node, NEW d \in Node, d \in route'[n] PROVE Known(n, d)'
    <3>1. route \in [Node -> SUBSET Node]
      BY DEF TypeInv, TypeOK
    <3>2. d \in route[n] \/ (n = a /\ d = b) \/ (n = b /\ d = a)
      BY <2>1, <2>6, <3>1
    <3> QED BY <2>3, <3>2, KnownStays DEF GreetInv
  <2>7. ASSUME NEW n \in Node, NEW d \in Node, net'[n][d] # <<>> PROVE Known(n, d)'
    BY <2>1, <2>7, KnownStays DEF GreetInv
  <2> QED BY <2>4, <2>5, <2>6, <2>7 DEF GreetInv
<1>5. CASE UNCHANGED vars
  BY <1>1, <1>5 DEF vars
<1>6. ASSUME Next, NEW m \in Node, HandlerNext(m) PROVE GreetInv'
  BY <1>6, HandlerGreet
<1> QED BY <1>1, <1>2, <1>3, <1>4, <1>5, <1>6 DEF Next

\* A step of a thread that returns from a call returns from get_one_connection
\* with the head of clientq, from recv or recv_async with the head of its pipe,
\* or with nothing that a peer sent.
LEMMA ThreadReturns ==
  ASSUME TypeInv, NEW t \in Thread, ThreadNext(t)
  PROVE  \/ UNCHANGED <<result, clientq, taskpipe>>
         \/ AcceptReturns(t) /\ Index(t) \in 1 .. Len(Program[t]) /\ Call(t).op = "accept"
         \/ /\ TakeTask(t) /\ UNCHANGED clientq /\ Index(t) \in 1 .. Len(Program[t])
            /\ Call(t).op \in {"recv", "recv_async"}
         \/ /\ UNCHANGED <<clientq, taskpipe>> /\ Index(t) \in 1 .. Len(Program[t])
            /\ \E ret \in {"error", "ok"} : \E peer \in Node : \E msg \in Message :
                 /\ Return(t, ret, peer, msg)
                 /\ ret = "error" \/ Call(t).op \notin {"accept", "recv", "recv_async"}
<1> DEFINE Other ==
             \E ret \in {"error", "ok"} : \E peer \in Node : \E msg \in Message :
               /\ Return(t, ret, peer, msg)
               /\ ret = "error" \/ Call(t).op \notin {"accept", "recv", "recv_async"}
<1>0. TypeOK /\ InsideCall /\ NodeOf[t] \in Node /\ Hello \in Message
  BY ConfigAssumption, MessageType DEF TypeInv
<1>1. ASSUME NEW ret \in {"error", "ok"}, NEW peer \in Node, NEW msg \in Message,
             Return(t, ret, peer, msg),
             ret = "error" \/ Call(t).op \notin {"accept", "recv", "recv_async"}
      PROVE  Other
  BY <1>1
<1>3. step[t] # "idle" => /\ Index(t) \in 1 .. Len(Program[t]) /\ Call(t).peer \in Node
                          /\ Call(t).op \in CallAt(step[t])
  BY <1>0, RunningCall DEF InsideCall
<1>4. \A op : Calls(t, op) =>
        Index(t) \in 1 .. Len(Program[t]) /\ Call(t).peer \in Node /\ Call(t).op = op
  BY <1>0, StartedCall
<1> HIDE DEF Other
<1>5. CASE Refused(t) \/ AcceptRefused(t)
  <2>1. Other
    BY <1>0, <1>1, <1>4, <1>5 DEF Refused, AcceptRefused
  <2> QED BY <1>4, <1>5, <2>1 DEF Refused, AcceptRefused, outVars, Other
<1>6. CASE ConnectPushFails(t)
  <2>1. Other
    BY <1>0, <1>1, <1>3, <1>6 DEF ConnectPushFails
  <2> QED BY <1>3, <1>6, <2>1 DEF ConnectPushFails, outVars, Other
<1>7. CASE ShutdownReturns(t)
  <2>1. Call(t).op = "shutdown"
    BY <1>3, <1>7 DEF ShutdownReturns, CallAt
  <2>2. Other
    BY <1>0, <1>1, <1>7, <2>1 DEF ShutdownReturns
  <2> QED BY <1>3, <1>7, <2>2 DEF ShutdownReturns, outVars, Other
<1>8. CASE ConnectReturns(t)
  <2>1. Other
    BY <1>0, <1>1, <1>3, <1>8, VerdictType DEF ConnectReturns
  <2> QED BY <1>3, <1>8, <2>1 DEF ConnectReturns, outVars, Other
<1>9. CASE SendReturns(t)
  <2>1. Data(t, Index(t)) \in Message
    BY <1>0, IndexType, MessageType
  <2>2. Other
    BY <1>1, <1>3, <1>9, <2>1, VerdictType DEF SendReturns
  <2> QED BY <1>3, <1>9, <2>2 DEF SendReturns, outVars, Other
<1>10. CASE AcceptReturns(t)
  BY <1>3, <1>10 DEF AcceptReturns, CallAt
<1>11. CASE RecvReturns(t)
  BY <1>3, <1>11 DEF RecvReturns, CallAt
<1>12. CASE recv_async(t)
  BY <1>4, <1>12 DEF recv_async, appVars
<1>13. CASE connect_to(t) \/ ConnectRequest(t) \/ ConnectWakes(t) \/ get_one_connection(t)
            \/ send(t) \/ recv(t) \/ shutdown(t)
  BY <1>13 DEF connect_to, ConnectRequest, ConnectWakes, get_one_connection, send, recv,
       shutdown, Goto, outVars
<1> QED
  BY <1>5, <1>6, <1>7, <1>8, <1>9, <1>10, <1>11, <1>12, <1>13 DEF ThreadNext

\* The k-th call of t was a successful get_one_connection.
IsAccept(t, k) == Program[t][k].op = "accept" /\ result[t][k].ret = "ok"

\* Clients in clientq, and those get_one_connection has returned, have called
\* connect_to, are in clientmap, and are all different.
ClientInv ==
  \A n \in Node :
    /\ \A p \in Range(clientq[n]) : CalledConnect(p, n) /\ p \in clientmap[n]
    /\ \A i, j \in DOMAIN clientq[n] : clientq[n][i] = clientq[n][j] => i = j
    /\ \A t \in ThreadsOf(n) : \A k \in DOMAIN result[t] : IsAccept(t, k) =>
         /\ CalledConnect(result[t][k].peer, n)
         /\ result[t][k].peer \in clientmap[n]
         /\ result[t][k].peer \notin Range(clientq[n])
    /\ \A t, u \in ThreadsOf(n) : \A k \in DOMAIN result[t], l \in DOMAIN result[u] :
         IsAccept(t, k) /\ IsAccept(u, l) /\ result[t][k].peer = result[u][l].peer => t = u /\ k = l

\* Nothing is registered and nothing is taken.
LEMMA QuietClient ==
  ASSUME TypeInv, [Next]_vars, ClientInv, UNCHANGED clientq,
         \A u \in Thread : \A k \in DOMAIN result'[u] :
           IsAccept(u, k)' => k \in DOMAIN result[u] /\ result'[u][k] = result[u][k]
  PROVE  ClientInv'
<1> SUFFICES ASSUME NEW n \in Node
             PROVE
    /\ \A p \in Range(clientq'[n]) : CalledConnect(p, n)' /\ p \in clientmap'[n]
    /\ \A i, j \in DOMAIN clientq'[n] : clientq'[n][i] = clientq'[n][j] => i = j
    /\ \A t \in ThreadsOf(n) : \A k \in DOMAIN result'[t] : IsAccept(t, k)' =>
         /\ CalledConnect(result[t][k].peer, n)'
         /\ result'[t][k].peer \in clientmap'[n]
         /\ result'[t][k].peer \notin Range(clientq'[n])
    /\ \A t, u \in ThreadsOf(n) : \A k \in DOMAIN result'[t], l \in DOMAIN result'[u] :
         IsAccept(t, k)' /\ IsAccept(u, l)' /\ result'[t][k].peer = result'[u][l].peer => t = u /\ k = l
  BY DEF ClientInv, ThreadsOf
<1>1. ASSUME NEW p \in Range(clientq'[n]) PROVE CalledConnect(p, n)' /\ p \in clientmap'[n]
  <2>1. CalledConnect(p, n) /\ p \in clientmap[n] /\ p \in Node
    BY DEF ClientInv, TypeInv, TypeOK
  <2> QED BY <2>1, CalledStays, ClientsStay
<1>2. \A u \in ThreadsOf(n) : \A k \in DOMAIN result'[u] :
        IsAccept(u, k)' => k \in DOMAIN result[u] /\ result'[u][k] = result[u][k] /\ IsAccept(u, k)
  BY DEF ThreadsOf, IsAccept
<1>3. ASSUME NEW t \in ThreadsOf(n), NEW k \in DOMAIN result'[t], IsAccept(t, k)'
      PROVE  /\ CalledConnect(result[t][k].peer, n)'
             /\ result'[t][k].peer \in clientmap'[n]
             /\ result'[t][k].peer \notin Range(clientq'[n])
  <2>1. k \in DOMAIN result[t] /\ result'[t][k] = result[t][k] /\ IsAccept(t, k)
    BY <1>2, <1>3
  <2>2. PICK p : p = result[t][k].peer
    OBVIOUS
  <2>3. CalledConnect(p, n) /\ p \in clientmap[n] /\ p \notin Range(clientq[n]) /\ p \in Node
    BY <2>1, <2>2 DEF ClientInv, TypeInv, TypeOK
  <2>4. CalledConnect(p, n)' /\ p \in clientmap'[n]
    BY <2>3, CalledStays, ClientsStay
  <2> QED BY <2>1, <2>2, <2>3, <2>4 DEF CalledConnect, ConnectCalls
<1> QED BY <1>1, <1>2, <1>3 DEF ClientInv

\* At the start there are no clients and no results.
LEMMA InitClient == Init => ClientInv
<1> SUFFICES ASSUME Init PROVE ClientInv
  OBVIOUS
<1>1. \A n \in Node : clientq[n] = <<>>
  BY DEF Init
<1>2. \A t \in Thread : DOMAIN result[t] = {}
  BY DEF Init
<1>3. \A n \in Node : Range(clientq[n]) = {} /\ DOMAIN clientq[n] = {}
  BY <1>1, NothingQueued
<1> QED BY <1>2, <1>3 DEF ClientInv, ThreadsOf

\* The head of a queue without repetitions is not in the rest.
LEMMA PopOnce ==
  ASSUME NEW S, NEW q \in Seq(S), q # <<>>, \A i, j \in DOMAIN q : q[i] = q[j] => i = j
  PROVE  /\ Head(q) \notin Range(Tail(q))
         /\ \A i, j \in DOMAIN Tail(q) : Tail(q)[i] = Tail(q)[j] => i = j
<1>1. /\ Tail(q) \in Seq(S)
      /\ Len(Tail(q)) = Len(q) - 1
      /\ \A i \in 1 .. Len(Tail(q)) : Tail(q)[i] = q[i + 1]
  BY HeadTailProperties
<1>2. Len(q) \in Nat \ {0} /\ DOMAIN q = 1 .. Len(q) /\ DOMAIN Tail(q) = 1 .. Len(Tail(q))
  BY <1>1, EmptySeq, LenProperties
<1>3. Head(q) = q[1]
  OBVIOUS
<1>4. ASSUME NEW k \in DOMAIN Tail(q) PROVE Tail(q)[k] # Head(q)
  <2>1. k + 1 \in DOMAIN q /\ 1 \in DOMAIN q /\ Tail(q)[k] = q[k + 1] /\ k + 1 # 1
    BY <1>1, <1>2
  <2> QED BY <1>3, <2>1
<1>5. ASSUME NEW i \in DOMAIN Tail(q), NEW j \in DOMAIN Tail(q), Tail(q)[i] = Tail(q)[j]
      PROVE  i = j
  <2>1. i + 1 \in DOMAIN q /\ j + 1 \in DOMAIN q /\ q[i + 1] = q[j + 1] /\ i \in Nat /\ j \in Nat
    BY <1>1, <1>2, <1>5
  <2>2. i + 1 = j + 1
    BY <2>1
  <2> QED BY <2>1, <2>2
<1> QED BY <1>4, <1>5 DEF Range

\* A new element keeps a queue without repetitions.
LEMMA PushOnce ==
  ASSUME NEW S, NEW q \in Seq(S), NEW x \in S, x \notin Range(q),
         \A i, j \in DOMAIN q : q[i] = q[j] => i = j
  PROVE  \A i, j \in DOMAIN Append(q, x) : Append(q, x)[i] = Append(q, x)[j] => i = j
<1>1. /\ Append(q, x) \in Seq(S)
      /\ Len(Append(q, x)) = Len(q) + 1
      /\ \A i \in 1 .. Len(q) : Append(q, x)[i] = q[i]
      /\ Append(q, x)[Len(q) + 1] = x
  BY AppendProperties
<1>2. /\ Len(q) \in Nat
      /\ DOMAIN q = 1 .. Len(q)
      /\ DOMAIN Append(q, x) = 1 .. Len(q) + 1
  BY <1>1, LenProperties
<1>3. \A i \in DOMAIN q : q[i] # x
  BY DEF Range
<1> QED BY <1>1, <1>2, <1>3

\* A new client is registered: it is in neither clientmap nor clientq.
LEMMA RegisterClient ==
  ASSUME TypeInv, [Next]_vars, ClientInv, NEW m \in Node, NEW a \in Node, Register(m, a),
         a \notin clientmap[m], CalledConnect(a, m), UNCHANGED appVars
  PROVE  ClientInv'
<1>0. clientq \in [Node -> Seq(Node)] /\ clientmap \in [Node -> SUBSET Node]
  BY DEF TypeInv, TypeOK
<1>1. a \notin Range(clientq[m]) /\ clientq[m] \in Seq(Node)
  BY <1>0 DEF ClientInv
<1>2. Range(Append(clientq[m], a)) = Range(clientq[m]) \union {a}
  BY <1>1, PushFacts
<1>3. \A n \in Node : clientq'[n] = IF n = m THEN Append(clientq[m], a) ELSE clientq[n]
  BY <1>0 DEF Register
<1>4. CalledConnect(a, m)' /\ a \in clientmap'[m]
  BY <1>0, CalledStays DEF Register
<1>5. ASSUME NEW n \in Node, NEW p \in Range(clientq'[n])
      PROVE  CalledConnect(p, n)' /\ p \in clientmap'[n]
  <2>1. p \in Range(clientq[n]) \/ (n = m /\ p = a)
    BY <1>2, <1>3
  <2>2. ASSUME p \in Range(clientq[n]) PROVE CalledConnect(p, n)' /\ p \in clientmap'[n]
    <3>1. CalledConnect(p, n) /\ p \in clientmap[n] /\ p \in Node
      BY <1>0, <2>2 DEF ClientInv
    <3> QED BY <3>1, CalledStays, ClientsStay
  <2> QED BY <1>4, <2>1, <2>2
<1>6. ASSUME NEW n \in Node
      PROVE  \A i, j \in DOMAIN clientq'[n] : clientq'[n][i] = clientq'[n][j] => i = j
  <2>1. \A i, j \in DOMAIN clientq[n] : clientq[n][i] = clientq[n][j] => i = j
    BY DEF ClientInv
  <2>2. CASE n = m
    <3>1. \A i, j \in DOMAIN Append(clientq[m], a) :
            Append(clientq[m], a)[i] = Append(clientq[m], a)[j] => i = j
      BY <1>1, <2>1, <2>2, PushOnce
    <3> QED BY <1>3, <2>2, <3>1
  <2>3. CASE n # m
    BY <1>3, <2>1, <2>3
  <2> QED BY <2>2, <2>3
<1>7. ASSUME NEW n \in Node, NEW t \in ThreadsOf(n), NEW k \in DOMAIN result[t], IsAccept(t, k)
      PROVE  /\ CalledConnect(result[t][k].peer, n)'
             /\ result[t][k].peer \in clientmap'[n]
             /\ result[t][k].peer \notin Range(clientq'[n])
  <2>1. PICK p : p = result[t][k].peer
    OBVIOUS
  <2>2. CalledConnect(p, n) /\ p \in clientmap[n] /\ p \notin Range(clientq[n]) /\ p \in Node
    BY <1>0, <1>7, <2>1 DEF ClientInv
  <2>3. CalledConnect(p, n)' /\ p \in clientmap'[n] /\ p \notin Range(clientq'[n])
    BY <1>2, <1>3, <2>2, CalledStays, ClientsStay
  <2> QED BY <2>1, <2>3 DEF CalledConnect, ConnectCalls, appVars
<1> QED BY <1>5, <1>6, <1>7 DEF ClientInv, ThreadsOf, appVars, IsAccept

\* get_one_connection takes the head of clientq.
LEMMA AcceptClient ==
  ASSUME TypeInv, [Next]_vars, ClientInv, NEW t \in Thread, AcceptReturns(t),
         Index(t) \in 1 .. Len(Program[t]), Call(t).op = "accept"
  PROVE  ClientInv'
<1>0. clientq \in [Node -> Seq(Node)] /\ clientmap \in [Node -> SUBSET Node] /\ Hello \in Message
  BY MessageType DEF TypeInv, TypeOK
<1>1. PICK m : m = NodeOf[t]
  OBVIOUS
<1>2. m \in Node /\ t \in ThreadsOf(m)
  BY <1>1, ConfigAssumption DEF ThreadsOf
<1>3. PICK q : q = clientq[m]
  OBVIOUS
<1>4. q \in Seq(Node) /\ q # <<>> /\ \A i, j \in DOMAIN q : q[i] = q[j] => i = j
  BY <1>0, <1>1, <1>2, <1>3 DEF AcceptReturns, ClientInv
<1>5. PICK a : a = Head(q)
  OBVIOUS
<1>6. /\ a \in Node /\ Tail(q) \in Seq(Node) /\ a \in Range(q) /\ Range(Tail(q)) \subseteq Range(q)
      /\ a \notin Range(Tail(q))
      /\ \A i, j \in DOMAIN Tail(q) : Tail(q)[i] = Tail(q)[j] => i = j
  BY <1>4, <1>5, PopFacts, PopOnce
<1>7. \A n \in Node : clientq'[n] = IF n = m THEN Tail(q) ELSE clientq[n]
  BY <1>0, <1>1, <1>2, <1>3 DEF AcceptReturns
<1>8. Return(t, "ok", a, Hello)
  BY <1>1, <1>3, <1>5 DEF AcceptReturns
<1>9. PICK r : r = [ret |-> "ok", peer |-> a, msg |-> Hello]
  OBVIOUS
<1>10. /\ DOMAIN result[t] = 1 .. Index(t) - 1 /\ Index(t) \in Nat
       /\ DOMAIN result'[t] = 1 .. Index(t)
       /\ \A k \in DOMAIN result[t] : result'[t][k] = result[t][k]
       /\ result'[t][Index(t)] = r
       /\ \A u \in Thread \ {t} : result'[u] = result[u]
  BY <1>0, <1>6, <1>8, <1>9, ReturnFacts
<1>11. r.peer = a
  BY <1>9
<1>12. \A u \in Thread : \A k \in DOMAIN result'[u] :
         \/ k \in DOMAIN result[u] /\ result'[u][k] = result[u][k]
         \/ u = t /\ k = Index(t) /\ result'[u][k].peer = a /\ k \notin DOMAIN result[u]
  <2> SUFFICES ASSUME NEW u \in Thread, NEW k \in DOMAIN result'[u]
               PROVE  \/ k \in DOMAIN result[u] /\ result'[u][k] = result[u][k]
                      \/ u = t /\ k = Index(t) /\ result'[u][k].peer = a /\ k \notin DOMAIN result[u]
    OBVIOUS
  <2>1. CASE u = t
    BY <1>10, <1>11, <2>1
  <2>2. CASE u # t
    BY <1>10, <2>2
  <2> QED BY <2>1, <2>2
<1>13. CalledConnect(a, m)' /\ a \in clientmap'[m]
  BY <1>2, <1>3, <1>6, CalledStays, ClientsStay DEF ClientInv
<1>14. ASSUME NEW n \in Node, NEW p \in Range(clientq'[n])
       PROVE  CalledConnect(p, n)' /\ p \in clientmap'[n]
  <2>1. p \in Range(clientq[n])
    BY <1>3, <1>6, <1>7
  <2>2. CalledConnect(p, n) /\ p \in clientmap[n] /\ p \in Node
    BY <1>0, <2>1 DEF ClientInv
  <2> QED BY <2>2, CalledStays, ClientsStay
<1>15. ASSUME NEW n \in Node
       PROVE  \A i, j \in DOMAIN clientq'[n] : clientq'[n][i] = clientq'[n][j] => i = j
  BY <1>6, <1>7 DEF ClientInv
<1>16. ASSUME NEW n \in Node, NEW u \in ThreadsOf(n), NEW k \in DOMAIN result'[u], IsAccept(u, k)'
       PROVE  /\ CalledConnect(result[u][k].peer, n)'
              /\ result'[u][k].peer \in clientmap'[n]
              /\ result'[u][k].peer \notin Range(clientq'[n])
  <2>0. u \in Thread
    BY DEF ThreadsOf
  <2>1. PICK p : p = result'[u][k].peer
    OBVIOUS
  <2>2. CASE k \in DOMAIN result[u] /\ result'[u][k] = result[u][k]
    <3>1. CalledConnect(p, n) /\ p \in clientmap[n] /\ p \notin Range(clientq[n]) /\ p \in Node
      BY <1>0, <1>16, <2>1, <2>2 DEF ClientInv, IsAccept
    <3>2. CalledConnect(p, n)' /\ p \in clientmap'[n] /\ p \notin Range(clientq'[n])
      BY <1>3, <1>6, <1>7, <3>1, CalledStays, ClientsStay
    <3> QED BY <2>1, <3>2 DEF CalledConnect, ConnectCalls
  <2>3. CASE u = t /\ result'[u][k].peer = a
    <3>1. n = m /\ p = a
      BY <1>1, <2>1, <2>3 DEF ThreadsOf
    <3>2. p \notin Range(clientq'[n])
      BY <1>6, <1>7, <3>1
    <3> QED BY <1>13, <2>1, <3>1, <3>2 DEF CalledConnect, ConnectCalls
  <2> QED BY <1>12, <2>0, <2>2, <2>3
<1>17. ASSUME NEW n \in Node, NEW u \in ThreadsOf(n), NEW v \in ThreadsOf(n),
              NEW k \in DOMAIN result'[u], NEW l \in DOMAIN result'[v],
              IsAccept(u, k)', IsAccept(v, l)', result'[u][k].peer = result'[v][l].peer
       PROVE  u = v /\ k = l
  <2>0. u \in Thread /\ v \in Thread
    BY DEF ThreadsOf
  <2>1. ASSUME NEW w \in ThreadsOf(n), NEW i \in DOMAIN result[w], result'[w][i] = result[w][i],
               IsAccept(w, i)', n = m
        PROVE  result'[w][i].peer # a
    <3>1. IsAccept(w, i)
      BY <2>1 DEF IsAccept
    <3>2. result[w][i].peer \notin Range(clientq[n])
      BY <2>1, <3>1 DEF ClientInv
    <3> QED BY <1>3, <1>6, <2>1, <3>2
  <2>2. CASE /\ k \in DOMAIN result[u] /\ result'[u][k] = result[u][k]
             /\ l \in DOMAIN result[v] /\ result'[v][l] = result[v][l]
    <3>1. IsAccept(u, k) /\ IsAccept(v, l)
      BY <1>17, <2>2 DEF IsAccept
    <3> QED BY <1>17, <2>2, <3>1 DEF ClientInv
  <2>3. CASE u = t /\ v = t /\ k = Index(t) /\ l = Index(t)
    BY <2>3
  <2>4. CASE u = t /\ result'[u][k].peer = a /\ l \in DOMAIN result[v] /\ result'[v][l] = result[v][l]
    <3>1. n = m
      BY <1>1, <2>4 DEF ThreadsOf
    <3> QED BY <1>17, <2>1, <2>4, <3>1
  <2>5. CASE v = t /\ result'[v][l].peer = a /\ k \in DOMAIN result[u] /\ result'[u][k] = result[u][k]
    <3>1. n = m
      BY <1>1, <2>5 DEF ThreadsOf
    <3> QED BY <1>17, <2>1, <2>5, <3>1
  <2> QED BY <1>12, <2>0, <2>2, <2>3, <2>4, <2>5
<1> QED BY <1>14, <1>15, <1>16, <1>17 DEF ClientInv, ThreadsOf

\* Every step preserves ClientInv.
LEMMA NextClient == TypeInv /\ GreetInv /\ ClientInv /\ [Next]_vars => ClientInv'
<1> SUFFICES ASSUME TypeInv, GreetInv, ClientInv, [Next]_vars PROVE ClientInv'
  OBVIOUS
<1>0. CASE UNCHANGED <<clientq, result>>
  BY <1>0, QuietClient DEF IsAccept
<1>1. ASSUME NEW t \in Thread, ThreadNext(t) PROVE ClientInv'
  <2>1. CASE AcceptReturns(t) /\ Index(t) \in 1 .. Len(Program[t]) /\ Call(t).op = "accept"
    BY <2>1, AcceptClient
  <2>2. ASSUME NEW ret \in {"error", "ok"}, NEW peer \in Node, NEW msg \in Message,
               Return(t, ret, peer, msg), UNCHANGED clientq,
               ret = "error" \/ Call(t).op # "accept"
        PROVE  ClientInv'
    <3>1. PICK r : r = [ret |-> ret, peer |-> peer, msg |-> msg]
      OBVIOUS
    <3>2. /\ DOMAIN result[t] = 1 .. Index(t) - 1 /\ Index(t) \in Nat
          /\ DOMAIN result'[t] = 1 .. Index(t)
          /\ \A k \in DOMAIN result[t] : result'[t][k] = result[t][k]
          /\ result'[t][Index(t)] = r
          /\ \A u \in Thread \ {t} : result'[u] = result[u]
      BY <2>2, <3>1, ReturnFacts
    <3>4. ASSUME NEW u \in Thread, NEW k \in DOMAIN result'[u], IsAccept(u, k)'
          PROVE  k \in DOMAIN result[u] /\ result'[u][k] = result[u][k]
      <4>1. CASE u = t
        <5>1. k # Index(t)
          BY <3>2, <3>4, <4>1, <2>2, <3>1 DEF IsAccept, Call
        <5> QED BY <3>2, <4>1, <5>1
      <4>2. CASE u # t
        BY <3>2, <4>2
      <4> QED BY <4>1, <4>2
    <3> QED BY <2>2, <3>4, QuietClient
  <2>3. ASSUME TakeTask(t), UNCHANGED clientq, Call(t).op \in {"recv", "recv_async"}
        PROVE  ClientInv'
    <3>1. PICK m : m = Head(taskpipe[t])
      OBVIOUS
    <3>2. m \in [peer : Node, msg : Message]
      BY <2>3, <3>1, PopFacts DEF TypeInv, TypeOK, TakeTask
    <3>3. m.peer \in Node /\ m.msg \in Message /\ Return(t, Verdict(NodeOf[t]), m.peer, m.msg)
      BY <2>3, <3>1, <3>2 DEF TakeTask
    <3>4. Call(t).op # "accept" /\ NodeOf[t] \in Node
      BY <2>3, ConfigAssumption
    <3>5. Verdict(NodeOf[t]) \in {"error", "ok"}
      BY <3>4, VerdictType DEF TypeInv
    <3> QED BY <2>2, <2>3, <3>3, <3>4, <3>5
  <2> QED BY <1>0, <1>1, <2>1, <2>2, <2>3, ThreadReturns
<1>2. ASSUME NEW m \in Node, HandlerNext(m) PROVE ClientInv'
  <2>1. ASSUME NEW a \in Node, HandleRouter(m, a) PROVE ClientInv'
    <3>1. CASE a \notin clientmap[m] /\ Register(m, a)
      <4>1. CalledConnect(a, m) /\ UNCHANGED appVars
        BY <2>1, <3>1 DEF HandleRouter, GreetInv, Known
      <4> QED BY <3>1, <4>1, RegisterClient
    <3>2. CASE UNCHANGED clientq
      BY <1>0, <2>1, <3>2 DEF HandleRouter, appVars
    <3> QED BY <2>1, <3>1, <3>2 DEF HandleRouter
  <2>2. ASSUME NEW t \in Thread, HandleMsgq(m, t) \/ HandleConn(m, t) \/ HandleConnFails(m, t)
        PROVE  UNCHANGED <<clientq, result>>
    BY <2>2 DEF HandleMsgq, HandleConn, HandleConnFails, connRest, appVars
  <2>3. CASE SetupNext(m)
    BY <1>0, <2>3 DEF SetupNext, HandlerStarts, MonitorFails, SetupThrows, setupRest, appVars
  <2>4. CASE PollBegins(m) \/ PollReturns(m) \/ PollFails(m) \/ EventFails(m)
    BY <1>0, <2>4 DEF PollBegins, PollReturns, PollFails, EventFails, pollRest, appVars
  <2>5. CASE PushTask(m) \/ SendHello(m) \/ RecvFails(m) \/ HandleShutdown(m)
    BY <1>0, <2>5 DEF PushTask, SendHello, RecvFails, HandleShutdown, appVars
  <2> QED BY <1>0, <1>2, <2>1, <2>2, <2>3, <2>4, <2>5 DEF HandlerNext
<1>3. ASSUME NEW m \in Node, CtorReturns(m) PROVE ClientInv'
  BY <1>0, <1>3 DEF CtorReturns, appVars
<1>4. ASSUME NEW a \in Node, NEW b \in Node, Handshake(a, b) PROVE ClientInv'
  BY <1>0, <1>4 DEF Handshake, appVars
<1>5. CASE UNCHANGED vars
  BY <1>0, <1>5 DEF vars
<1> QED BY <1>1, <1>2, <1>3, <1>4, <1>5 DEF Next

\* A call in CallsMade is a pair of a thread and the index of one of its results.
LEMMA MadeMeans ==
  ASSUME NEW c \in CallsMade
  PROVE  c[1] \in Thread /\ c[2] \in DOMAIN result[c[1]] /\ c = <<c[1], c[2]>>
<1>1. PICK t \in Thread : c \in {t} \X DOMAIN result[t]
  BY DEF CallsMade
<1> QED BY <1>1

\* What the invariant says in the terms of the property.
LEMMA ClientMeans == ClientInv => AcceptHonest
<1> SUFFICES ASSUME ClientInv, NEW n \in Node,
                    NEW mine, mine = {c \in Accepted : NodeOf[c[1]] = n}
             PROVE  /\ \A p \in Range(clientq[n]) \union {Res(c).peer : c \in mine} : CalledConnect(p, n)
                    /\ \A c, d \in mine : Res(c).peer = Res(d).peer => c = d
                    /\ \A c \in mine : Res(c).peer \notin Range(clientq[n])
                    /\ \A i, j \in DOMAIN clientq[n] : clientq[n][i] = clientq[n][j] => i = j
  BY DEF AcceptHonest
<1>1. \A c \in mine : /\ c[1] \in ThreadsOf(n) /\ c[2] \in DOMAIN result[c[1]]
                      /\ IsAccept(c[1], c[2]) /\ c = <<c[1], c[2]>>
                      /\ Res(c) = result[c[1]][c[2]]
  BY MadeMeans DEF Accepted, OpOf, Res, IsAccept, ThreadsOf
<1>2. ASSUME NEW c \in mine
      PROVE  CalledConnect(Res(c).peer, n) /\ Res(c).peer \notin Range(clientq[n])
  BY <1>1 DEF ClientInv
<1>3. ASSUME NEW c \in mine, NEW d \in mine, Res(c).peer = Res(d).peer PROVE c = d
  <2>1. c[1] = d[1] /\ c[2] = d[2]
    BY <1>1, <1>3 DEF ClientInv
  <2> QED BY <1>1, <2>1
<1>4. \A p \in Range(clientq[n]) : CalledConnect(p, n)
  BY DEF ClientInv
<1>5. \A i, j \in DOMAIN clientq[n] : clientq[n][i] = clientq[n][j] => i = j
  BY DEF ClientInv
<1>6. ASSUME NEW p \in Range(clientq[n]) \union {Res(c).peer : c \in mine}
      PROVE  CalledConnect(p, n)
  BY <1>2, <1>4
<1> QED BY <1>2, <1>3, <1>5, <1>6

\* get_one_connection yields the nodes that called connect_to for this one and
\* no others, each once.
THEOREM AcceptIsHonest == Spec => []AcceptHonest
  BY InitType, NextType, InitRendezvous, NextRendezvous, InitGreet, NextGreet,
     InitClient, NextClient, ClientMeans, PTL DEF Spec

(* The way of a message: msgq, the network, the communication thread of the *)
(* receiver, taskpull, the result of recv.                                  *)

\* The k-th call of u was a recv or recv_async that returned a message.
IsGot(u, k) == Program[u][k].op \in {"recv", "recv_async"} /\ result[u][k].ret = "ok"

\* A communication thread hands on the same message as before, if any.
SameHand ==
  \A n \in Node : /\ hpc'[n] = "push" <=> hpc[n] = "push"
                  /\ hpc[n] = "push" => pend'[n] = pend[n] /\ peerOf'[n] = peerOf[n]

\* No thread received anything.
SameRead ==
  \A u \in Thread : \A k \in DOMAIN result'[u] :
    IsGot(u, k)' => k \in DOMAIN result[u] /\ result'[u][k] = result[u][k]

\* A result that no peer sent.
LEMMA OtherResult ==
  ASSUME TypeInv, NEW t \in Thread, NEW ret \in {"error", "ok"}, NEW peer \in Node,
         NEW msg \in Message, Return(t, ret, peer, msg),
         ret = "error" \/ Call(t).op \notin {"recv", "recv_async"}
  PROVE  SameRead
<1>1. PICK r : r = [ret |-> ret, peer |-> peer, msg |-> msg]
  OBVIOUS
<1>2. /\ DOMAIN result[t] = 1 .. Index(t) - 1 /\ Index(t) \in Nat
      /\ DOMAIN result'[t] = 1 .. Index(t)
      /\ \A k \in DOMAIN result[t] : result'[t][k] = result[t][k]
      /\ result'[t][Index(t)] = r
      /\ \A u \in Thread \ {t} : result'[u] = result[u]
  BY <1>1, ReturnFacts
<1>3. ASSUME NEW u \in Thread, NEW k \in DOMAIN result'[u], IsGot(u, k)'
      PROVE  k \in DOMAIN result[u] /\ result'[u][k] = result[u][k]
  <2>1. CASE u = t
    <3>1. k # Index(t)
      BY <1>1, <1>2, <1>3, <2>1 DEF IsGot, Call
    <3> QED BY <1>2, <2>1, <3>1
  <2>2. CASE u # t
    BY <1>2, <2>2
  <2> QED BY <2>1, <2>2
<1> QED BY <1>3 DEF SameRead

\* Which steps move messages, and what each of them leaves alone.
LEMMA FlowSteps ==
  ASSUME TypeInv, [Next]_vars
  PROVE  \/ UNCHANGED <<msgpipe, net, taskpipe>> /\ SameHand /\ SameRead
         \/ \E t \in Thread : send(t) /\ UNCHANGED <<net, taskpipe>> /\ SameHand /\ SameRead
         \/ \E n \in Node : \E t \in Thread :
              HandleMsgq(n, t) /\ UNCHANGED taskpipe /\ SameHand /\ SameRead
         \/ \E n \in Node : SendHello(n) /\ UNCHANGED <<msgpipe, taskpipe>> /\ SameHand /\ SameRead
         \/ \E n, p \in Node : HandleRouter(n, p) /\ UNCHANGED <<msgpipe, taskpipe>> /\ SameRead
         \/ \E n \in Node : PushTask(n) /\ UNCHANGED <<msgpipe, net>> /\ SameRead
         \/ \E t \in Thread : /\ TakeTask(t) /\ UNCHANGED <<msgpipe, net>> /\ SameHand
                              /\ Index(t) \in 1 .. Len(Program[t])
                              /\ Call(t).op \in {"recv", "recv_async"}
<1>0. hpc \in [Node -> {"start", "handle", "poll", "push", "hello", "stopped", "dead"}]
  BY DEF TypeInv, TypeOK
<1>1. ASSUME UNCHANGED <<hpc, pend, peerOf>> PROVE SameHand
  BY <1>1 DEF SameHand
<1>2. ASSUME UNCHANGED result PROVE SameRead
  BY <1>2 DEF SameRead, IsGot
<1>3. ASSUME NEW n \in Node, NEW s, s # "push", hpc' = [hpc EXCEPT ![n] = s], hpc[n] # "push",
             UNCHANGED pend, \A m \in Node \ {n} : peerOf'[m] = peerOf[m]
      PROVE  SameHand
  BY <1>0, <1>3 DEF SameHand
<1>4. ASSUME NEW t \in Thread, ThreadNext(t)
      PROVE  \/ UNCHANGED <<msgpipe, net, taskpipe>> /\ SameHand /\ SameRead
             \/ send(t) /\ UNCHANGED <<net, taskpipe>> /\ SameHand /\ SameRead
             \/ /\ TakeTask(t) /\ UNCHANGED <<msgpipe, net>> /\ SameHand
                /\ Index(t) \in 1 .. Len(Program[t])
                /\ Call(t).op \in {"recv", "recv_async"}
  <2>1. UNCHANGED <<net, hpc, pend, peerOf>>
    BY <1>4 DEF ThreadNext, Refused, connect_to, ConnectRequest, ConnectPushFails, ConnectWakes,
       ConnectReturns, AcceptRefused, get_one_connection, AcceptReturns, send, SendReturns,
       recv, RecvReturns, recv_async, shutdown, ShutdownReturns, handlerRest, hVars, netVars
  <2>2. send(t) \/ UNCHANGED msgpipe
    BY <1>4 DEF ThreadNext, Refused, connect_to, ConnectRequest, ConnectPushFails, ConnectWakes,
       ConnectReturns, AcceptRefused, get_one_connection, AcceptReturns, SendReturns,
       recv, RecvReturns, recv_async, shutdown, ShutdownReturns, inVars
  <2>3. SameHand
    BY <1>1, <2>1
  <2>4. CASE send(t)
    BY <1>2, <2>1, <2>3, <2>4 DEF send, Goto, outVars
  <2>5. CASE UNCHANGED msgpipe
    <3>1. CASE UNCHANGED <<result, clientq, taskpipe>>
      BY <1>2, <2>1, <2>3, <2>5, <3>1
    <3>2. CASE AcceptReturns(t) /\ Call(t).op = "accept"
      <4>1. Head(clientq[NodeOf[t]]) \in Node /\ Hello \in Message
        BY <3>2, ConfigAssumption, PopFacts, MessageType DEF TypeInv, TypeOK, AcceptReturns
      <4>2. Return(t, "ok", Head(clientq[NodeOf[t]]), Hello) /\ UNCHANGED taskpipe
        BY <3>2 DEF AcceptReturns, outVars
      <4>3. SameRead
        BY <3>2, <4>1, <4>2, OtherResult
      <4> QED BY <2>1, <2>3, <2>5, <4>2, <4>3
    <3>3. ASSUME UNCHANGED taskpipe,
                 NEW ret \in {"error", "ok"}, NEW peer \in Node, NEW msg \in Message,
                 Return(t, ret, peer, msg),
                 ret = "error" \/ Call(t).op \notin {"accept", "recv", "recv_async"}
          PROVE  UNCHANGED <<msgpipe, net, taskpipe>> /\ SameHand /\ SameRead
      <4>1. SameRead
        BY <3>3, OtherResult
      <4> QED BY <2>1, <2>3, <2>5, <3>3, <4>1
    <3>4. CASE TakeTask(t) /\ Index(t) \in 1 .. Len(Program[t])
               /\ Call(t).op \in {"recv", "recv_async"}
      BY <2>1, <2>3, <2>5, <3>4
    <3> QED BY <1>4, <3>1, <3>2, <3>3, <3>4, ThreadReturns
  <2> QED BY <2>2, <2>4, <2>5
<1>5. ASSUME NEW n \in Node, HandlerNext(n)
      PROVE  \/ UNCHANGED <<msgpipe, net, taskpipe>> /\ SameHand /\ SameRead
             \/ \E t \in Thread : HandleMsgq(n, t) /\ UNCHANGED taskpipe /\ SameHand /\ SameRead
             \/ SendHello(n) /\ UNCHANGED <<msgpipe, taskpipe>> /\ SameHand /\ SameRead
             \/ \E p \in Node : HandleRouter(n, p) /\ UNCHANGED <<msgpipe, taskpipe>> /\ SameRead
             \/ PushTask(n) /\ UNCHANGED <<msgpipe, net>> /\ SameRead
  <2>1. CASE SetupNext(n)
    <3>1. UNCHANGED <<msgpipe, net, taskpipe, result, pend, peerOf>> /\ hpc[n] = "start"
          /\ (hpc' = [hpc EXCEPT ![n] = "handle"] \/ hpc' = [hpc EXCEPT ![n] = "dead"])
      BY <2>1 DEF SetupNext, HandlerStarts, MonitorFails, SetupThrows, Fail, Die,
           setupRest, inVars, outVars, appVars
    <3> QED BY <1>2, <1>3, <3>1
  <2>2. CASE PollBegins(n) \/ PollReturns(n) \/ PollFails(n) \/ EventFails(n)
    <3>1. UNCHANGED <<msgpipe, net, taskpipe, result, pend, peerOf>> /\ hpc[n] \in {"handle", "poll"}
          /\ (hpc' = [hpc EXCEPT ![n] = "handle"] \/ hpc' = [hpc EXCEPT ![n] = "poll"]
              \/ hpc' = [hpc EXCEPT ![n] = "dead"])
      BY <2>2 DEF PollBegins, PollReturns, PollFails, EventFails, Fail, Die, pollRest,
           inVars, outVars, appVars, netVars
    <3> QED BY <1>2, <1>3, <3>1
  <2>3. CASE RecvFails(n) \/ HandleShutdown(n)
    <3>1. UNCHANGED <<msgpipe, net, taskpipe, result, pend, peerOf>> /\ hpc[n] = "handle"
          /\ (hpc' = [hpc EXCEPT ![n] = "stopped"] \/ hpc' = [hpc EXCEPT ![n] = "dead"])
      BY <2>3 DEF RecvFails, HandleShutdown, Turn, TakeRequest, Fail, Die, netVars, outVars, appVars
    <3> QED BY <1>2, <1>3, <3>1
  <2>4. ASSUME NEW t \in Thread, HandleConn(n, t) \/ HandleConnFails(n, t)
        PROVE  UNCHANGED <<msgpipe, net, taskpipe>> /\ SameHand /\ SameRead
    <3>1. UNCHANGED <<msgpipe, net, taskpipe, result, pend>> /\ hpc[n] = "handle"
          /\ (hpc' = [hpc EXCEPT ![n] = "hello"] \/ hpc' = [hpc EXCEPT ![n] = "dead"])
          /\ \A m \in Node \ {n} : peerOf'[m] = peerOf[m]
      BY <2>4 DEF HandleConn, HandleConnFails, TakeRequest, Turn, Fail, Die, connRest, outVars,
           appVars, TypeInv, TypeOK
    <3> QED BY <1>2, <1>3, <3>1
  <2>5. ASSUME NEW t \in Thread, HandleMsgq(n, t) PROVE UNCHANGED taskpipe /\ SameHand /\ SameRead
    BY <1>1, <1>2, <2>5 DEF HandleMsgq, outVars, appVars
  <2>6. CASE SendHello(n)
    <3>1. UNCHANGED <<msgpipe, taskpipe, result, pend, peerOf>> /\ hpc[n] = "hello"
          /\ hpc' = [hpc EXCEPT ![n] = "handle"]
      BY <2>6 DEF SendHello, inVars, outVars, appVars
    <3> QED BY <1>2, <1>3, <2>6, <3>1
  <2>7. ASSUME NEW p \in Node, HandleRouter(n, p) PROVE UNCHANGED <<msgpipe, taskpipe>> /\ SameRead
    BY <1>2, <2>7 DEF HandleRouter, inVars, outVars, appVars
  <2>8. CASE PushTask(n)
    BY <1>2, <2>8 DEF PushTask, inVars, netVars, appVars
  <2> QED BY <1>5, <2>1, <2>2, <2>3, <2>4, <2>5, <2>6, <2>7, <2>8 DEF HandlerNext
<1>6. ASSUME NEW n \in Node, CtorReturns(n)
      PROVE  UNCHANGED <<msgpipe, net, taskpipe>> /\ SameHand /\ SameRead
  BY <1>1, <1>2, <1>6 DEF CtorReturns, hVars, netVars, inVars, outVars, appVars
<1>7. ASSUME NEW n \in Node, NEW d \in Node, Handshake(n, d)
      PROVE  UNCHANGED <<msgpipe, net, taskpipe>> /\ SameHand /\ SameRead
  BY <1>1, <1>2, <1>7 DEF Handshake, hVars, inVars, outVars, appVars
<1>8. CASE UNCHANGED vars
  BY <1>1, <1>2, <1>8 DEF vars
<1> QED BY <1>4, <1>5, <1>6, <1>7, <1>8 DEF Next

-----------------------------------------------------------------------------
(* taskq deals to threads of its own node. *)

\* The pullers of a node are threads of that node, and the turn is one of theirs
\* (1 while there is none).
PullInv ==
  \A n \in Node :
    /\ \A i \in DOMAIN pullers[n] : NodeOf[pullers[n][i]] = n
    /\ turn[n] >= 1
    /\ pullers[n] # <<>> => turn[n] <= Len(pullers[n])
    /\ pullers[n] = <<>> => turn[n] = 1

\* The turn after the last puller's is the first one's.
LEMMA TurnInRange ==
  ASSUME NEW i \in Nat, NEW len \in Nat \ {0} PROVE (i % len) + 1 \in 1 .. len
  OBVIOUS

\* At the start nobody pulls.
LEMMA InitPull == Init => PullInv
  BY DEF Init, PullInv

\* Only the first recv of a thread adds a puller, and only dealing moves the turn.
LEMMA PullChange ==
  ASSUME [Next]_vars
  PROVE  \/ UNCHANGED <<pullers, turn>>
         \/ \E t \in Thread : ConnectPull(t) /\ UNCHANGED turn
         \/ \E n \in Node : PushTask(n)
<1>1. ASSUME NEW t \in Thread, ThreadNext(t)
      PROVE  UNCHANGED <<pullers, turn>> \/ (ConnectPull(t) /\ UNCHANGED turn)
  BY <1>1 DEF ThreadNext, Refused, connect_to, ConnectRequest, ConnectPushFails, ConnectWakes,
       ConnectReturns, AcceptRefused, get_one_connection, AcceptReturns, send, SendReturns,
       recv, RecvReturns, recv_async, shutdown, ShutdownReturns, outVars
<1>2. ASSUME NEW n \in Node, HandlerNext(n) PROVE UNCHANGED <<pullers, turn>> \/ PushTask(n)
  <2>1. ASSUME NEW t \in Thread, HandleMsgq(n, t) \/ HandleConn(n, t) \/ HandleConnFails(n, t)
        PROVE  UNCHANGED <<pullers, turn>>
    BY <2>1 DEF HandleMsgq, HandleConn, HandleConnFails, connRest, outVars
  <2>2. ASSUME NEW p \in Node, HandleRouter(n, p) PROVE UNCHANGED <<pullers, turn>>
    BY <2>2 DEF HandleRouter, outVars
  <2>3. CASE SetupNext(n)
    BY <2>3 DEF SetupNext, HandlerStarts, MonitorFails, SetupThrows, setupRest, outVars
  <2>4. CASE PollBegins(n) \/ PollReturns(n) \/ PollFails(n) \/ EventFails(n)
    BY <2>4 DEF PollBegins, PollReturns, PollFails, EventFails, pollRest, outVars
  <2>5. CASE SendHello(n) \/ RecvFails(n) \/ HandleShutdown(n)
    BY <2>5 DEF SendHello, RecvFails, HandleShutdown, outVars
  <2> QED BY <1>2, <2>1, <2>2, <2>3, <2>4, <2>5 DEF HandlerNext
<1>3. ASSUME NEW n \in Node, CtorReturns(n) PROVE UNCHANGED <<pullers, turn>>
  BY <1>3 DEF CtorReturns, outVars
<1>4. ASSUME NEW n \in Node, NEW d \in Node, Handshake(n, d) PROVE UNCHANGED <<pullers, turn>>
  BY <1>4 DEF Handshake, outVars
<1> QED BY <1>1, <1>2, <1>3, <1>4 DEF Next, vars

\* Every step preserves PullInv.
LEMMA NextPull == TypeInv /\ PullInv /\ [Next]_vars => PullInv'
<1> SUFFICES ASSUME TypeInv, PullInv, [Next]_vars PROVE PullInv'
  OBVIOUS
<1>0. pullers \in [Node -> Seq(Thread)] /\ turn \in [Node -> Nat]
  BY DEF TypeInv, TypeOK
<1>1. CASE UNCHANGED <<pullers, turn>>
  BY <1>1 DEF PullInv
<1>2. ASSUME NEW t \in Thread, ConnectPull(t), UNCHANGED turn PROVE PullInv'
  <2>1. CASE Connected(t)
    BY <1>1, <1>2, <2>1 DEF ConnectPull
  <2>2. CASE ~Connected(t)
    <3>1. PICK m : m = NodeOf[t]
      OBVIOUS
    <3>2. PICK q : q = pullers[m]
      OBVIOUS
    <3>3. m \in Node /\ q \in Seq(Thread)
      BY <1>0, <3>1, <3>2, ConfigAssumption
    <3>4. \A n \in Node : pullers'[n] = IF n = m THEN Append(q, t) ELSE pullers[n]
      BY <1>0, <1>2, <2>2, <3>1, <3>2 DEF ConnectPull
    <3>5. /\ Append(q, t) \in Seq(Thread) /\ Append(q, t) # <<>>
          /\ Len(Append(q, t)) = Len(q) + 1
          /\ \A i \in 1 .. Len(q) : Append(q, t)[i] = q[i]
          /\ Append(q, t)[Len(q) + 1] = t
      BY <3>3, AppendProperties
    <3>6. Len(q) \in Nat /\ DOMAIN q = 1 .. Len(q) /\ DOMAIN Append(q, t) = 1 .. Len(q) + 1
      BY <3>3, <3>5, LenProperties
    <3>7. ASSUME NEW i \in DOMAIN Append(q, t) PROVE NodeOf[Append(q, t)[i]] = m
      <4>1. CASE i = Len(q) + 1
        BY <3>1, <3>5, <4>1
      <4>2. CASE i # Len(q) + 1
        <5>1. i \in DOMAIN q /\ Append(q, t)[i] = q[i]
          BY <3>5, <3>6, <4>2
        <5> QED BY <3>2, <3>3, <5>1 DEF PullInv
      <4> QED BY <4>1, <4>2
    <3>8. turn[m] >= 1 /\ turn[m] <= Len(q) + 1 /\ turn[m] \in Nat
      BY <1>0, <3>2, <3>3, <3>6 DEF PullInv
    <3>9. ASSUME NEW n \in Node
          PROVE  /\ \A i \in DOMAIN pullers'[n] : NodeOf[pullers'[n][i]] = n
                 /\ turn'[n] >= 1
                 /\ pullers'[n] # <<>> => turn'[n] <= Len(pullers'[n])
                 /\ pullers'[n] = <<>> => turn'[n] = 1
      <4>1. CASE n = m
        BY <1>2, <3>4, <3>5, <3>7, <3>8, <4>1
      <4>2. CASE n # m
        BY <1>2, <3>4, <4>2 DEF PullInv
      <4> QED BY <4>1, <4>2
    <3> QED BY <3>9 DEF PullInv
  <2> QED BY <2>1, <2>2
<1>3. ASSUME NEW m \in Node, PushTask(m) PROVE PullInv'
  <2>1. pullers[m] # <<>> /\ Len(pullers[m]) \in Nat \ {0} /\ turn[m] \in Nat
    BY <1>0, <1>3, EmptySeq DEF PushTask
  <2>2. (turn[m] % Len(pullers[m])) + 1 \in 1 .. Len(pullers[m])
    BY <2>1, TurnInRange
  <2>3. PICK k : k = (turn[m] % Len(pullers[m])) + 1
    OBVIOUS
  <2>4. UNCHANGED pullers /\ turn' = [turn EXCEPT ![m] = k]
    BY <1>3, <2>3 DEF PushTask
  <2>5. k >= 1 /\ k <= Len(pullers[m])
    BY <2>1, <2>2, <2>3
  <2> QED BY <1>0, <2>1, <2>4, <2>5 DEF PullInv
<1> QED BY <1>1, <1>2, <1>3, PullChange

\* The thread whose turn it is belongs to the node.
LEMMA PullerFacts ==
  ASSUME TypeInv, PullInv, NEW n \in Node, pullers[n] # <<>>
  PROVE  pullers[n][turn[n]] \in ThreadsOf(n)
<1>1. pullers[n] \in Seq(Thread) /\ turn[n] \in Nat
  BY DEF TypeInv, TypeOK
<1>2. turn[n] \in 1 .. Len(pullers[n])
  BY <1>1, LenProperties DEF PullInv
<1>3. pullers[n][turn[n]] \in Thread /\ turn[n] \in DOMAIN pullers[n]
  BY <1>1, <1>2, ElementOfSeq, LenProperties
<1> QED BY <1>3 DEF PullInv, ThreadsOf

\* x is a greeting, or a message that a thread of n sent to node p.
From(x, n, p) ==
  \/ x = Hello
  \/ /\ NodeOf[x[1]] = n
     /\ Program[x[1]][x[2]].peer = p
     /\ Begun(x[1], x[2])

\* What is on its way was sent by the node it comes from to the node it goes to.
OutAddr == \A t \in Thread : \A m \in Range(msgpipe[t]) :
             m.msg # Hello /\ m.msg[1] = t /\ From(m.msg, NodeOf[t], m.peer)
WireAddr == \A n, p \in Node : \A x \in Range(net[n][p]) : From(x, n, p)
HandAddr == \A n \in Node : hpc[n] = "push" => From(pend[n], peerOf[n], n)
BoxAddr == \A u \in Thread : \A m \in Range(taskpipe[u]) : From(m.msg, m.peer, NodeOf[u])
ReadAddr == \A u \in Thread : \A k \in DOMAIN result[u] :
              IsGot(u, k) => From(result[u][k].msg, result[u][k].peer, NodeOf[u])

\* Messages are where their addresses say, from the call of send to the result of recv.
AddrInv == OutAddr /\ WireAddr /\ HandAddr /\ BoxAddr /\ ReadAddr

\* A message is a greeting or comes from a thread.
LEMMA MessageMeans ==
  ASSUME NEW x \in Message PROVE x = Hello \/ (x # Hello /\ x[1] \in Thread /\ x[2] \in Nat /\ x = <<x[1], x[2]>>)
<1>1. CASE x = Hello
  BY <1>1
<1>2. CASE x \in Thread \X Nat
  <2>1. x[1] \in Thread /\ x[2] \in Nat /\ x = <<x[1], x[2]>>
    BY <1>2
  <2>2. x # Hello
    <3>1. Hello[1] = "hello"
      BY DEF Hello
    <3> QED BY <2>1, <3>1, ConfigAssumption
  <2> QED BY <2>1, <2>2
<1> QED BY <1>1, <1>2 DEF Message

\* Where a message comes from does not change.
LEMMA FromStays ==
  ASSUME TypeInv, [Next]_vars, NEW x \in Message, NEW n, NEW p, From(x, n, p)
  PROVE  From(x, n, p)'
<1>1. CASE x = Hello
  BY <1>1 DEF From
<1>2. CASE x # Hello
  <2>1. x[1] \in Thread /\ x[2] \in Nat
    BY <1>2, MessageMeans
  <2>2. Begun(x[1], x[2])
    BY <1>2 DEF From
  <2>3. Begun(x[1], x[2])'
    BY <2>1, <2>2, BegunStays
  <2> QED BY <1>2, <2>3 DEF From
<1> QED BY <1>1, <1>2

\* The elements of a queue are of its type.
LEMMA QueuedType ==
  ASSUME NEW S, NEW q \in Seq(S), NEW x \in Range(q) PROVE x \in S
<1>1. PICK i \in DOMAIN q : x = q[i]
  BY DEF Range
<1>2. i \in 1 .. Len(q)
  BY LenProperties
<1> QED BY <1>1, <1>2, ElementOfSeq

\* Elements of the pipes have their types.
LEMMA PipeTypes ==
  ASSUME TypeInv
  PROVE  /\ \A t \in Thread : /\ msgpipe[t] \in Seq([peer : Node, msg : Message])
                              /\ taskpipe[t] \in Seq([peer : Node, msg : Message])
                              /\ result[t] \in Seq(Result)
         /\ \A t \in Thread : \A m \in Range(msgpipe[t]) \union Range(taskpipe[t]) :
              m.peer \in Node /\ m.msg \in Message
         /\ \A n, p \in Node : \A x \in Range(net[n][p]) : x \in Message
         /\ \A n \in Node : pend[n] \in Message /\ peerOf[n] \in Node
         /\ \A t \in Thread : \A k \in DOMAIN result[t] :
              result[t][k].msg \in Message /\ result[t][k].peer \in Node
<1>1. \A t \in Thread : /\ msgpipe[t] \in Seq([peer : Node, msg : Message])
                        /\ taskpipe[t] \in Seq([peer : Node, msg : Message])
                        /\ result[t] \in Seq(Result)
  BY DEF TypeInv, TypeOK
<1>2. ASSUME NEW t \in Thread, NEW m \in Range(msgpipe[t]) \union Range(taskpipe[t])
      PROVE  m.peer \in Node /\ m.msg \in Message
  <2>1. m \in [peer : Node, msg : Message]
    BY <1>1, QueuedType
  <2> QED BY <2>1
<1>3. ASSUME NEW n \in Node, NEW p \in Node, NEW x \in Range(net[n][p]) PROVE x \in Message
  <2>1. net[n][p] \in Seq(Message)
    BY NetType DEF TypeInv
  <2> QED BY <2>1 DEF Range
<1>4. ASSUME NEW t \in Thread, NEW k \in DOMAIN result[t]
      PROVE  result[t][k].msg \in Message /\ result[t][k].peer \in Node
  <2>1. result[t][k] \in Result
    BY <1>1
  <2> QED BY <2>1 DEF Result
<1> QED BY <1>1, <1>2, <1>3, <1>4 DEF TypeInv, TypeOK

\* What stays as it was.
LEMMA SameAddr ==
  ASSUME TypeInv, [Next]_vars, AddrInv
  PROVE  /\ UNCHANGED msgpipe => OutAddr'
         /\ UNCHANGED net => WireAddr'
         /\ SameHand => HandAddr'
         /\ UNCHANGED taskpipe => BoxAddr'
         /\ SameRead => ReadAddr'
<1> USE DEF AddrInv
<1>1. ASSUME UNCHANGED msgpipe PROVE OutAddr'
  <2>1. ASSUME NEW t \in Thread, NEW m \in Range(msgpipe'[t])
        PROVE  m.msg # Hello /\ m.msg[1] = t /\ From(m.msg, NodeOf[t], m.peer)'
    <3>1. m \in Range(msgpipe[t])
      BY <1>1
    <3> QED BY <3>1, PipeTypes, FromStays DEF OutAddr
  <2> QED BY <2>1 DEF OutAddr
<1>2. ASSUME UNCHANGED net PROVE WireAddr'
  BY <1>2, PipeTypes, FromStays DEF WireAddr
<1>3. ASSUME SameHand PROVE HandAddr'
  <2>1. ASSUME NEW n \in Node, hpc'[n] = "push" PROVE From(pend[n], peerOf[n], n)'
    <3>1. pend'[n] = pend[n] /\ peerOf'[n] = peerOf[n] /\ From(pend[n], peerOf[n], n)
      BY <1>3, <2>1 DEF SameHand, HandAddr
    <3>2. PICK x \in Message : x = pend[n]
      BY PipeTypes
    <3>3. PICK a : a = peerOf[n]
      OBVIOUS
    <3>4. From(x, a, n)'
      BY <3>1, <3>2, <3>3, FromStays
    <3> QED BY <3>1, <3>2, <3>3, <3>4 DEF From
  <2> QED BY <2>1 DEF HandAddr
<1>4. ASSUME UNCHANGED taskpipe PROVE BoxAddr'
  <2>1. ASSUME NEW t \in Thread, NEW m \in Range(taskpipe'[t])
        PROVE  From(m.msg, m.peer, NodeOf[t])'
    <3>1. m \in Range(taskpipe[t])
      BY <1>4
    <3> QED BY <3>1, PipeTypes, FromStays DEF BoxAddr
  <2> QED BY <2>1 DEF BoxAddr
<1>5. ASSUME SameRead PROVE ReadAddr'
  <2>1. ASSUME NEW u \in Thread, NEW k \in DOMAIN result'[u], IsGot(u, k)'
        PROVE  From(result[u][k].msg, result[u][k].peer, NodeOf[u])'
    <3>1. k \in DOMAIN result[u] /\ result'[u][k] = result[u][k]
      BY <1>5, <2>1 DEF SameRead
    <3>2. IsGot(u, k)
      BY <2>1, <3>1 DEF IsGot
    <3>3. PICK x \in Message : x = result[u][k].msg
      BY <3>1, PipeTypes
    <3>4. PICK a : a = result[u][k].peer
      OBVIOUS
    <3>5. From(x, a, NodeOf[u])'
      BY <3>1, <3>2, <3>3, <3>4, FromStays DEF ReadAddr
    <3> QED BY <3>1, <3>3, <3>4, <3>5 DEF From
  <2> QED BY <2>1 DEF ReadAddr
<1> QED BY <1>1, <1>2, <1>3, <1>4, <1>5

-----------------------------------------------------------------------------
(* What each step that moves a message does, pipe by pipe. *)

\* send: a new message, which no pipe holds, at the end of msgpipe[t].
LEMMA SendFacts ==
  ASSUME TypeInv, NEW t \in Thread, send(t)
  PROVE  \E m \in [peer : Node, msg : Message] :
           /\ m.msg # Hello /\ m.msg[1] = t /\ m.msg[2] = Index(t) /\ m.peer = Call(t).peer
           /\ step[t] = "idle" /\ step'[t] = "check" /\ UNCHANGED result
           /\ msgpipe'[t] = Append(msgpipe[t], m)
           /\ \A u \in Thread \ {t} : msgpipe'[u] = msgpipe[u]
<1>1. PICK m : m = [peer |-> Call(t).peer, msg |-> Data(t, Index(t))]
  OBVIOUS
<1>2. Call(t).peer \in Node
  BY StartedCall DEF TypeInv, send
<1>3. PICK k \in Nat : k = Index(t)
  BY IndexType DEF TypeInv
<1>4. Data(t, k) \in Message /\ Data(t, k)[1] = t /\ Data(t, k)[2] = k
  BY MessageType DEF Data
<1>5. Data(t, k) # Hello
  BY <1>4, ConfigAssumption DEF Hello
<1>6. /\ m \in [peer : Node, msg : Message] /\ m.msg # Hello /\ m.msg[1] = t
      /\ m.msg[2] = Index(t) /\ m.peer = Call(t).peer
  BY <1>1, <1>2, <1>3, <1>4, <1>5
<1>7. step[t] = "idle" /\ step'[t] = "check" /\ UNCHANGED result
  BY DEF send, Calls, Goto, TypeInv, TypeOK
<1>8. msgpipe'[t] = Append(msgpipe[t], m) /\ \A u \in Thread \ {t} : msgpipe'[u] = msgpipe[u]
  BY <1>1 DEF send, TypeInv, TypeOK
<1> QED BY <1>6, <1>7, <1>8

\* pollitems[0]: the head of msgpipe[t] goes to the network or is dropped.
LEMMA MsgqFacts ==
  ASSUME TypeInv, NEW n \in Node, NEW t \in Thread, HandleMsgq(n, t)
  PROVE  /\ NodeOf[t] = n /\ msgpipe[t] # <<>>
         /\ msgpipe'[t] = Tail(msgpipe[t])
         /\ \A u \in Thread \ {t} : msgpipe'[u] = msgpipe[u]
         /\ \E m \in [peer : Node, msg : Message] :
              /\ m = Head(msgpipe[t]) /\ m \in Range(msgpipe[t])
              /\ \/ UNCHANGED net
                 \/ /\ net'[n][m.peer] = Append(net[n][m.peer], m.msg)
                    /\ \A a, b \in Node : <<a, b>> # <<n, m.peer>> => net'[a][b] = net[a][b]
<1>1. NodeOf[t] = n /\ msgpipe[t] # <<>>
  BY DEF HandleMsgq
<1>2. msgpipe'[t] = Tail(msgpipe[t]) /\ \A u \in Thread \ {t} : msgpipe'[u] = msgpipe[u]
  BY DEF HandleMsgq, TypeInv, TypeOK
<1>3. PICK m : m = Head(msgpipe[t])
  OBVIOUS
<1>4. m \in [peer : Node, msg : Message] /\ m \in Range(msgpipe[t])
  BY <1>1, <1>3, PipeTypes, PopFacts
<1>5. m.peer \in Node
  BY <1>4
<1>6. UNCHANGED net \/ net' = [net EXCEPT ![n][m.peer] = Append(@, m.msg)]
  BY <1>3 DEF HandleMsgq, Frame
<1>7. ASSUME net' = [net EXCEPT ![n][m.peer] = Append(@, m.msg)]
      PROVE  /\ net'[n][m.peer] = Append(net[n][m.peer], m.msg)
             /\ \A a, b \in Node : <<a, b>> # <<n, m.peer>> => net'[a][b] = net[a][b]
  <2>1. net \in [Node -> [Node -> Seq(Message)]] /\ \A a \in Node : net[a] \in [Node -> Seq(Message)]
    BY DEF TypeInv, TypeOK
  <2>2. net'[n][m.peer] = Append(net[n][m.peer], m.msg)
    BY <1>5, <1>7, <2>1
  <2>3. \A a, b \in Node : ~(a = n /\ b = m.peer) => net'[a][b] = net[a][b]
    BY <1>5, <1>7, <2>1
  <2> QED BY <2>2, <2>3
<1> QED BY <1>1, <1>2, <1>3, <1>4, <1>6, <1>7

\* pollitems[1]: the head of a channel goes to the hands of the thread, or is a registration.
LEMMA RouterFacts ==
  ASSUME TypeInv, NEW n \in Node, NEW p \in Node, HandleRouter(n, p)
  PROVE  /\ net[p][n] \in Seq(Message) /\ net[p][n] # <<>>
         /\ net'[p][n] = Tail(net[p][n])
         /\ \A a, b \in Node : <<a, b>> # <<p, n>> => net'[a][b] = net[a][b]
         /\ hpc[n] = "handle"
         /\ \/ hpc'[n] = "push" /\ pend'[n] = Head(net[p][n]) /\ peerOf'[n] = p
            \/ hpc'[n] # "push"
         /\ \A m \in Node \ {n} : hpc'[m] = hpc[m] /\ pend'[m] = pend[m] /\ peerOf'[m] = peerOf[m]
<1>1. net \in [Node -> [Node -> Seq(Message)]] /\ \A a \in Node : net[a] \in [Node -> Seq(Message)]
  BY DEF TypeInv, TypeOK
<1>2. net[p][n] \in Seq(Message) /\ net[p][n] # <<>> /\ hpc[n] = "handle"
  BY <1>1 DEF HandleRouter, Turn
<1>3. net' = [net EXCEPT ![p][n] = Tail(@)]
  BY DEF HandleRouter
<1>4. net'[p][n] = Tail(net[p][n])
  BY <1>1, <1>3
<1>5. \A a, b \in Node : ~(a = p /\ b = n) => net'[a][b] = net[a][b]
  BY <1>1, <1>3
<1>6. /\ \/ hpc'[n] = "push" /\ pend'[n] = Head(net[p][n]) /\ peerOf'[n] = p
         \/ hpc'[n] # "push"
      /\ \A m \in Node \ {n} : hpc'[m] = hpc[m] /\ pend'[m] = pend[m] /\ peerOf'[m] = peerOf[m]
  BY <1>2 DEF HandleRouter, TypeInv, TypeOK
<1> QED BY <1>2, <1>4, <1>5, <1>6

\* The greeting.
LEMMA HelloFacts ==
  ASSUME TypeInv, NEW n \in Node, SendHello(n)
  PROVE  \E d \in Node :
           /\ d = peerOf[n] /\ hpc[n] = "hello" /\ d \in route[n]
           /\ net'[n][d] = Append(net[n][d], Hello)
           /\ \A a, b \in Node : <<a, b>> # <<n, d>> => net'[a][b] = net[a][b]
<1>1. net \in [Node -> [Node -> Seq(Message)]] /\ \A a \in Node : net[a] \in [Node -> Seq(Message)]
  BY DEF TypeInv, TypeOK
<1>2. PICK d \in Node : d = peerOf[n]
  BY PipeTypes
<1>3. net' = [net EXCEPT ![n][d] = Append(@, Hello)] /\ hpc[n] = "hello" /\ d \in route[n]
  BY <1>2 DEF SendHello
<1>4. net'[n][d] = Append(net[n][d], Hello)
  BY <1>1, <1>3
<1>5. \A a, b \in Node : ~(a = n /\ b = d) => net'[a][b] = net[a][b]
  BY <1>1, <1>3
<1> QED BY <1>2, <1>3, <1>4, <1>5

\* taskq: the message in hand goes to the pipe of one thread of the node.
LEMMA PushTaskFacts ==
  ASSUME TypeInv, PullInv, NEW n \in Node, PushTask(n)
  PROVE  \E u \in ThreadsOf(n) : \E m \in [peer : Node, msg : Message] :
           /\ m.peer = peerOf[n] /\ m.msg = pend[n]
           /\ hpc[n] = "push" /\ hpc'[n] = "handle"
           /\ \A k \in Node \ {n} : hpc'[k] = hpc[k]
           /\ UNCHANGED <<pend, peerOf>>
           /\ taskpipe'[u] = Append(taskpipe[u], m)
           /\ \A v \in Thread \ {u} : taskpipe'[v] = taskpipe[v]
<1>1. PICK u \in ThreadsOf(n) : u = pullers[n][turn[n]]
  BY PullerFacts DEF PushTask
<1>2. PICK m : m = [peer |-> peerOf[n], msg |-> pend[n]]
  OBVIOUS
<1>3. m \in [peer : Node, msg : Message] /\ m.peer = peerOf[n] /\ m.msg = pend[n]
  BY <1>2, PipeTypes
<1>4. u \in Thread
  BY DEF ThreadsOf
<1>5. taskpipe' = [taskpipe EXCEPT ![u] = Append(@, m)]
  BY <1>1, <1>2 DEF PushTask
<1>6. taskpipe'[u] = Append(taskpipe[u], m) /\ \A v \in Thread \ {u} : taskpipe'[v] = taskpipe[v]
  BY <1>4, <1>5 DEF TypeInv, TypeOK
<1>7. /\ hpc[n] = "push" /\ hpc'[n] = "handle" /\ UNCHANGED <<pend, peerOf>>
      /\ \A k \in Node \ {n} : hpc'[k] = hpc[k]
  BY DEF PushTask, TypeInv, TypeOK
<1> QED BY <1>3, <1>6, <1>7

\* recv: the head of the pipe is the result, unless errcode is set.
LEMMA TakeFacts ==
  ASSUME TypeInv, NEW t \in Thread, TakeTask(t),
         Index(t) \in 1 .. Len(Program[t]), Call(t).op \in {"recv", "recv_async"}
  PROVE  /\ taskpipe[t] # <<>> /\ taskpipe'[t] = Tail(taskpipe[t])
         /\ \A v \in Thread \ {t} : taskpipe'[v] = taskpipe[v]
         /\ \E m \in [peer : Node, msg : Message] :
              /\ m = Head(taskpipe[t]) /\ m \in Range(taskpipe[t])
              /\ \A v \in Thread : \A k \in DOMAIN result'[v] :
                   \/ k \in DOMAIN result[v] /\ result'[v][k] = result[v][k]
                   \/ /\ v = t /\ k = Index(t) /\ k \notin DOMAIN result[v]
                      /\ result'[v][k].msg = m.msg /\ result'[v][k].peer = m.peer
              /\ DOMAIN result[t] = 1 .. Index(t) - 1 /\ Index(t) \in Nat
              /\ \A v \in Thread : \A k \in DOMAIN result[v] :
                   k \in DOMAIN result'[v] /\ result'[v][k] = result[v][k]
<1>1. taskpipe[t] # <<>> /\ taskpipe[t] \in Seq([peer : Node, msg : Message])
  BY PipeTypes DEF TakeTask
<1>2. taskpipe'[t] = Tail(taskpipe[t]) /\ \A v \in Thread \ {t} : taskpipe'[v] = taskpipe[v]
  BY DEF TakeTask, Pulled, TypeInv, TypeOK
<1>3. PICK m : m = Head(taskpipe[t])
  OBVIOUS
<1>4. m \in [peer : Node, msg : Message] /\ m \in Range(taskpipe[t])
  BY <1>1, <1>3, PopFacts
<1>5. PICK ret : ret = Verdict(NodeOf[t])
  OBVIOUS
<1>6. ret \in {"error", "ok"}
  BY <1>5, ConfigAssumption, VerdictType DEF TypeInv
<1>7. m.peer \in Node /\ m.msg \in Message /\ Return(t, ret, m.peer, m.msg)
  BY <1>3, <1>4, <1>5 DEF TakeTask
<1>8. PICK r : r = [ret |-> ret, peer |-> m.peer, msg |-> m.msg]
  OBVIOUS
<1>9. /\ DOMAIN result[t] = 1 .. Index(t) - 1 /\ Index(t) \in Nat
      /\ DOMAIN result'[t] = 1 .. Index(t)
      /\ \A k \in DOMAIN result[t] : result'[t][k] = result[t][k]
      /\ result'[t][Index(t)] = r
      /\ \A u \in Thread \ {t} : result'[u] = result[u]
  BY <1>6, <1>7, <1>8, ReturnFacts
<1>10. ASSUME NEW v \in Thread, NEW k \in DOMAIN result'[v]
       PROVE  \/ k \in DOMAIN result[v] /\ result'[v][k] = result[v][k]
              \/ /\ v = t /\ k = Index(t) /\ k \notin DOMAIN result[v]
                 /\ result'[v][k].msg = m.msg /\ result'[v][k].peer = m.peer
  <2>1. r.msg = m.msg /\ r.peer = m.peer
    BY <1>8
  <2>2. CASE v = t
    BY <1>9, <2>1, <2>2
  <2>3. CASE v # t
    BY <1>9, <2>3
  <2> QED BY <2>2, <2>3
<1>11. ASSUME NEW v \in Thread, NEW k \in DOMAIN result[v]
       PROVE  k \in DOMAIN result'[v] /\ result'[v][k] = result[v][k]
  <2>1. CASE v = t
    BY <1>9, <2>1
  <2>2. CASE v # t
    BY <1>9, <2>2
  <2> QED BY <2>1, <2>2
<1> QED BY <1>1, <1>2, <1>3, <1>4, <1>9, <1>10, <1>11

\* At the start no message is on its way.
LEMMA InitAddr == Init => AddrInv
<1> SUFFICES ASSUME Init PROVE AddrInv
  OBVIOUS
<1>1. \A t \in Thread : DOMAIN result[t] = {} /\ Range(msgpipe[t]) = {} /\ Range(taskpipe[t]) = {}
  BY NothingQueued DEF Init
<1>2. \A n, p \in Node : Range(net[n][p]) = {}
  BY NothingQueued DEF Init
<1>3. \A n \in Node : hpc[n] # "push"
  BY DEF Init
<1> QED BY <1>1, <1>2, <1>3 DEF AddrInv, OutAddr, WireAddr, HandAddr, BoxAddr, ReadAddr

\* Every step preserves AddrInv: messages are passed on along their addresses.
LEMMA NextAddr == TypeInv /\ PullInv /\ AddrInv /\ [Next]_vars => AddrInv'
<1> SUFFICES ASSUME TypeInv, PullInv, AddrInv, [Next]_vars PROVE AddrInv'
  OBVIOUS
<1>0. OutAddr /\ WireAddr /\ HandAddr /\ BoxAddr /\ ReadAddr
  BY DEF AddrInv
<1>1. CASE UNCHANGED <<msgpipe, net, taskpipe>> /\ SameHand /\ SameRead
  BY <1>1, SameAddr DEF AddrInv
<1>2. ASSUME NEW t \in Thread, send(t), UNCHANGED <<net, taskpipe>>, SameHand, SameRead
      PROVE  AddrInv'
  <2>1. PICK m \in [peer : Node, msg : Message] :
           /\ m.msg # Hello /\ m.msg[1] = t /\ m.msg[2] = Index(t) /\ m.peer = Call(t).peer
           /\ step[t] = "idle" /\ step'[t] = "check" /\ UNCHANGED result
           /\ msgpipe'[t] = Append(msgpipe[t], m)
           /\ \A u \in Thread \ {t} : msgpipe'[u] = msgpipe[u]
    BY <1>2, SendFacts
  <2>2. Range(Append(msgpipe[t], m)) = Range(msgpipe[t]) \union {m}
    <3>1. PICK S : S = [peer : Node, msg : Message]
      OBVIOUS
    <3>2. PICK q : q = msgpipe[t]
      OBVIOUS
    <3>3. q \in Seq(S) /\ m \in S
      BY <3>1, <3>2, PipeTypes
    <3> QED BY <3>2, <3>3, PushFacts
  <2>3. From(m.msg, NodeOf[t], m.peer)'
    <3>1. Begun(m.msg[1], m.msg[2])'
      BY <2>1 DEF Begun, Index
    <3>2. Program[t][m.msg[2]].peer = m.peer
      BY <2>1 DEF Call
    <3> QED BY <2>1, <3>1, <3>2 DEF From
  <2>4. ASSUME NEW u \in Thread, NEW e \in Range(msgpipe'[u])
        PROVE  e.msg # Hello /\ e.msg[1] = u /\ From(e.msg, NodeOf[u], e.peer)'
    <3>1. CASE e \in Range(msgpipe[u])
      BY <1>0, <3>1, PipeTypes, FromStays DEF OutAddr
    <3>2. CASE u = t /\ e = m
      BY <2>1, <2>3, <3>2
    <3> QED BY <2>1, <2>2, <3>1, <3>2
  <2>5. OutAddr'
    BY <2>4 DEF OutAddr
  <2> QED BY <1>2, <2>5, SameAddr DEF AddrInv
<1>3. ASSUME NEW n \in Node, NEW t \in Thread, HandleMsgq(n, t), UNCHANGED taskpipe, SameHand, SameRead
      PROVE  AddrInv'
  <2>1. /\ NodeOf[t] = n /\ msgpipe[t] # <<>>
        /\ msgpipe'[t] = Tail(msgpipe[t])
        /\ \A u \in Thread \ {t} : msgpipe'[u] = msgpipe[u]
    BY <1>3, MsgqFacts
  <2>2. PICK m \in [peer : Node, msg : Message] :
              /\ m = Head(msgpipe[t]) /\ m \in Range(msgpipe[t])
              /\ \/ UNCHANGED net
                 \/ /\ net'[n][m.peer] = Append(net[n][m.peer], m.msg)
                    /\ \A a, b \in Node : <<a, b>> # <<n, m.peer>> => net'[a][b] = net[a][b]
    BY <1>3, MsgqFacts
  <2>3. Range(Tail(msgpipe[t])) \subseteq Range(msgpipe[t])
    BY <2>1, PipeTypes, PopFacts
  <2>4. ASSUME NEW u \in Thread, NEW e \in Range(msgpipe'[u])
        PROVE  e.msg # Hello /\ e.msg[1] = u /\ From(e.msg, NodeOf[u], e.peer)'
    <3>1. e \in Range(msgpipe[u])
      BY <2>1, <2>3
    <3> QED BY <1>0, <3>1, PipeTypes, FromStays DEF OutAddr
  <2>5. m.peer \in Node /\ m.msg \in Message /\ From(m.msg, n, m.peer)
    BY <1>0, <2>1, <2>2 DEF OutAddr
  <2>6. net[n][m.peer] \in Seq(Message)
    BY <2>5, NetType DEF TypeInv
  <2>7. Range(Append(net[n][m.peer], m.msg)) = Range(net[n][m.peer]) \union {m.msg}
    BY <2>5, <2>6, PushFacts
  <2>8. ASSUME NEW a \in Node, NEW b \in Node, NEW x \in Range(net'[a][b]) PROVE From(x, a, b)'
    <3>1. CASE x \in Range(net[a][b])
      BY <1>0, <3>1, PipeTypes, FromStays DEF WireAddr
    <3>2. CASE a = n /\ b = m.peer /\ x = m.msg
      BY <2>5, <3>2, FromStays
    <3>3. CASE a = n /\ b = m.peer
      BY <2>2, <2>7, <2>8, <3>1, <3>2, <3>3
    <3>4. CASE ~(a = n /\ b = m.peer)
      <4>1. net'[a][b] = net[a][b]
        BY <2>2, <3>4
      <4> QED BY <2>8, <3>1, <4>1
    <3> QED BY <3>3, <3>4
  <2>9. OutAddr' /\ WireAddr'
    BY <2>4, <2>8 DEF OutAddr, WireAddr
  <2> QED BY <1>3, <2>9, SameAddr DEF AddrInv
<1>4. ASSUME NEW n \in Node, SendHello(n), UNCHANGED <<msgpipe, taskpipe>>, SameHand, SameRead
      PROVE  AddrInv'
  <2>1. PICK d \in Node : /\ net'[n][d] = Append(net[n][d], Hello)
                          /\ \A a, b \in Node : <<a, b>> # <<n, d>> => net'[a][b] = net[a][b]
    BY <1>4, HelloFacts
  <2>2. Range(Append(net[n][d], Hello)) = Range(net[n][d]) \union {Hello}
    BY NetType, MessageType, PushFacts DEF TypeInv
  <2>3. ASSUME NEW a \in Node, NEW b \in Node, NEW x \in Range(net'[a][b]) PROVE From(x, a, b)'
    <3>1. CASE x \in Range(net[a][b])
      BY <1>0, <3>1, PipeTypes, FromStays DEF WireAddr
    <3>2. CASE x = Hello
      BY <3>2 DEF From
    <3>3. CASE ~(a = n /\ b = d)
      <4>1. net'[a][b] = net[a][b]
        BY <2>1, <3>3
      <4> QED BY <2>3, <3>1, <4>1
    <3> QED BY <2>1, <2>2, <2>3, <3>1, <3>2, <3>3
  <2>4. WireAddr'
    BY <2>3 DEF WireAddr
  <2> QED BY <1>4, <2>4, SameAddr DEF AddrInv
<1>5. ASSUME NEW n \in Node, NEW p \in Node, HandleRouter(n, p), UNCHANGED <<msgpipe, taskpipe>>, SameRead
      PROVE  AddrInv'
  <2>1. /\ net[p][n] \in Seq(Message) /\ net[p][n] # <<>>
        /\ net'[p][n] = Tail(net[p][n])
        /\ \A a, b \in Node : <<a, b>> # <<p, n>> => net'[a][b] = net[a][b]
        /\ hpc[n] = "handle"
        /\ \/ hpc'[n] = "push" /\ pend'[n] = Head(net[p][n]) /\ peerOf'[n] = p
           \/ hpc'[n] # "push"
        /\ \A m \in Node \ {n} : hpc'[m] = hpc[m] /\ pend'[m] = pend[m] /\ peerOf'[m] = peerOf[m]
    BY <1>5, RouterFacts
  <2>2. PICK x : x = Head(net[p][n])
    OBVIOUS
  <2>3. x \in Message /\ x \in Range(net[p][n]) /\ Range(Tail(net[p][n])) \subseteq Range(net[p][n])
    BY <2>1, <2>2, PopFacts
  <2>4. From(x, p, n)'
    BY <1>0, <2>3, FromStays DEF WireAddr
  <2>5. ASSUME NEW a \in Node, NEW b \in Node, NEW y \in Range(net'[a][b]) PROVE From(y, a, b)'
    <3>1. y \in Range(net[a][b])
      <4>1. CASE a = p /\ b = n
        BY <2>1, <2>3, <2>5, <4>1
      <4>2. CASE ~(a = p /\ b = n)
        <5>1. net'[a][b] = net[a][b]
          BY <2>1, <4>2
        <5> QED BY <2>5, <5>1
      <4> QED BY <4>1, <4>2
    <3> QED BY <1>0, <3>1, PipeTypes, FromStays DEF WireAddr
  <2>6. ASSUME NEW m \in Node, hpc'[m] = "push" PROVE From(pend[m], peerOf[m], m)'
    <3>1. CASE m = n
      <4>1. pend'[m] = x /\ peerOf'[m] = p
        BY <2>1, <2>2, <2>6, <3>1
      <4> QED BY <2>4, <3>1, <4>1 DEF From
    <3>2. CASE m # n
      <4>1. hpc[m] = "push" /\ pend'[m] = pend[m] /\ peerOf'[m] = peerOf[m]
        BY <2>1, <2>6, <3>2
      <4>2. PICK y \in Message : y = pend[m]
        BY PipeTypes
      <4>3. PICK a : a = peerOf[m]
        OBVIOUS
      <4>4. From(y, a, m)'
        BY <1>0, <4>1, <4>2, <4>3, FromStays DEF HandAddr
      <4> QED BY <4>1, <4>2, <4>3, <4>4 DEF From
    <3> QED BY <3>1, <3>2
  <2>7. WireAddr' /\ HandAddr'
    BY <2>5, <2>6 DEF WireAddr, HandAddr
  <2> QED BY <1>5, <2>7, SameAddr DEF AddrInv
<1>6. ASSUME NEW n \in Node, PushTask(n), UNCHANGED <<msgpipe, net>>, SameRead PROVE AddrInv'
  <2>1. PICK u \in ThreadsOf(n) : \E m \in [peer : Node, msg : Message] :
           /\ m.peer = peerOf[n] /\ m.msg = pend[n]
           /\ hpc[n] = "push" /\ hpc'[n] = "handle"
           /\ \A k \in Node \ {n} : hpc'[k] = hpc[k]
           /\ UNCHANGED <<pend, peerOf>>
           /\ taskpipe'[u] = Append(taskpipe[u], m)
           /\ \A v \in Thread \ {u} : taskpipe'[v] = taskpipe[v]
    BY <1>6, PushTaskFacts
  <2>2. PICK m \in [peer : Node, msg : Message] :
           /\ m.peer = peerOf[n] /\ m.msg = pend[n]
           /\ hpc[n] = "push" /\ hpc'[n] = "handle"
           /\ \A k \in Node \ {n} : hpc'[k] = hpc[k]
           /\ UNCHANGED <<pend, peerOf>>
           /\ taskpipe'[u] = Append(taskpipe[u], m)
           /\ \A v \in Thread \ {u} : taskpipe'[v] = taskpipe[v]
    BY <2>1
  <2>3. u \in Thread /\ NodeOf[u] = n /\ m.peer \in Node /\ m.msg \in Message
    BY DEF ThreadsOf
  <2>4. Range(Append(taskpipe[u], m)) = Range(taskpipe[u]) \union {m}
    <3>1. PICK S : S = [peer : Node, msg : Message]
      OBVIOUS
    <3>2. PICK q : q = taskpipe[u]
      OBVIOUS
    <3>3. q \in Seq(S) /\ m \in S
      BY <2>3, <3>1, <3>2, PipeTypes
    <3> QED BY <3>2, <3>3, PushFacts
  <2>5. From(m.msg, m.peer, n)
    BY <1>0, <2>2 DEF HandAddr
  <2>6. ASSUME NEW v \in Thread, NEW e \in Range(taskpipe'[v]) PROVE From(e.msg, e.peer, NodeOf[v])'
    <3>1. CASE e \in Range(taskpipe[v])
      BY <1>0, <3>1, PipeTypes, FromStays DEF BoxAddr
    <3>2. CASE v = u /\ e = m
      BY <2>3, <2>5, <3>2, FromStays
    <3> QED BY <2>2, <2>4, <2>6, <3>1, <3>2
  <2>7. ASSUME NEW k \in Node, hpc'[k] = "push" PROVE From(pend[k], peerOf[k], k)'
    <3>1. hpc[k] = "push" /\ pend'[k] = pend[k] /\ peerOf'[k] = peerOf[k]
      BY <2>2, <2>7
    <3>2. PICK y \in Message : y = pend[k]
      BY PipeTypes
    <3>3. PICK a : a = peerOf[k]
      OBVIOUS
    <3>4. From(y, a, k)'
      BY <1>0, <3>1, <3>2, <3>3, FromStays DEF HandAddr
    <3> QED BY <3>1, <3>2, <3>3, <3>4 DEF From
  <2>8. BoxAddr' /\ HandAddr'
    BY <2>6, <2>7 DEF BoxAddr, HandAddr
  <2> QED BY <1>6, <2>8, SameAddr DEF AddrInv
<1>7. ASSUME NEW t \in Thread, TakeTask(t), UNCHANGED <<msgpipe, net>>, SameHand,
             Index(t) \in 1 .. Len(Program[t]), Call(t).op \in {"recv", "recv_async"}
      PROVE  AddrInv'
  <2>1. /\ taskpipe[t] # <<>> /\ taskpipe'[t] = Tail(taskpipe[t])
        /\ \A v \in Thread \ {t} : taskpipe'[v] = taskpipe[v]
    BY <1>7, TakeFacts
  <2>2. PICK m \in [peer : Node, msg : Message] :
              /\ m \in Range(taskpipe[t])
              /\ \A v \in Thread : \A k \in DOMAIN result'[v] :
                   \/ k \in DOMAIN result[v] /\ result'[v][k] = result[v][k]
                   \/ /\ v = t /\ k = Index(t) /\ k \notin DOMAIN result[v]
                      /\ result'[v][k].msg = m.msg /\ result'[v][k].peer = m.peer
    BY <1>7, TakeFacts
  <2>3. Range(Tail(taskpipe[t])) \subseteq Range(taskpipe[t])
    BY <2>1, PipeTypes, PopFacts
  <2>4. ASSUME NEW v \in Thread, NEW e \in Range(taskpipe'[v]) PROVE From(e.msg, e.peer, NodeOf[v])'
    <3>1. e \in Range(taskpipe[v])
      BY <2>1, <2>3, <2>4
    <3> QED BY <1>0, <3>1, PipeTypes, FromStays DEF BoxAddr
  <2>5. m.peer \in Node /\ m.msg \in Message /\ From(m.msg, m.peer, NodeOf[t])
    BY <1>0, <2>2 DEF BoxAddr
  <2>6. From(m.msg, m.peer, NodeOf[t])'
    BY <2>5, FromStays
  <2>7. ASSUME NEW v \in Thread, NEW k \in DOMAIN result'[v], IsGot(v, k)'
        PROVE  From(result[v][k].msg, result[v][k].peer, NodeOf[v])'
    <3>1. CASE k \in DOMAIN result[v] /\ result'[v][k] = result[v][k]
      <4>1. IsGot(v, k)
        BY <2>7, <3>1 DEF IsGot
      <4>2. PICK x \in Message : x = result[v][k].msg
        BY <3>1, PipeTypes
      <4>3. PICK a : a = result[v][k].peer
        OBVIOUS
      <4>4. From(x, a, NodeOf[v])'
        BY <1>0, <3>1, <4>1, <4>2, <4>3, FromStays DEF ReadAddr
      <4> QED BY <3>1, <4>2, <4>3, <4>4 DEF From
    <3>2. CASE v = t /\ result'[v][k].msg = m.msg /\ result'[v][k].peer = m.peer
      BY <2>6, <3>2 DEF From
    <3> QED BY <2>2, <3>1, <3>2
  <2>8. BoxAddr' /\ ReadAddr'
    BY <2>4, <2>7 DEF BoxAddr, ReadAddr
  <2> QED BY <1>7, <2>8, SameAddr DEF AddrInv
<1> QED BY <1>1, <1>2, <1>3, <1>4, <1>5, <1>6, <1>7, FlowSteps

-----------------------------------------------------------------------------
(* Messages of one thread keep their order, from pipe to pipe. *)

\* If x and y are messages of the same thread, y was sent after x.
After(x, y) == x # Hello /\ x[1] = y[1] => x[2] < y[2]

\* The messages of A were sent before those of B, thread by thread.
Before(A, B) == \A x \in A : \A y \in B : After(x, y)

\* The messages in each of the places on the way.
Out(t)     == {m.msg : m \in Range(msgpipe[t])}
Wire(n, p) == Range(net[n][p])
Hand(p)    == {pend[n] : n \in {m \in {p} : hpc[m] = "push"}}
Box(u)     == {m.msg : m \in Range(taskpipe[u])}
Read(u)    == {result[u][k].msg : k \in {i \in DOMAIN result[u] : IsGot(u, i)}}
Dealt(u)   == Read(u) \union Box(u)

\* Further on the way means sent earlier.
OrderInv ==
  /\ \A n, p \in Node : Before(Hand(p), Wire(n, p))
  /\ \A p \in Node : \A t \in Thread : Before(Hand(p), Out(t))
  /\ \A n, p \in Node : \A t \in Thread : Before(Wire(n, p), Out(t))
  /\ \A u \in Thread : /\ Before(Read(u), Box(u))
                       /\ Before(Dealt(u), Hand(NodeOf[u]))
                       /\ \A n \in Node : Before(Dealt(u), Wire(n, NodeOf[u]))
                       /\ \A t \in Thread : Before(Dealt(u), Out(t))

\* No message is dealt to two threads.
ApartInv == \A u, v \in Thread : u # v => Dealt(u) \intersect Dealt(v) \subseteq {Hello}

\* Every place is in order in itself.
Rising(q)  == \A i, j \in DOMAIN q : i < j => After(q[i], q[j])
RisingM(q) == \A i, j \in DOMAIN q : i < j => After(q[i].msg, q[j].msg)

\* Each pipe, each pair's network queue and the results of each thread rise.
RiseInv ==
  /\ \A t \in Thread : RisingM(msgpipe[t])
  /\ \A n, p \in Node : Rising(net[n][p])
  /\ \A u \in Thread : RisingM(taskpipe[u])
  /\ \A u \in Thread : \A i, j \in DOMAIN result[u] :
       i < j /\ IsGot(u, i) /\ IsGot(u, j) => After(result[u][i].msg, result[u][j].msg)

-----------------------------------------------------------------------------
\* The elements of a queue without its head are the others, one place further.
LEMMA PopIndex ==
  ASSUME NEW S, NEW q \in Seq(S), q # <<>>
  PROVE  /\ 1 \in DOMAIN q /\ Head(q) = q[1]
         /\ \A i \in DOMAIN Tail(q) : i \in Nat \ {0} /\ i + 1 \in DOMAIN q /\ Tail(q)[i] = q[i + 1]
<1>1. /\ Tail(q) \in Seq(S)
      /\ Len(Tail(q)) = Len(q) - 1
      /\ \A i \in 1 .. Len(Tail(q)) : Tail(q)[i] = q[i + 1]
  BY HeadTailProperties
<1>2. Len(q) \in Nat \ {0} /\ DOMAIN q = 1 .. Len(q) /\ DOMAIN Tail(q) = 1 .. Len(Tail(q))
  BY <1>1, EmptySeq, LenProperties
<1>3. Head(q) = q[1]
  OBVIOUS
<1> QED BY <1>1, <1>2, <1>3

\* The elements of a longer queue are those of the queue and the new one at its end.
LEMMA PushIndex ==
  ASSUME NEW S, NEW q \in Seq(S), NEW x \in S
  PROVE  \A i \in DOMAIN Append(q, x) :
           \/ i \in DOMAIN q /\ Append(q, x)[i] = q[i]
           \/ Append(q, x)[i] = x /\ i \in Nat /\ \A j \in DOMAIN Append(q, x) : j <= i
<1>1. /\ Append(q, x) \in Seq(S)
      /\ Len(Append(q, x)) = Len(q) + 1
      /\ \A i \in 1 .. Len(q) : Append(q, x)[i] = q[i]
      /\ Append(q, x)[Len(q) + 1] = x
  BY AppendProperties
<1>2. /\ Len(q) \in Nat
      /\ DOMAIN q = 1 .. Len(q)
      /\ DOMAIN Append(q, x) = 1 .. Len(q) + 1
  BY <1>1, LenProperties
<1> SUFFICES ASSUME NEW i \in DOMAIN Append(q, x)
             PROVE  \/ i \in DOMAIN q /\ Append(q, x)[i] = q[i]
                    \/ Append(q, x)[i] = x /\ i \in Nat /\ \A j \in DOMAIN Append(q, x) : j <= i
  OBVIOUS
<1>3. CASE i = Len(q) + 1
  BY <1>1, <1>2, <1>3
<1>4. CASE i # Len(q) + 1
  BY <1>1, <1>2, <1>4
<1> QED BY <1>3, <1>4

\* Queues are indexed by numbers.
LEMMA DomainNat == ASSUME NEW S, NEW q \in Seq(S) PROVE DOMAIN q \subseteq Nat
  BY LenProperties

\* A rising queue rises without its head.
LEMMA PopRising ==
  ASSUME NEW S, NEW q \in Seq(S), q # <<>>, Rising(q)
  PROVE  Rising(Tail(q)) /\ \A y \in Range(Tail(q)) : After(Head(q), y)
<1>1. /\ 1 \in DOMAIN q /\ Head(q) = q[1]
      /\ \A i \in DOMAIN Tail(q) : i \in Nat \ {0} /\ i + 1 \in DOMAIN q /\ Tail(q)[i] = q[i + 1]
  BY PopIndex
<1>2. ASSUME NEW i \in DOMAIN Tail(q), NEW j \in DOMAIN Tail(q), i < j
      PROVE  After(Tail(q)[i], Tail(q)[j])
  <2>1. i + 1 < j + 1
    BY <1>1, <1>2
  <2> QED BY <1>1, <2>1 DEF Rising
<1>3. ASSUME NEW i \in DOMAIN Tail(q) PROVE After(Head(q), Tail(q)[i])
  <2>1. 1 < i + 1
    BY <1>1
  <2> QED BY <1>1, <2>1 DEF Rising
<1> QED BY <1>2, <1>3 DEF Rising, Range

\* The same for a queue of messages with a peer.
LEMMA PopRisingM ==
  ASSUME NEW S, NEW q \in Seq(S), q # <<>>, RisingM(q)
  PROVE  RisingM(Tail(q)) /\ \A y \in Range(Tail(q)) : After(Head(q).msg, y.msg)
<1>1. /\ 1 \in DOMAIN q /\ Head(q) = q[1]
      /\ \A i \in DOMAIN Tail(q) : i \in Nat \ {0} /\ i + 1 \in DOMAIN q /\ Tail(q)[i] = q[i + 1]
  BY PopIndex
<1>2. ASSUME NEW i \in DOMAIN Tail(q), NEW j \in DOMAIN Tail(q), i < j
      PROVE  After(Tail(q)[i].msg, Tail(q)[j].msg)
  <2>1. i + 1 < j + 1
    BY <1>1, <1>2
  <2> QED BY <1>1, <2>1 DEF RisingM
<1>3. ASSUME NEW i \in DOMAIN Tail(q) PROVE After(Head(q).msg, Tail(q)[i].msg)
  <2>1. 1 < i + 1
    BY <1>1
  <2> QED BY <1>1, <2>1 DEF RisingM
<1> QED BY <1>2, <1>3 DEF RisingM, Range

\* A rising queue rises with a message sent after all of its own.
LEMMA PushRising ==
  ASSUME NEW S, NEW q \in Seq(S), NEW x \in S, Rising(q), \A y \in Range(q) : After(y, x)
  PROVE  Rising(Append(q, x))
<1> SUFFICES ASSUME NEW i \in DOMAIN Append(q, x), NEW j \in DOMAIN Append(q, x), i < j
             PROVE  After(Append(q, x)[i], Append(q, x)[j])
  BY DEF Rising
<1>0. i \in Nat /\ j \in Nat
  BY AppendProperties, DomainNat
<1>1. i \in DOMAIN q /\ Append(q, x)[i] = q[i]
  BY <1>0, PushIndex
<1>2. CASE j \in DOMAIN q /\ Append(q, x)[j] = q[j]
  BY <1>1, <1>2 DEF Rising
<1>3. CASE Append(q, x)[j] = x
  BY <1>1, <1>3 DEF Range
<1> QED BY <1>2, <1>3, PushIndex

\* The same for a queue of messages with a peer.
LEMMA PushRisingM ==
  ASSUME NEW S, NEW q \in Seq(S), NEW x \in S, RisingM(q), \A y \in Range(q) : After(y.msg, x.msg)
  PROVE  RisingM(Append(q, x))
<1> SUFFICES ASSUME NEW i \in DOMAIN Append(q, x), NEW j \in DOMAIN Append(q, x), i < j
             PROVE  After(Append(q, x)[i].msg, Append(q, x)[j].msg)
  BY DEF RisingM
<1>0. i \in Nat /\ j \in Nat
  BY AppendProperties, DomainNat
<1>1. i \in DOMAIN q /\ Append(q, x)[i] = q[i]
  BY <1>0, PushIndex
<1>2. CASE j \in DOMAIN q /\ Append(q, x)[j] = q[j]
  BY <1>1, <1>2 DEF RisingM
<1>3. CASE Append(q, x)[j] = x
  BY <1>1, <1>3 DEF Range
<1> QED BY <1>2, <1>3, PushIndex

-----------------------------------------------------------------------------
\* What is in a place.
LEMMA PlaceTypes ==
  ASSUME TypeInv
  PROVE  /\ \A t \in Thread : Out(t) \subseteq Message /\ Dealt(t) \subseteq Message
         /\ \A n, p \in Node : Wire(n, p) \subseteq Message
         /\ \A p \in Node : Hand(p) \subseteq Message
  BY PipeTypes DEF Out, Wire, Hand, Box, Read, Dealt

\* Where a message is tells where it comes from and where it goes.
LEMMA PlaceAddr ==
  ASSUME AddrInv
  PROVE  /\ \A t \in Thread : \A x \in Out(t) : x[1] = t
         /\ \A n, p \in Node : \A x \in Wire(n, p) : From(x, n, p)
         /\ \A p \in Node : \A x \in Hand(p) : From(x, peerOf[p], p)
         /\ \A u \in Thread : \A x \in Dealt(u) : \E n : From(x, n, NodeOf[u])
         /\ \A t \in Thread : \A x \in Out(t) : \E p : From(x, NodeOf[t], p)
  BY DEF AddrInv, OutAddr, WireAddr, HandAddr, BoxAddr, ReadAddr, Out, Wire, Hand, Box, Read, Dealt

\* What does not change.
LEMMA SamePlaces ==
  /\ UNCHANGED msgpipe => \A t \in Thread : Out(t)' = Out(t)
  /\ UNCHANGED net => \A n, p \in Node : Wire(n, p)' = Wire(n, p)
  /\ SameHand => \A p \in Node : Hand(p)' = Hand(p)
  /\ UNCHANGED taskpipe => \A u \in Thread : Box(u)' = Box(u)
  /\ SameRead => \A u \in Thread : Read(u)' \subseteq Read(u)
<1>1. UNCHANGED msgpipe => \A t \in Thread : Out(t)' = Out(t)
  BY DEF Out
<1>2. UNCHANGED net => \A n, p \in Node : Wire(n, p)' = Wire(n, p)
  BY DEF Wire
<1>3. SameHand => \A p \in Node : Hand(p)' = Hand(p)
  BY DEF SameHand, Hand
<1>4. UNCHANGED taskpipe => \A u \in Thread : Box(u)' = Box(u)
  BY DEF Box
<1>5. ASSUME SameRead, NEW u \in Thread, NEW x \in Read(u)' PROVE x \in Read(u)
  <2>1. PICK k \in DOMAIN result'[u] : IsGot(u, k)' /\ x = result'[u][k].msg
    BY <1>5 DEF Read
  <2>2. k \in DOMAIN result[u] /\ result'[u][k] = result[u][k]
    BY <1>5, <2>1 DEF SameRead
  <2>3. IsGot(u, k)
    BY <2>1, <2>2 DEF IsGot
  <2> QED BY <2>1, <2>2, <2>3 DEF Read
<1> QED BY <1>1, <1>2, <1>3, <1>4, <1>5

\* Order along the way, no message dealt to two threads, order in each place.
FlowInv == OrderInv /\ ApartInv /\ RiseInv

\* Nothing gets further: order and separation stay.
LEMMA ShrinkOrder ==
  ASSUME OrderInv, ApartInv,
         \A t \in Thread : Out(t)' \subseteq Out(t),
         \A n, p \in Node : Wire(n, p)' \subseteq Wire(n, p),
         \A p \in Node : Hand(p)' \subseteq Hand(p),
         \A u \in Thread : Box(u)' \subseteq Box(u) /\ Read(u)' \subseteq Read(u)
  PROVE  OrderInv' /\ ApartInv'
<1>0. \A u \in Thread : NodeOf[u] \in Node
  BY ConfigAssumption
<1>1. \A u \in Thread : Dealt(u)' \subseteq Dealt(u)
  BY DEF Dealt
<1>2. OrderInv'
  BY <1>0, <1>1 DEF OrderInv, Before
<1>3. ApartInv'
  BY <1>1 DEF ApartInv
<1> QED BY <1>2, <1>3

\* The results stay in order when nothing is received.
LEMMA SameRise ==
  ASSUME RiseInv
  PROVE  /\ UNCHANGED msgpipe => \A t \in Thread : RisingM(msgpipe'[t])
         /\ UNCHANGED net => \A n, p \in Node : Rising(net'[n][p])
         /\ UNCHANGED taskpipe => \A u \in Thread : RisingM(taskpipe'[u])
         /\ SameRead => \A u \in Thread : \A i, j \in DOMAIN result'[u] :
              i < j /\ IsGot(u, i)' /\ IsGot(u, j)' => After(result'[u][i].msg, result'[u][j].msg)
<1>1. ASSUME SameRead, NEW u \in Thread, NEW i \in DOMAIN result'[u], NEW j \in DOMAIN result'[u],
             i < j, IsGot(u, i)', IsGot(u, j)'
      PROVE  After(result'[u][i].msg, result'[u][j].msg)
  <2>1. /\ i \in DOMAIN result[u] /\ result'[u][i] = result[u][i]
        /\ j \in DOMAIN result[u] /\ result'[u][j] = result[u][j]
    BY <1>1 DEF SameRead
  <2>2. IsGot(u, i) /\ IsGot(u, j)
    BY <1>1, <2>1 DEF IsGot
  <2> QED BY <1>1, <2>1, <2>2 DEF RiseInv
<1> QED BY <1>1 DEF RiseInv

\* send: the new message is later than everything on the way.
LEMMA SendFlow ==
  ASSUME TypeInv, AddrInv, FlowInv, NEW t \in Thread, send(t),
         UNCHANGED <<net, taskpipe>>, SameHand, SameRead
  PROVE  FlowInv'
<1>0. OrderInv /\ ApartInv /\ RiseInv
  BY DEF FlowInv
<1>1. PICK m \in [peer : Node, msg : Message] :
           /\ m.msg # Hello /\ m.msg[1] = t /\ m.msg[2] = Index(t)
           /\ step[t] = "idle"
           /\ msgpipe'[t] = Append(msgpipe[t], m)
           /\ \A u \in Thread \ {t} : msgpipe'[u] = msgpipe[u]
  BY SendFacts
<1>2. PICK S : S = [peer : Node, msg : Message]
  OBVIOUS
<1>3. PICK q : q = msgpipe[t]
  OBVIOUS
<1>4. q \in Seq(S) /\ m \in S
  BY <1>2, <1>3, PipeTypes
<1>5. Range(Append(q, m)) = Range(q) \union {m}
  BY <1>4, PushFacts
<1>6. PICK y : y = m.msg
  OBVIOUS
<1>7. \A u \in Thread : Out(u)' \subseteq Out(u) \union (IF u = t THEN {y} ELSE {})
  <2> SUFFICES ASSUME NEW u \in Thread, NEW x \in Out(u)'
               PROVE  x \in Out(u) \union (IF u = t THEN {y} ELSE {})
    OBVIOUS
  <2>1. PICK e \in Range(msgpipe'[u]) : x = e.msg
    BY DEF Out
  <2>2. CASE u = t
    BY <1>1, <1>3, <1>5, <1>6, <2>1, <2>2 DEF Out
  <2>3. CASE u # t
    BY <1>1, <2>1, <2>3 DEF Out
  <2> QED BY <2>2, <2>3
<1>8. ASSUME NEW x \in Message, NEW n, NEW p, From(x, n, p) PROVE After(x, y)
  <2>1. CASE x # Hello /\ x[1] = t
    <3>1. Begun(t, x[2])
      BY <1>8, <2>1 DEF From
    <3>2. x[2] \in Nat /\ Index(t) \in Nat
      BY <2>1, MessageMeans, IndexType DEF TypeInv
    <3>3. x[2] < Index(t)
      BY <1>1, <3>1, <3>2 DEF Begun
    <3> QED BY <1>1, <1>6, <3>3 DEF After
  <2>2. CASE ~(x # Hello /\ x[1] = t)
    BY <1>1, <1>6, <2>2 DEF After
  <2> QED BY <2>1, <2>2
<1>9. /\ \A p \in Node : \A x \in Hand(p) : After(x, y)
      /\ \A n, p \in Node : \A x \in Wire(n, p) : After(x, y)
      /\ \A u \in Thread : \A x \in Dealt(u) : After(x, y)
      /\ \A u \in Thread : \A x \in Out(u) : After(x, y)
  <2>1. ASSUME NEW p \in Node, NEW x \in Hand(p) PROVE After(x, y)
    BY <1>8, PlaceTypes, PlaceAddr
  <2>2. ASSUME NEW n \in Node, NEW p \in Node, NEW x \in Wire(n, p) PROVE After(x, y)
    BY <1>8, PlaceTypes, PlaceAddr
  <2>3. ASSUME NEW u \in Thread, NEW x \in Dealt(u) PROVE After(x, y)
    BY <1>8, PlaceTypes, PlaceAddr
  <2>4. ASSUME NEW u \in Thread, NEW x \in Out(u) PROVE After(x, y)
    BY <1>8, PlaceTypes, PlaceAddr
  <2> QED BY <2>1, <2>2, <2>3, <2>4
<1>10. /\ \A n, p \in Node : Wire(n, p)' = Wire(n, p)
       /\ \A p \in Node : Hand(p)' = Hand(p)
       /\ \A u \in Thread : Box(u)' = Box(u) /\ Read(u)' \subseteq Read(u)
  BY SamePlaces
<1>11. \A u \in Thread : Dealt(u)' \subseteq Dealt(u) /\ NodeOf[u] \in Node
  BY <1>10, ConfigAssumption DEF Dealt
<1>12. ApartInv'
  BY <1>0, <1>11 DEF ApartInv
<1>13. OrderInv'
  BY <1>0, <1>7, <1>9, <1>10, <1>11 DEF OrderInv, Before
<1>14. \A e \in Range(q) : After(e.msg, m.msg)
  BY <1>3, <1>6, <1>9 DEF Out
<1>15. RisingM(Append(q, m))
  BY <1>0, <1>3, <1>4, <1>14, PushRisingM DEF RiseInv
<1>16. \A u \in Thread : RisingM(msgpipe'[u])
  BY <1>0, <1>1, <1>3, <1>15 DEF RiseInv
<1>17. RiseInv'
  BY <1>0, <1>16, SameRise DEF RiseInv
<1> QED BY <1>12, <1>13, <1>17 DEF FlowInv

\* pollitems[0]: what goes to the network is earlier than what stays.
LEMMA MsgqFlow ==
  ASSUME TypeInv, AddrInv, FlowInv, NEW n \in Node, NEW t \in Thread, HandleMsgq(n, t),
         UNCHANGED taskpipe, SameHand, SameRead
  PROVE  FlowInv'
<1>0. OrderInv /\ ApartInv /\ RiseInv
  BY DEF FlowInv
<1>1. /\ NodeOf[t] = n /\ msgpipe[t] # <<>>
      /\ msgpipe'[t] = Tail(msgpipe[t])
      /\ \A u \in Thread \ {t} : msgpipe'[u] = msgpipe[u]
  BY MsgqFacts
<1>2. PICK m \in [peer : Node, msg : Message] :
              /\ m = Head(msgpipe[t]) /\ m \in Range(msgpipe[t])
              /\ \/ UNCHANGED net
                 \/ /\ net'[n][m.peer] = Append(net[n][m.peer], m.msg)
                    /\ \A a, b \in Node : <<a, b>> # <<n, m.peer>> => net'[a][b] = net[a][b]
  BY MsgqFacts
<1>3. PICK x : x = m.msg
  OBVIOUS
<1>4. PICK d : d = m.peer
  OBVIOUS
<1>5. x \in Message /\ d \in Node /\ x \in Out(t)
  BY <1>2, <1>3, <1>4 DEF Out
<1>6. PICK S : S = [peer : Node, msg : Message]
  OBVIOUS
<1>7. PICK q : q = msgpipe[t]
  OBVIOUS
<1>8. q \in Seq(S) /\ q # <<>> /\ RisingM(q) /\ m = Head(q)
  BY <1>0, <1>1, <1>2, <1>6, <1>7, PipeTypes DEF RiseInv
<1>9. RisingM(Tail(q)) /\ (\A e \in Range(Tail(q)) : After(x, e.msg)) /\ Range(Tail(q)) \subseteq Range(q)
  BY <1>3, <1>8, PopRisingM, PopFacts
<1>10. \A u \in Thread : Out(u)' \subseteq Out(u)
  <2> SUFFICES ASSUME NEW u \in Thread, NEW y \in Out(u)' PROVE y \in Out(u)
    OBVIOUS
  <2>1. PICK e \in Range(msgpipe'[u]) : y = e.msg
    BY DEF Out
  <2> QED BY <1>1, <1>7, <1>9, <2>1 DEF Out
<1>11. \A u \in Thread : \A y \in Out(u)' : After(x, y)
  <2> SUFFICES ASSUME NEW u \in Thread, NEW y \in Out(u)' PROVE After(x, y)
    OBVIOUS
  <2>1. CASE u = t
    BY <1>1, <1>7, <1>9, <2>1 DEF Out
  <2>2. CASE u # t
    <3>1. y[1] = u /\ x[1] = t
      BY <1>5, <1>10, PlaceAddr
    <3> QED BY <2>2, <3>1 DEF After
  <2> QED BY <2>1, <2>2
<1>12. PICK w : w = net[n][d]
  OBVIOUS
<1>13. w \in Seq(Message)
  BY <1>5, <1>12, NetType DEF TypeInv
<1>14. Range(Append(w, x)) = Range(w) \union {x}
  BY <1>5, <1>13, PushFacts
<1>15. \A a, b \in Node : Wire(a, b)' \subseteq Wire(a, b) \union (IF a = n /\ b = d THEN {x} ELSE {})
  <2> SUFFICES ASSUME NEW a \in Node, NEW b \in Node
               PROVE  Wire(a, b)' \subseteq Wire(a, b) \union (IF a = n /\ b = d THEN {x} ELSE {})
    OBVIOUS
  <2>1. CASE UNCHANGED net
    BY <2>1 DEF Wire
  <2>2. CASE /\ net'[n][m.peer] = Append(net[n][m.peer], m.msg)
             /\ \A c, e \in Node : <<c, e>> # <<n, m.peer>> => net'[c][e] = net[c][e]
    <3>1. CASE a = n /\ b = d
      <4>1. net'[a][b] = Append(w, x) /\ net[a][b] = w
        BY <1>3, <1>4, <1>12, <2>2, <3>1
      <4> QED BY <1>14, <3>1, <4>1 DEF Wire
    <3>2. CASE ~(a = n /\ b = d)
      <4>1. net'[a][b] = net[a][b]
        BY <1>4, <2>2, <3>2
      <4> QED BY <4>1 DEF Wire
    <3> QED BY <3>1, <3>2
  <2> QED BY <1>2, <2>1, <2>2
<1>16. /\ \A p \in Node : Hand(p)' = Hand(p)
       /\ \A u \in Thread : Box(u)' = Box(u) /\ Read(u)' \subseteq Read(u)
  BY SamePlaces
<1>17. \A u \in Thread : Dealt(u)' \subseteq Dealt(u) /\ NodeOf[u] \in Node
  BY <1>16, ConfigAssumption DEF Dealt
<1>18. ApartInv'
  BY <1>0, <1>17 DEF ApartInv
<1>19. OrderInv'
  BY <1>0, <1>5, <1>10, <1>11, <1>15, <1>16, <1>17 DEF OrderInv, Before
<1>20. \A y \in Range(w) : After(y, x)
  BY <1>0, <1>5, <1>12 DEF OrderInv, Before, Wire
<1>21. Rising(Append(w, x))
  BY <1>0, <1>5, <1>12, <1>13, <1>20, PushRising DEF RiseInv
<1>22. \A a, b \in Node : Rising(net'[a][b])
  <2> SUFFICES ASSUME NEW a \in Node, NEW b \in Node PROVE Rising(net'[a][b])
    OBVIOUS
  <2>1. CASE net'[a][b] = net[a][b]
    BY <1>0, <2>1 DEF RiseInv
  <2>2. CASE a = n /\ b = d /\ net'[a][b] = Append(w, x)
    BY <1>21, <2>2
  <2>3. CASE UNCHANGED net
    BY <2>1, <2>3
  <2>4. CASE a = n /\ b = d
    BY <1>2, <1>3, <1>4, <1>12, <2>2, <2>3, <2>4
  <2>5. CASE ~(a = n /\ b = d)
    BY <1>2, <1>4, <2>1, <2>3, <2>5
  <2> QED BY <2>4, <2>5
<1>23. \A u \in Thread : RisingM(msgpipe'[u])
  BY <1>0, <1>1, <1>7, <1>9 DEF RiseInv
<1>24. RiseInv'
  BY <1>0, <1>22, <1>23, SameRise DEF RiseInv
<1> QED BY <1>18, <1>19, <1>24 DEF FlowInv

\* A greeting has no place in the order.
LEMMA HelloAfter ==
  ASSUME NEW x \in Message PROVE After(Hello, x) /\ After(x, Hello)
<1>1. After(Hello, x)
  BY DEF After
<1>2. After(x, Hello)
  <2>1. Hello[1] = "hello"
    BY DEF Hello
  <2> QED BY <2>1, MessageMeans, ConfigAssumption DEF After
<1> QED BY <1>1, <1>2

\* A greeting has no order to keep.
LEMMA HelloFlow ==
  ASSUME TypeInv, TypeInv', FlowInv, NEW n \in Node, SendHello(n),
         UNCHANGED <<msgpipe, taskpipe>>, SameHand, SameRead
  PROVE  FlowInv'
<1>0. OrderInv /\ ApartInv /\ RiseInv
  BY DEF FlowInv
<1>1. PICK d \in Node : /\ net'[n][d] = Append(net[n][d], Hello)
                        /\ \A a, b \in Node : <<a, b>> # <<n, d>> => net'[a][b] = net[a][b]
  BY HelloFacts
<1>2. PICK w \in Seq(Message) : w = net[n][d]
  BY NetType DEF TypeInv
<1>3. Range(Append(w, Hello)) = Range(w) \union {Hello}
  BY MessageType, PushFacts
<1>4. \A a, b \in Node : Wire(a, b)' \subseteq Wire(a, b) \union {Hello}
  <2> SUFFICES ASSUME NEW a \in Node, NEW b \in Node
               PROVE  Wire(a, b)' \subseteq Wire(a, b) \union {Hello}
    OBVIOUS
  <2>1. CASE a = n /\ b = d
    <3>1. net'[a][b] = Append(w, Hello) /\ net[a][b] = w
      BY <1>1, <1>2, <2>1
    <3> QED BY <1>3, <3>1 DEF Wire
  <2>2. CASE ~(a = n /\ b = d)
    <3>1. net'[a][b] = net[a][b]
      BY <1>1, <2>2
    <3> QED BY <3>1 DEF Wire
  <2> QED BY <2>1, <2>2
<1>5. /\ \A p \in Node : Hand(p)' = Hand(p)
      /\ \A u \in Thread : Box(u)' = Box(u) /\ Read(u)' \subseteq Read(u) /\ Out(u)' = Out(u)
  BY SamePlaces
<1>6. \A u \in Thread : Dealt(u)' \subseteq Dealt(u) /\ NodeOf[u] \in Node
  BY <1>5, ConfigAssumption DEF Dealt
<1>7. ApartInv'
  BY <1>0, <1>6 DEF ApartInv
<1>8. /\ \A u \in Thread : Out(u) \subseteq Message /\ Dealt(u) \subseteq Message
      /\ \A p \in Node : Hand(p) \subseteq Message
  BY PlaceTypes
<1>9. OrderInv'
  BY <1>0, <1>4, <1>5, <1>6, <1>8, HelloAfter DEF OrderInv, Before
<1>10. Rising(Append(w, Hello))
  <2>1. \A y \in Range(w) : After(y, Hello)
    BY QueuedType, HelloAfter
  <2>2. Rising(w)
    BY <1>0, <1>2 DEF RiseInv
  <2> QED BY <2>1, <2>2, PushRising, MessageType
<1>11. ASSUME NEW a \in Node, NEW b \in Node PROVE Rising(net'[a][b])
  <2>1. CASE a = n /\ b = d
    BY <1>1, <1>2, <1>10, <2>1
  <2>2. CASE ~(a = n /\ b = d)
    <3>1. net'[a][b] = net[a][b]
      BY <1>1, <2>2
    <3> QED BY <1>0, <3>1 DEF RiseInv
  <2> QED BY <2>1, <2>2
<1>12. RiseInv'
  BY <1>0, <1>11, SameRise DEF RiseInv
<1> QED BY <1>7, <1>9, <1>12 DEF FlowInv

\* pollitems[1]: what is taken in hand is earlier than what stays on the way.
LEMMA RouterFlow ==
  ASSUME TypeInv, AddrInv, FlowInv, NEW n \in Node, NEW p \in Node, HandleRouter(n, p),
         UNCHANGED <<msgpipe, taskpipe>>, SameRead
  PROVE  FlowInv'
<1>0. OrderInv /\ ApartInv /\ RiseInv
  BY DEF FlowInv
<1>1. /\ net[p][n] \in Seq(Message) /\ net[p][n] # <<>>
      /\ net'[p][n] = Tail(net[p][n])
      /\ \A a, b \in Node : <<a, b>> # <<p, n>> => net'[a][b] = net[a][b]
      /\ hpc[n] = "handle"
      /\ \/ hpc'[n] = "push" /\ pend'[n] = Head(net[p][n]) /\ peerOf'[n] = p
         \/ hpc'[n] # "push"
      /\ \A m \in Node \ {n} : hpc'[m] = hpc[m] /\ pend'[m] = pend[m] /\ peerOf'[m] = peerOf[m]
  BY RouterFacts
<1>2. PICK w : w = net[p][n]
  OBVIOUS
<1>3. PICK x : x = Head(w)
  OBVIOUS
<1>4. w \in Seq(Message) /\ w # <<>> /\ Rising(w)
  BY <1>0, <1>1, <1>2 DEF RiseInv
<1>5. /\ x \in Message /\ x \in Wire(p, n) /\ Range(Tail(w)) \subseteq Range(w)
      /\ Rising(Tail(w)) /\ \A y \in Range(Tail(w)) : After(x, y)
  BY <1>2, <1>3, <1>4, PopFacts, PopRising DEF Wire
<1>6. \A a, b \in Node : ~(a = p /\ b = n) => net'[a][b] = net[a][b]
  BY <1>1
<1>7. \A a, b \in Node : Wire(a, b)' \subseteq Wire(a, b)
  BY <1>1, <1>2, <1>5, <1>6 DEF Wire
<1>8. \A a \in Node : \A y \in Wire(a, n)' : After(x, y)
  <2> SUFFICES ASSUME NEW a \in Node, NEW y \in Wire(a, n)' PROVE After(x, y)
    OBVIOUS
  <2>1. CASE a = p
    BY <1>1, <1>2, <1>5, <2>1 DEF Wire
  <2>2. CASE a # p
    <3>1. From(x, p, n) /\ From(y, a, n) /\ y \in Message
      BY <1>5, <1>7, PlaceAddr, PlaceTypes
    <3>2. CASE y = Hello
      BY <1>5, <3>2, HelloAfter
    <3>3. CASE y # Hello
      BY <2>2, <3>1, <3>3 DEF From, After
    <3> QED BY <3>2, <3>3
  <2> QED BY <2>1, <2>2
<1>9. \A a \in Node : Hand(a)' \subseteq IF a = n THEN {x} ELSE Hand(a)
  BY <1>1, <1>2, <1>3 DEF Hand
<1>10. \A u \in Thread : Box(u)' = Box(u) /\ Read(u)' \subseteq Read(u) /\ Out(u)' = Out(u)
  BY SamePlaces
<1>11. \A u \in Thread : Dealt(u)' \subseteq Dealt(u) /\ NodeOf[u] \in Node
  BY <1>10, ConfigAssumption DEF Dealt
<1>12. ApartInv'
  BY <1>0, <1>11 DEF ApartInv
<1>13. OrderInv'
  BY <1>0, <1>5, <1>7, <1>8, <1>9, <1>10, <1>11 DEF OrderInv, Before
<1>14. \A a, b \in Node : Rising(net'[a][b])
  BY <1>0, <1>1, <1>2, <1>5, <1>6 DEF RiseInv
<1>15. RiseInv'
  BY <1>0, <1>14, SameRise DEF RiseInv
<1> QED BY <1>12, <1>13, <1>15 DEF FlowInv

\* taskq: the message in hand is later than what was dealt before, and no
\* thread has it.
LEMMA PushFlow ==
  ASSUME TypeInv, PullInv, AddrInv, FlowInv, NEW n \in Node, PushTask(n),
         UNCHANGED <<msgpipe, net>>, SameRead
  PROVE  FlowInv'
<1>0. OrderInv /\ ApartInv /\ RiseInv
  BY DEF FlowInv
<1>1. PICK u \in ThreadsOf(n) : \E m \in [peer : Node, msg : Message] :
           /\ m.peer = peerOf[n] /\ m.msg = pend[n]
           /\ hpc[n] = "push" /\ hpc'[n] = "handle"
           /\ \A k \in Node \ {n} : hpc'[k] = hpc[k]
           /\ UNCHANGED <<pend, peerOf>>
           /\ taskpipe'[u] = Append(taskpipe[u], m)
           /\ \A v \in Thread \ {u} : taskpipe'[v] = taskpipe[v]
  BY PushTaskFacts
<1>2. PICK m \in [peer : Node, msg : Message] :
           /\ m.peer = peerOf[n] /\ m.msg = pend[n]
           /\ hpc[n] = "push" /\ hpc'[n] = "handle"
           /\ \A k \in Node \ {n} : hpc'[k] = hpc[k]
           /\ UNCHANGED <<pend, peerOf>>
           /\ taskpipe'[u] = Append(taskpipe[u], m)
           /\ \A v \in Thread \ {u} : taskpipe'[v] = taskpipe[v]
  BY <1>1
<1>3. PICK x : x = m.msg
  OBVIOUS
<1>4. u \in Thread /\ NodeOf[u] = n /\ x \in Message /\ x \in Hand(n)
  BY <1>2, <1>3 DEF ThreadsOf, Hand
<1>5. PICK S : S = [peer : Node, msg : Message]
  OBVIOUS
<1>6. PICK q : q = taskpipe[u]
  OBVIOUS
<1>7. q \in Seq(S) /\ m \in S /\ RisingM(q)
  BY <1>0, <1>4, <1>5, <1>6, PipeTypes DEF RiseInv
<1>8. Range(Append(q, m)) = Range(q) \union {m}
  BY <1>7, PushFacts
<1>9. \A v \in Thread : Box(v)' \subseteq Box(v) \union (IF v = u THEN {x} ELSE {})
  <2> SUFFICES ASSUME NEW v \in Thread, NEW y \in Box(v)'
               PROVE  y \in Box(v) \union (IF v = u THEN {x} ELSE {})
    OBVIOUS
  <2>1. PICK e \in Range(taskpipe'[v]) : y = e.msg
    BY DEF Box
  <2>2. CASE v = u
    BY <1>2, <1>3, <1>6, <1>8, <2>1, <2>2 DEF Box
  <2>3. CASE v # u
    BY <1>2, <2>1, <2>3 DEF Box
  <2> QED BY <2>2, <2>3
<1>10. \A a \in Node : Hand(a)' = IF a = n THEN {} ELSE Hand(a)
  BY <1>2 DEF Hand
<1>11. /\ \A v \in Thread : Read(v)' \subseteq Read(v) /\ Out(v)' = Out(v)
       /\ \A a, b \in Node : Wire(a, b)' = Wire(a, b)
  BY SamePlaces
<1>12. \A v \in Thread : /\ Dealt(v)' \subseteq Dealt(v) \union (IF v = u THEN {x} ELSE {})
                         /\ NodeOf[v] \in Node /\ Read(v) \subseteq Dealt(v)
  BY <1>9, <1>11, ConfigAssumption DEF Dealt
<1>13. OrderInv'
  <2>1. \A y \in Dealt(u) : After(y, x)
    BY <1>0, <1>4 DEF OrderInv, Before
  <2>2. \A v \in Thread : Before(Read(v)', Box(v)')
    BY <1>0, <1>9, <1>11, <1>12, <2>1 DEF OrderInv, Before
  <2>3. \A v \in Thread : Before(Dealt(v)', Hand(NodeOf[v])')
    BY <1>0, <1>4, <1>10, <1>12 DEF OrderInv, Before
  <2>4. \A v \in Thread : \A a \in Node : Before(Dealt(v)', Wire(a, NodeOf[v])')
    BY <1>0, <1>4, <1>11, <1>12 DEF OrderInv, Before
  <2>5. \A v \in Thread : \A t \in Thread : Before(Dealt(v)', Out(t)')
    BY <1>0, <1>4, <1>11, <1>12 DEF OrderInv, Before
  <2>6. /\ \A a, b \in Node : Before(Hand(b)', Wire(a, b)')
        /\ \A b \in Node : \A t \in Thread : Before(Hand(b)', Out(t)')
        /\ \A a, b \in Node : \A t \in Thread : Before(Wire(a, b)', Out(t)')
    BY <1>0, <1>10, <1>11 DEF OrderInv, Before
  <2> QED BY <2>2, <2>3, <2>4, <2>5, <2>6 DEF OrderInv
<1>14. ASSUME NEW v \in Thread, v # u, x \in Dealt(v) PROVE x = Hello
  <2>1. SUFFICES ASSUME x # Hello PROVE FALSE
    OBVIOUS
  <2>2. PICK a : From(x, a, NodeOf[v])
    BY <1>14, PlaceAddr
  <2>3. From(x, peerOf[n], n)
    BY <1>4, PlaceAddr
  <2>4. NodeOf[v] = n
    BY <2>1, <2>2, <2>3 DEF From
  <2>5. After(x, x)
    BY <1>0, <1>4, <1>14, <2>4 DEF OrderInv, Before
  <2>6. x[2] \in Nat /\ x[2] < x[2]
    BY <1>4, <2>1, <2>5, MessageMeans DEF After
  <2> QED BY <2>6
<1>15. ApartInv'
  BY <1>0, <1>12, <1>14 DEF ApartInv
<1>16. RisingM(Append(q, m))
  <2>1. \A e \in Range(q) : After(e.msg, m.msg)
    <3>1. ASSUME NEW e \in Range(q) PROVE After(e.msg, x)
      <4>1. e.msg \in Dealt(u)
        BY <1>6 DEF Box, Dealt
      <4> QED BY <1>0, <1>4, <4>1 DEF OrderInv, Before
    <3> QED BY <1>3, <3>1
  <2> QED BY <1>7, <2>1, PushRisingM
<1>17. \A v \in Thread : RisingM(taskpipe'[v])
  BY <1>0, <1>2, <1>6, <1>16 DEF RiseInv
<1>18. RiseInv'
  BY <1>0, <1>17, SameRise DEF RiseInv
<1> QED BY <1>13, <1>15, <1>18 DEF FlowInv

\* recv: what is returned is later than the results before it.
LEMMA TakeFlow ==
  ASSUME TypeInv, FlowInv, NEW t \in Thread, TakeTask(t), UNCHANGED <<msgpipe, net>>, SameHand,
         Index(t) \in 1 .. Len(Program[t]), Call(t).op \in {"recv", "recv_async"}
  PROVE  FlowInv'
<1>0. OrderInv /\ ApartInv /\ RiseInv
  BY DEF FlowInv
<1>1. /\ taskpipe[t] # <<>> /\ taskpipe'[t] = Tail(taskpipe[t])
      /\ \A v \in Thread \ {t} : taskpipe'[v] = taskpipe[v]
  BY TakeFacts
<1>2. PICK m \in [peer : Node, msg : Message] :
              /\ m = Head(taskpipe[t]) /\ m \in Range(taskpipe[t])
              /\ \A v \in Thread : \A k \in DOMAIN result'[v] :
                   \/ k \in DOMAIN result[v] /\ result'[v][k] = result[v][k]
                   \/ /\ v = t /\ k = Index(t) /\ k \notin DOMAIN result[v]
                      /\ result'[v][k].msg = m.msg /\ result'[v][k].peer = m.peer
              /\ DOMAIN result[t] = 1 .. Index(t) - 1 /\ Index(t) \in Nat
  BY TakeFacts
<1>3. PICK x : x = m.msg
  OBVIOUS
<1>4. x \in Message /\ x \in Box(t)
  BY <1>2, <1>3 DEF Box
<1>5. PICK S : S = [peer : Node, msg : Message]
  OBVIOUS
<1>6. PICK q : q = taskpipe[t]
  OBVIOUS
<1>7. q \in Seq(S) /\ q # <<>> /\ RisingM(q) /\ m = Head(q)
  BY <1>0, <1>1, <1>2, <1>5, <1>6, PipeTypes DEF RiseInv
<1>8. /\ RisingM(Tail(q)) /\ Range(Tail(q)) \subseteq Range(q)
      /\ \A e \in Range(Tail(q)) : After(x, e.msg)
  BY <1>3, <1>7, PopRisingM, PopFacts
<1>9. \A v \in Thread : Box(v)' \subseteq Box(v)
  <2> SUFFICES ASSUME NEW v \in Thread, NEW y \in Box(v)' PROVE y \in Box(v)
    OBVIOUS
  <2>1. PICK e \in Range(taskpipe'[v]) : y = e.msg
    BY DEF Box
  <2> QED BY <1>1, <1>6, <1>8, <2>1 DEF Box
<1>10. \A y \in Box(t)' : After(x, y)
  BY <1>1, <1>6, <1>8 DEF Box
<1>11. \A v \in Thread : Read(v)' \subseteq Read(v) \union (IF v = t THEN {x} ELSE {})
  <2> SUFFICES ASSUME NEW v \in Thread, NEW y \in Read(v)'
               PROVE  y \in Read(v) \union (IF v = t THEN {x} ELSE {})
    OBVIOUS
  <2>1. PICK k \in DOMAIN result'[v] : IsGot(v, k)' /\ y = result'[v][k].msg
    BY DEF Read
  <2>2. CASE k \in DOMAIN result[v] /\ result'[v][k] = result[v][k]
    <3>1. IsGot(v, k)
      BY <2>1, <2>2 DEF IsGot
    <3> QED BY <2>1, <2>2, <3>1 DEF Read
  <2>3. CASE v = t /\ result'[v][k].msg = m.msg
    BY <1>3, <2>1, <2>3
  <2> QED BY <1>2, <2>2, <2>3
<1>12. /\ \A v \in Thread : Out(v)' = Out(v)
       /\ \A a, b \in Node : Wire(a, b)' = Wire(a, b)
       /\ \A a \in Node : Hand(a)' = Hand(a)
  BY SamePlaces
<1>13. \A v \in Thread : Dealt(v)' \subseteq Dealt(v) /\ NodeOf[v] \in Node
  BY <1>4, <1>9, <1>11, ConfigAssumption DEF Dealt
<1>14. ApartInv'
  BY <1>0, <1>13 DEF ApartInv
<1>15. OrderInv'
  <2>1. \A v \in Thread : Before(Read(v)', Box(v)')
    BY <1>0, <1>9, <1>10, <1>11 DEF OrderInv, Before
  <2>2. \A v \in Thread : /\ Before(Dealt(v)', Hand(NodeOf[v])')
                          /\ \A a \in Node : Before(Dealt(v)', Wire(a, NodeOf[v])')
                          /\ \A u \in Thread : Before(Dealt(v)', Out(u)')
    BY <1>0, <1>12, <1>13 DEF OrderInv, Before
  <2>3. /\ \A a, b \in Node : Before(Hand(b)', Wire(a, b)')
        /\ \A b \in Node : \A u \in Thread : Before(Hand(b)', Out(u)')
        /\ \A a, b \in Node : \A u \in Thread : Before(Wire(a, b)', Out(u)')
    BY <1>0, <1>12 DEF OrderInv, Before
  <2> QED BY <2>1, <2>2, <2>3 DEF OrderInv
<1>16. \A v \in Thread : RisingM(taskpipe'[v])
  BY <1>0, <1>1, <1>6, <1>8 DEF RiseInv
<1>17. ASSUME NEW v \in Thread, NEW i \in DOMAIN result'[v], NEW j \in DOMAIN result'[v],
              i < j, IsGot(v, i)', IsGot(v, j)'
       PROVE  After(result'[v][i].msg, result'[v][j].msg)
  <2>1. CASE /\ i \in DOMAIN result[v] /\ result'[v][i] = result[v][i]
             /\ j \in DOMAIN result[v] /\ result'[v][j] = result[v][j]
    <3>1. IsGot(v, i) /\ IsGot(v, j)
      BY <1>17, <2>1 DEF IsGot
    <3> QED BY <1>0, <1>17, <2>1, <3>1 DEF RiseInv
  <2>2. CASE /\ i \in DOMAIN result[v] /\ result'[v][i] = result[v][i]
             /\ v = t /\ result'[v][j].msg = m.msg
    <3>1. IsGot(v, i)
      BY <1>17, <2>2 DEF IsGot
    <3>2. result[v][i].msg \in Read(t)
      BY <2>2, <3>1 DEF Read
    <3> QED BY <1>0, <1>3, <1>4, <2>2, <3>2 DEF OrderInv, Before
  <2>3. CASE v = t /\ i = Index(t)
    <3>1. j \in 1 .. Index(t)
      BY <1>2, <2>3
    <3> QED BY <1>2, <1>17, <2>3, <3>1
  <2> QED BY <1>2, <2>1, <2>2, <2>3
<1>18. \A a, b \in Node : Rising(net'[a][b])
  BY <1>0, SameRise
<1>19. \A v \in Thread : RisingM(msgpipe'[v])
  BY <1>0, SameRise
<1>20. RiseInv'
  BY <1>16, <1>17, <1>18, <1>19 DEF RiseInv
<1> QED BY <1>14, <1>15, <1>20 DEF FlowInv

\* At the start no message is on its way.
LEMMA InitFlow == Init => FlowInv
<1> SUFFICES ASSUME Init PROVE FlowInv
  OBVIOUS
<1>1. \A t \in Thread : /\ DOMAIN result[t] = {} /\ DOMAIN msgpipe[t] = {} /\ DOMAIN taskpipe[t] = {}
                        /\ Range(msgpipe[t]) = {} /\ Range(taskpipe[t]) = {}
  BY NothingQueued DEF Init
<1>2. \A n, p \in Node : Range(net[n][p]) = {} /\ DOMAIN net[n][p] = {}
  BY NothingQueued DEF Init
<1>3. \A n \in Node : hpc[n] # "push"
  BY DEF Init
<1>4. /\ \A t \in Thread : Out(t) = {} /\ Box(t) = {} /\ Read(t) = {} /\ Dealt(t) = {}
      /\ \A n \in Node : Hand(n) = {}
      /\ \A n, p \in Node : Wire(n, p) = {}
  BY <1>1, <1>2, <1>3 DEF Out, Box, Read, Dealt, Hand, Wire
<1>5. OrderInv /\ ApartInv
  BY <1>4, ConfigAssumption DEF OrderInv, Before, ApartInv
<1>6. RiseInv
  BY <1>1, <1>2 DEF RiseInv, Rising, RisingM
<1> QED BY <1>5, <1>6 DEF FlowInv

\* Every step preserves FlowInv.
LEMMA NextFlow == TypeInv /\ TypeInv' /\ PullInv /\ AddrInv /\ FlowInv /\ [Next]_vars => FlowInv'
<1> SUFFICES ASSUME TypeInv, TypeInv', PullInv, AddrInv, FlowInv, [Next]_vars PROVE FlowInv'
  OBVIOUS
<1>1. CASE UNCHANGED <<msgpipe, net, taskpipe>> /\ SameHand /\ SameRead
  <2>1. OrderInv' /\ ApartInv'
    BY <1>1, SamePlaces, ShrinkOrder DEF FlowInv
  <2>2. RiseInv'
    BY <1>1, SameRise DEF RiseInv, FlowInv
  <2> QED BY <2>1, <2>2 DEF FlowInv
<1> QED BY <1>1, SendFlow, MsgqFlow, HelloFlow, RouterFlow, PushFlow, TakeFlow, FlowSteps

\* What the invariants say of the messages that recv returned.
LEMMA MessagesMean ==
  ASSUME TypeInv, AddrInv, FlowInv
  PROVE  /\ \A c \in GotMessage :
              LET m == Res(c).msg
              IN  /\ NodeOf[m[1]] = Res(c).peer
                  /\ Program[m[1]][m[2]].peer = NodeOf[c[1]]
         /\ \A c, d \in GotMessage : Res(c).msg = Res(d).msg => c = d
         /\ \A c, d \in GotMessage :
              c[1] = d[1] /\ c[2] < d[2] /\ Res(c).msg[1] = Res(d).msg[1]
                => Res(c).msg[2] < Res(d).msg[2]
<1>1. ASSUME NEW c \in GotMessage
      PROVE  /\ c[1] \in Thread /\ c[2] \in DOMAIN result[c[1]] /\ c = <<c[1], c[2]>>
             /\ c[2] \in Nat
             /\ IsGot(c[1], c[2]) /\ Res(c) = result[c[1]][c[2]]
             /\ Res(c).msg \in Message /\ Res(c).msg # Hello
             /\ Res(c).msg \in Dealt(c[1])
  <2>1. c \in CallsMade /\ OpOf(c) \in {"recv", "recv_async"} /\ Res(c).ret = "ok"
        /\ Res(c).msg # Hello
    BY DEF GotMessage, Got
  <2>2. c[1] \in Thread /\ c[2] \in DOMAIN result[c[1]] /\ c = <<c[1], c[2]>>
    BY <2>1, MadeMeans
  <2>3. PICK t \in Thread : t = c[1]
    BY <2>2
  <2>4. PICK k : k = c[2]
    OBVIOUS
  <2>5. k \in DOMAIN result[t] /\ IsGot(t, k) /\ Res(c) = result[t][k] /\ k \in Nat
    BY <2>1, <2>2, <2>3, <2>4, PipeTypes, DomainNat DEF IsGot, OpOf, Res
  <2>6. result[t][k].msg \in Message
    BY <2>5, PipeTypes
  <2>7. result[t][k].msg \in Dealt(t)
    BY <2>5 DEF Dealt, Read
  <2> QED BY <2>1, <2>2, <2>3, <2>4, <2>5, <2>6, <2>7
<1>2. ASSUME NEW c \in GotMessage
      PROVE  LET m == Res(c).msg
             IN  NodeOf[m[1]] = Res(c).peer /\ Program[m[1]][m[2]].peer = NodeOf[c[1]]
  <2>1. PICK x : x = Res(c).msg
    OBVIOUS
  <2>2. From(x, Res(c).peer, NodeOf[c[1]]) /\ x # Hello
    BY <1>1, <2>1 DEF AddrInv, ReadAddr
  <2> QED BY <2>1, <2>2 DEF From
<1>3. ASSUME NEW c \in GotMessage, NEW d \in GotMessage, c[1] = d[1], c[2] < d[2],
             Res(c).msg[1] = Res(d).msg[1]
      PROVE  Res(c).msg[2] < Res(d).msg[2]
  <2>1. After(Res(c).msg, Res(d).msg)
    BY <1>1, <1>3 DEF FlowInv, RiseInv
  <2> QED BY <1>1, <1>3, <2>1 DEF After
<1>4. ASSUME NEW c \in GotMessage, NEW d \in GotMessage, Res(c).msg = Res(d).msg
      PROVE  c = d
  <2>1. c[1] = d[1]
    BY <1>1, <1>4 DEF FlowInv, ApartInv
  <2>2. Res(c).msg[2] \in Nat
    BY <1>1, MessageMeans
  <2>3. ~(c[2] < d[2]) /\ ~(d[2] < c[2])
    BY <1>3, <1>4, <2>1, <2>2
  <2>4. c[2] = d[2]
    BY <1>1, <2>3
  <2>5. c = <<c[1], c[2]>> /\ d = <<d[1], d[2]>>
    BY <1>1
  <2> QED BY <2>1, <2>4, <2>5
<1> QED BY <1>2, <1>3, <1>4

-----------------------------------------------------------------------------
(* Greetings. *)

\* n is greeting d.
Greets(n, d) == hpc[n] = "hello" /\ peerOf[n] = d

\* The first thing a node sends to one that does not know it is the greeting:
\* while the identity of d reaches n, n is still in the loop that greets d.
FirstInv ==
  /\ \A n, d \in Node : <<n, d>> \in link => d \in route[n] \/ Greets(n, d)
  /\ \A n, d \in Node : d \in route[n] /\ n \notin clientmap[d] /\ net[n][d] = <<>> => Greets(n, d)
  /\ \A n, d \in Node : n \notin clientmap[d] /\ net[n][d] # <<>> => Head(net[n][d]) = Hello

\* Nothing new is linked or sent, and nobody stops greeting.
LEMMA QuietFirst ==
  ASSUME TypeInv, [Next]_vars, FirstInv, UNCHANGED <<link, route, net>>,
         \A n \in Node : hpc[n] = "hello" => hpc'[n] = "hello" /\ peerOf'[n] = peerOf[n]
  PROVE  FirstInv'
<1>1. \A n, d \in Node : Greets(n, d) => Greets(n, d)'
  BY DEF Greets
<1>2. \A n, d \in Node : n \notin clientmap'[d] => n \notin clientmap[d]
  BY ClientsStay
<1> QED BY <1>1, <1>2 DEF FirstInv

\* Message x joins the channel from m to d.
LEMMA SentFirst ==
  ASSUME TypeInv, [Next]_vars, FirstInv, UNCHANGED <<link, route>>,
         NEW m \in Node, NEW d \in Node, NEW x \in Message, d \in route[m],
         net'[m][d] = Append(net[m][d], x),
         \A a, b \in Node : <<a, b>> # <<m, d>> => net'[a][b] = net[a][b],
         \/ x = Hello /\ Greets(m, d)
         \/ hpc[m] # "hello",
         \A n \in Node \ {m} : hpc[n] = "hello" => hpc'[n] = "hello" /\ peerOf'[n] = peerOf[n]
  PROVE  FirstInv'
<1>1. net[m][d] \in Seq(Message)
  BY NetType DEF TypeInv
<1>2. \A a, b \in Node : a # m \/ b # d => net'[a][b] = net[a][b]
  OBVIOUS
<1>3. \A n, e \in Node : n \notin clientmap'[e] => n \notin clientmap[e]
  BY ClientsStay
<1>4. Append(net[m][d], x) # <<>>
  BY <1>1, PushFacts
<1>5. \A n \in Node \ {m} : \A e \in Node : Greets(n, e) => Greets(n, e)'
  BY DEF Greets
<1>6. \A e \in Node : Greets(m, e) => e = d
  BY DEF Greets
<1>7. ASSUME NEW n \in Node, NEW e \in Node, <<n, e>> \in link'
      PROVE  e \in route'[n] \/ Greets(n, e)'
  <2>1. e \in route[n] \/ Greets(n, e)
    BY <1>7 DEF FirstInv
  <2> QED BY <1>5, <1>6, <2>1
<1>8. ASSUME NEW n \in Node, NEW e \in Node, e \in route'[n], n \notin clientmap'[e], net'[n][e] = <<>>
      PROVE  Greets(n, e)'
  <2>1. n # m \/ e # d
    BY <1>4, <1>8
  <2>2. Greets(n, e)
    BY <1>2, <1>3, <1>8, <2>1 DEF FirstInv
  <2> QED BY <1>5, <1>6, <2>1, <2>2
<1>9. ASSUME NEW n \in Node, NEW e \in Node, n \notin clientmap'[e], net'[n][e] # <<>>
      PROVE  Head(net'[n][e]) = Hello
  <2>1. CASE n = m /\ e = d
    <3>1. CASE net[m][d] = <<>>
      <4>1. Greets(m, d) /\ x = Hello
        BY <1>3, <1>9, <2>1, <3>1 DEF FirstInv, Greets
      <4>2. Append(<<>>, x) = <<x>> /\ Head(<<x>>) = x
        BY OneQueued
      <4> QED BY <2>1, <3>1, <4>1, <4>2
    <3>2. CASE net[m][d] # <<>>
      <4>1. Head(net[m][d]) = Hello
        BY <1>3, <1>9, <2>1, <3>2 DEF FirstInv
      <4>2. Head(Append(net[m][d], x)) = Head(net[m][d])
        BY <1>1, <3>2
      <4> QED BY <2>1, <4>1, <4>2
    <3> QED BY <3>1, <3>2
  <2>2. CASE n # m \/ e # d
    BY <1>2, <1>3, <1>9, <2>2 DEF FirstInv
  <2> QED BY <2>1, <2>2
<1> QED BY <1>7, <1>8, <1>9 DEF FirstInv

\* Every step of a communication thread preserves it.
LEMMA HandlerFirst ==
  ASSUME TypeInv, Next, FirstInv, NEW m \in Node, HandlerNext(m)
  PROVE  FirstInv'
<1>0. /\ [Next]_vars /\ TypeOK
      /\ hpc \in [Node -> {"start", "handle", "poll", "push", "hello", "stopped", "dead"}]
      /\ peerOf \in [Node -> Node]
  BY DEF TypeInv, TypeOK
<1>1. ASSUME NEW s, hpc[m] # "hello", hpc' = [hpc EXCEPT ![m] = s], UNCHANGED <<peerOf, link, route, net>>
      PROVE  FirstInv'
  <2>1. \A n \in Node : hpc[n] = "hello" => hpc'[n] = "hello" /\ peerOf'[n] = peerOf[n]
    BY <1>0, <1>1
  <2> QED BY <1>0, <1>1, <2>1, QuietFirst
<1>2. CASE SetupNext(m)
  BY <1>1, <1>2 DEF SetupNext, HandlerStarts, MonitorFails, SetupThrows, Fail, Die, setupRest
<1>3. CASE PollBegins(m) \/ PollReturns(m) \/ PollFails(m) \/ EventFails(m)
  BY <1>1, <1>3 DEF PollBegins, PollReturns, PollFails, EventFails, Fail, Die, pollRest, netVars
<1>4. CASE PushTask(m) \/ RecvFails(m) \/ HandleShutdown(m)
  BY <1>1, <1>4 DEF PushTask, RecvFails, HandleShutdown, TakeRequest, Turn, Fail, Die, netVars
<1>5. ASSUME NEW t \in Thread, HandleConnFails(m, t) PROVE FirstInv'
  BY <1>1, <1>5 DEF HandleConnFails, TakeRequest, Turn, Fail, Die, connRest
<1>6. ASSUME NEW t \in Thread, HandleMsgq(m, t) PROVE FirstInv'
  <2>1. PICK q \in [peer : Node, msg : Message] :
              /\ q = Head(msgpipe[t])
              /\ \/ UNCHANGED net
                 \/ /\ net'[m][q.peer] = Append(net[m][q.peer], q.msg)
                    /\ \A a, b \in Node : <<a, b>> # <<m, q.peer>> => net'[a][b] = net[a][b]
    BY <1>6, MsgqFacts
  <2>2. q.peer \in Node /\ q.msg \in Message /\ UNCHANGED <<hpc, peerOf, link, route>> /\ hpc[m] = "handle"
    BY <1>6, <2>1 DEF HandleMsgq, Turn
  <2>3. CASE UNCHANGED net
    BY <1>0, <2>2, <2>3, QuietFirst
  <2>4. CASE net' # net
    <3>1. q.peer \in route[m]
      BY <1>6, <2>1, <2>4 DEF HandleMsgq
    <3>2. /\ net'[m][q.peer] = Append(net[m][q.peer], q.msg)
          /\ \A a, b \in Node : <<a, b>> # <<m, q.peer>> => net'[a][b] = net[a][b]
      BY <2>1, <2>4
    <3> QED BY <1>0, <2>2, <3>1, <3>2, SentFirst
  <2> QED BY <2>3, <2>4
<1>7. CASE SendHello(m)
  <2>1. PICK d \in Node :
           /\ d = peerOf[m] /\ hpc[m] = "hello" /\ d \in route[m]
           /\ net'[m][d] = Append(net[m][d], Hello)
           /\ \A a, b \in Node : <<a, b>> # <<m, d>> => net'[a][b] = net[a][b]
    BY <1>7, HelloFacts
  <2>2. Greets(m, d) /\ Hello \in Message
    BY <2>1, MessageType DEF Greets
  <2>3. /\ UNCHANGED <<peerOf, link, route>>
        /\ hpc' = [hpc EXCEPT ![m] = "handle"]
    BY <1>7 DEF SendHello
  <2>4. \A n \in Node \ {m} : hpc[n] = "hello" => hpc'[n] = "hello" /\ peerOf'[n] = peerOf[n]
    BY <1>0, <2>3
  <2> QED BY <1>0, <2>1, <2>2, <2>3, <2>4, SentFirst
<1>8. ASSUME NEW t \in Thread, HandleConn(m, t) PROVE FirstInv'
  <2>1. PICK e : e = Head(connpipe[t])
    OBVIOUS
  <2>2. e \in Node /\ hpc[m] = "handle"
    BY <1>0, <1>8, <2>1, PopFacts DEF TypeOK, HandleConn, TakeRequest, Turn
  <2>3. /\ link' = link \union {<<m, e>>} /\ peerOf' = [peerOf EXCEPT ![m] = e]
        /\ hpc' = [hpc EXCEPT ![m] = "hello"] /\ UNCHANGED <<route, net>>
    BY <1>8, <2>1 DEF HandleConn, connRest
  <2>4. \A n, d \in Node : Greets(n, d) => Greets(n, d)'
    BY <1>0, <2>2, <2>3 DEF Greets
  <2>5. Greets(m, e)'
    BY <1>0, <2>2, <2>3 DEF Greets
  <2>6. \A n, d \in Node : n \notin clientmap'[d] => n \notin clientmap[d]
    BY <1>0, ClientsStay
  <2>7. ASSUME NEW n \in Node, NEW d \in Node, <<n, d>> \in link'
        PROVE  d \in route'[n] \/ Greets(n, d)'
    <3>1. <<n, d>> \in link \/ (n = m /\ d = e)
      BY <2>3, <2>7
    <3> QED BY <2>3, <2>4, <2>5, <3>1 DEF FirstInv
  <2> QED BY <2>3, <2>4, <2>6, <2>7 DEF FirstInv
<1>9. ASSUME NEW p \in Node, HandleRouter(m, p) PROVE FirstInv'
  <2>1. /\ \A a, b \in Node : <<a, b>> # <<p, m>> => net'[a][b] = net[a][b]
        /\ hpc[m] = "handle"
        /\ \A n \in Node \ {m} : hpc'[n] = hpc[n] /\ pend'[n] = pend[n] /\ peerOf'[n] = peerOf[n]
    BY <1>9, RouterFacts
  <2>2. \A a, b \in Node : a # p \/ b # m => net'[a][b] = net[a][b]
    BY <2>1
  <2>3. p \in clientmap'[m] /\ UNCHANGED <<link, route>>
    <3>1. CASE p \notin clientmap[m]
      <4>1. clientmap' = [clientmap EXCEPT ![m] = @ \union {p}] /\ UNCHANGED <<link, route>>
        BY <1>9, <3>1 DEF HandleRouter, Register
      <4> QED BY <1>0, <4>1 DEF TypeOK
    <3>2. CASE p \in clientmap[m]
      BY <1>0, <1>9, <3>2, ClientsStay DEF HandleRouter
    <3> QED BY <3>1, <3>2
  <2>4. \A n, d \in Node : Greets(n, d) => Greets(n, d)'
    BY <2>1 DEF Greets
  <2>5. \A n, d \in Node : n \notin clientmap'[d] => n \notin clientmap[d]
    BY <1>0, ClientsStay
  <2>6. \A n, d \in Node : n \notin clientmap'[d] => net'[n][d] = net[n][d]
    BY <2>2, <2>3
  <2> QED BY <2>3, <2>4, <2>5, <2>6 DEF FirstInv
<1> QED
  BY <1>2, <1>3, <1>4, <1>5, <1>6, <1>7, <1>8, <1>9 DEF HandlerNext

\* It holds at the start.
LEMMA InitFirst == Init => FirstInv
  BY DEF Init, FirstInv

\* Every step preserves it; a connection that is established was asked for by a
\* node that is still greeting, and the other end knows it already.
LEMMA NextFirst == TypeInv /\ GreetInv /\ FirstInv /\ [Next]_vars => FirstInv'
<1> SUFFICES ASSUME TypeInv, GreetInv, FirstInv, [Next]_vars PROVE FirstInv'
  OBVIOUS
<1>1. CASE UNCHANGED <<hpc, peerOf, link, route, net>>
  BY <1>1, QuietFirst
<1>2. ASSUME NEW m \in Node, CtorReturns(m) PROVE FirstInv'
  BY <1>1, <1>2 DEF CtorReturns, hVars, netVars
<1>3. ASSUME NEW t \in Thread, ThreadNext(t) PROVE UNCHANGED <<hpc, peerOf, link, route, net>>
  BY <1>3 DEF ThreadNext, Refused, connect_to, ConnectRequest, ConnectPushFails, ConnectWakes,
       ConnectReturns, AcceptRefused, get_one_connection, AcceptReturns, send, SendReturns,
       recv, RecvReturns, recv_async, shutdown, ShutdownReturns, handlerRest, hVars, netVars
<1>4. ASSUME NEW a \in Node, NEW b \in Node, Handshake(a, b) PROVE FirstInv'
  <2>1. /\ <<a, b>> \in link /\ link' \subseteq link /\ UNCHANGED <<hpc, peerOf, net, clientmap>>
        /\ route' = [route EXCEPT ![a] = @ \union {b}, ![b] = @ \union {a}]
    BY <1>4 DEF Handshake, hVars
  <2>2. b \in clientmap[a] /\ (b \in route[a] \/ Greets(a, b))
    BY <2>1 DEF GreetInv, FirstInv
  <2>3. \A n, d \in Node : Greets(n, d) => Greets(n, d)'
    BY <2>1 DEF Greets
  <2>4. route \in [Node -> SUBSET Node]
    BY DEF TypeInv, TypeOK
  <2>5. ASSUME NEW n \in Node, NEW d \in Node
        PROVE  /\ d \in route[n] => d \in route'[n]
               /\ d \in route'[n] => d \in route[n] \/ (n = a /\ d = b) \/ (n = b /\ d = a)
    BY <2>1, <2>4
  <2>6. ASSUME NEW n \in Node, NEW d \in Node, d \in route'[n], n \notin clientmap'[d], net'[n][d] = <<>>
        PROVE  Greets(n, d)'
    BY <2>1, <2>2, <2>3, <2>5, <2>6 DEF FirstInv
  <2> QED BY <2>1, <2>3, <2>5, <2>6 DEF FirstInv
<1>5. CASE UNCHANGED vars
  BY <1>1, <1>5 DEF vars
<1>6. ASSUME Next, NEW m \in Node, HandlerNext(m) PROVE FirstInv'
  BY <1>6, HandlerFirst
<1> QED BY <1>1, <1>2, <1>3, <1>4, <1>5, <1>6 DEF Next

\* Whose messages are handed to the application is known to the node.
PeerInv ==
  /\ \A n \in Node : hpc[n] = "push" => peerOf[n] \in clientmap[n]
  /\ \A u \in Thread : \A m \in Range(taskpipe[u]) : m.peer \in clientmap[NodeOf[u]]
  /\ \A u \in Thread : \A k \in DOMAIN result[u] :
       IsGot(u, k) => result[u][k].peer \in clientmap[NodeOf[u]]

\* It holds at the start.
LEMMA InitPeer == Init => PeerInv
<1> SUFFICES ASSUME Init PROVE PeerInv
  OBVIOUS
<1>1. ASSUME NEW u \in Thread PROVE Range(taskpipe[u]) = {} /\ DOMAIN result[u] = {}
  BY NothingQueued DEF Init
<1>2. \A n \in Node : hpc[n] # "push"
  BY DEF Init
<1> QED BY <1>1, <1>2 DEF PeerInv

\* Every step preserves it: only messages of known peers are handed on.
LEMMA NextPeer == TypeInv /\ PullInv /\ PeerInv /\ [Next]_vars => PeerInv'
<1> SUFFICES ASSUME TypeInv, PullInv, PeerInv, [Next]_vars PROVE PeerInv'
  OBVIOUS
<1>0. \A u \in Thread : NodeOf[u] \in Node
  BY ConfigAssumption
<1>1. \A n, d \in Node : n \in clientmap[d] => n \in clientmap'[d]
  BY ClientsStay
<1>2. ASSUME SameHand PROVE \A n \in Node : hpc'[n] = "push" => peerOf'[n] \in clientmap'[n]
  BY <1>1, <1>2, PipeTypes DEF SameHand, PeerInv
<1>3. ASSUME UNCHANGED taskpipe
      PROVE  \A u \in Thread : \A m \in Range(taskpipe'[u]) : m.peer \in clientmap'[NodeOf[u]]
  <2>1. ASSUME NEW u \in Thread, NEW m \in Range(taskpipe[u]) PROVE m.peer \in clientmap'[NodeOf[u]]
    BY <1>0, <1>1, PipeTypes DEF PeerInv
  <2> QED BY <1>3, <2>1
<1>4. ASSUME SameRead
      PROVE  \A u \in Thread : \A k \in DOMAIN result'[u] :
               IsGot(u, k)' => result'[u][k].peer \in clientmap'[NodeOf[u]]
  <2>1. ASSUME NEW u \in Thread, NEW k \in DOMAIN result'[u], IsGot(u, k)'
        PROVE  result'[u][k].peer \in clientmap'[NodeOf[u]]
    <3>1. k \in DOMAIN result[u] /\ result'[u][k] = result[u][k]
      BY <1>4, <2>1 DEF SameRead
    <3>2. IsGot(u, k)
      BY <2>1, <3>1 DEF IsGot
    <3> QED BY <1>0, <1>1, <3>1, <3>2, PipeTypes DEF PeerInv
  <2> QED BY <2>1
<1>5. CASE UNCHANGED taskpipe /\ SameHand /\ SameRead
  BY <1>2, <1>3, <1>4, <1>5 DEF PeerInv
<1>6. ASSUME NEW n \in Node, NEW p \in Node, HandleRouter(n, p), UNCHANGED taskpipe, SameRead
      PROVE  PeerInv'
  <2>1. /\ hpc'[n] = "push" => peerOf'[n] = p /\ p \in clientmap[n]
        /\ \A m \in Node \ {n} : hpc'[m] = hpc[m] /\ peerOf'[m] = peerOf[m]
    BY <1>6 DEF HandleRouter, Turn, TypeInv, TypeOK
  <2>2. \A m \in Node : hpc'[m] = "push" => peerOf'[m] \in clientmap'[m]
    BY <1>1, <2>1, PipeTypes DEF PeerInv
  <2> QED BY <1>3, <1>4, <1>6, <2>2 DEF PeerInv
<1>7. ASSUME NEW n \in Node, PushTask(n), SameRead PROVE PeerInv'
  <2>1. PICK u \in ThreadsOf(n) : \E m \in [peer : Node, msg : Message] :
           /\ m.peer = peerOf[n] /\ m.msg = pend[n]
           /\ hpc[n] = "push" /\ hpc'[n] = "handle"
           /\ \A k \in Node \ {n} : hpc'[k] = hpc[k]
           /\ UNCHANGED <<pend, peerOf>>
           /\ taskpipe'[u] = Append(taskpipe[u], m)
           /\ \A v \in Thread \ {u} : taskpipe'[v] = taskpipe[v]
    BY <1>7, PushTaskFacts
  <2>2. PICK m \in [peer : Node, msg : Message] :
           /\ m.peer = peerOf[n] /\ m.msg = pend[n]
           /\ hpc[n] = "push" /\ hpc'[n] = "handle"
           /\ \A k \in Node \ {n} : hpc'[k] = hpc[k]
           /\ UNCHANGED <<pend, peerOf>>
           /\ taskpipe'[u] = Append(taskpipe[u], m)
           /\ \A v \in Thread \ {u} : taskpipe'[v] = taskpipe[v]
    BY <2>1
  <2>3. u \in Thread /\ NodeOf[u] = n
    BY DEF ThreadsOf
  <2>4. PICK S : S = [peer : Node, msg : Message]
    OBVIOUS
  <2>5. PICK q : q = taskpipe[u]
    OBVIOUS
  <2>6. q \in Seq(S) /\ m \in S
    BY <2>3, <2>4, <2>5, PipeTypes
  <2>7. Range(Append(q, m)) = Range(q) \union {m}
    BY <2>6, PushFacts
  <2>8. m.peer \in clientmap[n] /\ m.peer \in Node
    BY <2>2, PipeTypes DEF PeerInv
  <2>9. ASSUME NEW v \in Thread, NEW e \in Range(taskpipe'[v])
        PROVE  e.peer \in clientmap'[NodeOf[v]]
    <3>1. (v = u /\ e = m) \/ e \in Range(taskpipe[v])
      BY <2>2, <2>5, <2>7, <2>9
    <3>2. ASSUME e \in Range(taskpipe[v]) PROVE e.peer \in clientmap'[NodeOf[v]]
      BY <1>0, <1>1, <3>2, PipeTypes DEF PeerInv
    <3> QED BY <1>1, <2>3, <2>8, <3>1, <3>2
  <2>10. \A k \in Node : hpc'[k] = "push" => peerOf'[k] \in clientmap'[k]
    BY <1>1, <2>2, PipeTypes DEF PeerInv
  <2> QED BY <1>4, <1>7, <2>9, <2>10 DEF PeerInv
<1>8. ASSUME NEW t \in Thread, TakeTask(t), SameHand,
             Index(t) \in 1 .. Len(Program[t]), Call(t).op \in {"recv", "recv_async"}
      PROVE  PeerInv'
  <2>1. taskpipe[t] # <<>> /\ taskpipe'[t] = Tail(taskpipe[t])
        /\ \A v \in Thread \ {t} : taskpipe'[v] = taskpipe[v]
    BY <1>8, TakeFacts
  <2>2. PICK m \in [peer : Node, msg : Message] :
              /\ m = Head(taskpipe[t]) /\ m \in Range(taskpipe[t])
              /\ \A v \in Thread : \A k \in DOMAIN result'[v] :
                   \/ k \in DOMAIN result[v] /\ result'[v][k] = result[v][k]
                   \/ /\ v = t /\ k = Index(t) /\ k \notin DOMAIN result[v]
                      /\ result'[v][k].msg = m.msg /\ result'[v][k].peer = m.peer
    BY <1>8, TakeFacts
  <2>3. PICK S : S = [peer : Node, msg : Message]
    OBVIOUS
  <2>4. PICK q : q = taskpipe[t]
    OBVIOUS
  <2>5. q \in Seq(S) /\ q # <<>>
    BY <2>1, <2>3, <2>4, PipeTypes
  <2>6. Range(Tail(q)) \subseteq Range(q)
    BY <2>5, PopFacts
  <2>7. \A v \in Thread : Range(taskpipe'[v]) \subseteq Range(taskpipe[v])
    BY <2>1, <2>4, <2>6
  <2>8. ASSUME NEW v \in Thread, NEW e \in Range(taskpipe'[v])
        PROVE  e.peer \in clientmap'[NodeOf[v]]
    <3>1. e \in Range(taskpipe[v])
      BY <2>7
    <3> QED BY <1>0, <1>1, <3>1, PipeTypes DEF PeerInv
  <2>9. m.peer \in clientmap'[NodeOf[t]]
    BY <1>0, <1>1, <2>2, PipeTypes DEF PeerInv
  <2>10. ASSUME NEW v \in Thread, NEW k \in DOMAIN result'[v], IsGot(v, k)'
         PROVE  result'[v][k].peer \in clientmap'[NodeOf[v]]
    <3>1. CASE k \in DOMAIN result[v] /\ result'[v][k] = result[v][k]
      <4>1. IsGot(v, k)
        BY <2>10, <3>1 DEF IsGot
      <4> QED BY <1>0, <1>1, <3>1, <4>1, PipeTypes DEF PeerInv
    <3>2. CASE v = t /\ result'[v][k].peer = m.peer
      BY <2>9, <3>2
    <3> QED BY <2>2, <3>1, <3>2
  <2> QED BY <1>2, <1>8, <2>8, <2>10 DEF PeerInv
<1> QED
  <2>1. \/ UNCHANGED <<msgpipe, net, taskpipe>> /\ SameHand /\ SameRead
        \/ \E t \in Thread : send(t) /\ UNCHANGED <<net, taskpipe>> /\ SameHand /\ SameRead
        \/ \E n \in Node : \E t \in Thread :
             HandleMsgq(n, t) /\ UNCHANGED taskpipe /\ SameHand /\ SameRead
        \/ \E n \in Node : SendHello(n) /\ UNCHANGED <<msgpipe, taskpipe>> /\ SameHand /\ SameRead
        => PeerInv'
    BY <1>5
  <2> QED BY <1>6, <1>7, <1>8, <2>1, FlowSteps

-----------------------------------------------------------------------------
(* Counting. *)

\* A condition as a number.
Bit(b) == IF b THEN 1 ELSE 0

\* Where x stands in the queues of the family F: pairs of a queue and an index.
Spots(F, x) ==
  {s \in UNION {{u} \X DOMAIN F[u] : u \in DOMAIN F} : F[s[1]][s[2]] = x}

\* What a spot is.
LEMMA SpotMeans ==
  ASSUME NEW F, NEW x, NEW s
  PROVE  s \in Spots(F, x) <=>
           /\ s[1] \in DOMAIN F /\ s[2] \in DOMAIN F[s[1]] /\ s = <<s[1], s[2]>>
           /\ F[s[1]][s[2]] = x
<1>1. ASSUME s \in Spots(F, x)
      PROVE  /\ s[1] \in DOMAIN F /\ s[2] \in DOMAIN F[s[1]] /\ s = <<s[1], s[2]>>
             /\ F[s[1]][s[2]] = x
  <2>1. PICK u \in DOMAIN F : s \in {u} \X DOMAIN F[u]
    BY <1>1 DEF Spots
  <2>2. F[s[1]][s[2]] = x
    BY <1>1 DEF Spots
  <2>3. s[1] = u /\ s[2] \in DOMAIN F[u] /\ s = <<s[1], s[2]>>
    BY <2>1
  <2> QED BY <2>2, <2>3
<1>2. ASSUME s[1] \in DOMAIN F, s[2] \in DOMAIN F[s[1]], s = <<s[1], s[2]>>, F[s[1]][s[2]] = x
      PROVE  s \in Spots(F, x)
  <2>1. s \in {s[1]} \X DOMAIN F[s[1]]
    BY <1>2
  <2> QED BY <1>2, <2>1 DEF Spots
<1> QED BY <1>1, <1>2

\* A pair named by its parts.
LEMMA PairSpot ==
  ASSUME NEW F, NEW x, NEW u, NEW i
  PROVE  <<u, i>> \in Spots(F, x) <=> u \in DOMAIN F /\ i \in DOMAIN F[u] /\ F[u][i] = x
<1>1. PICK s : s = <<u, i>>
  OBVIOUS
<1>2. s[1] = u /\ s[2] = i
  BY <1>1
<1> QED BY <1>1, <1>2, SpotMeans

\* One queue loses its head: if that was an x, there is one x less.
LEMMA PopSpots ==
  ASSUME NEW S, NEW I, NEW F \in [I -> Seq(S)], NEW G \in [I -> Seq(S)], NEW t \in I, NEW x,
         F[t] # <<>>, G[t] = Tail(F[t]), \A u \in I \ {t} : G[u] = F[u],
         IsFiniteSet(Spots(F, x))
  PROVE  /\ IsFiniteSet(Spots(G, x))
         /\ Cardinality(Spots(G, x)) + Bit(Head(F[t]) = x) <= Cardinality(Spots(F, x))
<1> DEFINE A == Spots(F, x)
           B == Spots(G, x)
           one == <<t, 1>>
           f == [s \in B |-> IF s[1] = t THEN <<t, s[2] + 1>> ELSE s]
<1>1. PICK q : q = F[t]
  OBVIOUS
<1>2. q \in Seq(S) /\ q # <<>> /\ G[t] = Tail(q)
  BY <1>1
<1>3. /\ 1 \in DOMAIN q /\ Head(q) = q[1]
      /\ \A i \in DOMAIN Tail(q) : i \in Nat \ {0} /\ i + 1 \in DOMAIN q /\ Tail(q)[i] = q[i + 1]
  BY <1>2, PopIndex
<1>4. DOMAIN F = I /\ DOMAIN G = I
  OBVIOUS
<1>5. ASSUME NEW s \in B
      PROVE  /\ s = <<s[1], s[2]>>
             /\ s[1] = t => /\ s[2] \in Nat \ {0} /\ f[s] = <<t, s[2] + 1>>
                            /\ <<t, s[2] + 1>> \in A
             /\ s[1] # t => f[s] = s /\ s \in A
  <2>1. s[1] \in I /\ s[2] \in DOMAIN G[s[1]] /\ s = <<s[1], s[2]>> /\ G[s[1]][s[2]] = x
    BY <1>4, <1>5, SpotMeans
  <2>2. CASE s[1] = t
    <3>1. PICK i : i = s[2]
      OBVIOUS
    <3>2. i \in DOMAIN Tail(q) /\ Tail(q)[i] = x
      BY <1>2, <2>1, <2>2, <3>1
    <3>3. i \in Nat \ {0} /\ i + 1 \in DOMAIN q /\ q[i + 1] = x
      BY <1>3, <3>2
    <3>4. <<t, i + 1>> \in A
      BY <1>1, <1>4, <3>3, PairSpot
    <3> QED BY <2>1, <2>2, <3>1, <3>3, <3>4
  <2>3. CASE s[1] # t
    <3>1. G[s[1]] = F[s[1]]
      BY <2>1, <2>3
    <3>2. s \in A
      BY <1>4, <2>1, <3>1, SpotMeans
    <3> QED BY <2>1, <2>3, <3>2
  <2> QED BY <2>2, <2>3
<1> HIDE DEF A, B
<1>6. ASSUME NEW s \in B PROVE f[s] \in A \ {one}
  <2>1. CASE s[1] = t
    <3>1. PICK j : j = s[2] + 1
      OBVIOUS
    <3>2. f[s] = <<t, j>> /\ <<t, j>> \in A /\ j # 1
      BY <1>5, <2>1, <3>1
    <3>3. <<t, j>>[2] = j /\ one[2] = 1
      OBVIOUS
    <3>4. <<t, j>> # one
      BY <3>2, <3>3
    <3> QED BY <3>2, <3>4
  <2>2. CASE s[1] # t
    <3>1. f[s] = s /\ s \in A /\ s = <<s[1], s[2]>>
      BY <1>5, <2>2
    <3>2. s # one
      BY <2>2, <3>1
    <3> QED BY <3>1, <3>2
  <2> QED BY <2>1, <2>2
<1>7. ASSUME NEW r \in B, NEW s \in B, f[r] = f[s] PROVE r = s
  <2>1. PICK i : i = r[2]
    OBVIOUS
  <2>2. PICK j : j = s[2]
    OBVIOUS
  <2>3. CASE r[1] = t /\ s[1] = t
    <3>1. /\ r = <<t, i>> /\ s = <<t, j>> /\ i \in Nat /\ j \in Nat
          /\ <<t, i + 1>> = <<t, j + 1>>
      BY <1>5, <1>7, <2>1, <2>2, <2>3
    <3>2. i + 1 = j + 1
      BY <3>1
    <3>3. i = j
      BY <3>1, <3>2
    <3> QED BY <3>1, <3>3
  <2>4. CASE r[1] = t /\ s[1] # t
    <3>1. f[r] = <<t, i + 1>> /\ f[s] = s
      BY <1>5, <2>1, <2>4
    <3>2. s[1] = t
      BY <1>7, <3>1
    <3> QED BY <2>4, <3>2
  <2>5. CASE r[1] # t /\ s[1] = t
    <3>1. f[s] = <<t, j + 1>> /\ f[r] = r
      BY <1>5, <2>2, <2>5
    <3>2. r[1] = t
      BY <1>7, <3>1
    <3> QED BY <2>5, <3>2
  <2>6. CASE r[1] # t /\ s[1] # t
    BY <1>5, <1>7, <2>6
  <2> QED BY <2>3, <2>4, <2>5, <2>6
<1>8. PICK T : T = A \ {one}
  OBVIOUS
<1>9. f \in [B -> T] /\ DOMAIN f = B
  BY <1>6, <1>8
<1> HIDE DEF f
<1>10. f \in Injection(B, T)
  BY <1>7, <1>9 DEF Injection, IsInjective
<1>11. IsFiniteSet(T) /\ Cardinality(T) = IF one \in A THEN Cardinality(A) - 1 ELSE Cardinality(A)
  BY <1>8, FS_RemoveElement DEF A
<1>12. IsFiniteSet(B) /\ Cardinality(B) <= Cardinality(T)
  BY <1>10, <1>11, FS_Injection
<1>13. Cardinality(A) \in Nat /\ Cardinality(B) \in Nat
  BY <1>12, FS_CardinalityType DEF A
<1>14. Head(F[t]) = x => one \in A
  BY <1>1, <1>3, <1>4, PairSpot DEF A
<1> QED BY <1>11, <1>12, <1>13, <1>14 DEF A, B, Bit

\* r is q with y at one more place, or with less.
Grown(q, r, y) ==
  \E j : \A i \in DOMAIN r : (i \in DOMAIN q /\ r[i] = q[i]) \/ (i = j /\ r[i] = y)

\* Where the elements of a longer queue stand.
LEMMA AppendGrows ==
  ASSUME NEW S, NEW q \in Seq(S), NEW y \in S
  PROVE  Grown(q, Append(q, y), y)
<1>1. /\ Append(q, y) \in Seq(S)
      /\ Len(Append(q, y)) = Len(q) + 1
      /\ \A i \in 1 .. Len(q) : Append(q, y)[i] = q[i]
      /\ Append(q, y)[Len(q) + 1] = y
  BY AppendProperties
<1>2. /\ Len(q) \in Nat
      /\ DOMAIN q = 1 .. Len(q)
      /\ DOMAIN Append(q, y) = 1 .. Len(q) + 1
  BY <1>1, LenProperties
<1>3. PICK j : j = Len(q) + 1
  OBVIOUS
<1>4. \A i \in DOMAIN Append(q, y) :
        (i \in DOMAIN q /\ Append(q, y)[i] = q[i]) \/ (i = j /\ Append(q, y)[i] = y)
  BY <1>1, <1>2, <1>3
<1> QED BY <1>4 DEF Grown

\* One queue gets y: if that is an x, there is one x more, otherwise not.
LEMMA PushSpots ==
  ASSUME NEW F, NEW G, NEW t \in DOMAIN F, NEW x, NEW y,
         DOMAIN G = DOMAIN F, \A u \in DOMAIN F \ {t} : G[u] = F[u], Grown(F[t], G[t], y),
         IsFiniteSet(Spots(F, x))
  PROVE  /\ IsFiniteSet(Spots(G, x))
         /\ Cardinality(Spots(G, x)) <= Cardinality(Spots(F, x)) + Bit(y = x)
<1> DEFINE A == Spots(F, x)
           B == Spots(G, x)
<1>1. PICK j : \A i \in DOMAIN G[t] :
                 (i \in DOMAIN F[t] /\ G[t][i] = F[t][i]) \/ (i = j /\ G[t][i] = y)
  BY DEF Grown
<1>2. PICK new : new = <<t, j>>
  OBVIOUS
<1>5. ASSUME NEW s \in B PROVE s \in A \/ (s = new /\ y = x)
  <2>1. s[1] \in DOMAIN F /\ s[2] \in DOMAIN G[s[1]] /\ s = <<s[1], s[2]>> /\ G[s[1]][s[2]] = x
    BY <1>5, SpotMeans
  <2>2. CASE s[1] # t
    <3>1. G[s[1]] = F[s[1]]
      BY <2>1, <2>2
    <3> QED BY <2>1, <3>1, SpotMeans
  <2>3. CASE s[1] = t
    <3>1. PICK i : i = s[2]
      OBVIOUS
    <3>2. i \in DOMAIN G[t] /\ G[t][i] = x /\ s = <<t, i>>
      BY <2>1, <2>3, <3>1
    <3>3. CASE i = j /\ G[t][i] = y
      BY <1>2, <3>2, <3>3
    <3>4. CASE i \in DOMAIN F[t] /\ G[t][i] = F[t][i]
      <4>1. <<t, i>> \in A
        BY <3>2, <3>4, PairSpot
      <4> QED BY <3>2, <4>1
    <3> QED BY <1>1, <3>2, <3>3, <3>4
  <2> QED BY <2>2, <2>3
<1> HIDE DEF A, B
<1>6. IsFiniteSet(A) /\ Cardinality(A) \in Nat
  BY FS_CardinalityType DEF A
<1>7. CASE y = x
  <2>1. B \in SUBSET (A \union {new})
    BY <1>5
  <2>2. PICK T : T = A \union {new}
    OBVIOUS
  <2>3. /\ IsFiniteSet(T)
        /\ Cardinality(T) = IF new \in A THEN Cardinality(A) ELSE Cardinality(A) + 1
    BY <1>6, <2>2, FS_AddElement
  <2>4. IsFiniteSet(B) /\ Cardinality(B) <= Cardinality(T)
    BY <2>1, <2>2, <2>3, FS_Subset
  <2>5. Cardinality(B) \in Nat
    BY <2>4, FS_CardinalityType
  <2>6. Cardinality(B) <= Cardinality(A) + 1
    BY <1>6, <2>3, <2>4, <2>5
  <2> QED BY <1>7, <2>4, <2>6 DEF A, B, Bit
<1>8. CASE y # x
  <2>1. B \in SUBSET A
    BY <1>5, <1>8
  <2>2. IsFiniteSet(B) /\ Cardinality(B) <= Cardinality(A)
    BY <1>6, <2>1, FS_Subset
  <2> QED BY <1>6, <1>8, <2>2, FS_CardinalityType DEF A, B, Bit
<1> QED BY <1>7, <1>8

(* Every greeting comes from one call of connect_to.  From the call on it is *)
(* a thread that asks, the communication thread that greets, a message on    *)
(* the network, and then either the registration of the sender or a message  *)
(* in the hands of the receiver, in a taskpull, in a result of recv.         *)

\* Threads of p that ask, or are about to ask, for a connection to n.
Asking(p, n) ==
  {t \in ThreadsOf(p) : Call(t).peer = n /\ (step[t] = "lock" \/ connpipe[t] # <<>>)}

\* Greetings of p on the network, in the taskpulls of n, in the hands of the
\* communication thread of n.
OnWire(p, n) == Spots([a \in {p} |-> net[a][n]], Hello)
Boxed(p, n)  == Spots([u \in ThreadsOf(n) |-> taskpipe[u]], [peer |-> p, msg |-> Hello])
InHand(p, n) == hpc[n] = "push" /\ peerOf[n] = p /\ pend[n] = Hello

\* A greeting of p made it a client of n: n did not know p otherwise.
Registered(p, n) == p \in clientmap[n] /\ ~CalledConnect(n, p)

\* What is counted is finite.
Finite(p, n) ==
  /\ IsFiniteSet(OnWire(p, n)) /\ IsFiniteSet(Boxed(p, n)) /\ IsFiniteSet(Greetings(p, n))
  /\ IsFiniteSet(ConnectCalls(p, n))

\* All the greetings of p to n, asked for, on their way or arrived.
Tally(p, n) ==
  Cardinality(Asking(p, n)) + Bit(Greets(p, n)) + Cardinality(OnWire(p, n))
    + Bit(Registered(p, n)) + Bit(InHand(p, n)) + Cardinality(Boxed(p, n))
    + Cardinality(Greetings(p, n))

\* There are no more greetings than calls of connect_to.
CountInv == \A p, n \in Node : Finite(p, n) /\ Tally(p, n) <= Cardinality(ConnectCalls(p, n))

\* A part of a finite set has no more elements.
LEMMA PartCard ==
  ASSUME NEW A, IsFiniteSet(A), NEW B, B \subseteq A
  PROVE  /\ IsFiniteSet(B) /\ Cardinality(B) <= Cardinality(A)
         /\ Cardinality(A) \in Nat /\ Cardinality(B) \in Nat
<1>1. B \in SUBSET A
  OBVIOUS
<1>2. IsFiniteSet(B) /\ Cardinality(B) <= Cardinality(A)
  BY <1>1, FS_Subset
<1> QED BY <1>2, FS_CardinalityType

\* With one element more it has at most one more; without one of its elements, one less.
LEMMA OneCard ==
  ASSUME NEW A, IsFiniteSet(A), NEW e
  PROVE  /\ IsFiniteSet(A \union {e}) /\ IsFiniteSet(A \ {e}) /\ Cardinality(A) \in Nat
         /\ Cardinality(A \union {e}) \in Nat /\ Cardinality(A \ {e}) \in Nat
         /\ Cardinality(A \union {e}) <= Cardinality(A) + 1
         /\ e \notin A => Cardinality(A \union {e}) = Cardinality(A) + 1
         /\ e \in A => Cardinality(A \ {e}) = Cardinality(A) - 1
<1>1. IsFiniteSet(A \union {e}) /\ IsFiniteSet(A \ {e})
  BY FS_AddElement, FS_RemoveElement
<1>2. Cardinality(A) \in Nat /\ Cardinality(A \union {e}) \in Nat /\ Cardinality(A \ {e}) \in Nat
  BY <1>1, FS_CardinalityType
<1>3. Cardinality(A \union {e}) = IF e \in A THEN Cardinality(A) ELSE Cardinality(A) + 1
  BY FS_AddElement
<1>4. Cardinality(A \ {e}) = IF e \in A THEN Cardinality(A) - 1 ELSE Cardinality(A)
  BY FS_RemoveElement
<1> QED BY <1>1, <1>2, <1>3, <1>4

\* The calls of the threads of p.
LEMMA ProgramCall ==
  ASSUME NEW p, NEW c \in UNION {{t} \X DOMAIN Program[t] : t \in ThreadsOf(p)}
  PROVE  /\ c[1] \in Thread /\ NodeOf[c[1]] = p /\ c[2] \in DOMAIN Program[c[1]]
         /\ c[2] \in Nat /\ c = <<c[1], c[2]>>
<1>1. PICK t \in ThreadsOf(p) : c \in {t} \X DOMAIN Program[t]
  OBVIOUS
<1>2. c[1] = t /\ c[2] \in DOMAIN Program[t] /\ c = <<c[1], c[2]>>
  BY <1>1
<1>3. t \in Thread /\ NodeOf[t] = p
  BY DEF ThreadsOf
<1>4. DOMAIN Program[t] \subseteq Nat
  BY <1>3, ConfigAssumption, DomainNat
<1> QED BY <1>2, <1>3, <1>4

\* At most one call begins in a step.
LEMMA OneBegins ==
  ASSUME TypeInv, [Next]_vars
  PROVE  \E v, j : \A u \in Thread : \A k \in Nat : Begun(u, k)' => Begun(u, k) \/ (u = v /\ k = j)
<1>1. CASE UNCHANGED appVars
  BY <1>1 DEF Begun, Index, appVars
<1>2. ASSUME NEW t \in Thread, ThreadNext(t)
      PROVE  \E v, j : \A u \in Thread : \A k \in Nat : Begun(u, k)' => Begun(u, k) \/ (u = v /\ k = j)
  <2>0. PICK i \in Nat : i = Index(t)
    BY IndexType DEF TypeInv
  <2>1. ASSUME NEW s \in Step \ {"idle"}, Goto(t, s), NEW u \in Thread, NEW k \in Nat, Begun(u, k)'
        PROVE  Begun(u, k) \/ (u = t /\ k = i)
    BY <2>0, <2>1 DEF Goto, Begun, Index, TypeInv, TypeOK
  <2>2. ASSUME NEW ret \in {"error", "ok"}, NEW peer \in Node, NEW msg \in Message,
               Return(t, ret, peer, msg), NEW u \in Thread, NEW k \in Nat, Begun(u, k)'
        PROVE  Begun(u, k) \/ (u = t /\ k = i)
    <3>1. CASE u = t
      <4>1. Index(t)' = i + 1 /\ step'[t] = "idle"
        BY <2>0, <2>2, ReturnFacts
      <4>2. k < i + 1
        BY <2>2, <3>1, <4>1 DEF Begun
      <4> QED BY <2>0, <3>1, <4>2 DEF Begun
    <3>2. CASE u # t
      <4>1. step'[u] = step[u] /\ result'[u] = result[u]
        BY <2>2, <3>2, ReturnFacts
      <4> QED BY <2>2, <4>1 DEF Begun, Index
    <3> QED BY <3>1, <3>2
  <2>3. UNCHANGED appVars \/
        \A u \in Thread : \A k \in Nat : Begun(u, k)' => Begun(u, k) \/ (u = t /\ k = i)
    BY <1>2, <2>1, <2>2, ThreadMoves
  <2> QED BY <1>1, <2>3
<1> QED BY <1>1, <1>2, OthersMove

\* The calls of connect_to only become more, and stay finitely many.
LEMMA CallsGrow ==
  ASSUME TypeInv, [Next]_vars, NEW p, NEW n, IsFiniteSet(ConnectCalls(p, n))
  PROVE  /\ ConnectCalls(p, n) \subseteq ConnectCalls(p, n)'
         /\ IsFiniteSet(ConnectCalls(p, n)')
         /\ Cardinality(ConnectCalls(p, n)) <= Cardinality(ConnectCalls(p, n)')
         /\ Cardinality(ConnectCalls(p, n)) \in Nat /\ Cardinality(ConnectCalls(p, n)') \in Nat
<1>1. PICK v, j : \A u \in Thread : \A k \in Nat : Begun(u, k)' => Begun(u, k) \/ (u = v /\ k = j)
  BY OneBegins
<1>2. PICK A : A = ConnectCalls(p, n)
  OBVIOUS
<1>3. PICK B : B = ConnectCalls(p, n)'
  OBVIOUS
<1>4. PICK e : e = <<v, j>>
  OBVIOUS
<1>5. ASSUME NEW c \in A PROVE c \in B
  <2>1. c[1] \in Thread /\ c[2] \in Nat /\ Begun(c[1], c[2])
    BY <1>2, ProgramCall DEF ConnectCalls
  <2>2. Begun(c[1], c[2])'
    BY <2>1, BegunStays
  <2> QED BY <1>2, <1>3, <2>2 DEF ConnectCalls, ThreadsOf
<1>6. ASSUME NEW c \in B PROVE c \in A \union {e}
  <2>1. c \in UNION {{t} \X DOMAIN Program[t] : t \in ThreadsOf(p)} /\ Begun(c[1], c[2])'
    BY <1>3 DEF ConnectCalls, ThreadsOf
  <2>2. c[1] \in Thread /\ c[2] \in Nat /\ c = <<c[1], c[2]>>
    BY <2>1, ProgramCall
  <2>3. CASE Begun(c[1], c[2])
    BY <1>2, <1>3, <2>3 DEF ConnectCalls, ThreadsOf
  <2>4. CASE c[1] = v /\ c[2] = j
    BY <1>4, <2>2, <2>4
  <2> QED BY <1>1, <2>1, <2>2, <2>3, <2>4
<1>7. IsFiniteSet(A \union {e})
  BY <1>2, OneCard
<1>8. IsFiniteSet(B)
  BY <1>6, <1>7, PartCard
<1>9. /\ Cardinality(A) <= Cardinality(B)
      /\ Cardinality(A) \in Nat /\ Cardinality(B) \in Nat
  BY <1>5, <1>8, PartCard
<1> QED BY <1>2, <1>3, <1>5, <1>8, <1>9

-----------------------------------------------------------------------------
\* No thread starts to ask for a connection; no communication thread starts to greet.
AskLess   == \A p, n \in Node : Asking(p, n)' \subseteq Asking(p, n)
GreetLess == \A p, n \in Node : Greets(p, n)' => Greets(p, n)

\* A thread that asks is at one of the locks of connect_to.
LEMMA AskingMeans ==
  ASSUME RequestInv, NEW p, NEW n, NEW t \in Asking(p, n)
  PROVE  step[t] \in {"lock", "lock again"}
  BY DEF Asking, RequestInv, RequestOf, ThreadsOf

\* How a thread gets to the locks.
LEMMA LockSteps ==
  ASSUME TypeInv, NEW t \in Thread, ThreadNext(t), step'[t] \in {"lock", "lock again"}
  PROVE  connect_to(t) \/ ConnectRequest(t)
<1>0. step \in [Thread -> {"idle", "lock", "lock again", "check", "pop", "wait", "join"}]
  BY DEF TypeInv, TypeOK
<1>1. \A s : Goto(t, s) => step'[t] = s
  BY <1>0 DEF Goto
<1>2. \A ret, peer, msg : Return(t, ret, peer, msg) => step'[t] = "idle"
  BY <1>0 DEF Return
<1>3. ~(Refused(t) \/ ConnectPushFails(t) \/ ConnectReturns(t) \/ AcceptRefused(t)
        \/ AcceptReturns(t) \/ SendReturns(t) \/ ShutdownReturns(t))
  BY <1>2 DEF Refused, ConnectPushFails, ConnectReturns, AcceptRefused, AcceptReturns,
       SendReturns, ShutdownReturns
<1>4. ~(ConnectWakes(t) \/ get_one_connection(t) \/ send(t) \/ recv(t) \/ shutdown(t))
  BY <1>1 DEF ConnectWakes, get_one_connection, send, recv, shutdown
<1>5. ~TakeTask(t)
  BY <1>2 DEF TakeTask
<1>6. ~(RecvReturns(t) \/ recv_async(t))
  BY <1>5 DEF RecvReturns, recv_async, Calls, appVars
<1> QED BY <1>3, <1>4, <1>6 DEF ThreadNext

\* A step of a thread inside connect_to and of no other thread.
LEMMA ThreadAsks ==
  ASSUME TypeInv, RendezvousInv, RendezvousInv', NEW t \in Thread, ThreadNext(t), ~connect_to(t)
  PROVE  AskLess
<1>0. RequestInv /\ RequestInv'
  BY DEF RendezvousInv
<1>1. \A u \in Thread \ {t} : step'[u] = step[u] /\ result'[u] = result[u]
  <2>1. CASE UNCHANGED appVars
    BY <2>1 DEF appVars
  <2>2. ASSUME NEW s, Goto(t, s) PROVE <1>1
    BY <2>2 DEF Goto, TypeInv, TypeOK
  <2>3. ASSUME NEW ret \in {"error", "ok"}, NEW peer \in Node, NEW msg \in Message,
               Return(t, ret, peer, msg)
        PROVE  <1>1
    BY <2>3, ReturnFacts
  <2> QED BY <2>1, <2>2, <2>3, ThreadMoves
<1>2. \A u \in Thread \ {t} : connpipe'[u] = connpipe[u]
  <2>1. UNCHANGED connpipe \/ connpipe' = [connpipe EXCEPT ![t] = Append(@, Call(t).peer)]
    BY DEF ThreadNext, Refused, connect_to, ConnectRequest, ConnectPushFails, ConnectWakes,
       ConnectReturns, AcceptRefused, get_one_connection, AcceptReturns, send, SendReturns,
       recv, RecvReturns, recv_async, shutdown, ShutdownReturns, inVars
  <2> QED BY <2>1 DEF TypeInv, TypeOK
<1>3. ASSUME NEW p \in Node, NEW n \in Node, NEW u \in Asking(p, n)' PROVE u \in Asking(p, n)
  <2>0. u \in Thread /\ u \in ThreadsOf(p)
    BY DEF Asking, ThreadsOf
  <2>1. CASE u # t
    <3>1. step'[u] = step[u] /\ result'[u] = result[u] /\ connpipe'[u] = connpipe[u]
      BY <1>1, <1>2, <2>0, <2>1
    <3> QED BY <2>0, <3>1 DEF Asking, Call, Index
  <2>2. CASE u = t
    <3>1. step'[t] \in {"lock", "lock again"}
      BY <1>0, <1>3, <2>0, <2>2 DEF Asking, RequestInv, RequestOf
    <3>2. ConnectRequest(t)
      BY <3>1, LockSteps
    <3>3. step[t] = "lock" /\ Call(t)' = Call(t)
      BY <3>2 DEF ConnectRequest, Goto, Call, Index
    <3>4. Call(t)'.peer = n
      BY <1>3, <2>2 DEF Asking
    <3> QED BY <2>0, <2>2, <3>3, <3>4 DEF Asking
  <2> QED BY <2>1, <2>2
<1> QED BY <1>3 DEF AskLess

\* A request that is taken is asked for no longer.
LEMMA TakeAsks ==
  ASSUME TypeInv, RendezvousInv, NEW m \in Node, NEW t \in Thread, TakeRequest(m, t),
         UNCHANGED appVars
  PROVE  /\ AskLess
         /\ \A n \in Node : t \notin Asking(m, n)'
         /\ t \in Asking(m, Head(connpipe[t]))
<1>0. OneRendezvous /\ RequestInv
  BY DEF RendezvousInv
<1>1. step[t] = "lock again" /\ Head(connpipe[t]) = Call(t).peer
      /\ connpipe' = [connpipe EXCEPT ![t] = <<>>]
  BY <1>0, TakeOutstanding
<1>2. connpipe'[t] = <<>> /\ \A u \in Thread \ {t} : connpipe'[u] = connpipe[u]
  BY <1>1 DEF TypeInv, TypeOK
<1>3. UNCHANGED <<step, result>> /\ \A u : Call(u)' = Call(u)
  BY DEF appVars, Call, Index
<1>4. \A n \in Node : t \notin Asking(m, n)'
  BY <1>1, <1>2, <1>3 DEF Asking
<1>5. AskLess
  BY <1>1, <1>2, <1>3 DEF AskLess, Asking, ThreadsOf
<1>6. t \in Asking(m, Head(connpipe[t]))
  BY <1>1 DEF Asking, ThreadsOf, TakeRequest
<1> QED BY <1>4, <1>5, <1>6

\* Which steps ask for a connection, greet or register.
LEMMA AskSteps ==
  ASSUME TypeInv, RendezvousInv, RendezvousInv', [Next]_vars
  PROVE  \/ \E t \in Thread : connect_to(t)
         \/ \E m \in Node : \E t \in Thread : HandleConn(m, t)
         \/ \E m, p \in Node : HandleRouter(m, p)
         \/ AskLess /\ GreetLess /\ UNCHANGED clientmap
<1>0. /\ hpc \in [Node -> {"start", "handle", "poll", "push", "hello", "stopped", "dead"}]
      /\ peerOf \in [Node -> Node]
  BY DEF TypeInv, TypeOK
<1>1. ASSUME UNCHANGED <<step, result, connpipe>> PROVE AskLess
  BY <1>1 DEF AskLess, Asking, ThreadsOf, Call, Index
<1>2. ASSUME UNCHANGED <<hpc, peerOf>> PROVE GreetLess
  BY <1>2 DEF GreetLess, Greets
<1>3. ASSUME NEW m \in Node, NEW s, s # "hello", hpc' = [hpc EXCEPT ![m] = s], UNCHANGED peerOf
      PROVE  GreetLess
  BY <1>0, <1>3 DEF GreetLess, Greets
<1>4. ASSUME NEW t \in Thread, ThreadNext(t), ~connect_to(t)
      PROVE  AskLess /\ GreetLess /\ UNCHANGED clientmap
  <2>1. UNCHANGED <<hpc, peerOf, clientmap>>
    BY <1>4 DEF ThreadNext, Refused, connect_to, ConnectRequest, ConnectPushFails, ConnectWakes,
       ConnectReturns, AcceptRefused, get_one_connection, AcceptReturns, send, SendReturns,
       recv, RecvReturns, recv_async, shutdown, ShutdownReturns, handlerRest, hVars
  <2> QED BY <1>2, <1>4, <2>1, ThreadAsks
<1>5. ASSUME NEW m \in Node, HandlerNext(m),
             \A t \in Thread : ~HandleConn(m, t), \A p \in Node : ~HandleRouter(m, p)
      PROVE  AskLess /\ GreetLess /\ UNCHANGED clientmap
  <2>1. CASE SetupNext(m)
    <3>1. UNCHANGED <<step, result, connpipe, clientmap, peerOf>>
          /\ (hpc' = [hpc EXCEPT ![m] = "handle"] \/ hpc' = [hpc EXCEPT ![m] = "dead"])
      BY <2>1 DEF SetupNext, HandlerStarts, MonitorFails, SetupThrows, Fail, Die, setupRest,
           inVars, appVars
    <3> QED BY <1>1, <1>3, <3>1
  <2>2. CASE PollBegins(m) \/ PollReturns(m) \/ PollFails(m) \/ EventFails(m)
    <3>1. UNCHANGED <<step, result, connpipe, clientmap, peerOf>>
          /\ (hpc' = [hpc EXCEPT ![m] = "handle"] \/ hpc' = [hpc EXCEPT ![m] = "poll"]
              \/ hpc' = [hpc EXCEPT ![m] = "dead"])
      BY <2>2 DEF PollBegins, PollReturns, PollFails, EventFails, Fail, Die, pollRest,
           inVars, appVars
    <3> QED BY <1>1, <1>3, <3>1
  <2>3. CASE PushTask(m) \/ SendHello(m) \/ HandleShutdown(m)
    <3>1. UNCHANGED <<step, result, connpipe, clientmap, peerOf>>
          /\ (hpc' = [hpc EXCEPT ![m] = "handle"] \/ hpc' = [hpc EXCEPT ![m] = "stopped"])
      BY <2>3 DEF PushTask, SendHello, HandleShutdown, inVars, appVars
    <3> QED BY <1>1, <1>3, <3>1
  <2>4. ASSUME NEW t \in Thread, HandleMsgq(m, t) PROVE AskLess /\ GreetLess /\ UNCHANGED clientmap
    BY <1>1, <1>2, <2>4 DEF HandleMsgq, appVars
  <2>5. ASSUME NEW t \in Thread, TakeRequest(m, t), UNCHANGED <<appVars, peerOf, clientmap>>, Die(m)
        PROVE AskLess /\ GreetLess /\ UNCHANGED clientmap
    <3>1. UNCHANGED appVars /\ hpc' = [hpc EXCEPT ![m] = "dead"]
      BY <2>5 DEF Die
    <3> QED BY <1>3, <2>5, <3>1, TakeAsks
  <2>6. ASSUME NEW t \in Thread, HandleConnFails(m, t)
        PROVE  AskLess /\ GreetLess /\ UNCHANGED clientmap
    BY <2>5, <2>6 DEF HandleConnFails, Fail, connRest
  <2>7. CASE RecvFails(m)
    <3>1. UNCHANGED <<appVars, peerOf, clientmap>> /\ Die(m)
      BY <2>7 DEF RecvFails, Fail
    <3>2. UNCHANGED connpipe \/ \E t \in Thread : TakeRequest(m, t)
      BY <2>7 DEF RecvFails
    <3>3. CASE UNCHANGED connpipe
      BY <1>1, <1>3, <3>1, <3>3 DEF appVars, Die
    <3> QED BY <2>5, <3>1, <3>2, <3>3
  <2> QED BY <1>5, <2>1, <2>2, <2>3, <2>4, <2>6, <2>7 DEF HandlerNext
<1>6. ASSUME NEW m \in Node, CtorReturns(m) PROVE AskLess /\ GreetLess /\ UNCHANGED clientmap
  BY <1>1, <1>2, <1>6 DEF CtorReturns, hVars, inVars, appVars
<1>7. ASSUME NEW a \in Node, NEW b \in Node, Handshake(a, b)
      PROVE  AskLess /\ GreetLess /\ UNCHANGED clientmap
  BY <1>1, <1>2, <1>7 DEF Handshake, hVars, inVars, appVars
<1>8. CASE UNCHANGED vars
  BY <1>1, <1>2, <1>8 DEF vars
<1> QED BY <1>4, <1>5, <1>6, <1>7, <1>8 DEF Next

\* What the parts of the tally do when their variables do not change.
LEMMA SameTally ==
  ASSUME TypeInv, [Next]_vars, NEW p \in Node, NEW n \in Node
  PROVE  /\ UNCHANGED net => OnWire(p, n)' = OnWire(p, n)
         /\ UNCHANGED taskpipe => Boxed(p, n)' = Boxed(p, n)
         /\ SameHand => (InHand(p, n)' <=> InHand(p, n))
         /\ UNCHANGED clientmap => (Registered(p, n)' => Registered(p, n))
         /\ SameRead => Greetings(p, n)' \subseteq Greetings(p, n)
<1>1. UNCHANGED net => OnWire(p, n)' = OnWire(p, n)
  BY DEF OnWire
<1>2. UNCHANGED taskpipe => Boxed(p, n)' = Boxed(p, n)
  BY DEF Boxed, ThreadsOf
<1>3. SameHand => (InHand(p, n)' <=> InHand(p, n))
  BY DEF SameHand, InHand
<1>4. UNCHANGED clientmap => (Registered(p, n)' => Registered(p, n))
  BY CalledStays DEF Registered
<1>5. ASSUME SameRead, NEW c \in Greetings(p, n)' PROVE c \in Greetings(p, n)
  <2>1. PICK t \in Thread : c \in {t} \X DOMAIN result'[t]
    BY <1>5 DEF Greetings, Got, CallsMade
  <2>2. PICK k : k = c[2]
    OBVIOUS
  <2>3. c[1] = t /\ k \in DOMAIN result'[t] /\ c = <<t, k>>
    BY <2>1, <2>2
  <2>4. /\ Program[t][k].op \in {"recv", "recv_async"} /\ result'[t][k].ret = "ok"
        /\ result'[t][k].msg = Hello /\ result'[t][k].peer = p /\ NodeOf[t] = n
    BY <1>5, <2>2, <2>3 DEF Greetings, Got, GotMessage, OpOf, Res
  <2>5. k \in DOMAIN result[t] /\ result'[t][k] = result[t][k]
    BY <1>5, <2>3, <2>4 DEF SameRead, IsGot
  <2>6. c \in CallsMade
    BY <2>3, <2>5 DEF CallsMade
  <2> QED BY <2>2, <2>3, <2>4, <2>5, <2>6 DEF Greetings, Got, GotMessage, OpOf, Res
<1> QED BY <1>1, <1>2, <1>3, <1>4, <1>5

\* Threads that ask are finitely many.
LEMMA AskingFinite ==
  ASSUME NEW p, NEW n
  PROVE  /\ IsFiniteSet(Asking(p, n)) /\ Cardinality(Asking(p, n)) \in Nat
         /\ IsFiniteSet(Asking(p, n)') /\ Cardinality(Asking(p, n)') \in Nat
<1>1. IsFiniteSet(Thread)
  BY ConfigAssumption
<1>2. Asking(p, n) \subseteq Thread /\ Asking(p, n)' \subseteq Thread
  BY DEF Asking, ThreadsOf
<1> QED BY <1>1, <1>2, PartCard

\* The parts of the tally are numbers, and their sum is bounded.
LEMMA TallyMeans ==
  ASSUME CountInv, NEW p \in Node, NEW n \in Node
  PROVE  /\ Finite(p, n)
         /\ Cardinality(OnWire(p, n)) \in Nat /\ Cardinality(Boxed(p, n)) \in Nat
         /\ Cardinality(Greetings(p, n)) \in Nat /\ Cardinality(Asking(p, n)) \in Nat
         /\ Cardinality(ConnectCalls(p, n)) \in Nat
         /\ Bit(Greets(p, n)) \in Nat /\ Bit(Registered(p, n)) \in Nat /\ Bit(InHand(p, n)) \in Nat
         /\ Tally(p, n) <= Cardinality(ConnectCalls(p, n))
<1>1. Finite(p, n) /\ Tally(p, n) <= Cardinality(ConnectCalls(p, n))
  BY DEF CountInv
<1>2. /\ Cardinality(OnWire(p, n)) \in Nat /\ Cardinality(Boxed(p, n)) \in Nat
      /\ Cardinality(Greetings(p, n)) \in Nat
      /\ Cardinality(ConnectCalls(p, n)) \in Nat
  BY <1>1, FS_CardinalityType DEF Finite
<1>3. Bit(Greets(p, n)) \in Nat /\ Bit(Registered(p, n)) \in Nat /\ Bit(InHand(p, n)) \in Nat
  BY DEF Bit
<1> QED BY <1>1, <1>2, <1>3, AskingFinite

\* How the tally of the next state is bounded: each part by what it was and what
\* the step adds (a, g, w, r, h, b, y), which is no more than it takes away or
\* the new calls.
LEMMA Balance ==
  ASSUME CountInv, NEW p \in Node, NEW n \in Node,
         NEW a \in Int, NEW g \in Int, NEW w \in Int, NEW r \in Int, NEW h \in Int,
         NEW b \in Int, NEW y \in Int, NEW c \in Int,
         IsFiniteSet(OnWire(p, n)'), IsFiniteSet(Boxed(p, n)'), IsFiniteSet(Greetings(p, n)'),
         IsFiniteSet(ConnectCalls(p, n)'),
         Cardinality(Asking(p, n)') <= Cardinality(Asking(p, n)) + a,
         Bit(Greets(p, n)') <= Bit(Greets(p, n)) + g,
         Cardinality(OnWire(p, n)') <= Cardinality(OnWire(p, n)) + w,
         Bit(Registered(p, n)') <= Bit(Registered(p, n)) + r,
         Bit(InHand(p, n)') <= Bit(InHand(p, n)) + h,
         Cardinality(Boxed(p, n)') <= Cardinality(Boxed(p, n)) + b,
         Cardinality(Greetings(p, n)') <= Cardinality(Greetings(p, n)) + y,
         Cardinality(ConnectCalls(p, n)) + c <= Cardinality(ConnectCalls(p, n)'),
         a + g + w + r + h + b + y <= c
  PROVE  Finite(p, n)' /\ Tally(p, n)' <= Cardinality(ConnectCalls(p, n)')
<1>1. Finite(p, n)'
  BY DEF Finite
<1>2. /\ Cardinality(OnWire(p, n)') \in Nat /\ Cardinality(Boxed(p, n)') \in Nat
      /\ Cardinality(Greetings(p, n)') \in Nat
      /\ Cardinality(ConnectCalls(p, n)') \in Nat
  BY FS_CardinalityType
<1>3. Bit(Greets(p, n)') \in Nat /\ Bit(Registered(p, n)') \in Nat /\ Bit(InHand(p, n)') \in Nat
  BY DEF Bit
<1>4. Cardinality(Asking(p, n)') \in Nat
  BY AskingFinite
<1>5. Tally(p, n)' <= Cardinality(ConnectCalls(p, n)')
  BY <1>2, <1>3, <1>4, TallyMeans DEF Tally
<1> QED BY <1>1, <1>5

\* The parts of the tally that a step leaves alone do not grow.
LEMMA LessTally ==
  ASSUME TypeInv, [Next]_vars, CountInv, NEW p \in Node, NEW n \in Node
  PROVE  /\ Asking(p, n)' \subseteq Asking(p, n) =>
              Cardinality(Asking(p, n)') <= Cardinality(Asking(p, n)) + 0
         /\ (Greets(p, n)' => Greets(p, n)) => Bit(Greets(p, n)') <= Bit(Greets(p, n)) + 0
         /\ (Registered(p, n)' => Registered(p, n)) =>
              Bit(Registered(p, n)') <= Bit(Registered(p, n)) + 0
         /\ (InHand(p, n)' => InHand(p, n)) => Bit(InHand(p, n)') <= Bit(InHand(p, n)) + 0
         /\ OnWire(p, n)' = OnWire(p, n) =>
              /\ IsFiniteSet(OnWire(p, n)')
              /\ Cardinality(OnWire(p, n)') <= Cardinality(OnWire(p, n)) + 0
         /\ Boxed(p, n)' = Boxed(p, n) =>
              /\ IsFiniteSet(Boxed(p, n)')
              /\ Cardinality(Boxed(p, n)') <= Cardinality(Boxed(p, n)) + 0
         /\ Greetings(p, n)' \subseteq Greetings(p, n) =>
              /\ IsFiniteSet(Greetings(p, n)')
              /\ Cardinality(Greetings(p, n)') <= Cardinality(Greetings(p, n)) + 0
         /\ IsFiniteSet(ConnectCalls(p, n)')
         /\ Cardinality(ConnectCalls(p, n)) + 0 <= Cardinality(ConnectCalls(p, n)')
<1>0. Finite(p, n)
  BY TallyMeans
<1>1. ASSUME Asking(p, n)' \subseteq Asking(p, n)
      PROVE  Cardinality(Asking(p, n)') <= Cardinality(Asking(p, n)) + 0
  <2>1. /\ Cardinality(Asking(p, n)') <= Cardinality(Asking(p, n))
        /\ Cardinality(Asking(p, n)) \in Nat
    BY <1>1, AskingFinite, PartCard
  <2> QED BY <2>1
<1>2. /\ (Greets(p, n)' => Greets(p, n)) => Bit(Greets(p, n)') <= Bit(Greets(p, n)) + 0
      /\ (Registered(p, n)' => Registered(p, n)) =>
           Bit(Registered(p, n)') <= Bit(Registered(p, n)) + 0
      /\ (InHand(p, n)' => InHand(p, n)) => Bit(InHand(p, n)') <= Bit(InHand(p, n)) + 0
  BY DEF Bit
<1>3. ASSUME NEW A, IsFiniteSet(A), NEW B, B \subseteq A
      PROVE  IsFiniteSet(B) /\ Cardinality(B) <= Cardinality(A) + 0
  <2>1. IsFiniteSet(B) /\ Cardinality(B) <= Cardinality(A) /\ Cardinality(A) \in Nat
    BY <1>3, PartCard
  <2> QED BY <2>1
<1>4. /\ OnWire(p, n)' = OnWire(p, n) =>
           /\ IsFiniteSet(OnWire(p, n)')
           /\ Cardinality(OnWire(p, n)') <= Cardinality(OnWire(p, n)) + 0
      /\ Boxed(p, n)' = Boxed(p, n) =>
           /\ IsFiniteSet(Boxed(p, n)')
           /\ Cardinality(Boxed(p, n)') <= Cardinality(Boxed(p, n)) + 0
      /\ Greetings(p, n)' \subseteq Greetings(p, n) =>
           /\ IsFiniteSet(Greetings(p, n)')
           /\ Cardinality(Greetings(p, n)') <= Cardinality(Greetings(p, n)) + 0
  BY <1>0, <1>3 DEF Finite
<1>5. /\ IsFiniteSet(ConnectCalls(p, n)')
      /\ Cardinality(ConnectCalls(p, n)) + 0 <= Cardinality(ConnectCalls(p, n)')
  <2>1. /\ IsFiniteSet(ConnectCalls(p, n)')
        /\ Cardinality(ConnectCalls(p, n)) <= Cardinality(ConnectCalls(p, n)')
        /\ Cardinality(ConnectCalls(p, n)) \in Nat
    BY <1>0, CallsGrow DEF Finite
  <2> QED BY <2>1
<1> QED BY <1>1, <1>2, <1>4, <1>5

\* The channel from p to n keeps, gets or loses a message.
LEMMA WireTally ==
  ASSUME TypeInv, TypeInv', CountInv, NEW p \in Node, NEW n \in Node
  PROVE  /\ net'[p][n] = net[p][n] => OnWire(p, n)' = OnWire(p, n)
         /\ \A y \in Message : net'[p][n] = Append(net[p][n], y) =>
              /\ IsFiniteSet(OnWire(p, n)')
              /\ Cardinality(OnWire(p, n)') <= Cardinality(OnWire(p, n)) + Bit(y = Hello)
         /\ net[p][n] # <<>> /\ net'[p][n] = Tail(net[p][n]) =>
              /\ IsFiniteSet(OnWire(p, n)')
              /\ Cardinality(OnWire(p, n)') + Bit(Head(net[p][n]) = Hello)
                   <= Cardinality(OnWire(p, n))
<1>1. PICK I : I = {p}
  OBVIOUS
<1>2. PICK F : F = [a \in I |-> net[a][n]]
  OBVIOUS
<1>3. PICK G : G = [a \in I |-> net'[a][n]]
  OBVIOUS
<1>4. PICK S : S = Message
  OBVIOUS
<1>5. net[p][n] \in Seq(S) /\ net'[p][n] \in Seq(S)
  <2>1. net \in [Node -> [Node -> Seq(Message)]] /\ net' \in [Node -> [Node -> Seq(Message)]]
    BY DEF TypeInv, TypeOK
  <2>2. net[p] \in [Node -> Seq(Message)] /\ net'[p] \in [Node -> Seq(Message)]
    BY <2>1
  <2> QED BY <1>4, <2>2
<1>6. /\ F \in [I -> Seq(S)] /\ G \in [I -> Seq(S)] /\ p \in I
      /\ F[p] = net[p][n] /\ G[p] = net'[p][n] /\ I \ {p} = {}
  BY <1>1, <1>2, <1>3, <1>5
<1>7. OnWire(p, n) = Spots(F, Hello) /\ OnWire(p, n)' = Spots(G, Hello)
  BY <1>1, <1>2, <1>3 DEF OnWire, Spots
<1>8. IsFiniteSet(Spots(F, Hello))
  BY <1>7, TallyMeans DEF Finite
<1>9. ASSUME net'[p][n] = net[p][n] PROVE OnWire(p, n)' = OnWire(p, n)
  BY <1>9 DEF OnWire, Spots
<1>10. ASSUME NEW y \in Message, net'[p][n] = Append(net[p][n], y)
       PROVE  /\ IsFiniteSet(Spots(G, Hello))
              /\ Cardinality(Spots(G, Hello)) <= Cardinality(Spots(F, Hello)) + Bit(y = Hello)
  <2>1. PICK q : q = net[p][n]
    OBVIOUS
  <2>2. q \in Seq(S) /\ y \in S
    BY <1>4, <1>5, <2>1
  <2>3. Grown(q, Append(q, y), y)
    BY <2>2, AppendGrows
  <2>5. /\ p \in DOMAIN F /\ DOMAIN G = DOMAIN F /\ F[p] = q /\ G[p] = Append(q, y)
        /\ \A u \in DOMAIN F \ {p} : G[u] = F[u]
    BY <1>6, <1>10, <2>1
  <2>6. Grown(F[p], G[p], y)
    BY <2>3, <2>5
  <2>7. /\ p \in DOMAIN F /\ DOMAIN G = DOMAIN F /\ \A u \in DOMAIN F \ {p} : G[u] = F[u]
    BY <2>5
  <2> QED BY <1>8, <2>6, <2>7, PushSpots
<1>11. ASSUME net[p][n] # <<>>, net'[p][n] = Tail(net[p][n])
       PROVE  /\ IsFiniteSet(Spots(G, Hello))
              /\ Cardinality(Spots(G, Hello)) + Bit(Head(net[p][n]) = Hello)
                   <= Cardinality(Spots(F, Hello))
  <2>1. F[p] # <<>> /\ G[p] = Tail(F[p]) /\ \A u \in I \ {p} : G[u] = F[u]
    BY <1>6, <1>11
  <2>2. /\ IsFiniteSet(Spots(G, Hello))
        /\ Cardinality(Spots(G, Hello)) + Bit(Head(F[p]) = Hello) <= Cardinality(Spots(F, Hello))
    BY <1>6, <1>8, <2>1, PopSpots
  <2> QED BY <1>6, <2>2
<1> QED BY <1>7, <1>9, <1>10, <1>11

\* The pipe of thread t of n gets or loses a message, the others keep theirs.
LEMMA BoxTally ==
  ASSUME TypeInv, TypeInv', CountInv, NEW p \in Node, NEW n \in Node, NEW t \in Thread,
         \A v \in Thread \ {t} : taskpipe'[v] = taskpipe[v]
  PROVE  /\ NodeOf[t] # n => Boxed(p, n)' = Boxed(p, n)
         /\ NodeOf[t] = n => \A y \in [peer : Node, msg : Message] :
              taskpipe'[t] = Append(taskpipe[t], y) =>
                /\ IsFiniteSet(Boxed(p, n)')
                /\ Cardinality(Boxed(p, n)')
                     <= Cardinality(Boxed(p, n)) + Bit(y = [peer |-> p, msg |-> Hello])
         /\ NodeOf[t] = n /\ taskpipe[t] # <<>> /\ taskpipe'[t] = Tail(taskpipe[t]) =>
              /\ IsFiniteSet(Boxed(p, n)')
              /\ Cardinality(Boxed(p, n)') + Bit(Head(taskpipe[t]) = [peer |-> p, msg |-> Hello])
                   <= Cardinality(Boxed(p, n))
<1>1. PICK I : I = ThreadsOf(n)
  OBVIOUS
<1>2. PICK F : F = [u \in I |-> taskpipe[u]]
  OBVIOUS
<1>3. PICK G : G = [u \in I |-> taskpipe'[u]]
  OBVIOUS
<1>4. PICK S : S = [peer : Node, msg : Message]
  OBVIOUS
<1>x. PICK x : x = [peer |-> p, msg |-> Hello]
  OBVIOUS
<1>5. \A u \in Thread : taskpipe[u] \in Seq(S) /\ taskpipe'[u] \in Seq(S)
  BY <1>4 DEF TypeInv, TypeOK
<1>6. /\ F \in [I -> Seq(S)] /\ G \in [I -> Seq(S)] /\ I \subseteq Thread
      /\ \A u \in I : F[u] = taskpipe[u] /\ G[u] = taskpipe'[u]
  BY <1>1, <1>2, <1>3, <1>5 DEF ThreadsOf
<1>7. Boxed(p, n) = Spots(F, x) /\ Boxed(p, n)' = Spots(G, x)
  BY <1>1, <1>2, <1>3, <1>x DEF Boxed, Spots, ThreadsOf
<1>8. IsFiniteSet(Spots(F, x))
  BY <1>7, TallyMeans DEF Finite
<1>9. ASSUME NodeOf[t] # n PROVE Boxed(p, n)' = Boxed(p, n)
  <2>1. t \notin I
    BY <1>1, <1>9 DEF ThreadsOf
  <2>2. F = G
    BY <1>2, <1>3, <1>6, <2>1
  <2> QED BY <1>7, <2>2
<1>10. ASSUME NodeOf[t] = n PROVE t \in I /\ \A u \in I \ {t} : G[u] = F[u]
  BY <1>1, <1>6, <1>10 DEF ThreadsOf
<1>11. ASSUME NodeOf[t] = n, NEW y \in S, taskpipe'[t] = Append(taskpipe[t], y)
       PROVE  /\ IsFiniteSet(Spots(G, x))
              /\ Cardinality(Spots(G, x)) <= Cardinality(Spots(F, x)) + Bit(y = x)
  <2>1. PICK q : q = taskpipe[t]
    OBVIOUS
  <2>2. q \in Seq(S) /\ y \in S
    BY <1>5, <2>1
  <2>3. Grown(q, Append(q, y), y)
    BY <2>2, AppendGrows
  <2>5. /\ t \in DOMAIN F /\ DOMAIN G = DOMAIN F /\ F[t] = q /\ G[t] = Append(q, y)
        /\ \A u \in DOMAIN F \ {t} : G[u] = F[u]
    BY <1>6, <1>10, <1>11, <2>1
  <2>6. Grown(F[t], G[t], y)
    BY <2>3, <2>5
  <2>7. /\ t \in DOMAIN F /\ DOMAIN G = DOMAIN F /\ \A u \in DOMAIN F \ {t} : G[u] = F[u]
    BY <2>5
  <2> QED BY <1>8, <2>6, <2>7, PushSpots
<1>12. ASSUME NodeOf[t] = n, taskpipe[t] # <<>>, taskpipe'[t] = Tail(taskpipe[t])
       PROVE  /\ IsFiniteSet(Spots(G, x))
              /\ Cardinality(Spots(G, x)) + Bit(Head(taskpipe[t]) = x) <= Cardinality(Spots(F, x))
  <2>1. F[t] # <<>> /\ G[t] = Tail(F[t]) /\ F[t] = taskpipe[t]
    BY <1>6, <1>10, <1>12
  <2>2. /\ IsFiniteSet(Spots(G, x))
        /\ Cardinality(Spots(G, x)) + Bit(Head(F[t]) = x) <= Cardinality(Spots(F, x))
    BY <1>6, <1>8, <1>10, <1>12, <2>1, PopSpots
  <2> QED BY <2>1, <2>2
<1> QED BY <1>4, <1>x, <1>7, <1>9, <1>11, <1>12

-----------------------------------------------------------------------------
\* Steps that neither ask, greet, register nor hand anything on.
LEMMA QuietCount ==
  ASSUME TypeInv, [Next]_vars, CountInv, AskLess, GreetLess,
         UNCHANGED <<clientmap, taskpipe>>, SameHand, SameRead,
         \A p, n \in Node : /\ IsFiniteSet(OnWire(p, n)')
                            /\ Cardinality(OnWire(p, n)') <= Cardinality(OnWire(p, n)) + 0
  PROVE  CountInv'
<1> SUFFICES ASSUME NEW p \in Node, NEW n \in Node
             PROVE  Finite(p, n)' /\ Tally(p, n)' <= Cardinality(ConnectCalls(p, n)')
  BY DEF CountInv
<1>1. /\ Asking(p, n)' \subseteq Asking(p, n) /\ (Greets(p, n)' => Greets(p, n))
      /\ Boxed(p, n)' = Boxed(p, n) /\ (InHand(p, n)' => InHand(p, n))
      /\ (Registered(p, n)' => Registered(p, n)) /\ Greetings(p, n)' \subseteq Greetings(p, n)
  BY SameTally DEF AskLess, GreetLess
<1>2. 0 + 0 + 0 + 0 + 0 + 0 + 0 <= 0 /\ 0 \in Int
  OBVIOUS
<1> QED BY <1>1, <1>2, LessTally, Balance

\* pollitems[0]: what the application sends is no greeting.
LEMMA MsgqCount ==
  ASSUME TypeInv, TypeInv', AddrInv, [Next]_vars, CountInv, NEW m \in Node, NEW t \in Thread,
         HandleMsgq(m, t), NEW p \in Node, NEW n \in Node
  PROVE  /\ IsFiniteSet(OnWire(p, n)')
         /\ Cardinality(OnWire(p, n)') <= Cardinality(OnWire(p, n)) + 0
<1>1. PICK q \in [peer : Node, msg : Message] :
              /\ q = Head(msgpipe[t]) /\ q \in Range(msgpipe[t])
              /\ \/ UNCHANGED net
                 \/ /\ net'[m][q.peer] = Append(net[m][q.peer], q.msg)
                    /\ \A a, b \in Node : <<a, b>> # <<m, q.peer>> => net'[a][b] = net[a][b]
  BY MsgqFacts
<1>2. q.msg \in Message /\ q.msg # Hello
  BY <1>1 DEF AddrInv, OutAddr
<1>3. net'[p][n] = net[p][n] \/ net'[p][n] = Append(net[p][n], q.msg)
  BY <1>1
<1>4. CASE net'[p][n] = net[p][n]
  BY <1>4, WireTally, LessTally
<1>5. CASE net'[p][n] = Append(net[p][n], q.msg)
  <2>1. /\ IsFiniteSet(OnWire(p, n)')
        /\ Cardinality(OnWire(p, n)') <= Cardinality(OnWire(p, n)) + Bit(q.msg = Hello)
    BY <1>2, <1>5, WireTally
  <2> QED BY <1>2, <2>1 DEF Bit
<1> QED BY <1>3, <1>4, <1>5

\* connect_to: one more thread asks, and one more call has begun.
LEMMA ConnectCount ==
  ASSUME TypeInv, [Next]_vars, CountInv, NEW t \in Thread, connect_to(t)
  PROVE  CountInv'
<1> SUFFICES ASSUME NEW p \in Node, NEW n \in Node
             PROVE  Finite(p, n)' /\ Tally(p, n)' <= Cardinality(ConnectCalls(p, n)')
  BY DEF CountInv
<1>0. /\ UNCHANGED <<hpc, peerOf, pend, net, taskpipe, clientmap, result, connpipe>>
      /\ step' = [step EXCEPT ![t] = "lock"]
  BY DEF connect_to, handlerRest, hVars, netVars, inVars, outVars, Goto
<1>1. SameHand /\ SameRead
  BY <1>0 DEF SameHand, SameRead, IsGot
<1>2. /\ (Greets(p, n)' => Greets(p, n)) /\ OnWire(p, n)' = OnWire(p, n)
      /\ Boxed(p, n)' = Boxed(p, n) /\ (InHand(p, n)' => InHand(p, n))
      /\ (Registered(p, n)' => Registered(p, n)) /\ Greetings(p, n)' \subseteq Greetings(p, n)
  BY <1>0, <1>1, SameTally DEF Greets
<1>3. /\ step'[t] = "lock" /\ \A u \in Thread \ {t} : step'[u] = step[u]
      /\ \A u : Call(u)' = Call(u) /\ Index(u)' = Index(u)
  BY <1>0 DEF TypeInv, TypeOK, Call, Index
<1>4. CASE ~(NodeOf[t] = p /\ Call(t).peer = n)
  <2>1. Asking(p, n)' \subseteq Asking(p, n)
    BY <1>0, <1>3, <1>4 DEF Asking, ThreadsOf
  <2>2. 0 + 0 + 0 + 0 + 0 + 0 + 0 <= 0 /\ 0 \in Int
    OBVIOUS
  <2> QED BY <1>2, <2>1, <2>2, LessTally, Balance
<1>5. CASE NodeOf[t] = p /\ Call(t).peer = n
  <2>1. Asking(p, n)' \subseteq Asking(p, n) \union {t}
    BY <1>0, <1>3 DEF Asking, ThreadsOf
  <2>2. Cardinality(Asking(p, n)') <= Cardinality(Asking(p, n)) + 1
    <3>1. /\ IsFiniteSet(Asking(p, n) \union {t}) /\ Cardinality(Asking(p, n)) \in Nat
          /\ Cardinality(Asking(p, n) \union {t}) <= Cardinality(Asking(p, n)) + 1
      BY AskingFinite, OneCard
    <3>2. /\ Cardinality(Asking(p, n)') <= Cardinality(Asking(p, n) \union {t})
          /\ Cardinality(Asking(p, n) \union {t}) \in Nat /\ Cardinality(Asking(p, n)') \in Nat
      BY <2>1, <3>1, PartCard
    <3> QED BY <3>1, <3>2
  <2>3. PICK k : k = Index(t)
    OBVIOUS
  <2>4. PICK new : new = <<t, k>>
    OBVIOUS
  <2>5. new[1] = t /\ new[2] = k /\ t \in ThreadsOf(p)
    BY <1>5, <2>4 DEF ThreadsOf
  <2>6. k \in 1 .. Len(Program[t]) /\ Call(t).op = "connect" /\ step[t] = "idle" /\ k \in Nat
    BY <2>3, StartedCall DEF connect_to, Calls, TypeInv
  <2>7. Program[t][k] \in [op : Op, peer : Node] /\ k \in DOMAIN Program[t]
    BY <2>6, ConfigAssumption, ElementOfSeq, LenProperties
  <2>8. Program[t][k] = [op |-> "connect", peer |-> n]
    BY <1>5, <2>3, <2>6, <2>7 DEF Call
  <2>9. new \in UNION {{u} \X DOMAIN Program[u] : u \in ThreadsOf(p)}
    <3>1. new \in {t} \X DOMAIN Program[t]
      BY <2>4, <2>7
    <3> QED BY <2>5, <3>1
  <2>10. ~Begun(t, k) /\ Begun(t, k)'
    BY <1>3, <2>3, <2>6 DEF Begun
  <2>11. new \notin ConnectCalls(p, n)
    BY <2>5, <2>10 DEF ConnectCalls
  <2>12. new \in ConnectCalls(p, n)'
    BY <2>5, <2>8, <2>9, <2>10 DEF ConnectCalls, ThreadsOf
  <2>13. Cardinality(ConnectCalls(p, n)) + 1 <= Cardinality(ConnectCalls(p, n)')
    <3>1. PICK A : A = ConnectCalls(p, n)
      OBVIOUS
    <3>2. PICK B : B = ConnectCalls(p, n)'
      OBVIOUS
    <3>3. IsFiniteSet(A) /\ A \subseteq B /\ IsFiniteSet(B)
      BY <3>1, <3>2, TallyMeans, CallsGrow DEF Finite
    <3>4. A \union {new} \subseteq B /\ new \notin A
      BY <2>11, <2>12, <3>1, <3>2, <3>3
    <3>5. Cardinality(A \union {new}) = Cardinality(A) + 1
      BY <3>3, <3>4, OneCard
    <3>6. Cardinality(A \union {new}) <= Cardinality(B)
      BY <3>3, <3>4, PartCard
    <3> QED BY <3>1, <3>2, <3>5, <3>6
  <2>14. 1 + 0 + 0 + 0 + 0 + 0 + 0 <= 1 /\ 0 \in Int /\ 1 \in Int
    OBVIOUS
  <2> QED BY <1>2, <2>2, <2>13, <2>14, LessTally, Balance
<1> QED BY <1>4, <1>5

\* The communication thread takes a request: instead of the thread that asks
\* there is a greeting to be sent.
LEMMA ConnCount ==
  ASSUME TypeInv, RendezvousInv, [Next]_vars, CountInv, NEW m \in Node, NEW t \in Thread,
         HandleConn(m, t)
  PROVE  CountInv'
<1> SUFFICES ASSUME NEW p \in Node, NEW n \in Node
             PROVE  Finite(p, n)' /\ Tally(p, n)' <= Cardinality(ConnectCalls(p, n)')
  BY DEF CountInv
<1>1. PICK e : e = Head(connpipe[t])
  OBVIOUS
<1>2. /\ TakeRequest(m, t) /\ NodeOf[t] = m /\ hpc[m] = "handle" /\ OneRendezvous /\ RequestInv
      /\ UNCHANGED <<pend, net, taskpipe, appVars>>
      /\ hpc' = [hpc EXCEPT ![m] = "hello"] /\ peerOf' = [peerOf EXCEPT ![m] = e]
      /\ clientmap' = [clientmap EXCEPT ![m] = @ \union {e}]
  BY <1>1 DEF HandleConn, TakeRequest, Turn, RendezvousInv, connRest, outVars, DestKnown
<1>3. step[t] = "lock again" /\ e = Call(t).peer
  BY <1>1, <1>2, TakeOutstanding
<1>4. CalledConnect(m, e) /\ e \in Node
  BY <1>2, <1>3, LockMeans, RunningCall DEF TypeInv
<1>5. CalledConnect(m, e)'
  BY <1>4, CalledStays
<1>6. /\ hpc'[m] = "hello" /\ peerOf'[m] = e
      /\ \A a \in Node \ {m} : hpc'[a] = hpc[a] /\ peerOf'[a] = peerOf[a]
      /\ \A a, b \in Node : a \in clientmap'[b] => a \in clientmap[b] \/ (b = m /\ a = e)
  BY <1>2, <1>4 DEF TypeInv, TypeOK
<1>7. SameHand /\ SameRead
  BY <1>2, <1>6 DEF SameHand, SameRead, IsGot, appVars
<1>8. Registered(p, n)' => Registered(p, n)
  <2>1. ASSUME Registered(p, n)' PROVE Registered(p, n)
    <3>1. ~CalledConnect(n, p) /\ ~(n = m /\ p = e)
      BY <1>5, <2>1, CalledStays DEF Registered
    <3> QED BY <1>6, <2>1, <3>1 DEF Registered
  <2> QED BY <2>1
<1>9. /\ OnWire(p, n)' = OnWire(p, n) /\ Boxed(p, n)' = Boxed(p, n)
      /\ (InHand(p, n)' => InHand(p, n)) /\ Greetings(p, n)' \subseteq Greetings(p, n)
  BY <1>2, <1>7, SameTally
<1>10. /\ AskLess /\ t \notin Asking(m, n)' /\ t \in Asking(m, e)
  BY <1>1, <1>2, TakeAsks
<1>11. CASE ~(p = m /\ n = e)
  <2>1. Greets(p, n)' => Greets(p, n)
    BY <1>6, <1>11 DEF Greets
  <2>2. Asking(p, n)' \subseteq Asking(p, n)
    BY <1>10 DEF AskLess
  <2>3. 0 + 0 + 0 + 0 + 0 + 0 + 0 <= 0 /\ 0 \in Int
    OBVIOUS
  <2> QED BY <1>8, <1>9, <2>1, <2>2, <2>3, LessTally, Balance
<1>12. CASE p = m /\ n = e
  <2>1. Bit(Greets(p, n)') <= Bit(Greets(p, n)) + 1
    BY DEF Bit
  <2>2. Asking(p, n)' \subseteq Asking(p, n) \ {t} /\ t \in Asking(p, n)
    BY <1>10, <1>12 DEF AskLess
  <2>3. Cardinality(Asking(p, n)') <= Cardinality(Asking(p, n)) + (-1)
    <3>1. /\ IsFiniteSet(Asking(p, n) \ {t}) /\ Cardinality(Asking(p, n)) \in Nat
          /\ Cardinality(Asking(p, n) \ {t}) = Cardinality(Asking(p, n)) - 1
      BY <2>2, AskingFinite, OneCard
    <3>2. Cardinality(Asking(p, n)') <= Cardinality(Asking(p, n) \ {t})
      BY <2>2, <3>1, PartCard
    <3> QED BY <3>1, <3>2
  <2>4. (-1) + 1 + 0 + 0 + 0 + 0 + 0 <= 0 /\ 0 \in Int /\ 1 \in Int /\ (-1) \in Int
    OBVIOUS
  <2> QED BY <1>8, <1>9, <2>1, <2>3, <2>4, LessTally, Balance
<1> QED BY <1>11, <1>12

\* The greeting leaves: it is on the network.
LEMMA HelloCount ==
  ASSUME TypeInv, TypeInv', [Next]_vars, CountInv, NEW m \in Node, SendHello(m),
         UNCHANGED <<taskpipe, clientmap>>, SameHand, SameRead, AskLess
  PROVE  CountInv'
<1> SUFFICES ASSUME NEW p \in Node, NEW n \in Node
             PROVE  Finite(p, n)' /\ Tally(p, n)' <= Cardinality(ConnectCalls(p, n)')
  BY DEF CountInv
<1>1. PICK d \in Node :
           /\ d = peerOf[m] /\ hpc[m] = "hello" /\ d \in route[m]
           /\ net'[m][d] = Append(net[m][d], Hello)
           /\ \A a, b \in Node : <<a, b>> # <<m, d>> => net'[a][b] = net[a][b]
  BY HelloFacts
<1>2. /\ Boxed(p, n)' = Boxed(p, n)
      /\ (InHand(p, n)' => InHand(p, n)) /\ Greetings(p, n)' \subseteq Greetings(p, n)
      /\ (Registered(p, n)' => Registered(p, n)) /\ Asking(p, n)' \subseteq Asking(p, n)
  BY SameTally DEF AskLess
<1>3. hpc'[m] = "handle" /\ UNCHANGED peerOf /\ \A a \in Node \ {m} : hpc'[a] = hpc[a]
  <2>1. hpc' = [hpc EXCEPT ![m] = "handle"] /\ UNCHANGED peerOf
    BY DEF SendHello
  <2> QED BY <2>1 DEF TypeInv, TypeOK
<1>4. CASE ~(p = m /\ n = d)
  <2>1. (Greets(p, n)' => Greets(p, n)) /\ net'[p][n] = net[p][n]
    BY <1>1, <1>3, <1>4 DEF Greets
  <2>2. OnWire(p, n)' = OnWire(p, n)
    BY <2>1, WireTally
  <2>3. 0 + 0 + 0 + 0 + 0 + 0 + 0 <= 0 /\ 0 \in Int
    OBVIOUS
  <2> QED BY <1>2, <2>1, <2>2, <2>3, LessTally, Balance
<1>5. CASE p = m /\ n = d
  <2>1. Greets(p, n) /\ ~Greets(p, n)'
    BY <1>1, <1>3, <1>5 DEF Greets
  <2>2. Bit(Greets(p, n)') <= Bit(Greets(p, n)) + (-1)
    BY <2>1 DEF Bit
  <2>3. net'[p][n] = Append(net[p][n], Hello) /\ Hello \in Message /\ Bit(Hello = Hello) = 1
    BY <1>1, <1>5, MessageType DEF Bit
  <2>4. /\ IsFiniteSet(OnWire(p, n)')
        /\ Cardinality(OnWire(p, n)') <= Cardinality(OnWire(p, n)) + 1
    <3>1. /\ IsFiniteSet(OnWire(p, n)')
          /\ Cardinality(OnWire(p, n)') <= Cardinality(OnWire(p, n)) + Bit(Hello = Hello)
      BY <2>3, WireTally
    <3> QED BY <2>3, <3>1
  <2>5. 0 + (-1) + 1 + 0 + 0 + 0 + 0 <= 0 /\ 0 \in Int /\ 1 \in Int /\ (-1) \in Int
    OBVIOUS
  <2> QED BY <1>2, <2>2, <2>4, <2>5, LessTally, Balance
<1> QED BY <1>4, <1>5

\* pollitems[1]: a greeting that arrives registers the sender or is handed on.
LEMMA RouterCount ==
  ASSUME TypeInv, TypeInv', FirstInv, [Next]_vars, CountInv, NEW m \in Node, NEW a \in Node,
         HandleRouter(m, a), UNCHANGED taskpipe, SameRead
  PROVE  CountInv'
<1> SUFFICES ASSUME NEW p \in Node, NEW n \in Node
             PROVE  Finite(p, n)' /\ Tally(p, n)' <= Cardinality(ConnectCalls(p, n)')
  BY DEF CountInv
<1>1. /\ net[a][m] # <<>> /\ net'[a][m] = Tail(net[a][m]) /\ hpc[m] = "handle"
      /\ \A x, b \in Node : <<x, b>> # <<a, m>> => net'[x][b] = net[x][b]
      /\ \A b \in Node \ {m} : hpc'[b] = hpc[b] /\ pend'[b] = pend[b] /\ peerOf'[b] = peerOf[b]
  BY RouterFacts
<1>2. UNCHANGED <<step, result, connpipe>>
  BY DEF HandleRouter, inVars, appVars
<1>3. Asking(p, n)' \subseteq Asking(p, n)
  BY <1>2 DEF Asking, ThreadsOf, Call, Index
<1>0. /\ hpc \in [Node -> {"start", "handle", "poll", "push", "hello", "stopped", "dead"}]
      /\ peerOf \in [Node -> Node] /\ pend \in [Node -> Message]
      /\ clientmap \in [Node -> SUBSET Node]
  BY DEF TypeInv, TypeOK
<1>4. hpc'[m] # "hello"
  <2>1. UNCHANGED hpc \/ hpc' = [hpc EXCEPT ![m] = "push"]
    BY DEF HandleRouter
  <2> QED BY <1>0, <1>1, <2>1
<1>5. Greets(p, n)' => Greets(p, n)
  BY <1>1, <1>4 DEF Greets
<1>6. Boxed(p, n)' = Boxed(p, n) /\ Greetings(p, n)' \subseteq Greetings(p, n)
  BY SameTally
<1>7. CASE ~(p = a /\ n = m)
  <2>1. net'[p][n] = net[p][n]
    BY <1>1, <1>7
  <2>2. OnWire(p, n)' = OnWire(p, n)
    BY <2>1, WireTally
  <2>3. InHand(p, n)' => InHand(p, n)
    <3>1. CASE n = m
      <4>1. ~(hpc'[m] = "push" /\ peerOf'[m] = p)
        <5>1. UNCHANGED hpc \/ peerOf' = [peerOf EXCEPT ![m] = a]
          BY DEF HandleRouter
        <5> QED BY <1>0, <1>1, <1>7, <3>1, <5>1
      <4> QED BY <3>1, <4>1 DEF InHand
    <3>2. CASE n # m
      BY <1>1, <3>2 DEF InHand
    <3> QED BY <3>1, <3>2
  <2>4. Registered(p, n)' => Registered(p, n)
    <3>1. UNCHANGED clientmap \/ clientmap' = [clientmap EXCEPT ![m] = @ \union {a}]
      BY DEF HandleRouter, Register
    <3>2. p \in clientmap'[n] => p \in clientmap[n]
      BY <1>0, <1>7, <3>1
    <3> QED BY <3>2, CalledStays DEF Registered
  <2>5. 0 + 0 + 0 + 0 + 0 + 0 + 0 <= 0 /\ 0 \in Int
    OBVIOUS
  <2> QED BY <1>3, <1>5, <1>6, <2>2, <2>3, <2>4, <2>5, LessTally, Balance
<1>8. CASE p = a /\ n = m
  <2>1. PICK z : z = Head(net[p][n])
    OBVIOUS
  <2>2. PICK i : i = Bit(z = Hello)
    OBVIOUS
  <2>3. i \in Int /\ (-i) \in Int /\ (z = Hello => i = 1) /\ i >= 0
    BY <2>2 DEF Bit
  <2>4. /\ IsFiniteSet(OnWire(p, n)')
        /\ Cardinality(OnWire(p, n)') <= Cardinality(OnWire(p, n)) + (-i)
    <3>1. /\ IsFiniteSet(OnWire(p, n)')
          /\ Cardinality(OnWire(p, n)') + i <= Cardinality(OnWire(p, n))
      BY <1>1, <1>8, <2>1, <2>2, WireTally
    <3>2. Cardinality(OnWire(p, n)) \in Nat /\ Cardinality(OnWire(p, n)') \in Nat
      BY <3>1, TallyMeans, FS_CardinalityType
    <3> QED BY <2>3, <3>1, <3>2
  <2>5. CASE p \notin clientmap[n]
    <3>1. z = Hello
      BY <1>1, <1>8, <2>1, <2>5 DEF FirstInv
    <3>2. Bit(Registered(p, n)') <= Bit(Registered(p, n)) + 1
      BY DEF Bit
    <3>3. UNCHANGED hpc
      BY <1>8, <2>5 DEF HandleRouter
    <3>4. InHand(p, n)' => InHand(p, n)
      BY <1>1, <1>8, <3>3 DEF InHand
    <3>5. 0 + 0 + (-i) + 1 + 0 + 0 + 0 <= 0 /\ 0 \in Int /\ 1 \in Int
      BY <2>3, <3>1
    <3> QED BY <1>3, <1>5, <1>6, <2>3, <2>4, <3>2, <3>4, <3>5, LessTally, Balance
  <2>6. CASE p \in clientmap[n]
    <3>1. UNCHANGED clientmap /\ pend'[m] = z
      <4>1. UNCHANGED clientmap /\ pend' = [pend EXCEPT ![m] = z]
        BY <1>8, <2>1, <2>6 DEF HandleRouter
      <4> QED BY <1>0, <4>1
    <3>2. Registered(p, n)' => Registered(p, n)
      BY <3>1, SameTally
    <3>3. InHand(p, n)' => z = Hello
      BY <1>8, <3>1 DEF InHand
    <3>4. Bit(InHand(p, n)') <= Bit(InHand(p, n)) + i
      BY <2>3, <3>3 DEF Bit
    <3>5. 0 + 0 + (-i) + 0 + i + 0 + 0 <= 0 /\ 0 \in Int
      BY <2>3
    <3> QED BY <1>3, <1>5, <1>6, <2>3, <2>4, <3>2, <3>4, <3>5, LessTally, Balance
  <2> QED BY <2>5, <2>6
<1> QED BY <1>7, <1>8

\* taskq: the message in hand goes to the pipe of a thread.
LEMMA PushCount ==
  ASSUME TypeInv, TypeInv', PullInv, [Next]_vars, CountInv, NEW m \in Node, PushTask(m),
         UNCHANGED <<net, clientmap>>, SameRead, AskLess, GreetLess
  PROVE  CountInv'
<1> SUFFICES ASSUME NEW p \in Node, NEW n \in Node
             PROVE  Finite(p, n)' /\ Tally(p, n)' <= Cardinality(ConnectCalls(p, n)')
  BY DEF CountInv
<1>1. PICK u \in ThreadsOf(m) : \E y \in [peer : Node, msg : Message] :
           /\ y.peer = peerOf[m] /\ y.msg = pend[m]
           /\ hpc[m] = "push" /\ hpc'[m] = "handle"
           /\ \A k \in Node \ {m} : hpc'[k] = hpc[k]
           /\ UNCHANGED <<pend, peerOf>>
           /\ taskpipe'[u] = Append(taskpipe[u], y)
           /\ \A v \in Thread \ {u} : taskpipe'[v] = taskpipe[v]
  BY PushTaskFacts
<1>2. PICK y \in [peer : Node, msg : Message] :
           /\ y.peer = peerOf[m] /\ y.msg = pend[m]
           /\ hpc[m] = "push" /\ hpc'[m] = "handle"
           /\ \A k \in Node \ {m} : hpc'[k] = hpc[k]
           /\ UNCHANGED <<pend, peerOf>>
           /\ taskpipe'[u] = Append(taskpipe[u], y)
           /\ \A v \in Thread \ {u} : taskpipe'[v] = taskpipe[v]
  BY <1>1
<1>3. u \in Thread /\ NodeOf[u] = m
  BY DEF ThreadsOf
<1>4. /\ OnWire(p, n)' = OnWire(p, n) /\ Greetings(p, n)' \subseteq Greetings(p, n)
      /\ (Registered(p, n)' => Registered(p, n)) /\ Asking(p, n)' \subseteq Asking(p, n)
      /\ (Greets(p, n)' => Greets(p, n))
  BY SameTally DEF AskLess, GreetLess
<1>5. CASE n # m
  <2>1. Boxed(p, n)' = Boxed(p, n)
    BY <1>2, <1>3, <1>5, BoxTally
  <2>2. InHand(p, n)' => InHand(p, n)
    BY <1>2, <1>5 DEF InHand
  <2>3. 0 + 0 + 0 + 0 + 0 + 0 + 0 <= 0 /\ 0 \in Int
    OBVIOUS
  <2> QED BY <1>4, <2>1, <2>2, <2>3, LessTally, Balance
<1>6. CASE n = m
  <2>1. PICK i : i = Bit(y = [peer |-> p, msg |-> Hello])
    OBVIOUS
  <2>2. i \in Int /\ (-i) \in Int
    BY <2>1 DEF Bit
  <2>3. /\ IsFiniteSet(Boxed(p, n)')
        /\ Cardinality(Boxed(p, n)') <= Cardinality(Boxed(p, n)) + i
    BY <1>2, <1>3, <1>6, <2>1, BoxTally
  <2>4. ~InHand(p, n)'
    BY <1>2, <1>6 DEF InHand
  <2>5. y = [peer |-> p, msg |-> Hello] => InHand(p, n)
    BY <1>2, <1>6 DEF InHand
  <2>6. Bit(InHand(p, n)') <= Bit(InHand(p, n)) + (-i)
    BY <2>1, <2>4, <2>5 DEF Bit
  <2>7. 0 + 0 + 0 + 0 + (-i) + i + 0 <= 0 /\ 0 \in Int
    BY <2>2
  <2> QED BY <1>4, <2>2, <2>3, <2>6, <2>7, LessTally, Balance
<1> QED BY <1>5, <1>6

\* recv: the head of the pipe is the result.
LEMMA TakeCount ==
  ASSUME TypeInv, TypeInv', [Next]_vars, CountInv, NEW t \in Thread, TakeTask(t),
         Index(t) \in 1 .. Len(Program[t]), Call(t).op \in {"recv", "recv_async"},
         UNCHANGED <<net, clientmap>>, SameHand, AskLess, GreetLess
  PROVE  CountInv'
<1> SUFFICES ASSUME NEW p \in Node, NEW n \in Node
             PROVE  Finite(p, n)' /\ Tally(p, n)' <= Cardinality(ConnectCalls(p, n)')
  BY DEF CountInv
<1>1. taskpipe[t] # <<>> /\ taskpipe'[t] = Tail(taskpipe[t])
      /\ \A v \in Thread \ {t} : taskpipe'[v] = taskpipe[v]
  BY TakeFacts
<1>2. PICK m \in [peer : Node, msg : Message] :
              /\ m = Head(taskpipe[t]) /\ m \in Range(taskpipe[t])
              /\ \A v \in Thread : \A k \in DOMAIN result'[v] :
                   \/ k \in DOMAIN result[v] /\ result'[v][k] = result[v][k]
                   \/ /\ v = t /\ k = Index(t) /\ k \notin DOMAIN result[v]
                      /\ result'[v][k].msg = m.msg /\ result'[v][k].peer = m.peer
  BY TakeFacts
<1>3. /\ OnWire(p, n)' = OnWire(p, n) /\ (InHand(p, n)' => InHand(p, n))
      /\ (Registered(p, n)' => Registered(p, n)) /\ Asking(p, n)' \subseteq Asking(p, n)
      /\ (Greets(p, n)' => Greets(p, n))
  BY SameTally DEF AskLess, GreetLess
<1>4. PICK new : new = <<t, Index(t)>>
  OBVIOUS
<1>5. PICK x : x = [peer |-> p, msg |-> Hello]
  OBVIOUS
<1>6. ASSUME NEW c \in Greetings(p, n)'
      PROVE  c \in Greetings(p, n) \/ (c = new /\ m = x /\ NodeOf[t] = n)
  <2>1. PICK v \in Thread : c \in {v} \X DOMAIN result'[v]
    BY <1>6 DEF Greetings, Got, CallsMade
  <2>2. PICK k : k = c[2]
    OBVIOUS
  <2>3. c[1] = v /\ k \in DOMAIN result'[v] /\ c = <<v, k>>
    BY <2>1, <2>2
  <2>4. /\ Program[v][k].op \in {"recv", "recv_async"} /\ result'[v][k].ret = "ok"
        /\ result'[v][k].msg = Hello /\ result'[v][k].peer = p /\ NodeOf[v] = n
    BY <1>6, <2>2, <2>3 DEF Greetings, Got, GotMessage, OpOf, Res
  <2>5. CASE k \in DOMAIN result[v] /\ result'[v][k] = result[v][k]
    <3>1. c \in CallsMade
      BY <2>3, <2>5 DEF CallsMade
    <3> QED BY <2>2, <2>3, <2>4, <2>5, <3>1 DEF Greetings, Got, GotMessage, OpOf, Res
  <2>6. CASE v = t /\ k = Index(t) /\ result'[v][k].msg = m.msg /\ result'[v][k].peer = m.peer
    <3>1. m.peer = p /\ m.msg = Hello
      BY <2>4, <2>6
    <3>2. m = x
      BY <1>5, <3>1
    <3> QED BY <1>4, <2>3, <2>4, <2>6, <3>2
  <2> QED BY <1>2, <2>3, <2>5, <2>6
<1>7. CASE NodeOf[t] # n
  <2>1. Boxed(p, n)' = Boxed(p, n)
    BY <1>1, <1>7, BoxTally
  <2>2. Greetings(p, n)' \subseteq Greetings(p, n)
    BY <1>6, <1>7
  <2>3. 0 + 0 + 0 + 0 + 0 + 0 + 0 <= 0 /\ 0 \in Int
    OBVIOUS
  <2> QED BY <1>3, <2>1, <2>2, <2>3, LessTally, Balance
<1>8. CASE NodeOf[t] = n
  <2>1. PICK i : i = Bit(m = x)
    OBVIOUS
  <2>2. i \in Int /\ (-i) \in Int
    BY <2>1 DEF Bit
  <2>3. /\ IsFiniteSet(Boxed(p, n)')
        /\ Cardinality(Boxed(p, n)') <= Cardinality(Boxed(p, n)) + (-i)
    <3>1. /\ IsFiniteSet(Boxed(p, n)')
          /\ Cardinality(Boxed(p, n)') + i <= Cardinality(Boxed(p, n))
      BY <1>1, <1>2, <1>5, <1>8, <2>1, BoxTally
    <3>2. Cardinality(Boxed(p, n)) \in Nat /\ Cardinality(Boxed(p, n)') \in Nat
      BY <3>1, TallyMeans, FS_CardinalityType
    <3> QED BY <2>2, <3>1, <3>2
  <2>4. PICK A : A = Greetings(p, n)
    OBVIOUS
  <2>5. PICK B : B = Greetings(p, n)'
    OBVIOUS
  <2>6. IsFiniteSet(A) /\ Cardinality(A) \in Nat
    BY <2>4, TallyMeans DEF Finite
  <2>7. IsFiniteSet(B) /\ Cardinality(B) <= Cardinality(A) + i
    <3>1. CASE m = x
      <4>1. B \subseteq A \union {new}
        BY <1>6, <2>4, <2>5
      <4>2. /\ IsFiniteSet(A \union {new}) /\ Cardinality(A \union {new}) <= Cardinality(A) + 1
        BY <2>6, OneCard
      <4>3. /\ IsFiniteSet(B) /\ Cardinality(B) <= Cardinality(A \union {new})
            /\ Cardinality(B) \in Nat /\ Cardinality(A \union {new}) \in Nat
        BY <4>1, <4>2, PartCard
      <4>4. i = 1
        BY <2>1, <3>1 DEF Bit
      <4> QED BY <2>6, <4>2, <4>3, <4>4
    <3>2. CASE m # x
      <4>1. B \subseteq A
        BY <1>6, <2>4, <2>5, <3>2
      <4>2. IsFiniteSet(B) /\ Cardinality(B) <= Cardinality(A)
        BY <2>6, <4>1, PartCard
      <4>3. i = 0
        BY <2>1, <3>2 DEF Bit
      <4> QED BY <2>6, <4>2, <4>3
    <3> QED BY <3>1, <3>2
  <2>8. /\ IsFiniteSet(Greetings(p, n)')
        /\ Cardinality(Greetings(p, n)') <= Cardinality(Greetings(p, n)) + i
    BY <2>4, <2>5, <2>7
  <2>9. 0 + 0 + 0 + 0 + 0 + (-i) + i <= 0 /\ 0 \in Int
    BY <2>2
  <2> QED BY <1>3, <2>2, <2>3, <2>8, <2>9, LessTally, Balance
<1> QED BY <1>7, <1>8

\* No greeting and no call of connect_to at the start.
LEMMA InitCount == Init => CountInv
<1> SUFFICES ASSUME Init, NEW p \in Node, NEW n \in Node
             PROVE  Finite(p, n) /\ Tally(p, n) <= Cardinality(ConnectCalls(p, n))
  BY DEF CountInv
<1>1. \A t \in Thread : /\ taskpipe[t] = <<>> /\ connpipe[t] = <<>> /\ result[t] = <<>>
                        /\ step[t] = "idle"
  BY DEF Init
<1>2. net[p][n] = <<>> /\ hpc[n] = "start" /\ hpc[p] = "start" /\ clientmap[n] = {}
  BY DEF Init
<1>3. OnWire(p, n) = {}
  <2>1. PICK F : F = [a \in {p} |-> net[a][n]]
    OBVIOUS
  <2>2. ASSUME NEW s \in Spots(F, Hello) PROVE FALSE
    <3>1. s[1] = p /\ s[2] \in DOMAIN F[s[1]]
      BY <2>1, <2>2, SpotMeans
    <3> QED BY <1>2, <2>1, <3>1
  <2> QED BY <2>1, <2>2 DEF OnWire
<1>4. Boxed(p, n) = {}
  <2>1. PICK F : F = [u \in ThreadsOf(n) |-> taskpipe[u]]
    OBVIOUS
  <2>2. PICK x : x = [peer |-> p, msg |-> Hello]
    OBVIOUS
  <2>3. ASSUME NEW s \in Spots(F, x) PROVE FALSE
    <3>1. s[1] \in ThreadsOf(n) /\ s[2] \in DOMAIN F[s[1]]
      BY <2>1, <2>3, SpotMeans
    <3> QED BY <1>1, <2>1, <3>1 DEF ThreadsOf
  <2> QED BY <2>1, <2>2, <2>3 DEF Boxed
<1>5. Greetings(p, n) = {}
  BY <1>1 DEF Greetings, Got, CallsMade
<1>6. ConnectCalls(p, n) = {}
  <2>1. ASSUME NEW c \in ConnectCalls(p, n) PROVE FALSE
    <3>1. c[1] \in Thread /\ c[2] \in DOMAIN Program[c[1]] /\ Begun(c[1], c[2])
      BY <2>1, ProgramCall DEF ConnectCalls
    <3>2. c[2] \in Nat /\ c[2] >= 1
      BY <3>1, ConfigAssumption
    <3>3. Index(c[1]) = 1
      BY <1>1, <3>1 DEF Index
    <3> QED BY <1>1, <3>1, <3>2, <3>3 DEF Begun
  <2> QED BY <2>1
<1>7. Asking(p, n) = {}
  BY <1>1 DEF Asking, ThreadsOf
<1>8. IsFiniteSet({}) /\ Cardinality({}) = 0
  BY FS_EmptySet
<1>9. Bit(Greets(p, n)) = 0 /\ Bit(Registered(p, n)) = 0 /\ Bit(InHand(p, n)) = 0
  BY <1>2 DEF Bit, Greets, Registered, InHand
<1> QED BY <1>3, <1>4, <1>5, <1>6, <1>7, <1>8, <1>9 DEF Finite, Tally

\* Every step preserves the count: a greeting moves from one place to the next.
LEMMA NextCount ==
  TypeInv /\ TypeInv' /\ RendezvousInv /\ RendezvousInv' /\ PullInv /\ AddrInv /\ FirstInv
    /\ CountInv /\ [Next]_vars => CountInv'
<1> SUFFICES ASSUME TypeInv, TypeInv', RendezvousInv, RendezvousInv', PullInv, AddrInv, FirstInv,
                    CountInv, [Next]_vars
             PROVE  CountInv'
  OBVIOUS
<1>1. ASSUME NEW m \in Node, NEW a \in Node, HandleRouter(m, a) PROVE CountInv'
  <2>1. UNCHANGED <<taskpipe, result>>
    BY <1>1 DEF HandleRouter, outVars, appVars
  <2>2. SameRead
    BY <2>1 DEF SameRead, IsGot
  <2> QED BY <1>1, <2>1, <2>2, RouterCount
<1>2. ASSUME AskLess, GreetLess, UNCHANGED clientmap PROVE CountInv'
  <2>1. ASSUME UNCHANGED <<net, taskpipe>>, SameHand, SameRead PROVE CountInv'
    <3>1. \A p, n \in Node : OnWire(p, n)' = OnWire(p, n)
      BY <2>1, SameTally
    <3>2. \A p, n \in Node : /\ IsFiniteSet(OnWire(p, n)')
                             /\ Cardinality(OnWire(p, n)') <= Cardinality(OnWire(p, n)) + 0
      BY <3>1, LessTally
    <3> QED BY <1>2, <2>1, <3>2, QuietCount
  <2>2. ASSUME NEW m \in Node, NEW t \in Thread, HandleMsgq(m, t), UNCHANGED taskpipe,
               SameHand, SameRead
        PROVE  CountInv'
    <3>1. \A p, n \in Node : /\ IsFiniteSet(OnWire(p, n)')
                             /\ Cardinality(OnWire(p, n)') <= Cardinality(OnWire(p, n)) + 0
      BY <2>2, MsgqCount
    <3> QED BY <1>2, <2>2, <3>1, QuietCount
  <2>3. ASSUME NEW m \in Node, SendHello(m), UNCHANGED taskpipe, SameHand, SameRead
        PROVE  CountInv'
    BY <1>2, <2>3, HelloCount
  <2>4. ASSUME NEW m \in Node, PushTask(m), UNCHANGED net, SameRead PROVE CountInv'
    BY <1>2, <2>4, PushCount
  <2>5. ASSUME NEW t \in Thread, TakeTask(t), UNCHANGED net, SameHand,
               Index(t) \in 1 .. Len(Program[t]), Call(t).op \in {"recv", "recv_async"}
        PROVE  CountInv'
    BY <1>2, <2>5, TakeCount
  <2> QED BY <1>1, <2>1, <2>2, <2>3, <2>4, <2>5, FlowSteps
<1>3. ASSUME NEW t \in Thread, connect_to(t) PROVE CountInv'
  BY <1>3, ConnectCount
<1>4. ASSUME NEW m \in Node, NEW t \in Thread, HandleConn(m, t) PROVE CountInv'
  BY <1>4, ConnCount
<1> QED BY <1>1, <1>2, <1>3, <1>4, AskSteps

\* The greetings the application gets are counted, and the one that registered
\* their sender too.
LEMMA CountMeans ==
  ASSUME TypeInv, PeerInv, CountInv, NEW p \in Node, NEW n \in Node
  PROVE  Cardinality(Greetings(p, n))
           + (IF CalledConnect(n, p) \/ Greetings(p, n) = {} THEN 0 ELSE 1)
           <= Cardinality(ConnectCalls(p, n))
<1>1. ASSUME Greetings(p, n) # {} PROVE p \in clientmap[n]
  <2>1. PICK c : c \in Greetings(p, n)
    BY <1>1
  <2>2. PICK t \in Thread : c \in {t} \X DOMAIN result[t]
    BY <2>1 DEF Greetings, Got, CallsMade
  <2>3. PICK k : k = c[2]
    OBVIOUS
  <2>4. c[1] = t /\ k \in DOMAIN result[t]
    BY <2>2, <2>3
  <2>5. IsGot(t, k) /\ result[t][k].peer = p /\ NodeOf[t] = n
    BY <2>1, <2>3, <2>4 DEF Greetings, Got, OpOf, Res, IsGot
  <2> QED BY <2>4, <2>5 DEF PeerInv
<1>2. (IF CalledConnect(n, p) \/ Greetings(p, n) = {} THEN 0 ELSE 1) <= Bit(Registered(p, n))
  BY <1>1 DEF Bit, Registered
<1>3. PICK x \in Int : x = IF CalledConnect(n, p) \/ Greetings(p, n) = {} THEN 0 ELSE 1
  OBVIOUS
<1>4. x <= Bit(Registered(p, n))
  BY <1>2, <1>3
<1>5. Cardinality(Greetings(p, n)) + x <= Cardinality(ConnectCalls(p, n))
  BY <1>4, TallyMeans DEF Tally
<1> QED BY <1>3, <1>5

\* What recv and recv_async return was sent to this node by the peer they name,
\* once, in the order of the sender; and a greeting reaches the application only
\* for a further connect_to of a peer this node knows.
THEOREM DeliveryIsOrdered == Spec => []DeliveredOnceInOrder
<1>1. TypeInv /\ AddrInv /\ FlowInv /\ PeerInv /\ CountInv => DeliveredOnceInOrder
  BY MessagesMean, CountMeans DEF DeliveredOnceInOrder
<1> QED BY <1>1, InitType, NextType, InitRendezvous, NextRendezvous, InitGreet, NextGreet,
           InitPull, NextPull, InitAddr, NextAddr, InitFlow, NextFlow, InitFirst, NextFirst,
           InitPeer, NextPeer, InitCount, NextCount, PTL DEF Spec
=============================================================================
