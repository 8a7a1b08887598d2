--------------------------- MODULE PubSub_proofs ---------------------------
(***************************************************************************)
(* Proofs about PubSub for any nodes, groups, threads, programs and        *)
(* faults: the types, and what connect_to and subscribe_to promise by      *)
(* returning 0.                                                            *)
(*                                                                         *)
(* A call that returns from sync_mtx knows only that somebody unlocked it. *)
(* OneInv says that on a node that does not publish there is at most one   *)
(* request at a time, from the pipe to the greeting that answers it, and   *)
(* that sync_mtx is locked as long; WaitInv says where the request of a    *)
(* waiting call is.  JoinInv, GreetInv and AnswerInv say where greetings   *)
(* and answers come from, so that nothing else unlocks sync_mtx.           *)
(***************************************************************************)
EXTENDS PubSub, SequenceTheorems, FiniteSetTheorems, TLAPS

-----------------------------------------------------------------------------
(* Queues: what Head, Tail and Append do to the set of the elements *)

\* Taking the head leaves a queue with no new element.
LEMMA PopFacts ==
  ASSUME NEW S, NEW q \in Seq(S), q # <<>>
  PROVE  /\ Head(q) \in S
         /\ Tail(q) \in Seq(S)
         /\ Head(q) \in Range(q)
         /\ Range(Tail(q)) \subseteq Range(q)
<1>1. /\ Head(q) \in S
      /\ Tail(q) \in Seq(S)
      /\ Len(Tail(q)) = Len(q) - 1
      /\ \A i \in 1 .. Len(Tail(q)) : Tail(q)[i] = q[i + 1]
  BY HeadTailProperties
<1>2. Len(q) \in Nat \ {0} /\ DOMAIN q = 1 .. Len(q) /\ DOMAIN Tail(q) = 1 .. Len(Tail(q))
  BY <1>1, EmptySeq, LenProperties
<1>3. Head(q) = q[1]
  OBVIOUS
<1>4. Head(q) \in Range(q)
  BY <1>2, <1>3 DEF Range
<1>5. Range(Tail(q)) \subseteq Range(q)
  <2> SUFFICES ASSUME NEW k \in DOMAIN Tail(q)
               PROVE  \E j \in DOMAIN q : Tail(q)[k] = q[j]
    BY DEF Range
  <2>1. k + 1 \in DOMAIN q /\ Tail(q)[k] = q[k + 1]
    BY <1>1, <1>2
  <2> QED BY <2>1
<1> QED BY <1>1, <1>4, <1>5

\* Only the head leaves.
LEMMA PopKeeps ==
  ASSUME NEW S, NEW q \in Seq(S), q # <<>>
  PROVE  Range(q) = {Head(q)} \union Range(Tail(q))
<1>1. /\ Tail(q) \in Seq(S)
      /\ Len(Tail(q)) = Len(q) - 1
      /\ \A i \in 1 .. Len(Tail(q)) : Tail(q)[i] = q[i + 1]
  BY HeadTailProperties
<1>2. Len(q) \in Nat \ {0} /\ DOMAIN q = 1 .. Len(q) /\ DOMAIN Tail(q) = 1 .. Len(Tail(q))
  BY <1>1, EmptySeq, LenProperties
<1>3. Range(q) \subseteq {Head(q)} \union Range(Tail(q))
  <2> SUFFICES ASSUME NEW k \in DOMAIN q, q[k] # Head(q)
               PROVE  \E j \in DOMAIN Tail(q) : q[k] = Tail(q)[j]
    BY DEF Range
  <2>1. Head(q) = q[1]
    OBVIOUS
  <2>2. k # 1
    BY <2>1
  <2>3. k - 1 \in DOMAIN Tail(q) /\ Tail(q)[k - 1] = q[k]
    BY <1>1, <1>2, <2>2
  <2> QED BY <2>3
<1> QED BY <1>3, PopFacts

\* Appending adds exactly the one element.
LEMMA PushFacts ==
  ASSUME NEW S, NEW q \in Seq(S), NEW x \in S
  PROVE  /\ Append(q, x) \in Seq(S)
         /\ Append(q, x) # <<>>
         /\ Range(Append(q, x)) = Range(q) \union {x}
<1>1. /\ Append(q, x) \in Seq(S)
      /\ Append(q, x) # <<>>
      /\ Len(Append(q, x)) = Len(q) + 1
      /\ \A i \in 1 .. Len(q) : Append(q, x)[i] = q[i]
      /\ Append(q, x)[Len(q) + 1] = x
  BY AppendProperties
<1>2. /\ Len(q) \in Nat
      /\ DOMAIN q = 1 .. Len(q)
      /\ DOMAIN Append(q, x) = 1 .. Len(q) + 1
  BY <1>1, LenProperties
<1>3. ASSUME NEW e PROVE e \in Range(Append(q, x)) <=> e \in Range(q) \union {x}
  BY <1>1, <1>2 DEF Range
<1> QED BY <1>1, <1>3

\* The empty queue has no element.
LEMMA NothingQueued == \A S : <<>> \in Seq(S) /\ Range(<<>>) = {}
  BY DEF Range

\* A queue of one element.
LEMMA OneQueued ==
  ASSUME NEW S, NEW x \in S
  PROVE  Append(<<>>, x) = <<x>> /\ Head(<<x>>) = x /\ Tail(<<x>>) = <<>>
<1>1. <<x>> \in Seq(S) /\ Len(<<x>>) = 1 /\ <<x>>[1] = x
  OBVIOUS
<1>2. Head(<<x>>) = x
  BY <1>1
<1>3. Tail(<<x>>) \in Seq(S) /\ Len(Tail(<<x>>)) = 0
  BY <1>1, HeadTailProperties
<1>4. Tail(<<x>>) = <<>>
  BY <1>3, EmptySeq
<1>5. Append(<<>>, x) = <<x>>
  <2>1. <<>> \in Seq(S) /\ Len(<<>>) = 0
    OBVIOUS
  <2>2. /\ Append(<<>>, x) \in Seq(S)
        /\ Len(Append(<<>>, x)) = 1
        /\ Append(<<>>, x)[1] = x
    BY <2>1, AppendProperties
  <2> QED BY <1>1, <2>2, SeqEqual
<1> QED BY <1>2, <1>4, <1>5

-----------------------------------------------------------------------------
(* Types: the invariant *)

PubMsg == [group : Group, msg : Message]
Task   == [from : Names, msg : Message]
Result == [ret : {"ok", "error"}, from : Names, msg : Message]
Steps  == {"idle", "pop", "lock", "lock again", "check", "pull", "greet", "greeted", "drain", "wait"}

\* The communication threads; whom they greet, or who has answered, is a node.
LoopInv ==
  /\ hpc \in [Node -> {"handle", "poll", "push", "pushsub", "hello", "dead"}]
  /\ seen \in [Node -> SUBSET Item] /\ todo \in [Node -> SUBSET Item]
  /\ pend \in [Node -> [to : Names, msg : Message]]
  /\ errcode \in [Node -> BOOLEAN] /\ mtx \in [Node -> BOOLEAN]
  /\ \A n \in Node : hpc[n] \in {"hello", "pushsub"} => pend[n].to \in Node

MapInv ==
  /\ clientmap \in [Node -> SUBSET Node] /\ publishermap \in [Node -> SUBSET Node]
  /\ clientq \in [Node -> Seq(Node)]

NetInv ==
  /\ link \subseteq Node \X Node /\ route \in [Node -> SUBSET Node]
  /\ net \in [Node -> [Node -> Seq({"hello", "sub_hello"})]]

CastInv ==
  /\ pubbound \subseteq Node
  /\ subconn \in [Node -> SUBSET Node] /\ subgroups \in [Node -> SUBSET Group]
  /\ joined \in [Node -> SUBSET (Node \X Group)]
  /\ pubnet \in [Node -> [Node -> Seq(PubMsg)]]

PipeInv ==
  /\ pubpipe \in [Thread -> Seq(PubMsg)]
  /\ connpipe \in [Thread -> Seq(Node)] /\ startpipe \in [Thread -> Seq(Node)]
  /\ subpipe \in [Thread -> Seq(CallType)]

DealInv ==
  /\ pullers \in [Node -> Seq(Thread)] /\ subpullers \in [Node -> Seq(Thread)]
  /\ turn \in [Node -> Nat] /\ subturn \in [Node -> Nat]
  /\ taskpipe \in [Thread -> Seq(Task)]
  /\ suberpipe \in [Thread -> Seq(Node)]

\* The steps of the calls.
StepOf(s, op) ==
  \/ s = "idle"
  \/ s = "pop" /\ op = "accept"
  \/ s \in {"lock", "lock again"} /\ op \in {"connect", "subscribe", "init_pub"}
  \/ s = "check" /\ op \in {"connect", "subscribe", "publish"}
  \/ s \in {"pull", "greet", "greeted", "drain"} /\ op = "init_pub"
  \/ s = "wait" /\ op = "recv"

\* A thread that is not idle is inside a call of its program; an init_pub that locks has an address.
Inside(t) ==
  step[t] # "idle" =>
    /\ Index(t) <= Len(Program[t])
    /\ StepOf(step[t], Call(t).op)
    /\ step[t] \in {"lock", "lock again"} /\ Call(t).op = "init_pub" => Call(t).peer # NoAddr

CallInv ==
  /\ prog \in DOMAIN Programs
  /\ step \in [Thread -> Steps] /\ nsubs \in [Thread -> Nat] /\ result \in [Thread -> Seq(Result)]
  /\ \A t \in Thread : Inside(t)

TypeInv == LoopInv /\ MapInv /\ NetInv /\ CastInv /\ PipeInv /\ DealInv /\ CallInv

\* The invariant types the variables.
LEMMA TypeInvImplies == TypeInv => TypeOK
<1> QED BY DEF TypeInv, TypeOK, LoopInv, MapInv, NetInv, CastInv, PipeInv, DealInv, CallInv, PubMsg, Task, Result, Steps

\* The k-th call of a program.
LEMMA CallFacts ==
  ASSUME prog \in DOMAIN Programs, NEW t \in Thread
  PROVE  /\ Program[t] \in Seq(CallType) /\ Len(Program[t]) \in Nat /\ DOMAIN Program[t] = 1 .. Len(Program[t])
         /\ \A k \in 1 .. Len(Program[t]) :
              /\ Program[t][k] \in CallType /\ Program[t][k].op \in Op
              /\ Program[t][k].peer \in Node \union {NoAddr} /\ Program[t][k].groups \subseteq Group
              /\ Program[t][k].num \in Nat
              /\ Program[t][k].op = "connect" => Program[t][k].peer \in Node
              /\ Program[t][k].op \in {"init_pub", "publish"} => Program[t][k].groups # {}
<1>1. PICK S : S = CallType
  OBVIOUS
<1>2. Program[t] \in Seq(S)
  BY <1>1, PubSubAssumption DEF Program
<1>3. Len(Program[t]) \in Nat /\ DOMAIN Program[t] = 1 .. Len(Program[t])
      /\ \A k \in 1 .. Len(Program[t]) : Program[t][k] \in S
  BY <1>2
<1>4. \A c \in S : /\ c.op \in Op /\ c.peer \in Node \union {NoAddr} /\ c.groups \subseteq Group /\ c.num \in Nat
                   /\ c.op = "connect" => c.peer \in Node
                   /\ c.op \in {"init_pub", "publish"} => c.groups # {}
  BY <1>1 DEF CallType
<1> QED BY <1>1, <1>2, <1>3, <1>4

\* The call a thread is in.
LEMMA IndexFacts ==
  ASSUME CallInv, NEW t \in Thread
  PROVE  /\ Len(result[t]) \in Nat /\ Index(t) \in Nat \ {0} /\ NodeOf[t] \in Node
         /\ Index(t) <= Len(Program[t]) =>
              /\ Index(t) \in 1 .. Len(Program[t])
              /\ Call(t) \in CallType /\ Call(t).op \in Op
              /\ Call(t).peer \in Node \union {NoAddr} /\ Call(t).groups \subseteq Group /\ Call(t).num \in Nat
              /\ Call(t).op = "connect" => Call(t).peer \in Node
              /\ Call(t).op \in {"init_pub", "publish"} => Call(t).groups # {}
<1>1. PICK S : result[t] \in Seq(S)
  BY DEF CallInv
<1>2. Len(result[t]) \in Nat /\ Index(t) \in Nat \ {0}
  BY <1>1 DEF Index
<1>3. NodeOf[t] \in Node
  BY PubSubAssumption
<1>4. Len(Program[t]) \in Nat
  BY CallFacts DEF CallInv
<1> QED BY <1>2, <1>3, <1>4, CallFacts DEF CallInv, Call

\* The names and messages the handlers and the calls make up.
LEMMA NamesFacts ==
  /\ PubHello \in Message /\ NoAddr \in Names /\ Node \subseteq Names /\ Group \subseteq Names
  /\ \A t \in Thread : \A k \in Nat : Data(t, k) \in Message
  /\ \A x \in Names : \A m \in Message : [to |-> x, msg |-> m] \in [to : Names, msg : Message]
  /\ Nothing \in [to : Names, msg : Message]
<1>1. PubHello \in Message /\ NoAddr \in Names /\ Node \subseteq Names /\ Group \subseteq Names
  BY DEF Message, Names
<1>2. \A t \in Thread : \A k \in Nat : Data(t, k) \in Message
  BY DEF Message, Data
<1>3. \A x \in Names : \A m \in Message : [to |-> x, msg |-> m] \in [to : Names, msg : Message]
  OBVIOUS
<1>4. Nothing \in [to : Names, msg : Message]
  BY <1>1, <1>3 DEF Nothing
<1> QED BY <1>1, <1>2, <1>3, <1>4

-----------------------------------------------------------------------------
(* Types: what a step leaves alone keeps them *)

\* The communication threads.
LEMMA LoopSame == ASSUME LoopInv, UNCHANGED <<hVars, errcode, mtx>> PROVE LoopInv'
<1> QED BY DEF LoopInv, hVars

\* The maps and the queue of clients.
LEMMA MapSame == ASSUME MapInv, UNCHANGED mapVars PROVE MapInv'
<1> QED BY DEF MapInv, mapVars

\* The routers.
LEMMA NetSame == ASSUME NetInv, UNCHANGED netVars PROVE NetInv'
<1> QED BY DEF NetInv, netVars

\* The publish and subscribe sockets.
LEMMA CastSame == ASSUME CastInv, UNCHANGED pubVars PROVE CastInv'
<1> QED BY DEF CastInv, pubVars

\* The pipes to the communication threads.
LEMMA PipeSame == ASSUME PipeInv, UNCHANGED inVars PROVE PipeInv'
<1> QED BY DEF PipeInv, inVars

\* taskq and suberq.
LEMMA DealSame == ASSUME DealInv, UNCHANGED outVars PROVE DealInv'
<1> QED BY DEF DealInv, outVars

\* The calls.
LEMMA CallSame == ASSUME CallInv, UNCHANGED appVars PROVE CallInv'
<1> QED BY DEF CallInv, Inside, appVars, Index, Call, Program

\* A call goes on,
LEMMA GotoCall ==
  ASSUME CallInv, NEW t \in Thread, NEW s \in Steps, Goto(t, s), prog' = prog, nsubs' \in [Thread -> Nat],
         Index(t) <= Len(Program[t]), StepOf(s, Call(t).op),
         s \in {"lock", "lock again"} /\ Call(t).op = "init_pub" => Call(t).peer # NoAddr
  PROVE  CallInv'
<1>1. step' = [step EXCEPT ![t] = s] /\ result' = result /\ step \in [Thread -> Steps]
  BY DEF Goto, CallInv
<1>2. step' \in [Thread -> Steps] /\ step'[t] = s /\ \A u \in Thread : u # t => step'[u] = step[u]
  BY <1>1
<1>3. \A u \in Thread : Index(u)' = Index(u) /\ Call(u)' = Call(u) /\ Program'[u] = Program[u]
  BY <1>1 DEF Index, Call, Program
<1>4. ASSUME NEW u \in Thread PROVE Inside(u)'
  <2>1. CASE u = t
    BY <1>2, <1>3, <2>1 DEF Inside
  <2>2. CASE u # t
    BY <1>2, <1>3, <2>2 DEF Inside, CallInv
  <2> QED BY <2>1, <2>2
<1> QED BY <1>1, <1>2, <1>4 DEF CallInv

\* or returns.
LEMMA ReturnCall ==
  ASSUME CallInv, NEW t \in Thread, NEW ret \in {"ok", "error"}, NEW from \in Names, NEW msg \in Message,
         Return(t, ret, from, msg), prog' = prog, nsubs' = nsubs
  PROVE  CallInv'
<1>1. PICK r \in Result : r = [ret |-> ret, from |-> from, msg |-> msg]
  BY DEF Result
<1>2. step' = [step EXCEPT ![t] = "idle"] /\ result' = [result EXCEPT ![t] = Append(@, r)]
      /\ step \in [Thread -> Steps] /\ result \in [Thread -> Seq(Result)]
  BY <1>1 DEF Return, CallInv
<1>3. step' \in [Thread -> Steps] /\ step'[t] = "idle" /\ \A u \in Thread : u # t => step'[u] = step[u]
  BY <1>2 DEF Steps
<1>4. Append(result[t], r) \in Seq(Result)
  BY <1>2, PushFacts
<1>5. result' \in [Thread -> Seq(Result)] /\ \A u \in Thread : u # t => result'[u] = result[u]
  BY <1>2, <1>4
<1>6. ASSUME NEW u \in Thread PROVE Inside(u)'
  <2>1. CASE u = t
    BY <1>3, <2>1 DEF Inside
  <2>2. CASE u # t
    <3>1. Index(u)' = Index(u) /\ Program' = Program
      BY <1>5, <2>2 DEF Index, Program
    <3>2. Call(u)' = Call(u)
      BY <3>1 DEF Call
    <3> QED BY <1>3, <2>2, <3>1, <3>2 DEF Inside, CallInv
  <2> QED BY <2>1, <2>2
<1> QED BY <1>3, <1>5, <1>6 DEF CallInv

-----------------------------------------------------------------------------
(* Types: the communication threads *)

\* The thread blocks or stops blocking,
LEMMA LoopBlocks ==
  ASSUME LoopInv, NEW n \in Node, NEW s \in {"handle", "push", "pushsub", "hello"},
         NEW P \in [to : Names, msg : Message], s \in {"hello", "pushsub"} => P.to \in Node,
         hpc' = [hpc EXCEPT ![n] = s], pend' = [pend EXCEPT ![n] = P], seen' = seen, errcode' = errcode,
         todo' \in [Node -> SUBSET Item], mtx' \in [Node -> BOOLEAN]
  PROVE  LoopInv'
<1>1. hpc' \in [Node -> {"handle", "poll", "push", "pushsub", "hello", "dead"}]
      /\ pend' \in [Node -> [to : Names, msg : Message]]
  BY DEF LoopInv
<1>2. ASSUME NEW m \in Node, hpc'[m] \in {"hello", "pushsub"} PROVE pend'[m].to \in Node
  <2>1. CASE m = n
    BY <1>2, <2>1 DEF LoopInv
  <2>2. CASE m # n
    <3>1. hpc'[m] = hpc[m] /\ pend'[m] = pend[m]
      BY <2>2 DEF LoopInv
    <3> QED BY <1>2, <3>1 DEF LoopInv
  <2> QED BY <2>1, <2>2
<1> QED BY <1>1, <1>2 DEF LoopInv

\* goes on,
LEMMA LoopGoes ==
  ASSUME LoopInv, hpc' = hpc, pend' = pend, seen' = seen, errcode' = errcode,
         todo' \in [Node -> SUBSET Item], mtx' \in [Node -> BOOLEAN]
  PROVE  LoopInv'
<1> QED BY DEF LoopInv

\* polls, or ends.
LEMMA LoopTurns ==
  ASSUME LoopInv, NEW n \in Node, NEW s \in {"handle", "poll", "dead"}, hpc' = [hpc EXCEPT ![n] = s], pend' = pend,
         seen' \in [Node -> SUBSET Item], todo' \in [Node -> SUBSET Item],
         errcode' \in [Node -> BOOLEAN], mtx' \in [Node -> BOOLEAN]
  PROVE  LoopInv'
<1>1. hpc' \in [Node -> {"handle", "poll", "push", "pushsub", "hello", "dead"}]
  BY DEF LoopInv
<1>2. ASSUME NEW m \in Node, hpc'[m] \in {"hello", "pushsub"} PROVE pend'[m].to \in Node
  <2>1. hpc'[m] = hpc[m]
    BY <1>2 DEF LoopInv
  <2> QED BY <1>2, <2>1 DEF LoopInv
<1> QED BY <1>1, <1>2 DEF LoopInv

\* Ending an item, unlocking and failing.
LEMMA DoneTypes ==
  ASSUME LoopInv, NEW n \in Node
  PROVE  /\ \A i : ItemDone(n, i) => todo' \in [Node -> SUBSET Item]
         /\ Unlock(n) => mtx' \in [Node -> BOOLEAN]
         /\ UNCHANGED mtx => mtx' \in [Node -> BOOLEAN]
         /\ UNCHANGED todo => todo' \in [Node -> SUBSET Item]
         /\ Fail(n) => errcode' \in [Node -> BOOLEAN] /\ hpc' = [hpc EXCEPT ![n] = "dead"]
<1>1. todo \in [Node -> SUBSET Item] /\ mtx \in [Node -> BOOLEAN] /\ errcode \in [Node -> BOOLEAN]
  BY DEF LoopInv
<1>2. \A i : ItemDone(n, i) => todo' \in [Node -> SUBSET Item]
  BY <1>1 DEF ItemDone
<1>3. Unlock(n) => mtx' \in [Node -> BOOLEAN]
  BY <1>1 DEF Unlock
<1>4. Fail(n) => errcode' \in [Node -> BOOLEAN] /\ hpc' = [hpc EXCEPT ![n] = "dead"]
  BY <1>1 DEF Fail
<1> QED BY <1>1, <1>2, <1>3, <1>4

\* What a channel holds.
LEMMA ChannelFacts ==
  ASSUME NetInv, CastInv, NEW p \in Node, NEW n \in Node
  PROVE  net[p][n] \in Seq({"hello", "sub_hello"}) /\ pubnet[p][n] \in Seq(PubMsg)
<1>1. net[p] \in [Node -> Seq({"hello", "sub_hello"})] /\ pubnet[p] \in [Node -> Seq(PubMsg)]
  BY DEF NetInv, CastInv
<1> QED BY <1>1

\* A router sends a greeting.
LEMMA SendNet ==
  ASSUME NetInv, CastInv, NEW n \in Node, NEW d \in Node, NEW m \in {"hello", "sub_hello"},
         net' = [net EXCEPT ![n][d] = Append(@, m)]
  PROVE  net' \in [Node -> [Node -> Seq({"hello", "sub_hello"})]]
<1>1. PICK S : S = {"hello", "sub_hello"}
  OBVIOUS
<1>2. Append(net[n][d], m) \in Seq(S)
  BY <1>1, ChannelFacts, PushFacts
<1>3. net \in [Node -> [Node -> Seq(S)]]
  BY <1>1 DEF NetInv
<1> QED BY <1>1, <1>2, <1>3

\* zmq::poll begins, returns or fails.
LEMMA PollTypes ==
  ASSUME TypeInv, NEW n \in Node, PollBegins(n) \/ PollReturns(n) \/ PollFails(n)
  PROVE  TypeInv'
<1>1. Ready(n) \subseteq Item
  BY DEF Ready, Item
<1>2. seen \in [Node -> SUBSET Item] /\ todo \in [Node -> SUBSET Item] /\ LoopInv
  BY DEF TypeInv, LoopInv
<1>3. UNCHANGED pollRest
  BY DEF PollBegins, PollReturns, PollFails
<1>4. LoopInv'
  <2>1. mtx' = mtx /\ pend' = pend /\ errcode \in [Node -> BOOLEAN] /\ mtx' \in [Node -> BOOLEAN]
    BY <1>2, <1>3 DEF pollRest, LoopInv
  <2>2. CASE PollBegins(n)
    <3>1. seen' \in [Node -> SUBSET Item] /\ todo' = todo /\ errcode' = errcode /\ hpc' = [hpc EXCEPT ![n] = "poll"]
      BY <1>1, <1>2, <2>2 DEF PollBegins
    <3> QED BY <1>2, <2>1, <3>1, LoopTurns
  <2>3. CASE PollReturns(n)
    <3>1. PICK R \in SUBSET Ready(n) : todo' = [todo EXCEPT ![n] = R]
      BY <2>3 DEF PollReturns
    <3>2. todo' \in [Node -> SUBSET Item]
      BY <1>1, <1>2, <3>1
    <3>3. seen' \in [Node -> SUBSET Item] /\ errcode' = errcode /\ hpc' = [hpc EXCEPT ![n] = "handle"]
      BY <1>2, <2>3 DEF PollReturns
    <3> QED BY <1>2, <2>1, <3>2, <3>3, LoopTurns
  <2>4. CASE PollFails(n)
    <3>1. seen' = seen /\ todo' = todo /\ Fail(n)
      BY <2>4 DEF PollFails
    <3>2. errcode' \in [Node -> BOOLEAN] /\ hpc' = [hpc EXCEPT ![n] = "dead"]
      BY <1>2, <3>1, DoneTypes
    <3> QED BY <1>2, <2>1, <3>1, <3>2, LoopTurns
  <2> QED BY <2>2, <2>3, <2>4
<1>5. UNCHANGED mapVars /\ UNCHANGED netVars /\ UNCHANGED pubVars /\ UNCHANGED inVars /\ UNCHANGED outVars /\ UNCHANGED appVars
  BY <1>3 DEF pollRest
<1> QED BY <1>4, <1>5, MapSame, NetSame, CastSame, PipeSame, DealSame, CallSame DEF TypeInv

\* A message between routers.
LEMMA RouterTypes ==
  ASSUME TypeInv, NEW n \in Node, NEW p \in Node, HandleRouter(n, p)
  PROVE  TypeInv'
<1>1. LoopInv /\ MapInv /\ NetInv /\ CastInv
  BY DEF TypeInv
<1>2. NetInv'
  <2>1. PICK S : S = {"hello", "sub_hello"}
    OBVIOUS
  <2>2. Tail(net[p][n]) \in Seq(S)
    BY <1>1, <2>1, ChannelFacts, PopFacts DEF HandleRouter
  <2>3. net' \in [Node -> [Node -> Seq(S)]]
    BY <1>1, <2>1, <2>2 DEF HandleRouter, NetInv
  <2> QED BY <1>1, <2>1, <2>3 DEF NetInv, HandleRouter
<1>3. todo' \in [Node -> SUBSET Item] /\ mtx' \in [Node -> BOOLEAN] /\ seen' = seen /\ errcode' = errcode
  BY <1>1, DoneTypes DEF HandleRouter
<1>4. LoopInv' /\ MapInv'
  <2>1. CASE UNCHANGED <<hpc, pend>>
    <3>1. \/ clientmap' = [clientmap EXCEPT ![n] = @ \union {p}] /\ clientq' = [clientq EXCEPT ![n] = Append(@, p)]
          \/ UNCHANGED <<clientmap, clientq>>
      BY DEF HandleRouter
    <3>2. Append(clientq[n], p) \in Seq(Node)
      BY <1>1, PushFacts DEF MapInv
    <3>3. MapInv'
      <4>1. publishermap' = publishermap
        BY DEF HandleRouter
      <4>2. clientmap' \in [Node -> SUBSET Node]
        <5>1. clientmap \in [Node -> SUBSET Node] /\ clientmap[n] \union {p} \in SUBSET Node
          BY <1>1 DEF MapInv
        <5>2. clientmap' = clientmap \/ clientmap' = [clientmap EXCEPT ![n] = clientmap[n] \union {p}]
          BY <3>1
        <5> QED BY <5>1, <5>2
      <4>3. clientq' \in [Node -> Seq(Node)]
        BY <1>1, <3>1, <3>2 DEF MapInv
      <4> QED BY <1>1, <4>1, <4>2, <4>3 DEF MapInv
    <3> QED BY <1>1, <1>3, <2>1, <3>3, LoopGoes
  <2>2. ASSUME NEW s \in {"push", "pushsub"}, Blocks(n, s, p, PubHello), UNCHANGED <<clientmap, clientq>>
        PROVE  LoopInv' /\ MapInv'
    <3>1. PICK P \in [to : Names, msg : Message] : P = [to |-> p, msg |-> PubHello] /\ P.to = p
      BY NamesFacts
    <3>2. LoopInv'
      BY <1>1, <1>3, <2>2, <3>1, LoopBlocks DEF Blocks
    <3> QED BY <1>1, <2>2, <3>2 DEF MapInv, HandleRouter
  <2> QED BY <2>1, <2>2 DEF HandleRouter
<1>5. UNCHANGED pubVars /\ UNCHANGED inVars /\ UNCHANGED outVars /\ UNCHANGED appVars
  BY DEF HandleRouter
<1> QED BY <1>2, <1>4, <1>5, CastSame, PipeSame, DealSame, CallSame DEF TypeInv

\* A PUSH socket deals to the next thread.
LEMMA NextTurn ==
  ASSUME NEW i \in Nat, NEW q \in Seq(Thread), q # <<>> PROVE (i % Len(q)) + 1 \in Nat
<1>1. Len(q) \in Nat \ {0}
  BY EmptySeq
<1> QED BY <1>1

\* An answer goes to suberq, a task to taskq.
LEMMA PushTypes ==
  ASSUME TypeInv, NEW n \in Node, PushSuber(n) \/ PushTask(n)
  PROVE  TypeInv'
<1>1. LoopInv /\ DealInv
  BY DEF TypeInv
<1>2. PICK P \in [to : Names, msg : Message] : P = Nothing
  BY NamesFacts
<1>3. LoopInv'
  <2>1. mtx' \in [Node -> BOOLEAN] /\ todo' \in [Node -> SUBSET Item]
    BY <1>1, DoneTypes DEF PushSuber, PushTask
  <2>2. hpc' = [hpc EXCEPT ![n] = "handle"] /\ pend' = [pend EXCEPT ![n] = P] /\ seen' = seen /\ errcode' = errcode
    BY <1>2 DEF PushSuber, PushTask
  <2> QED BY <1>1, <2>1, <2>2, LoopBlocks
<1>4. DealInv'
  <2>1. CASE PushSuber(n)
    <3>1. pend[n].to \in Node
      BY <1>1, <2>1 DEF LoopInv, PushSuber
    <3>2. \A u \in Thread : Append(suberpipe[u], pend[n].to) \in Seq(Node)
      BY <1>1, <3>1, PushFacts DEF DealInv
    <3>3. suberpipe' \in [Thread -> Seq(Node)]
      BY <1>1, <2>1, <3>2 DEF DealInv, PushSuber
    <3>4. (subturn[n] % Len(subpullers[n])) + 1 \in Nat
      BY <1>1, <2>1, NextTurn DEF DealInv, PushSuber
    <3>5. subturn' \in [Node -> Nat]
      BY <1>1, <2>1, <3>4 DEF DealInv, PushSuber
    <3> QED BY <1>1, <2>1, <3>3, <3>5 DEF DealInv, PushSuber
  <2>2. CASE PushTask(n)
    <3>1. PICK m \in Task : m = [from |-> pend[n].to, msg |-> pend[n].msg]
      BY <1>1 DEF LoopInv, Task
    <3>2. \A u \in Thread : Append(taskpipe[u], m) \in Seq(Task)
      BY <1>1, <3>1, PushFacts DEF DealInv
    <3>3. taskpipe' \in [Thread -> Seq(Task)]
      BY <1>1, <2>2, <3>1, <3>2 DEF DealInv, PushTask
    <3>4. (turn[n] % Len(pullers[n])) + 1 \in Nat
      BY <1>1, <2>2, NextTurn DEF DealInv, PushTask
    <3>5. turn' \in [Node -> Nat]
      BY <1>1, <2>2, <3>4 DEF DealInv, PushTask
    <3> QED BY <1>1, <2>2, <3>3, <3>5 DEF DealInv, PushTask
  <2> QED BY <2>1, <2>2
<1>5. UNCHANGED mapVars /\ UNCHANGED netVars /\ UNCHANGED pubVars /\ UNCHANGED inVars /\ UNCHANGED appVars
  BY DEF PushSuber, PushTask
<1> QED BY <1>3, <1>4, <1>5, MapSame, NetSame, CastSame, PipeSame, CallSame DEF TypeInv

\* The request for a connection that is taken names a node.
LEMMA TakeConnTypes ==
  ASSUME TypeInv, NEW n \in Node, NEW t \in Thread, TakeConn(n, t), UNCHANGED <<pubpipe, subpipe, startpipe>>
  PROVE  Head(connpipe[t]) \in Node /\ PipeInv' /\ todo' \in [Node -> SUBSET Item]
<1>1. LoopInv /\ PipeInv /\ connpipe[t] # <<>>
  BY DEF TypeInv, TakeConn
<1>2. Head(connpipe[t]) \in Node /\ Tail(connpipe[t]) \in Seq(Node)
  BY <1>1, PopFacts DEF PipeInv
<1>3. connpipe' \in [Thread -> Seq(Node)]
  BY <1>1, <1>2 DEF PipeInv, TakeConn
<1> QED BY <1>1, <1>2, <1>3, DoneTypes DEF PipeInv, TakeConn

\* The request is carried out.
LEMMA ConnTypes ==
  ASSUME TypeInv, NEW n \in Node, NEW t \in Thread, HandleConn(n, t)
  PROVE  TypeInv'
<1>1. LoopInv /\ MapInv /\ NetInv
  BY DEF TypeInv
<1>2. Head(connpipe[t]) \in Node /\ PipeInv' /\ todo' \in [Node -> SUBSET Item]
  BY TakeConnTypes DEF HandleConn
<1>3. PICK d \in Node : d = Head(connpipe[t])
  BY <1>2
<1>4. LoopInv'
  <2>1. PICK P \in [to : Names, msg : Message] : P = [to |-> d, msg |-> PubHello] /\ P.to = d
    BY NamesFacts
  <2>2. hpc' = [hpc EXCEPT ![n] = "hello"] /\ pend' = [pend EXCEPT ![n] = P] /\ seen' = seen /\ errcode' = errcode
        /\ mtx' \in [Node -> BOOLEAN]
    BY <1>1, <1>3, <2>1 DEF HandleConn, Blocks, LoopInv
  <2> QED BY <1>1, <1>2, <2>1, <2>2, LoopBlocks
<1>5. MapInv'
  BY <1>1, <1>3 DEF MapInv, HandleConn
<1>6. NetInv'
  <2>1. link' = link \union {<<n, d>>} /\ <<n, d>> \in Node \X Node
    BY <1>3 DEF HandleConn
  <2> QED BY <1>1, <2>1 DEF NetInv, HandleConn
<1>7. UNCHANGED pubVars /\ UNCHANGED outVars /\ UNCHANGED appVars
  BY DEF HandleConn
<1> QED BY <1>2, <1>4, <1>5, <1>6, <1>7, CastSame, DealSame, CallSame DEF TypeInv

\* The destination is greeted.
LEMMA HelloTypes ==
  ASSUME TypeInv, NEW n \in Node, SendHello(n)
  PROVE  TypeInv'
<1>1. LoopInv /\ NetInv /\ CastInv /\ pend[n].to \in Node
  BY DEF TypeInv, LoopInv, SendHello
<1>2. NetInv'
  <2>1. net' = [net EXCEPT ![n][pend[n].to] = Append(@, "hello")]
    BY DEF SendHello
  <2>2. net' \in [Node -> [Node -> Seq({"hello", "sub_hello"})]]
    BY <1>1, <2>1, SendNet
  <2> QED BY <1>1, <2>2 DEF NetInv, SendHello
<1>3. LoopInv'
  <2>1. PICK P \in [to : Names, msg : Message] : P = Nothing
    BY NamesFacts
  <2>2. hpc' = [hpc EXCEPT ![n] = "handle"] /\ pend' = [pend EXCEPT ![n] = P] /\ seen' = seen /\ errcode' = errcode
    BY <2>1 DEF SendHello
  <2>3. mtx' \in [Node -> BOOLEAN] /\ todo' \in [Node -> SUBSET Item]
    BY <1>1, DoneTypes DEF SendHello
  <2> QED BY <1>1, <2>2, <2>3, LoopBlocks
<1>4. UNCHANGED mapVars /\ UNCHANGED pubVars /\ UNCHANGED inVars /\ UNCHANGED outVars /\ UNCHANGED appVars
  BY DEF SendHello
<1> QED BY <1>2, <1>3, <1>4, MapSame, CastSame, PipeSame, DealSame, CallSame DEF TypeInv

\* A message is published to those it travels to.
LEMMA PubsendTypes ==
  ASSUME TypeInv, NEW n \in Node, NEW t \in Thread, HandlePubsend(n, t)
  PROVE  TypeInv'
<1>1. LoopInv /\ CastInv /\ PipeInv /\ NetInv /\ pubpipe[t] # <<>>
  BY DEF TypeInv, HandlePubsend
<1>2. Head(pubpipe[t]) \in PubMsg /\ Tail(pubpipe[t]) \in Seq(PubMsg)
  BY <1>1, PopFacts DEF PipeInv
<1>3. PICK msg \in PubMsg : msg = Head(pubpipe[t])
  BY <1>2
<1>4. CastInv'
  <2>1. PICK f : f = [m \in Node |-> IF Travels(n, m, msg) THEN Append(pubnet[n][m], msg) ELSE pubnet[n][m]]
    OBVIOUS
  <2>2. \A m \in Node : Append(pubnet[n][m], msg) \in Seq(PubMsg) /\ pubnet[n][m] \in Seq(PubMsg)
    BY <1>1, <1>3, ChannelFacts, PushFacts
  <2>3. f \in [Node -> Seq(PubMsg)]
    BY <2>1, <2>2
  <2>4. pubnet' = [pubnet EXCEPT ![n] = f]
    BY <1>1, <1>3, <2>1 DEF HandlePubsend, CastInv
  <2>5. pubnet' \in [Node -> [Node -> Seq(PubMsg)]]
    BY <1>1, <2>3, <2>4 DEF CastInv
  <2> QED BY <1>1, <2>5 DEF CastInv, HandlePubsend
<1>5. PipeInv'
  <2>1. pubpipe' \in [Thread -> Seq(PubMsg)]
    BY <1>1, <1>2 DEF PipeInv, HandlePubsend
  <2> QED BY <1>1, <2>1 DEF PipeInv, HandlePubsend
<1>6. LoopInv'
  <2>1. mtx' \in [Node -> BOOLEAN] /\ todo' \in [Node -> SUBSET Item]
    BY <1>1, DoneTypes DEF HandlePubsend
  <2>2. hpc' = hpc /\ pend' = pend /\ seen' = seen /\ errcode' = errcode
    BY DEF HandlePubsend
  <2> QED BY <1>1, <2>1, <2>2, LoopGoes
<1>7. UNCHANGED mapVars /\ UNCHANGED netVars /\ UNCHANGED outVars /\ UNCHANGED appVars
  BY DEF HandlePubsend
<1> QED BY <1>4, <1>5, <1>6, <1>7, MapSame, NetSame, DealSame, CallSame DEF TypeInv

\* sub_sock is connected and its groups are set, or some of them.
LEMMA SubTypes ==
  ASSUME TypeInv, NEW n \in Node, NEW t \in Thread, HandleSub(n, t) \/ SubFails(n, t)
  PROVE  TypeInv'
<1>1. LoopInv /\ CastInv /\ PipeInv /\ subpipe[t] # <<>>
  BY DEF TypeInv, HandleSub, SubFails, TakeSub
<1>2. Head(subpipe[t]) \in CallType /\ Tail(subpipe[t]) \in Seq(CallType)
  BY <1>1, PopFacts DEF PipeInv
<1>3. PICK r \in CallType : r = Head(subpipe[t])
  BY <1>2
<1>4. CastInv'
  <2>1. r.peer \in Node \union {NoAddr} /\ r.groups \subseteq Group
    BY <1>3 DEF CallType
  <2>2. PICK gs \in SUBSET Group :
          /\ subconn' = [subconn EXCEPT ![n] = @ \union ({r.peer} \ {NoAddr})]
          /\ subgroups' = [subgroups EXCEPT ![n] = @ \union gs]
    BY <1>3, <2>1 DEF HandleSub, SubFails, TakeSub, Listed
  <2>3. subconn' \in [Node -> SUBSET Node] /\ subgroups' \in [Node -> SUBSET Group]
    BY <1>1, <2>1, <2>2 DEF CastInv
  <2> QED BY <1>1, <2>3 DEF CastInv, HandleSub, SubFails, TakeSub
<1>5. PipeInv'
  <2>1. subpipe' \in [Thread -> Seq(CallType)]
    BY <1>1, <1>2 DEF PipeInv, HandleSub, SubFails, TakeSub
  <2> QED BY <1>1, <2>1 DEF PipeInv, HandleSub, SubFails, TakeSub
<1>6. LoopInv'
  <2>1. mtx' \in [Node -> BOOLEAN] /\ todo' \in [Node -> SUBSET Item]
    BY <1>1, DoneTypes DEF HandleSub, SubFails, TakeSub, SubWaits, LoopInv
  <2>2. pend' = pend /\ seen' = seen
    BY DEF HandleSub, SubFails
  <2>3. CASE HandleSub(n, t)
    <3>1. hpc' = hpc /\ errcode' = errcode
      BY <2>3 DEF HandleSub
    <3> QED BY <1>1, <2>1, <2>2, <3>1, LoopGoes
  <2>4. CASE SubFails(n, t)
    <3>1. errcode' \in [Node -> BOOLEAN] /\ hpc' = [hpc EXCEPT ![n] = "dead"]
      BY <1>1, <2>4, DoneTypes DEF SubFails
    <3>2. seen' \in [Node -> SUBSET Item]
      BY <1>1, <2>2 DEF LoopInv
    <3> QED BY <1>1, <2>1, <2>2, <3>1, <3>2, LoopTurns
  <2> QED BY <2>3, <2>4
<1>7. UNCHANGED mapVars /\ UNCHANGED netVars /\ UNCHANGED outVars /\ UNCHANGED appVars
  BY DEF HandleSub, SubFails
<1> QED BY <1>4, <1>5, <1>6, <1>7, MapSame, NetSame, DealSame, CallSame DEF TypeInv

\* A publication is answered, ignored or becomes a task.
LEMMA SubsockTypes ==
  ASSUME TypeInv, NEW n \in Node, NEW p \in Node, HandleSubsock(n, p)
  PROVE  TypeInv'
<1>1. LoopInv /\ MapInv /\ NetInv /\ CastInv /\ pubnet[p][n] # <<>>
  BY DEF TypeInv, HandleSubsock
<1>2. pubnet[p][n] \in Seq(PubMsg)
  BY <1>1, ChannelFacts
<1>3. Head(pubnet[p][n]) \in PubMsg /\ Tail(pubnet[p][n]) \in Seq(PubMsg)
  BY <1>1, <1>2, PopFacts
<1>4. PICK m \in PubMsg : m = Head(pubnet[p][n])
  BY <1>3
<1>5. CastInv'
  <2>1. pubnet' \in [Node -> [Node -> Seq(PubMsg)]]
    BY <1>1, <1>3 DEF CastInv, HandleSubsock
  <2> QED BY <1>1, <2>1 DEF CastInv, HandleSubsock
<1>6. seen' = seen /\ errcode' = errcode /\ todo' \in [Node -> SUBSET Item] /\ clientmap' = clientmap
      /\ clientq' = clientq /\ link' = link /\ route' = route
  BY <1>1, DoneTypes DEF HandleSubsock
<1>7. LoopInv' /\ MapInv' /\ NetInv'
  <2>1. CASE Answer(n, p) /\ UNCHANGED <<hpc, pend>>
    <3>1. mtx' \in [Node -> BOOLEAN]
      BY <1>1, <2>1, DoneTypes DEF Answer
    <3>2. LoopInv'
      BY <1>1, <1>6, <2>1, <3>1, LoopGoes
    <3>3. publishermap' \in [Node -> SUBSET Node]
      BY <1>1, <2>1 DEF Answer, MapInv
    <3>4. MapInv'
      BY <1>1, <1>6, <3>3 DEF MapInv
    <3>5. net' = net \/ net' = [net EXCEPT ![n][p] = Append(@, "sub_hello")]
      BY <2>1 DEF Answer
    <3>6. net' \in [Node -> [Node -> Seq({"hello", "sub_hello"})]]
      <4>1. CASE net' = net
        BY <1>1, <4>1 DEF NetInv
      <4>2. CASE net' = [net EXCEPT ![n][p] = Append(@, "sub_hello")]
        BY <1>1, <4>2, SendNet
      <4> QED BY <3>5, <4>1, <4>2
    <3>7. NetInv'
      BY <1>1, <1>6, <3>6 DEF NetInv
    <3> QED BY <3>2, <3>4, <3>7
  <2>2. CASE UNCHANGED <<hpc, pend, net, publishermap, mtx>>
    <3>1. mtx' \in [Node -> BOOLEAN]
      BY <1>1, <2>2 DEF LoopInv
    <3>2. LoopInv'
      BY <1>1, <1>6, <2>2, <3>1, LoopGoes
    <3> QED BY <1>1, <1>6, <2>2, <3>2 DEF MapInv, NetInv
  <2>3. CASE Blocks(n, "push", m.group, m.msg) /\ UNCHANGED <<net, publishermap, mtx>>
    <3>1. m.group \in Names /\ m.msg \in Message
      BY <1>4 DEF PubMsg, Names
    <3>2. PICK P \in [to : Names, msg : Message] : P = [to |-> m.group, msg |-> m.msg]
      BY <3>1
    <3>3. hpc' = [hpc EXCEPT ![n] = "push"] /\ pend' = [pend EXCEPT ![n] = P] /\ mtx' \in [Node -> BOOLEAN]
      BY <1>1, <2>3, <3>2 DEF Blocks, LoopInv
    <3>4. LoopInv'
      BY <1>1, <1>6, <3>3, LoopBlocks
    <3> QED BY <1>1, <1>6, <2>3, <3>4 DEF MapInv, NetInv
  <2> QED BY <1>4, <2>1, <2>2, <2>3 DEF HandleSubsock
<1>8. UNCHANGED inVars /\ UNCHANGED outVars /\ UNCHANGED appVars
  BY DEF HandleSubsock
<1> QED BY <1>5, <1>7, <1>8, PipeSame, DealSame, CallSame DEF TypeInv

\* pub_sock is bound.
LEMMA PubstartTypes ==
  ASSUME TypeInv, NEW n \in Node, NEW t \in Thread, HandlePubstart(n, t)
  PROVE  TypeInv'
<1>1. LoopInv /\ CastInv /\ PipeInv /\ startpipe[t] # <<>>
  BY DEF TypeInv, HandlePubstart
<1>2. Tail(startpipe[t]) \in Seq(Node)
  BY <1>1, PopFacts DEF PipeInv
<1>3. PipeInv'
  <2>1. startpipe' \in [Thread -> Seq(Node)]
    BY <1>1, <1>2 DEF PipeInv, HandlePubstart
  <2> QED BY <1>1, <2>1 DEF PipeInv, HandlePubstart
<1>4. CastInv'
  BY <1>1 DEF CastInv, HandlePubstart
<1>5. LoopInv'
  <2>1. mtx' \in [Node -> BOOLEAN] /\ todo' \in [Node -> SUBSET Item]
    BY <1>1, DoneTypes DEF HandlePubstart
  <2>2. hpc' = hpc /\ pend' = pend /\ seen' = seen /\ errcode' = errcode
    BY DEF HandlePubstart
  <2> QED BY <1>1, <2>1, <2>2, LoopGoes
<1>6. UNCHANGED mapVars /\ UNCHANGED netVars /\ UNCHANGED outVars /\ UNCHANGED appVars
  BY DEF HandlePubstart
<1> QED BY <1>3, <1>4, <1>5, <1>6, MapSame, NetSame, DealSame, CallSame DEF TypeInv

\* A branch of the loop fails.
LEMMA FailTypes ==
  ASSUME TypeInv, NEW n \in Node, BranchFails(n) \/ \E t \in Thread : ConnFails(n, t)
  PROVE  TypeInv'
<1>1. LoopInv
  BY DEF TypeInv
<1>2. UNCHANGED failRest /\ Fail(n)
  BY DEF BranchFails, ConnFails, SubFails, TakeSub
<1>3. pubpipe' = pubpipe /\ subpipe' = subpipe /\ startpipe' = startpipe /\ seen' = seen /\ pend' = pend
  BY <1>2 DEF failRest
<1>4. PipeInv' /\ todo' \in [Node -> SUBSET Item] /\ mtx' \in [Node -> BOOLEAN]
  <2>1. CASE BranchFails(n)
    <3>1. connpipe' = connpipe /\ todo' = todo /\ mtx' = mtx
      BY <2>1 DEF BranchFails
    <3>2. PipeInv'
      BY <1>3, <3>1 DEF TypeInv, PipeInv
    <3> QED BY <1>1, <3>1, <3>2 DEF LoopInv
  <2>2. ASSUME NEW t \in Thread, ConnFails(n, t) PROVE PipeInv' /\ todo' \in [Node -> SUBSET Item] /\ mtx' \in [Node -> BOOLEAN]
    <3>1. TakeConn(n, t) /\ Unlock(n)
      BY <2>2 DEF ConnFails
    <3>2. PipeInv' /\ todo' \in [Node -> SUBSET Item]
      BY <1>3, <3>1, TakeConnTypes
    <3> QED BY <1>1, <3>1, <3>2, DoneTypes
  <2> QED BY <2>1, <2>2
<1>5. LoopInv'
  <2>1. errcode' \in [Node -> BOOLEAN] /\ hpc' = [hpc EXCEPT ![n] = "dead"]
    BY <1>1, <1>2, DoneTypes
  <2>2. seen' \in [Node -> SUBSET Item]
    BY <1>1, <1>3 DEF LoopInv
  <2> QED BY <1>1, <1>3, <1>4, <2>1, <2>2, LoopTurns
<1>6. UNCHANGED mapVars /\ UNCHANGED netVars /\ UNCHANGED pubVars /\ UNCHANGED outVars /\ UNCHANGED appVars
  BY <1>2 DEF failRest
<1> QED BY <1>4, <1>5, <1>6, MapSame, NetSame, CastSame, DealSame, CallSame DEF TypeInv

\* 0MQ's own threads.
LEMMA NetworkTypes ==
  ASSUME TypeInv, NetworkNext PROVE TypeInv'
<1>1. ASSUME NEW n \in Node, NEW d \in Node, Handshake(n, d) PROVE TypeInv'
  <2>1. NetInv'
    BY <1>1 DEF TypeInv, NetInv, Handshake
  <2>2. UNCHANGED <<hVars, errcode, mtx>> /\ UNCHANGED mapVars /\ UNCHANGED pubVars /\ UNCHANGED inVars
        /\ UNCHANGED outVars /\ UNCHANGED appVars
    BY <1>1 DEF Handshake
  <2> QED BY <2>1, <2>2, LoopSame, MapSame, CastSame, PipeSame, DealSame, CallSame DEF TypeInv
<1>2. ASSUME NEW p \in Node, NEW n \in Node, NEW g \in Group, Join(p, n, g) PROVE TypeInv'
  <2>1. CastInv'
    <3>1. PICK x \in Node \X Group : x = <<n, g>>
      OBVIOUS
    <3>2. joined' = [joined EXCEPT ![p] = @ \union {x}] /\ joined \in [Node -> SUBSET (Node \X Group)]
      BY <1>2, <3>1 DEF Join, TypeInv, CastInv
    <3>3. joined' \in [Node -> SUBSET (Node \X Group)]
      BY <3>1, <3>2
    <3> QED BY <1>2, <3>3 DEF TypeInv, CastInv, Join
  <2>2. UNCHANGED <<hVars, errcode, mtx>> /\ UNCHANGED mapVars /\ UNCHANGED netVars /\ UNCHANGED inVars
        /\ UNCHANGED outVars /\ UNCHANGED appVars
    BY <1>2 DEF Join
  <2> QED BY <2>1, <2>2, LoopSame, MapSame, NetSame, PipeSame, DealSame, CallSame DEF TypeInv
<1> QED BY <1>1, <1>2 DEF NetworkNext

\* Every step of a communication thread keeps the types.
LEMMA HandlerTypes ==
  ASSUME TypeInv, NEW n \in Node, HandlerNext(n) \/ HandlerFails(n) PROVE TypeInv'
<1> QED BY PollTypes, RouterTypes, PushTypes, ConnTypes, HelloTypes, PubsendTypes, SubTypes, SubsockTypes,
           PubstartTypes, FailTypes DEF HandlerNext, HandlerFails

-----------------------------------------------------------------------------
(* Types: the calls *)

\* A step of a call leaves these alone.
LEMMA RestTypes ==
  ASSUME TypeInv, UNCHANGED handlerRest PROVE MapInv' /\ NetInv' /\ CastInv' /\ prog' = prog
<1>1. UNCHANGED mapVars /\ UNCHANGED netVars /\ UNCHANGED pubVars /\ prog' = prog
  BY DEF handlerRest
<1> QED BY <1>1, MapSame, NetSame, CastSame DEF TypeInv

\* and these if it does not touch sync_mtx.
LEMMA LoopRest ==
  ASSUME TypeInv, UNCHANGED handlerRest, UNCHANGED mtx PROVE LoopInv'
<1>1. UNCHANGED <<hVars, errcode, mtx>>
  BY DEF handlerRest
<1> QED BY <1>1, LoopSame DEF TypeInv

\* A step of a call that touches nothing else.
LEMMA QuietCall ==
  ASSUME TypeInv, UNCHANGED handlerRest, UNCHANGED mtx, UNCHANGED inVars, UNCHANGED outVars, CallInv'
  PROVE  TypeInv'
<1> QED BY RestTypes, LoopRest, PipeSame, DealSame DEF TypeInv

\* What a call returns at its end.
LEMMA VerdictType == \A n : Verdict(n) \in {"ok", "error"}
<1> QED BY DEF Verdict

\* The calls begin.
LEMMA BeginTypes ==
  ASSUME TypeInv, NEW t \in Thread,
         get_one_connection(t) \/ connect_to(t) \/ subscribe_to(t) \/ init_pub(t)
  PROVE  TypeInv'
<1>1. CallInv /\ UNCHANGED handlerRest /\ UNCHANGED mtx /\ UNCHANGED inVars /\ UNCHANGED outVars /\ nsubs' = nsubs
  BY DEF TypeInv, get_one_connection, connect_to, subscribe_to, init_pub
<1>2. prog' = prog /\ nsubs' \in [Thread -> Nat]
  BY <1>1 DEF handlerRest, CallInv
<1>3. Index(t) <= Len(Program[t])
  BY DEF get_one_connection, connect_to, subscribe_to, init_pub, Calls
<1>4. PICK s \in Steps : /\ Goto(t, s) /\ StepOf(s, Call(t).op)
                         /\ s \in {"lock", "lock again"} /\ Call(t).op = "init_pub" => Call(t).peer # NoAddr
  <2>1. CASE get_one_connection(t)
    <3>1. Call(t).op = "accept" /\ Goto(t, "pop")
      BY <2>1 DEF get_one_connection, Calls
    <3> QED BY <3>1 DEF StepOf, Steps
  <2>2. CASE connect_to(t)
    <3>1. Call(t).op = "connect" /\ Goto(t, "lock")
      BY <2>2 DEF connect_to, Calls
    <3> QED BY <3>1 DEF StepOf, Steps
  <2>3. CASE subscribe_to(t)
    <3>1. Call(t).op = "subscribe" /\ Goto(t, "lock")
      BY <2>3 DEF subscribe_to, Calls
    <3> QED BY <3>1 DEF StepOf, Steps
  <2>4. CASE init_pub(t)
    <3>1. Call(t).op = "init_pub" /\ Goto(t, IF Call(t).peer = NoAddr THEN "pull" ELSE "lock")
      BY <2>4 DEF init_pub, Calls
    <3>2. CASE Call(t).peer = NoAddr
      BY <3>1, <3>2 DEF StepOf, Steps
    <3>3. CASE Call(t).peer # NoAddr
      BY <3>1, <3>3 DEF StepOf, Steps
    <3> QED BY <3>2, <3>3
  <2> QED BY <2>1, <2>2, <2>3, <2>4
<1>5. CallInv'
  BY <1>1, <1>2, <1>3, <1>4, GotoCall
<1> QED BY <1>1, <1>5, QuietCall

\* The calls that end without taking anything.
LEMMA EndTypes ==
  ASSUME TypeInv, NEW t \in Thread, Refused(t) \/ CheckReturns(t) \/ InitPubReturns(t)
  PROVE  TypeInv'
<1>1. CallInv /\ UNCHANGED handlerRest /\ UNCHANGED mtx /\ UNCHANGED inVars /\ UNCHANGED outVars /\ nsubs' = nsubs
  BY DEF TypeInv, Refused, CheckReturns, InitPubReturns
<1>2. prog' = prog
  BY <1>1 DEF handlerRest
<1>3. PICK r \in {"ok", "error"} : Return(t, r, NoAddr, PubHello)
  BY VerdictType DEF Refused, CheckReturns, InitPubReturns
<1>4. NoAddr \in Names /\ PubHello \in Message
  BY NamesFacts
<1>5. CallInv'
  BY <1>1, <1>2, <1>3, <1>4, ReturnCall
<1> QED BY <1>1, <1>5, QuietCall

\* get_one_connection returns a node.
LEMMA AcceptTypes ==
  ASSUME TypeInv, NEW t \in Thread, AcceptReturns(t)
  PROVE  TypeInv'
<1>1. PICK n \in Node : n = NodeOf[t]
  BY IndexFacts DEF TypeInv
<1>2. MapInv /\ CallInv /\ clientq[n] # <<>> /\ clientq' = [clientq EXCEPT ![n] = Tail(@)]
      /\ Return(t, "ok", Head(clientq[n]), PubHello) /\ prog' = prog /\ nsubs' = nsubs
      /\ clientmap' = clientmap /\ publishermap' = publishermap
  BY <1>1 DEF TypeInv, AcceptReturns
<1>3. Head(clientq[n]) \in Node /\ Tail(clientq[n]) \in Seq(Node)
  BY <1>2, PopFacts DEF MapInv
<1>4. MapInv'
  BY <1>2, <1>3 DEF MapInv
<1>5. Head(clientq[n]) \in Names /\ PubHello \in Message
  BY <1>3, NamesFacts
<1>6. CallInv'
  BY <1>2, <1>5, ReturnCall
<1>7. UNCHANGED <<hVars, errcode, mtx>> /\ UNCHANGED netVars /\ UNCHANGED pubVars /\ UNCHANGED inVars /\ UNCHANGED outVars
  BY DEF AcceptReturns
<1> QED BY <1>4, <1>6, <1>7, LoopSame, NetSame, CastSame, PipeSame, DealSame DEF TypeInv

\* A request goes into its pipe.
LEMMA RequestTypes ==
  ASSUME TypeInv, NEW t \in Thread, PushRequest(t)
  PROVE  TypeInv'
<1>1. CallInv /\ PipeInv /\ UNCHANGED handlerRest /\ UNCHANGED outVars /\ nsubs' = nsubs /\ pubpipe' = pubpipe
      /\ Goto(t, "lock again") /\ step[t] = "lock" /\ mtx' = [mtx EXCEPT ![NodeOf[t]] = TRUE]
  BY DEF TypeInv, PushRequest
<1>2. Index(t) <= Len(Program[t]) /\ StepOf("lock", Call(t).op) /\ (Call(t).op = "init_pub" => Call(t).peer # NoAddr)
  BY <1>1 DEF CallInv, Inside
<1>3. Call(t) \in CallType /\ (Call(t).op \in {"connect", "init_pub"} => Call(t).peer \in Node)
  BY <1>1, <1>2, IndexFacts
<1>4. CallInv'
  <2>1. prog' = prog /\ nsubs' \in [Thread -> Nat] /\ "lock again" \in Steps /\ StepOf("lock again", Call(t).op)
    BY <1>1, <1>2 DEF handlerRest, CallInv, Steps, StepOf
  <2> QED BY <1>1, <1>2, <2>1, GotoCall
<1>5. PipeInv'
  <2>1. PICK c \in CallType : c = Call(t)
    BY <1>3
  <2>2. c.op \in {"connect", "init_pub"} => /\ Append(connpipe[t], c.peer) \in Seq(Node)
                                            /\ Append(startpipe[t], c.peer) \in Seq(Node)
    BY <1>1, <1>3, <2>1, PushFacts DEF PipeInv
  <2>3. Append(subpipe[t], c) \in Seq(CallType)
    BY <1>1, <2>1, PushFacts DEF PipeInv
  <2>4. CASE c.op = "connect" /\ connpipe' = [connpipe EXCEPT ![t] = Append(@, c.peer)] /\ UNCHANGED <<subpipe, startpipe>>
    <3>1. connpipe' \in [Thread -> Seq(Node)]
      BY <1>1, <2>2, <2>4 DEF PipeInv
    <3> QED BY <1>1, <2>4, <3>1 DEF PipeInv
  <2>5. CASE subpipe' = [subpipe EXCEPT ![t] = Append(@, c)] /\ UNCHANGED <<connpipe, startpipe>>
    <3>1. subpipe' \in [Thread -> Seq(CallType)]
      BY <1>1, <2>3, <2>5 DEF PipeInv
    <3> QED BY <1>1, <2>5, <3>1 DEF PipeInv
  <2>6. CASE c.op = "init_pub" /\ startpipe' = [startpipe EXCEPT ![t] = Append(@, c.peer)] /\ UNCHANGED <<connpipe, subpipe>>
    <3>1. startpipe' \in [Thread -> Seq(Node)]
      BY <1>1, <2>2, <2>6 DEF PipeInv
    <3> QED BY <1>1, <2>6, <3>1 DEF PipeInv
  <2> QED BY <2>1, <2>4, <2>5, <2>6 DEF PushRequest
<1>6. LoopInv'
  <2>1. LoopInv /\ hpc' = hpc /\ pend' = pend /\ seen' = seen /\ errcode' = errcode /\ todo' = todo
    BY <1>1 DEF handlerRest, hVars, TypeInv
  <2>2. mtx' \in [Node -> BOOLEAN] /\ todo' \in [Node -> SUBSET Item]
    BY <1>1, <2>1 DEF LoopInv
  <2> QED BY <2>1, <2>2, LoopGoes
<1> QED BY <1>1, <1>4, <1>5, <1>6, RestTypes, DealSame DEF TypeInv

\* A call is released.
LEMMA WakesTypes ==
  ASSUME TypeInv, NEW t \in Thread, Wakes(t)
  PROVE  TypeInv'
<1>1. CallInv /\ UNCHANGED handlerRest /\ UNCHANGED mtx /\ UNCHANGED inVars /\ UNCHANGED outVars /\ nsubs' = nsubs
      /\ step[t] = "lock again"
  BY DEF TypeInv, Wakes
<1>2. prog' = prog /\ nsubs' \in [Thread -> Nat] /\ Index(t) <= Len(Program[t]) /\ StepOf("lock again", Call(t).op)
  BY <1>1 DEF handlerRest, CallInv, Inside
<1>3. PICK s \in {"pull", "check"} : Goto(t, s) /\ StepOf(s, Call(t).op)
  <2>1. CASE Call(t).op = "init_pub"
    BY <2>1 DEF Wakes, StepOf
  <2>2. CASE Call(t).op # "init_pub"
    BY <1>2, <2>2 DEF Wakes, StepOf
  <2> QED BY <2>1, <2>2
<1>4. s \in Steps /\ s \notin {"lock", "lock again"}
  BY <1>3 DEF Steps
<1>5. CallInv'
  BY <1>1, <1>2, <1>3, <1>4, GotoCall
<1> QED BY <1>1, <1>5, QuietCall

\* A message goes into the pipe of publications.
LEMMA PushPubTypes ==
  ASSUME TypeInv, NEW t \in Thread, NEW msg \in Message, PushPub(t, msg), UNCHANGED <<connpipe, subpipe, startpipe>>,
         Index(t) <= Len(Program[t]), Call(t).op \in {"init_pub", "publish"}
  PROVE  PipeInv'
<1>1. Call(t).groups \subseteq Group /\ Call(t).groups # {}
  BY IndexFacts DEF TypeInv
<1>2. TheGroup(t) \in Group
  BY <1>1 DEF TheGroup
<1>3. PICK m \in PubMsg : m = [group |-> TheGroup(t), msg |-> msg]
  BY <1>2 DEF PubMsg
<1>4. pubpipe \in [Thread -> Seq(PubMsg)] /\ pubpipe' = [pubpipe EXCEPT ![t] = Append(@, m)]
  BY <1>3 DEF TypeInv, PipeInv, PushPub
<1>5. Append(pubpipe[t], m) \in Seq(PubMsg)
  BY <1>4, PushFacts
<1>6. pubpipe' \in [Thread -> Seq(PubMsg)]
  BY <1>4, <1>5
<1> QED BY <1>6 DEF PipeInv, TypeInv

\* A publication goes into its pipe.
LEMMA PublishTypes ==
  ASSUME TypeInv, NEW t \in Thread, publish(t)
  PROVE  TypeInv'
<1>1. CallInv /\ UNCHANGED handlerRest /\ UNCHANGED mtx /\ UNCHANGED outVars /\ nsubs' = nsubs
      /\ UNCHANGED <<connpipe, subpipe, startpipe>>
      /\ Index(t) <= Len(Program[t]) /\ Call(t).op = "publish" /\ PushPub(t, Data(t, Index(t))) /\ Goto(t, "check")
  BY DEF TypeInv, publish, Calls
<1>2. Data(t, Index(t)) \in Message
  BY <1>1, IndexFacts, NamesFacts
<1>3. PipeInv'
  BY <1>1, <1>2, PushPubTypes
<1>4. prog' = prog /\ nsubs' \in [Thread -> Nat] /\ "check" \in Steps /\ StepOf("check", Call(t).op)
  BY <1>1 DEF handlerRest, CallInv, Steps, StepOf
<1>5. CallInv'
  BY <1>1, <1>4, GotoCall
<1> QED BY <1>1, <1>3, <1>5, RestTypes, LoopRest, DealSame DEF TypeInv

\* A PULL socket is connected.
LEMMA PullerTypes ==
  ASSUME NEW f \in [Node -> Seq(Thread)], NEW n \in Node, NEW t \in Thread
  PROVE  (IF t \in Range(f[n]) THEN f ELSE [f EXCEPT ![n] = Append(@, t)]) \in [Node -> Seq(Thread)]
<1>1. Append(f[n], t) \in Seq(Thread)
  BY PushFacts
<1> QED BY <1>1

\* init_pub connects suberq.
LEMMA PullTypes ==
  ASSUME TypeInv, NEW t \in Thread, InitPubPull(t)
  PROVE  TypeInv'
<1>1. PICK n \in Node : n = NodeOf[t]
  BY IndexFacts DEF TypeInv
<1>2. CallInv /\ DealInv /\ UNCHANGED handlerRest /\ UNCHANGED mtx /\ UNCHANGED inVars /\ step[t] = "pull"
      /\ nsubs' = [nsubs EXCEPT ![t] = 0] /\ Goto(t, "greet")
      /\ subpullers' = (IF t \in Range(subpullers[n]) THEN subpullers ELSE [subpullers EXCEPT ![n] = Append(@, t)])
  BY <1>1 DEF TypeInv, InitPubPull
<1>3. DealInv'
  <2>1. subpullers' \in [Node -> Seq(Thread)]
    BY <1>2, PullerTypes DEF DealInv
  <2> QED BY <1>2, <2>1 DEF DealInv, InitPubPull
<1>4. Index(t) <= Len(Program[t]) /\ StepOf("pull", Call(t).op)
  BY <1>2 DEF CallInv, Inside
<1>5. prog' = prog /\ nsubs' \in [Thread -> Nat] /\ "greet" \in Steps /\ StepOf("greet", Call(t).op)
  BY <1>2, <1>4 DEF handlerRest, CallInv, Steps, StepOf
<1>6. CallInv'
  BY <1>2, <1>4, <1>5, GotoCall
<1> QED BY <1>2, <1>3, <1>6, RestTypes, LoopRest, PipeSame DEF TypeInv

\* init_pub greets, or fails.
LEMMA GreetsTypes ==
  ASSUME TypeInv, NEW t \in Thread, InitPubGreets(t) \/ InitPubGreeted(t)
  PROVE  TypeInv'
<1>1. CallInv /\ UNCHANGED handlerRest /\ UNCHANGED mtx /\ UNCHANGED outVars /\ nsubs' = nsubs
      /\ UNCHANGED <<connpipe, subpipe, startpipe>> /\ step[t] \in {"greet", "greeted"}
  BY DEF TypeInv, InitPubGreets, InitPubGreeted, inVars
<1>2. prog' = prog /\ nsubs' \in [Thread -> Nat] /\ Index(t) <= Len(Program[t]) /\ Call(t).op = "init_pub"
  BY <1>1 DEF handlerRest, CallInv, Inside, StepOf
<1>3. CASE Return(t, "error", NoAddr, PubHello) /\ UNCHANGED pubpipe
  <2>1. NoAddr \in Names /\ PubHello \in Message
    BY NamesFacts
  <2>2. CallInv'
    BY <1>1, <1>2, <1>3, <2>1, ReturnCall
  <2>3. UNCHANGED inVars
    BY <1>1, <1>3 DEF inVars
  <2> QED BY <1>1, <2>2, <2>3, QuietCall
<1>4. CASE PushPub(t, PubHello) /\ Goto(t, "greeted")
  <2>1. PubHello \in Message
    BY NamesFacts
  <2>2. PipeInv'
    BY <1>1, <1>2, <1>4, <2>1, PushPubTypes
  <2>3. "greeted" \in Steps /\ StepOf("greeted", Call(t).op)
    BY <1>2 DEF Steps, StepOf
  <2>4. CallInv'
    BY <1>1, <1>2, <1>4, <2>3, GotoCall
  <2> QED BY <1>1, <2>2, <2>4, RestTypes, LoopRest, DealSame DEF TypeInv
<1>5. CASE Goto(t, "drain") /\ UNCHANGED inVars
  <2>3. "drain" \in Steps /\ StepOf("drain", Call(t).op)
    BY <1>2 DEF Steps, StepOf
  <2>4. CallInv'
    BY <1>1, <1>2, <1>5, <2>3, GotoCall
  <2> QED BY <1>1, <1>5, <2>4, QuietCall
<1>6. InitPubGreeted(t) => UNCHANGED inVars /\ UNCHANGED pubpipe
  BY DEF InitPubGreeted, inVars
<1> QED BY <1>3, <1>4, <1>5, <1>6 DEF InitPubGreets, InitPubGreeted

\* init_pub counts the answers.
LEMMA DrainsTypes ==
  ASSUME TypeInv, NEW t \in Thread, InitPubDrains(t)
  PROVE  TypeInv'
<1>1. CallInv /\ DealInv /\ UNCHANGED handlerRest /\ UNCHANGED mtx /\ UNCHANGED inVars /\ step[t] = "drain"
      /\ pullers' = pullers /\ turn' = turn /\ taskpipe' = taskpipe /\ subpullers' = subpullers /\ subturn' = subturn
  BY DEF TypeInv, InitPubDrains
<1>2. prog' = prog /\ Index(t) <= Len(Program[t]) /\ Call(t).op = "init_pub"
  BY <1>1 DEF handlerRest, CallInv, Inside, StepOf
<1>3. CASE suberpipe[t] # <<>> /\ suberpipe' = [suberpipe EXCEPT ![t] = Tail(@)] /\ CountSuber(t)
           /\ UNCHANGED <<step, result>>
  <2>1. Tail(suberpipe[t]) \in Seq(Node)
    BY <1>1, <1>3, PopFacts DEF DealInv
  <2>2. suberpipe' \in [Thread -> Seq(Node)]
    BY <1>1, <1>3, <2>1 DEF DealInv
  <2>3. DealInv'
    BY <1>1, <2>2 DEF DealInv
  <2>4. nsubs' \in [Thread -> Nat]
    BY <1>1, <1>3 DEF CallInv, CountSuber
  <2>5. CallInv'
    BY <1>1, <1>2, <1>3, <2>4 DEF CallInv, Inside, Index, Call, Program
  <2> QED BY <1>1, <2>3, <2>5, RestTypes, LoopRest, PipeSame DEF TypeInv
<1>4. CASE Goto(t, "greet") /\ UNCHANGED <<suberpipe, nsubs>>
  <2>1. UNCHANGED outVars
    BY <1>1, <1>4 DEF outVars
  <2>2. "greet" \in Steps /\ StepOf("greet", Call(t).op) /\ nsubs' \in [Thread -> Nat]
    BY <1>1, <1>2, <1>4 DEF Steps, StepOf, CallInv
  <2>3. CallInv'
    BY <1>1, <1>2, <1>4, <2>2, GotoCall
  <2> QED BY <1>1, <2>1, <2>3, QuietCall
<1> QED BY <1>3, <1>4 DEF InitPubDrains

\* recv connects taskq,
LEMMA RecvTypes ==
  ASSUME TypeInv, NEW t \in Thread, recv(t)
  PROVE  TypeInv'
<1>1. PICK n \in Node : n = NodeOf[t]
  BY IndexFacts DEF TypeInv
<1>2. CallInv /\ DealInv /\ UNCHANGED handlerRest /\ UNCHANGED mtx /\ UNCHANGED inVars
      /\ nsubs' = nsubs /\ Goto(t, "wait") /\ Index(t) <= Len(Program[t]) /\ Call(t).op = "recv"
      /\ pullers' = (IF t \in Range(pullers[n]) THEN pullers ELSE [pullers EXCEPT ![n] = Append(@, t)])
  BY <1>1 DEF TypeInv, recv, Calls
<1>3. DealInv'
  <2>1. pullers' \in [Node -> Seq(Thread)]
    BY <1>2, PullerTypes DEF DealInv
  <2> QED BY <1>2, <2>1 DEF DealInv, recv
<1>4. prog' = prog /\ nsubs' \in [Thread -> Nat] /\ "wait" \in Steps /\ StepOf("wait", Call(t).op)
  BY <1>2 DEF handlerRest, CallInv, Steps, StepOf
<1>5. CallInv'
  BY <1>2, <1>4, GotoCall
<1> QED BY <1>2, <1>3, <1>5, RestTypes, LoopRest, PipeSame DEF TypeInv

\* and returns a task.
LEMMA RecvReturnsTypes ==
  ASSUME TypeInv, NEW t \in Thread, RecvReturns(t)
  PROVE  TypeInv'
<1>1. CallInv /\ DealInv /\ UNCHANGED handlerRest /\ UNCHANGED mtx /\ UNCHANGED inVars /\ taskpipe[t] # <<>>
      /\ nsubs' = nsubs /\ taskpipe' = [taskpipe EXCEPT ![t] = Tail(@)]
  BY DEF TypeInv, RecvReturns
<1>2. Head(taskpipe[t]) \in Task /\ Tail(taskpipe[t]) \in Seq(Task)
  BY <1>1, PopFacts DEF DealInv
<1>3. DealInv'
  <2>1. taskpipe' \in [Thread -> Seq(Task)]
    BY <1>1, <1>2 DEF DealInv
  <2> QED BY <1>1, <2>1 DEF DealInv, RecvReturns
<1>4. Head(taskpipe[t]).from \in Names /\ Head(taskpipe[t]).msg \in Message
  BY <1>2 DEF Task
<1>5. PICK from \in Names, msg \in Message, r \in {"ok", "error"} : Return(t, r, from, msg)
  BY <1>4, VerdictType DEF RecvReturns
<1>6. prog' = prog
  BY <1>1 DEF handlerRest
<1>7. CallInv'
  BY <1>1, <1>5, <1>6, ReturnCall
<1> QED BY <1>1, <1>3, <1>7, RestTypes, LoopRest, PipeSame DEF TypeInv

\* Every step of a call keeps the types.
LEMMA ThreadTypes ==
  ASSUME TypeInv, NEW t \in Thread, ThreadNext(t) PROVE TypeInv'
<1> QED BY BeginTypes, EndTypes, AcceptTypes, RequestTypes, WakesTypes, PublishTypes, PullTypes, GreetsTypes,
           DrainsTypes, RecvTypes, RecvReturnsTypes DEF ThreadNext

-----------------------------------------------------------------------------
(* Types: the theorem *)

\* The invariant holds when the constructors have returned,
LEMMA TypeInit == ASSUME Init PROVE TypeInv
<1>1. \A S : <<>> \in Seq(S)
  BY NothingQueued
<1>2. Nothing \in [to : Names, msg : Message]
  BY NamesFacts
<1>3. LoopInv
  BY <1>2 DEF Init, LoopInv
<1>4. MapInv
  BY <1>1 DEF Init, MapInv
<1>5. NetInv
  BY <1>1 DEF Init, NetInv
<1>6. CastInv
  BY <1>1 DEF Init, CastInv
<1>7. PipeInv
  BY <1>1 DEF Init, PipeInv
<1>8. DealInv
  BY <1>1 DEF Init, DealInv
<1>9. CallInv
  BY <1>1 DEF Init, CallInv, Inside, Steps
<1> QED BY <1>3, <1>4, <1>5, <1>6, <1>7, <1>8, <1>9 DEF TypeInv

\* and every step keeps it.
LEMMA TypeStep == ASSUME TypeInv, [Next]_vars PROVE TypeInv'
<1>1. CASE UNCHANGED vars
  <2>1. UNCHANGED <<hVars, errcode, mtx>> /\ UNCHANGED mapVars /\ UNCHANGED netVars /\ UNCHANGED pubVars
        /\ UNCHANGED inVars /\ UNCHANGED outVars /\ UNCHANGED appVars
    BY <1>1 DEF vars, hVars, mapVars, netVars, pubVars, inVars, outVars, appVars
  <2> QED BY <2>1, LoopSame, MapSame, NetSame, CastSame, PipeSame, DealSame, CallSame DEF TypeInv
<1>2. CASE Next
  BY <1>2, HandlerTypes, NetworkTypes, ThreadTypes DEF Next
<1> QED BY <1>1, <1>2

\* Types, the steps of the calls, and whom a blocked communication thread serves.
THEOREM TypeInvariant == Spec => []TypeInv
<1> QED BY TypeInit, TypeStep, PTL DEF Spec

\* start_handler and the calls keep the types of their variables: routers carry the two greetings,
\* pub_sock messages under a group's id, and the tasks of recv come from a node or a group.
THEOREM TypeCorrect == Spec => []TypeOK
<1> QED BY TypeInvariant, TypeInvImplies, PTL

-----------------------------------------------------------------------------
(* Honest requests: the invariant *)

\* A subscription of n has reached the socket of p; p's greeting has been answered.
Subscribed(n, p) == \E g \in subgroups[n] : <<n, g>> \in joined[p]
Met(n, p)        == p \in publishermap[n] /\ Subscribed(n, p)

\* The greeting of n has arrived at d or is on its way.
Greeted(n, d) == n \in clientmap[d] \/ "hello" \in Range(net[n][d])

\* Only who has subscribed receives publications and meets a publisher.
JoinOf(p, n) ==
  /\ \A g \in Group : <<n, g>> \in joined[p] => p \in subconn[n] /\ g \in subgroups[n]
  /\ pubnet[p][n] # <<>> \/ p \in publishermap[n] => p \in subconn[n] /\ Subscribed(n, p)

JoinInv == \A p, n \in Node : JoinOf(p, n)

\* Only a process that calls init_pub greets subscribers, is answered and binds pub_sock.
GreetInv ==
  /\ \A t \in Thread : \A m \in Range(pubpipe[t]) : HelloOf(m) => Publishes(NodeOf[t])
  /\ \A p, n \in Node : \A m \in Range(pubnet[p][n]) : HelloOf(m) => Publishes(p)

AnswerInv ==
  /\ \A p, n \in Node : "sub_hello" \in Range(net[n][p]) => Publishes(p)
  /\ \A n \in Node : hpc[n] = "pushsub" => Publishes(n)
  /\ \A t \in Thread : startpipe[t] # <<>> => Publishes(NodeOf[t])

\* Of requests to connect (C), requests to subscribe (S), a destination that is being greeted (H) and publishers
\* whose greeting is awaited (Q) there is at most one, and sync_mtx is locked while there is one.
Single(C, S, H, Q, locked) ==
  /\ \A t, u \in C : t = u
  /\ \A t, u \in S : t = u
  /\ \A p, q \in Q : p = q
  /\ C # {} => S = {} /\ ~H /\ Q = {}
  /\ S # {} => ~H /\ Q = {}
  /\ H => Q = {}
  /\ C # {} \/ S # {} \/ H \/ Q # {} => locked

Asks(n, pipe) == {t \in ThreadsOf(n) : pipe[t] # <<>>}

\* The nodes whose communication thread has not failed and that no answer of a subscriber releases.
Subject(n) == ~errcode[n] /\ ~Publishes(n)

OneOf(n) ==
  Subject(n) =>
    /\ Single(Asks(n, connpipe), Asks(n, subpipe), hpc[n] = "hello", subconn[n] \ publishermap[n], mtx[n])
    /\ \A t \in ThreadsOf(n) : /\ connpipe[t] # <<>> => Tail(connpipe[t]) = <<>>
                               /\ subpipe[t] # <<>> => Tail(subpipe[t]) = <<>>

OneInv == \A n \in Node : OneOf(n)

\* What has happened to the request of a call that waits, and what holds when it has been released.
WaitOf(t) ==
  LET n == NodeOf[t]  p == Call(t).peer
  IN  Subject(n) =>
        /\ step[t] = "lock again" /\ Call(t).op = "connect" =>
             \/ connpipe[t] # <<>> /\ Head(connpipe[t]) = p
             \/ hpc[n] = "hello" /\ pend[n].to = p
             \/ Greeted(n, p)
        /\ step[t] = "check" /\ Call(t).op = "connect" => Greeted(n, p)
        /\ step[t] = "lock again" /\ Call(t).op = "subscribe" /\ p # NoAddr =>
             \/ subpipe[t] # <<>> /\ Head(subpipe[t]).peer = p
             \/ p \in subconn[n]
        /\ step[t] = "check" /\ Call(t).op = "subscribe" /\ p # NoAddr => Met(n, p)

WaitInv == \A t \in Thread : WaitOf(t)

\* What the k-th call of t has promised by returning 0.
HonestOf(t, k) ==
  LET n == NodeOf[t]  c == Program[t][k]
  IN  result[t][k].ret = "ok" =>
        /\ c.op = "connect" => Greeted(n, c.peer) \/ Publishes(n)
        /\ c.op = "subscribe" => c.peer = NoAddr \/ Publishes(n) \/ Met(n, c.peer)

HonestInv == \A t \in Thread : \A k \in 1 .. Len(result[t]) : HonestOf(t, k)

RequestInv == JoinInv /\ GreetInv /\ AnswerInv /\ OneInv /\ WaitInv /\ HonestInv

\* The invariant implies what the calls promise.
LEMMA RequestInvImplies == ASSUME TypeInv, RequestInv PROVE RequestsHonest
<1>1. \A t \in Thread : DOMAIN result[t] = 1 .. Len(result[t])
  <2>1. \A t \in Thread : result[t] \in Seq(Result)
    BY DEF TypeInv, CallInv
  <2> QED BY <2>1
<1>2. ASSUME NEW op, NEW c \in Succeeded(op)
      PROVE  \E t \in Thread : \E k \in 1 .. Len(result[t]) :
               c = <<t, k>> /\ c[1] = t /\ c[2] = k /\ CallOf(c) = Program[t][k] /\ CallOf(c).op = op /\ result[t][k].ret = "ok"
  <2>1. c \in CallsMade /\ CallOf(c).op = op /\ result[c[1]][c[2]].ret = "ok"
    BY <1>2 DEF Succeeded
  <2>2. PICK t \in Thread : c \in {t} \X DOMAIN result[t]
    BY <2>1 DEF CallsMade
  <2>3. PICK k \in DOMAIN result[t] : c = <<t, k>>
    BY <2>2
  <2>4. c[1] = t /\ c[2] = k
    BY <2>3
  <2> QED BY <1>1, <2>1, <2>3, <2>4 DEF CallOf
<1>3. ASSUME NEW c \in Succeeded("connect")
      PROVE  LET n == NodeOf[c[1]]  d == CallOf(c).peer
             IN  n \in clientmap[d] \/ "hello" \in Range(net[n][d]) \/ Publishes(n)
  <2>1. PICK t \in Thread : \E k \in 1 .. Len(result[t]) :
               c[1] = t /\ c[2] = k /\ CallOf(c) = Program[t][k] /\ CallOf(c).op = "connect" /\ result[t][k].ret = "ok"
    BY <1>2, <1>3
  <2>2. PICK k \in 1 .. Len(result[t]) :
               c[1] = t /\ c[2] = k /\ CallOf(c) = Program[t][k] /\ CallOf(c).op = "connect" /\ result[t][k].ret = "ok"
    BY <2>1
  <2>3. HonestOf(t, k)
    BY DEF RequestInv, HonestInv
  <2>4. Greeted(NodeOf[t], CallOf(c).peer) \/ Publishes(NodeOf[t])
    BY <2>2, <2>3 DEF HonestOf
  <2> QED BY <2>2, <2>4 DEF Greeted
<1>4. ASSUME NEW c \in Succeeded("subscribe")
      PROVE  LET n == NodeOf[c[1]]  p == CallOf(c).peer
             IN  \/ p = NoAddr \/ Publishes(n)
                 \/ p \in publishermap[n] /\ \E g \in subgroups[n] : <<n, g>> \in joined[p]
  <2>1. PICK t \in Thread : \E k \in 1 .. Len(result[t]) :
               c[1] = t /\ c[2] = k /\ CallOf(c) = Program[t][k] /\ CallOf(c).op = "subscribe" /\ result[t][k].ret = "ok"
    BY <1>2, <1>4
  <2>2. PICK k \in 1 .. Len(result[t]) :
               c[1] = t /\ c[2] = k /\ CallOf(c) = Program[t][k] /\ CallOf(c).op = "subscribe" /\ result[t][k].ret = "ok"
    BY <2>1
  <2>3. HonestOf(t, k)
    BY DEF RequestInv, HonestInv
  <2>4. CallOf(c).peer = NoAddr \/ Publishes(NodeOf[t]) \/ Met(NodeOf[t], CallOf(c).peer)
    BY <2>2, <2>3 DEF HonestOf
  <2> QED BY <2>2, <2>4 DEF Met, Subscribed
<1> QED BY <1>3, <1>4 DEF RequestsHonest

\* It holds initially.
LEMMA RequestInit == ASSUME Init PROVE RequestInv
<1>1. \A S : Range(<<>>) = {}
  BY NothingQueued
<1>2. JoinInv
  BY DEF Init, JoinInv, JoinOf, Subscribed
<1>3. GreetInv
  BY <1>1 DEF Init, GreetInv
<1>4. AnswerInv
  BY <1>1 DEF Init, AnswerInv
<1>5. OneInv
  <2>1. \A n \in Node : Asks(n, connpipe) = {} /\ Asks(n, subpipe) = {} /\ subconn[n] \ publishermap[n] = {}
                        /\ ~(hpc[n] = "hello")
    BY DEF Init, Asks, ThreadsOf
  <2>2. \A t \in Thread : connpipe[t] = <<>> /\ subpipe[t] = <<>>
    BY DEF Init
  <2> QED BY <2>1, <2>2 DEF OneInv, OneOf, Single, ThreadsOf
<1>6. WaitInv
  BY DEF Init, WaitInv, WaitOf
<1>7. HonestInv
  <2>1. \A t \in Thread : Len(result[t]) = 0
    BY DEF Init
  <2> QED BY <2>1 DEF HonestInv
<1> QED BY <1>2, <1>3, <1>4, <1>5, <1>6, <1>7 DEF RequestInv

-----------------------------------------------------------------------------
(* Honest requests: what only grows *)

Grown ==
  /\ prog' = prog
  /\ \A t \in Thread : Len(result[t]) <= Len(result'[t])
  /\ \A n \in Node : /\ errcode[n] => errcode'[n]
                     /\ clientmap[n] \subseteq clientmap'[n] /\ publishermap[n] \subseteq publishermap'[n]
                     /\ subconn[n] \subseteq subconn'[n] /\ subgroups[n] \subseteq subgroups'[n]
                     /\ joined[n] \subseteq joined'[n]
  /\ \A n, d \in Node : "hello" \in Range(net[n][d]) => "hello" \in Range(net'[n][d]) \/ n \in clientmap'[d]

\* What holds once holds for good.
LEMMA GrownFacts ==
  ASSUME TypeInv, TypeInv', Grown
  PROVE  /\ \A n \in Node : (Publishes(n) => Publishes(n)') /\ (Subject(n)' => Subject(n))
         /\ \A n, d \in Node : /\ Greeted(n, d) => Greeted(n, d)'
                               /\ Subscribed(n, d) => Subscribed(n, d)'
                               /\ Met(n, d) => Met(n, d)'
<1>1. ASSUME NEW n \in Node, Publishes(n) PROVE Publishes(n)'
  <2>1. PICK t \in ThreadsOf(n) : Begun(t, "init_pub")
    BY <1>1 DEF Publishes
  <2>2. t \in Thread /\ t \in ThreadsOf(n)'
    BY <2>1 DEF ThreadsOf
  <2>3. Program' = Program
    BY DEF Grown, Program
  <2>4. Index(t) \in Nat /\ Index(t)' \in Nat /\ Index(t) <= Index(t)'
    <3>1. result[t] \in Seq(Result) /\ result'[t] \in Seq(Result)
      BY <2>2 DEF TypeInv, CallInv
    <3>2. Len(result[t]) \in Nat /\ Len(result'[t]) \in Nat /\ Len(result[t]) <= Len(result'[t])
      BY <2>2, <3>1 DEF Grown
    <3> QED BY <3>2 DEF Index
  <2>5. PICK k \in DOMAIN Program[t] : k <= Index(t) /\ Program[t][k].op = "init_pub"
    BY <2>1 DEF Begun
  <2>6. k \in Nat
    <3>1. DOMAIN Program[t] = 1 .. Len(Program[t])
      BY <2>2, CallFacts DEF TypeInv, CallInv
    <3> QED BY <2>5, <3>1
  <2>7. k <= Index(t)'
    BY <2>4, <2>5, <2>6
  <2>8. Begun(t, "init_pub")'
    BY <2>3, <2>5, <2>7 DEF Begun
  <2> QED BY <2>2, <2>8 DEF Publishes
<1>2. \A n \in Node : Subject(n)' => Subject(n)
  BY <1>1 DEF Subject, Grown
<1>3. \A n, d \in Node : Greeted(n, d) => Greeted(n, d)'
  BY DEF Greeted, Grown
<1>4. \A n, d \in Node : Subscribed(n, d) => Subscribed(n, d)'
  BY DEF Subscribed, Grown
<1>5. \A n, d \in Node : Met(n, d) => Met(n, d)'
  BY <1>4 DEF Met, Grown
<1> QED BY <1>1, <1>2, <1>3, <1>4, <1>5

\* The calls leave the state of the communication threads alone,
LEMMA ThreadRest ==
  ASSUME NEW t \in Thread, ThreadNext(t)
  PROVE  UNCHANGED <<prog, hVars, errcode, clientmap, publishermap, netVars, pubVars>>
<1>1. CASE AcceptReturns(t)
  BY <1>1 DEF AcceptReturns
<1>2. CASE UNCHANGED handlerRest
  BY <1>2 DEF handlerRest, mapVars
<1> QED BY <1>1, <1>2 DEF ThreadNext, Refused, get_one_connection, connect_to, subscribe_to, PushRequest, Wakes,
           CheckReturns, publish, init_pub, InitPubPull, InitPubGreets, InitPubGreeted, InitPubDrains, InitPubReturns,
           recv, RecvReturns

\* and these the calls.
LEMMA HandlerRest ==
  ASSUME NetworkNext \/ \E n \in Node : HandlerNext(n) \/ HandlerFails(n)
  PROVE  UNCHANGED appVars
<1>1. NetworkNext => UNCHANGED appVars
  BY DEF NetworkNext, Handshake, Join
<1>2. ASSUME NEW n \in Node, HandlerNext(n) PROVE UNCHANGED appVars
  BY <1>2 DEF HandlerNext, PollBegins, PollReturns, pollRest, HandleRouter, PushSuber, PushTask, HandleConn, SendHello,
              HandlePubsend, HandleSub, TakeSub, HandleSubsock, HandlePubstart
<1>3. ASSUME NEW n \in Node, HandlerFails(n) PROVE UNCHANGED appVars
  BY <1>3 DEF HandlerFails, PollFails, pollRest, BranchFails, ConnFails, SubFails, TakeSub, failRest
<1> QED BY <1>1, <1>2, <1>3

\* One message more, or one less, between two routers.
LEMMA NetPush ==
  ASSUME NetInv, CastInv, NEW n \in Node, NEW d \in Node, NEW m \in {"hello", "sub_hello"},
         net' = [net EXCEPT ![n][d] = Append(@, m)]
  PROVE  /\ Range(net'[n][d]) = Range(net[n][d]) \union {m}
         /\ \A a, b \in Node : a # n \/ b # d => net'[a][b] = net[a][b]
         /\ \A a, b \in Node : Range(net[a][b]) \subseteq Range(net'[a][b])
<1>1. net'[n][d] = Append(net[n][d], m) /\ \A a, b \in Node : a # n \/ b # d => net'[a][b] = net[a][b]
  BY DEF NetInv
<1>2. net[n][d] \in Seq({"hello", "sub_hello"})
  BY ChannelFacts
<1>3. Range(Append(net[n][d], m)) = Range(net[n][d]) \union {m}
  BY <1>2, PushFacts
<1> QED BY <1>1, <1>3

\* The head of the channel is taken, the rest stays.
LEMMA NetPop ==
  ASSUME NetInv, CastInv, NEW n \in Node, NEW p \in Node, net[p][n] # <<>>, net' = [net EXCEPT ![p][n] = Tail(@)]
  PROVE  /\ Range(net[p][n]) = {Head(net[p][n])} \union Range(net'[p][n])
         /\ Head(net[p][n]) \in {"hello", "sub_hello"}
         /\ \A a, b \in Node : a # p \/ b # n => net'[a][b] = net[a][b]
<1>1. net'[p][n] = Tail(net[p][n]) /\ \A a, b \in Node : a # p \/ b # n => net'[a][b] = net[a][b]
  BY DEF NetInv
<1>2. net[p][n] \in Seq({"hello", "sub_hello"})
  BY ChannelFacts
<1>3. Range(net[p][n]) = {Head(net[p][n])} \union Range(Tail(net[p][n])) /\ Head(net[p][n]) \in {"hello", "sub_hello"}
  BY <1>2, PopFacts, PopKeeps
<1> QED BY <1>1, <1>3

\* Likewise for publications.
LEMMA PubPop ==
  ASSUME NetInv, CastInv, NEW n \in Node, NEW p \in Node, pubnet[p][n] # <<>>, pubnet' = [pubnet EXCEPT ![p][n] = Tail(@)]
  PROVE  /\ \A a, b \in Node : Range(pubnet'[a][b]) \subseteq Range(pubnet[a][b])
         /\ \A a, b \in Node : pubnet'[a][b] # <<>> => pubnet[a][b] # <<>>
         /\ Head(pubnet[p][n]) \in Range(pubnet[p][n])
<1>1. pubnet'[p][n] = Tail(pubnet[p][n]) /\ \A a, b \in Node : a # p \/ b # n => pubnet'[a][b] = pubnet[a][b]
  BY DEF CastInv
<1>2. pubnet[p][n] \in Seq(PubMsg)
  BY ChannelFacts
<1>3. Range(Tail(pubnet[p][n])) \subseteq Range(pubnet[p][n]) /\ Head(pubnet[p][n]) \in Range(pubnet[p][n])
  BY <1>2, PopFacts
<1> QED BY <1>1, <1>3

\* A published message reaches nobody but subscribers of its group.
LEMMA PubPush ==
  ASSUME TypeInv, NEW n \in Node, NEW t \in Thread, HandlePubsend(n, t)
  PROVE  /\ Head(pubpipe[t]) \in Range(pubpipe[t]) /\ Head(pubpipe[t]) \in PubMsg
         /\ \A u \in Thread : Range(pubpipe'[u]) \subseteq Range(pubpipe[u])
         /\ \A a, b \in Node : a # n => pubnet'[a][b] = pubnet[a][b]
         /\ \A b \in Node : \/ pubnet'[n][b] = pubnet[n][b]
                            \/ /\ Range(pubnet'[n][b]) = Range(pubnet[n][b]) \union {Head(pubpipe[t])}
                               /\ <<b, Head(pubpipe[t]).group>> \in joined[n]
<1>1. NetInv /\ CastInv /\ pubpipe[t] # <<>> /\ pubpipe \in [Thread -> Seq(PubMsg)] /\ pubpipe' = [pubpipe EXCEPT ![t] = Tail(@)]
  BY DEF TypeInv, PipeInv, HandlePubsend
<1>2. PICK q \in Seq(PubMsg) : q = pubpipe[t] /\ q # <<>>
  BY <1>1
<1>3. Head(q) \in Range(q) /\ Head(q) \in PubMsg /\ Range(Tail(q)) \subseteq Range(q)
  BY <1>2, PopFacts
<1>4. PICK msg \in PubMsg : msg = Head(q)
  BY <1>3
<1>5. \A u \in Thread : Range(pubpipe'[u]) \subseteq Range(pubpipe[u])
  BY <1>1, <1>2, <1>3
<1>6. PICK f : f = [m \in Node |-> IF Travels(n, m, msg) THEN Append(pubnet[n][m], msg) ELSE pubnet[n][m]]
  OBVIOUS
<1>7. pubnet' = [pubnet EXCEPT ![n] = f] /\ pubnet \in [Node -> [Node -> Seq(PubMsg)]]
  BY <1>1, <1>2, <1>4, <1>6 DEF HandlePubsend, CastInv
<1>8. pubnet'[n] = f /\ \A a \in Node : a # n => pubnet'[a] = pubnet[a]
  BY <1>7
<1>9. ASSUME NEW b \in Node
      PROVE  \/ pubnet'[n][b] = pubnet[n][b]
             \/ Range(pubnet'[n][b]) = Range(pubnet[n][b]) \union {msg} /\ <<b, msg.group>> \in joined[n]
  <2>1. CASE Travels(n, b, msg)
    <3>1. pubnet'[n][b] = Append(pubnet[n][b], msg)
      BY <1>6, <1>8, <2>1
    <3>2. Range(Append(pubnet[n][b], msg)) = Range(pubnet[n][b]) \union {msg}
      BY <1>1, <1>4, ChannelFacts, PushFacts
    <3> QED BY <2>1, <3>1, <3>2 DEF Travels
  <2>2. CASE ~Travels(n, b, msg)
    BY <1>6, <1>8, <2>2
  <2> QED BY <2>1, <2>2
<1> QED BY <1>2, <1>3, <1>4, <1>5, <1>8, <1>9

\* The communication threads forget nothing,
LEMMA GrownHandler ==
  ASSUME TypeInv, NEW n \in Node, HandlerNext(n) \/ HandlerFails(n) PROVE Grown
<1>1. prog' = prog /\ \A t \in Thread : Len(result[t]) <= Len(result'[t])
  <2>1. prog' = prog /\ result' = result
    BY HandlerRest DEF appVars
  <2>2. \A t \in Thread : Len(result[t]) \in Nat
    BY IndexFacts DEF TypeInv
  <2> QED BY <2>1, <2>2
<1>2. \A m \in Node : errcode[m] => errcode'[m]
  <2>1. errcode' = errcode \/ errcode' = [errcode EXCEPT ![n] = TRUE]
    BY DEF HandlerNext, PollBegins, PollReturns, HandleRouter, PushSuber, PushTask, HandleConn, SendHello,
           HandlePubsend, HandleSub, HandleSubsock, HandlePubstart, HandlerFails, PollFails, BranchFails, ConnFails,
           SubFails, TakeSub, Fail
  <2> QED BY <2>1 DEF TypeInv, LoopInv
<1>3. \A m \in Node : publishermap[m] \subseteq publishermap'[m]
  <2>1. publishermap' = publishermap \/ \E p \in Node : publishermap' = [publishermap EXCEPT ![n] = @ \union {p}]
    BY DEF HandlerNext, PollBegins, PollReturns, HandleRouter, PushSuber, PushTask, HandleConn, SendHello,
           HandlePubsend, HandleSub, HandleSubsock, HandlePubstart, HandlerFails, PollFails, BranchFails, ConnFails,
           SubFails, TakeSub,
           pollRest, failRest, mapVars, Answer
  <2> QED BY <2>1 DEF TypeInv, MapInv
<1>4. \A m \in Node : joined[m] \subseteq joined'[m]
  <2>1. joined' = joined
    BY DEF HandlerNext, PollBegins, PollReturns, HandleRouter, PushSuber, PushTask, HandleConn, SendHello,
           HandlePubsend, HandleSub, HandleSubsock, HandlePubstart, HandlerFails, PollFails, BranchFails, ConnFails,
           SubFails, TakeSub,
           pollRest, failRest, pubVars
  <2> QED BY <2>1
<1>5. \A m \in Node : subconn[m] \subseteq subconn'[m] /\ subgroups[m] \subseteq subgroups'[m]
  <2>1. ASSUME NEW t \in Thread, HandleSub(n, t) \/ SubFails(n, t)
        PROVE  \A m \in Node : subconn[m] \subseteq subconn'[m] /\ subgroups[m] \subseteq subgroups'[m]
    <3>1. subconn \in [Node -> SUBSET Node] /\ subgroups \in [Node -> SUBSET Group]
      BY DEF TypeInv, CastInv
    <3>2. PICK X, Y : subconn' = [subconn EXCEPT ![n] = @ \union X] /\ subgroups' = [subgroups EXCEPT ![n] = @ \union Y]
      BY <2>1 DEF HandleSub, SubFails, TakeSub
    <3> QED BY <3>1, <3>2
  <2>2. CASE subconn' = subconn /\ subgroups' = subgroups
    BY <2>2
  <2> QED BY <2>1, <2>2 DEF HandlerNext, PollBegins, PollReturns, HandleRouter, PushSuber, PushTask, HandleConn, SendHello,
           HandlePubsend, HandleSubsock, HandlePubstart, HandlerFails, PollFails, BranchFails, ConnFails,
           SubFails, TakeSub,
           pollRest, failRest, pubVars
<1>6. \A m \in Node : clientmap[m] \subseteq clientmap'[m]
  <2>1. clientmap' = clientmap \/ \E X : clientmap' = [clientmap EXCEPT ![n] = @ \union X]
    <3>1. ASSUME NEW p \in Node, HandleRouter(n, p) PROVE clientmap' = clientmap \/ \E X : clientmap' = [clientmap EXCEPT ![n] = @ \union X]
      BY <3>1 DEF HandleRouter
    <3>2. ASSUME NEW t \in Thread, HandleConn(n, t) PROVE clientmap' = clientmap \/ \E X : clientmap' = [clientmap EXCEPT ![n] = @ \union X]
      BY <3>2 DEF HandleConn
    <3>3. CASE clientmap' = clientmap
      BY <3>3
    <3> QED BY <3>1, <3>2, <3>3 DEF HandlerNext, PollBegins, PollReturns, PushSuber, PushTask, SendHello, HandleSub,
           HandlePubsend, HandleSubsock, HandlePubstart, HandlerFails, PollFails, BranchFails, ConnFails,
           SubFails, TakeSub,
           pollRest, failRest, mapVars
  <2> QED BY <2>1 DEF TypeInv, MapInv
<1>7. ASSUME NEW a \in Node, NEW b \in Node, "hello" \in Range(net[a][b])
      PROVE  "hello" \in Range(net'[a][b]) \/ a \in clientmap'[b]
  <2>0. NetInv /\ CastInv /\ MapInv /\ LoopInv
    BY DEF TypeInv
  <2>1. CASE net' = net
    BY <1>7, <2>1
  <2>2. ASSUME NEW d \in Node, NEW m \in {"hello", "sub_hello"}, net' = [net EXCEPT ![n][d] = Append(@, m)]
        PROVE  "hello" \in Range(net'[a][b])
    BY <1>7, <2>0, <2>2, NetPush
  <2>3. ASSUME NEW p \in Node, HandleRouter(n, p)
        PROVE  "hello" \in Range(net'[a][b]) \/ a \in clientmap'[b]
    <3>1. net[p][n] # <<>> /\ net' = [net EXCEPT ![p][n] = Tail(@)]
      BY <2>3 DEF HandleRouter
    <3>2. /\ Range(net[p][n]) = {Head(net[p][n])} \union Range(net'[p][n])
          /\ \A x, y \in Node : x # p \/ y # n => net'[x][y] = net[x][y]
      BY <2>0, <3>1, NetPop
    <3>3. Head(net[p][n]) = "hello" => p \in clientmap'[n]
      BY <2>0, <2>3 DEF HandleRouter, MapInv
    <3>4. CASE a = p /\ b = n
      BY <1>7, <3>2, <3>3, <3>4
    <3>5. CASE a # p \/ b # n
      BY <1>7, <3>2, <3>5
    <3> QED BY <3>4, <3>5
  <2>4. ASSUME SendHello(n) PROVE "hello" \in Range(net'[a][b])
    <3>1. pend[n].to \in Node /\ net' = [net EXCEPT ![n][pend[n].to] = Append(@, "hello")]
      BY <2>0, <2>4 DEF SendHello, LoopInv
    <3> QED BY <2>2, <3>1
  <2>5. ASSUME NEW p \in Node, HandleSubsock(n, p) PROVE "hello" \in Range(net'[a][b])
    <3>1. net' = net \/ net' = [net EXCEPT ![n][p] = Append(@, "sub_hello")]
      BY <2>5 DEF HandleSubsock, Answer
    <3> QED BY <1>7, <2>2, <3>1
  <2> QED BY <2>1, <2>3, <2>4, <2>5 DEF HandlerNext, PollBegins, PollReturns, PushSuber, PushTask, HandleConn, HandleSub,
           HandlePubsend, HandlePubstart, HandlerFails, PollFails, BranchFails, ConnFails,
           SubFails, TakeSub,
           pollRest, failRest, netVars
<1> QED BY <1>1, <1>2, <1>3, <1>4, <1>5, <1>6, <1>7 DEF Grown

\* nor does 0MQ,
LEMMA GrownNetwork ==
  ASSUME TypeInv, NetworkNext PROVE Grown
<1>1. prog' = prog /\ \A t \in Thread : Len(result[t]) <= Len(result'[t])
  <2>1. prog' = prog /\ result' = result
    BY HandlerRest DEF appVars
  <2>2. \A t \in Thread : Len(result[t]) \in Nat
    BY IndexFacts DEF TypeInv
  <2> QED BY <2>1, <2>2
<1>2. errcode' = errcode /\ clientmap' = clientmap /\ publishermap' = publishermap /\ net' = net
      /\ subconn' = subconn /\ subgroups' = subgroups
  BY DEF NetworkNext, Handshake, Join, mapVars, netVars, pubVars
<1>3. \A m \in Node : joined[m] \subseteq joined'[m]
  <2>1. joined' = joined \/ \E p \in Node : \E x : joined' = [joined EXCEPT ![p] = @ \union {x}]
    BY DEF NetworkNext, Handshake, Join, pubVars
  <2> QED BY <2>1 DEF TypeInv, CastInv
<1> QED BY <1>1, <1>2, <1>3 DEF Grown

\* A call returns or its thread stays in it.
LEMMA ReturnsOrNot ==
  ASSUME NEW t \in Thread, ThreadNext(t)
  PROVE  result' = result \/ \E r, from, msg : Return(t, r, from, msg)
<1> QED BY DEF ThreadNext, Refused, get_one_connection, AcceptReturns, connect_to, subscribe_to, PushRequest, Wakes,
           CheckReturns, publish, init_pub, InitPubPull, InitPubGreets, InitPubGreeted, InitPubDrains, InitPubReturns,
           recv, RecvReturns, Goto

\* nor do the calls.
LEMMA GrownThread ==
  ASSUME TypeInv, TypeInv', NEW t \in Thread, ThreadNext(t) PROVE Grown
<1>1. prog' = prog /\ errcode' = errcode /\ clientmap' = clientmap /\ publishermap' = publishermap /\ net' = net
      /\ subconn' = subconn /\ subgroups' = subgroups /\ joined' = joined
  BY ThreadRest DEF netVars, pubVars
<1>2. ASSUME NEW u \in Thread PROVE Len(result[u]) <= Len(result'[u])
  <2>1. result \in [Thread -> Seq(Result)] /\ result' \in [Thread -> Seq(Result)] /\ Len(result[u]) \in Nat
    BY DEF TypeInv, CallInv
  <2>2. CASE result' = result
    BY <2>1, <2>2
  <2>3. ASSUME NEW r, NEW from, NEW msg, Return(t, r, from, msg) PROVE Len(result[u]) <= Len(result'[u])
    <3>1. CASE u = t
      <4>1. PICK x : result' = [result EXCEPT ![t] = Append(@, x)]
        BY <2>3 DEF Return
      <4>2. result'[t] = Append(result[t], x)
        BY <2>1, <4>1
      <4>3. Len(Append(result[t], x)) = Len(result[t]) + 1
        BY <2>1
      <4> QED BY <2>1, <3>1, <4>2, <4>3
    <3>2. CASE u # t
      BY <2>1, <2>3, <3>2 DEF Return
    <3> QED BY <3>1, <3>2
  <2> QED BY <2>2, <2>3, ReturnsOrNot
<1> QED BY <1>1, <1>2 DEF Grown

\* No step forgets anything.
LEMMA GrownStep == ASSUME TypeInv, TypeInv', Next PROVE Grown
<1> QED BY GrownHandler, GrownNetwork, GrownThread DEF Next

-----------------------------------------------------------------------------
(* Honest requests: subscriptions, greetings and answers *)

\* Who receives a publication or has met a publisher has subscribed; what a step adds has too.
LEMMA JoinGrows ==
  ASSUME TypeInv, TypeInv', Grown, JoinInv,
         \A p, n \in Node : \A g \in Group : <<n, g>> \in joined'[p] =>
              <<n, g>> \in joined[p] \/ (p \in subconn'[n] /\ g \in subgroups'[n]),
         \A p, n \in Node : pubnet'[p][n] # <<>> \/ p \in publishermap'[n] =>
              \/ pubnet[p][n] # <<>> \/ p \in publishermap[n]
              \/ \E g \in Group : <<n, g>> \in joined[p]
  PROVE  JoinInv'
<1> SUFFICES ASSUME NEW p \in Node, NEW n \in Node PROVE JoinOf(p, n)'
  BY DEF JoinInv
<1>1. JoinOf(p, n)
  BY DEF JoinInv
<1>2. subconn[n] \subseteq subconn'[n] /\ subgroups[n] \subseteq subgroups'[n]
  BY DEF Grown
<1>3. \A g \in Group : <<n, g>> \in joined'[p] => p \in subconn'[n] /\ g \in subgroups'[n]
  BY <1>1, <1>2 DEF JoinOf
<1>4. ASSUME pubnet'[p][n] # <<>> \/ p \in publishermap'[n] PROVE p \in subconn[n] /\ Subscribed(n, p)
  <2>1. CASE pubnet[p][n] # <<>> \/ p \in publishermap[n]
    BY <1>1, <2>1 DEF JoinOf
  <2>2. ASSUME NEW g \in Group, <<n, g>> \in joined[p] PROVE p \in subconn[n] /\ Subscribed(n, p)
    BY <1>1, <2>2 DEF JoinOf, Subscribed
  <2> QED BY <1>4, <2>1, <2>2
<1>5. Subscribed(n, p) => Subscribed(n, p)'
  BY GrownFacts
<1> QED BY <1>2, <1>3, <1>4, <1>5 DEF JoinOf

\* Publications reach subscribers only: kept by every step.
LEMMA JoinStep == ASSUME TypeInv, TypeInv', Next, JoinInv PROVE JoinInv'
<1>0. Grown
  BY GrownStep
<1>1. CASE joined' = joined /\ pubnet' = pubnet /\ publishermap' = publishermap
  BY <1>0, <1>1, JoinGrows
<1>2. ASSUME NEW n \in Node, NEW t \in Thread, HandlePubsend(n, t) PROVE JoinInv'
  <2>1. joined' = joined /\ publishermap' = publishermap
    BY <1>2 DEF HandlePubsend, mapVars
  <2>2. Head(pubpipe[t]).group \in Group
    BY <1>2, PubPush DEF PubMsg
  <2>3. \A p, m \in Node : pubnet'[p][m] # <<>> => pubnet[p][m] # <<>> \/ \E g \in Group : <<m, g>> \in joined[p]
    BY <1>2, <2>2, PubPush
  <2> QED BY <1>0, <2>1, <2>3, JoinGrows
<1>3. ASSUME NEW n \in Node, NEW p \in Node, HandleSubsock(n, p) PROVE JoinInv'
  <2>1. joined' = joined /\ pubnet[p][n] # <<>> /\ pubnet' = [pubnet EXCEPT ![p][n] = Tail(@)]
    BY <1>3 DEF HandleSubsock
  <2>2. \A a, b \in Node : pubnet'[a][b] # <<>> => pubnet[a][b] # <<>>
    BY <2>1, PubPop DEF TypeInv
  <2>3. publishermap' = publishermap \/ publishermap' = [publishermap EXCEPT ![n] = @ \union {p}]
    BY <1>3 DEF HandleSubsock, Answer
  <2>4. \A a, b \in Node : a \in publishermap'[b] => a \in publishermap[b] \/ (a = p /\ b = n)
    BY <2>3 DEF TypeInv, MapInv
  <2>5. \A a, b \in Node : pubnet'[a][b] # <<>> \/ a \in publishermap'[b] => pubnet[a][b] # <<>> \/ a \in publishermap[b]
    BY <2>1, <2>2, <2>4
  <2> QED BY <1>0, <2>1, <2>5, JoinGrows
<1>4. ASSUME NEW p \in Node, NEW n \in Node, NEW g \in Group, Join(p, n, g) PROVE JoinInv'
  <2>1. pubnet' = pubnet /\ publishermap' = publishermap /\ subconn' = subconn /\ subgroups' = subgroups
        /\ p \in subconn[n] /\ g \in subgroups[n]
    BY <1>4 DEF Join, mapVars
  <2>2. PICK x : x = <<n, g>>
    OBVIOUS
  <2>3. joined \in [Node -> SUBSET (Node \X Group)] /\ joined' = [joined EXCEPT ![p] = @ \union {x}]
    BY <1>4, <2>2 DEF Join, TypeInv, CastInv
  <2>4. \A q \in Node : \A y \in joined'[q] : y \in joined[q] \/ (q = p /\ y = x)
    BY <2>3
  <2>5. ASSUME NEW q \in Node, NEW m \in Node, NEW h \in Group, <<m, h>> \in joined'[q]
        PROVE  <<m, h>> \in joined[q] \/ (q \in subconn'[m] /\ h \in subgroups'[m])
    <3>1. <<m, h>> \in joined[q] \/ (q = p /\ <<m, h>> = <<n, g>>)
      BY <2>2, <2>4, <2>5
    <3>2. <<m, h>> = <<n, g>> => m = n /\ h = g
      OBVIOUS
    <3> QED BY <2>1, <3>1, <3>2
  <2> QED BY <1>0, <2>1, <2>5, JoinGrows
<1>5. ASSUME NEW t \in Thread, ThreadNext(t) PROVE JoinInv'
  BY <1>1, <1>5, ThreadRest DEF pubVars
<1>6. ASSUME NEW n \in Node, HandlerNext(n) \/ HandlerFails(n) PROVE JoinInv'
  BY <1>1, <1>2, <1>3, <1>6 DEF HandlerNext, PollBegins, PollReturns, HandleRouter, PushSuber, PushTask, HandleConn,
     SendHello, HandleSub, HandlePubstart, HandlerFails, PollFails, BranchFails, ConnFails,
           SubFails, TakeSub, pollRest, failRest, mapVars, pubVars
<1>7. CASE NetworkNext
  BY <1>1, <1>4, <1>7 DEF NetworkNext, Handshake, mapVars, pubVars
<1> QED BY <1>5, <1>6, <1>7 DEF Next

\* Greetings to subscribers.
LEMMA GreetGrows ==
  ASSUME TypeInv, TypeInv', Grown, GreetInv,
         \A t \in Thread : \A m \in Range(pubpipe'[t]) : HelloOf(m) => m \in Range(pubpipe[t]) \/ Publishes(NodeOf[t]),
         \A p, n \in Node : \A m \in Range(pubnet'[p][n]) : HelloOf(m) => m \in Range(pubnet[p][n]) \/ Publishes(p)
  PROVE  GreetInv'
<1>1. \A n \in Node : Publishes(n) => Publishes(n)'
  BY GrownFacts
<1>2. \A t \in Thread : NodeOf[t] \in Node
  BY PubSubAssumption
<1>3. \A t \in Thread : \A m \in Range(pubpipe'[t]) : HelloOf(m) => Publishes(NodeOf[t])
  BY DEF GreetInv
<1>4. \A p, n \in Node : \A m \in Range(pubnet'[p][n]) : HelloOf(m) => Publishes(p)
  BY DEF GreetInv
<1>5. \A m : HelloOf(m)' <=> HelloOf(m)
  BY DEF HelloOf, PubHello
<1> QED BY <1>1, <1>2, <1>3, <1>4, <1>5 DEF GreetInv

\* What a call pushes for publication.
LEMMA PushedPub ==
  ASSUME TypeInv, NEW t \in Thread, NEW msg \in Message, PushPub(t, msg), Index(t) <= Len(Program[t]),
         Call(t).op \in {"init_pub", "publish"}
  PROVE  \A u \in Thread : \A m \in Range(pubpipe'[u]) : m \in Range(pubpipe[u]) \/ (u = t /\ m.msg = msg)
<1>1. Call(t).groups \subseteq Group /\ Call(t).groups # {}
  BY IndexFacts DEF TypeInv
<1>2. TheGroup(t) \in Group
  BY <1>1 DEF TheGroup
<1>3. PICK x \in PubMsg : x = [group |-> TheGroup(t), msg |-> msg] /\ x.msg = msg
  <2>1. PICK g \in Group : g = TheGroup(t)
    BY <1>2
  <2>2. [group |-> g, msg |-> msg] \in PubMsg /\ [group |-> g, msg |-> msg].msg = msg
    BY DEF PubMsg
  <2> QED BY <2>1, <2>2
<1>4. pubpipe \in [Thread -> Seq(PubMsg)] /\ pubpipe' = [pubpipe EXCEPT ![t] = Append(@, x)]
  BY <1>3 DEF TypeInv, PipeInv, PushPub
<1>5. Range(Append(pubpipe[t], x)) = Range(pubpipe[t]) \union {x}
  BY <1>4, PushFacts
<1>6. pubpipe'[t] = Append(pubpipe[t], x) /\ \A u \in Thread : u # t => pubpipe'[u] = pubpipe[u]
  BY <1>4
<1> QED BY <1>3, <1>5, <1>6

\* A thread inside init_pub has begun it.
LEMMA InsidePublishes ==
  ASSUME TypeInv, NEW t \in Thread, Index(t) <= Len(Program[t]), Call(t).op = "init_pub" PROVE Publishes(NodeOf[t])
<1>1. Index(t) \in 1 .. Len(Program[t]) /\ Index(t) \in Nat /\ DOMAIN Program[t] = 1 .. Len(Program[t])
  BY IndexFacts, CallFacts DEF TypeInv, CallInv
<1>2. Begun(t, "init_pub")
  BY <1>1 DEF Begun, Call
<1> QED BY <1>2 DEF Publishes, ThreadsOf

\* Only a process that calls init_pub has greetings published: kept by every step.
LEMMA GreetStep == ASSUME TypeInv, TypeInv', Next, GreetInv PROVE GreetInv'
<1>0. Grown
  BY GrownStep
<1>1. CASE pubpipe' = pubpipe /\ pubnet' = pubnet
  BY <1>0, <1>1, GreetGrows
<1>2. ASSUME NEW n \in Node, NEW t \in Thread, HandlePubsend(n, t) PROVE GreetInv'
  <2>1. NodeOf[t] = n
    BY <1>2 DEF HandlePubsend
  <2>2. HelloOf(Head(pubpipe[t])) => Publishes(n)
    BY <1>2, <2>1, PubPush DEF GreetInv
  <2>3. \A u \in Thread : \A m \in Range(pubpipe'[u]) : m \in Range(pubpipe[u])
    BY <1>2, PubPush
  <2>4. \A p, b \in Node : \A m \in Range(pubnet'[p][b]) : HelloOf(m) => m \in Range(pubnet[p][b]) \/ Publishes(p)
    <3>1. PICK x : x = Head(pubpipe[t])
      OBVIOUS
    <3>2. \A a, b \in Node : a # n => pubnet'[a][b] = pubnet[a][b]
      BY <1>2, PubPush
    <3>3. \A b \in Node : pubnet'[n][b] = pubnet[n][b] \/ Range(pubnet'[n][b]) = Range(pubnet[n][b]) \union {x}
      BY <1>2, <3>1, PubPush
    <3>4. \A b \in Node : \A m \in Range(pubnet'[n][b]) : m \in Range(pubnet[n][b]) \/ m = x
      BY <3>3
    <3> QED BY <2>2, <3>1, <3>2, <3>4
  <2> QED BY <1>0, <2>3, <2>4, GreetGrows
<1>3. ASSUME NEW n \in Node, NEW p \in Node, HandleSubsock(n, p) PROVE GreetInv'
  <2>1. pubpipe' = pubpipe /\ pubnet[p][n] # <<>> /\ pubnet' = [pubnet EXCEPT ![p][n] = Tail(@)]
    BY <1>3 DEF HandleSubsock, inVars
  <2>2. \A a, b \in Node : Range(pubnet'[a][b]) \subseteq Range(pubnet[a][b])
    BY <2>1, PubPop DEF TypeInv
  <2> QED BY <1>0, <2>1, <2>2, GreetGrows
<1>4. ASSUME NEW t \in Thread, publish(t) PROVE GreetInv'
  <2>1. PushPub(t, Data(t, Index(t))) /\ Index(t) <= Len(Program[t]) /\ Call(t).op = "publish" /\ pubnet' = pubnet
    BY <1>4 DEF publish, Calls, handlerRest, pubVars
  <2>2. Index(t) \in Nat \ {0} /\ Data(t, Index(t)) \in Message
    BY IndexFacts, NamesFacts DEF TypeInv
  <2>3. Data(t, Index(t)) # PubHello
    BY <2>2 DEF Data, PubHello
  <2>4. \A u \in Thread : \A m \in Range(pubpipe'[u]) : m \in Range(pubpipe[u]) \/ (u = t /\ m.msg = Data(t, Index(t)))
    BY <2>1, <2>2, PushedPub
  <2>5. \A u \in Thread : \A m \in Range(pubpipe'[u]) : HelloOf(m) => m \in Range(pubpipe[u])
    BY <2>3, <2>4 DEF HelloOf
  <2> QED BY <1>0, <2>1, <2>5, GreetGrows
<1>5. ASSUME NEW t \in Thread, InitPubGreets(t), PushPub(t, PubHello) PROVE GreetInv'
  <2>1. Index(t) <= Len(Program[t]) /\ Call(t).op = "init_pub" /\ pubnet' = pubnet
    BY <1>5 DEF InitPubGreets, TypeInv, CallInv, Inside, StepOf, handlerRest, pubVars
  <2>2. Publishes(NodeOf[t])
    BY <2>1, InsidePublishes
  <2>3. \A u \in Thread : \A m \in Range(pubpipe'[u]) : m \in Range(pubpipe[u]) \/ u = t
    BY <1>5, <2>1, PushedPub, NamesFacts
  <2> QED BY <1>0, <2>1, <2>2, <2>3, GreetGrows
<1>6. ASSUME NEW t \in Thread, ThreadNext(t) PROVE GreetInv'
  <2>1. pubnet' = pubnet
    BY <1>6, ThreadRest DEF pubVars
  <2> QED BY <1>1, <1>4, <1>5, <1>6, <2>1 DEF ThreadNext, Refused, get_one_connection, AcceptReturns, connect_to,
           subscribe_to, PushRequest, Wakes, CheckReturns, init_pub, InitPubPull, InitPubGreets, InitPubGreeted,
           InitPubDrains, InitPubReturns, recv, RecvReturns, inVars
<1>7. ASSUME NEW n \in Node, HandlerNext(n) \/ HandlerFails(n) PROVE GreetInv'
  BY <1>1, <1>2, <1>3, <1>7 DEF HandlerNext, PollBegins, PollReturns, HandleRouter, PushSuber, PushTask, HandleConn,
     SendHello, HandleSub, HandlePubstart, HandlerFails, PollFails, BranchFails, ConnFails,
           SubFails, TakeSub, pollRest, failRest, inVars, pubVars
<1>8. CASE NetworkNext
  BY <1>1, <1>8 DEF NetworkNext, Handshake, Join, inVars, pubVars
<1> QED BY <1>6, <1>7, <1>8 DEF Next

\* Answers of subscribers, and requests to bind pub_sock.
LEMMA AnswerGrows ==
  ASSUME TypeInv, TypeInv', Grown, AnswerInv,
         \A p, n \in Node : "sub_hello" \in Range(net'[n][p]) => "sub_hello" \in Range(net[n][p]) \/ Publishes(p),
         \A n \in Node : hpc'[n] = "pushsub" => hpc[n] = "pushsub" \/ Publishes(n),
         \A t \in Thread : startpipe'[t] # <<>> => startpipe[t] # <<>> \/ Publishes(NodeOf[t])
  PROVE  AnswerInv'
<1>1. \A n \in Node : Publishes(n) => Publishes(n)'
  BY GrownFacts
<1>2. \A t \in Thread : NodeOf[t] \in Node
  BY PubSubAssumption
<1> QED BY <1>1, <1>2 DEF AnswerInv

\* Only such a process is answered: kept by every step.
LEMMA AnswerStep == ASSUME TypeInv, TypeInv', Next, GreetInv, AnswerInv PROVE AnswerInv'
<1>0. Grown /\ LoopInv /\ NetInv /\ CastInv /\ PipeInv
  BY GrownStep DEF TypeInv
<1>1. CASE net' = net /\ hpc' = hpc /\ startpipe' = startpipe
  BY <1>0, <1>1, AnswerGrows
<1>2. ASSUME NEW n \in Node, NEW s \in {"handle", "poll", "push", "hello", "dead"}, hpc' = [hpc EXCEPT ![n] = s],
             net' = net, startpipe' = startpipe
      PROVE  AnswerInv'
  <2>1. \A m \in Node : hpc'[m] = "pushsub" => hpc[m] = "pushsub"
    BY <1>0, <1>2 DEF LoopInv
  <2> QED BY <1>0, <1>2, <2>1, AnswerGrows
<1>3. ASSUME NEW n \in Node, NEW p \in Node, HandleRouter(n, p) PROVE AnswerInv'
  <2>1. startpipe' = startpipe /\ net[p][n] # <<>> /\ net' = [net EXCEPT ![p][n] = Tail(@)]
    BY <1>3 DEF HandleRouter, inVars
  <2>2. /\ Range(net[p][n]) = {Head(net[p][n])} \union Range(net'[p][n])
        /\ \A a, b \in Node : a # p \/ b # n => net'[a][b] = net[a][b]
    BY <1>0, <2>1, NetPop
  <2>3. \A a, b \in Node : "sub_hello" \in Range(net'[a][b]) => "sub_hello" \in Range(net[a][b])
    BY <2>2
  <2>4. Head(net[p][n]) = "sub_hello" => Publishes(n)
    BY <2>2 DEF AnswerInv
  <2>5. \A m \in Node : hpc'[m] = "pushsub" => hpc[m] = "pushsub" \/ (m = n /\ Head(net[p][n]) = "sub_hello")
    BY <1>0, <1>3 DEF HandleRouter, Blocks, LoopInv
  <2> QED BY <1>0, <2>1, <2>3, <2>4, <2>5, AnswerGrows
<1>4. ASSUME NEW n \in Node, SendHello(n) PROVE AnswerInv'
  <2>1. startpipe' = startpipe /\ hpc' = [hpc EXCEPT ![n] = "handle"] /\ pend[n].to \in Node
        /\ net' = [net EXCEPT ![n][pend[n].to] = Append(@, "hello")]
    BY <1>0, <1>4 DEF SendHello, inVars, LoopInv
  <2>2. PICK d \in Node : d = pend[n].to
    BY <2>1
  <2>3. /\ Range(net'[n][d]) = Range(net[n][d]) \union {"hello"}
        /\ \A a, b \in Node : a # n \/ b # d => net'[a][b] = net[a][b]
    BY <1>0, <2>1, <2>2, NetPush
  <2>4. \A a, b \in Node : "sub_hello" \in Range(net'[a][b]) => "sub_hello" \in Range(net[a][b])
    BY <2>3
  <2>5. \A m \in Node : hpc'[m] = "pushsub" => hpc[m] = "pushsub"
    BY <1>0, <2>1 DEF LoopInv
  <2> QED BY <1>0, <2>1, <2>4, <2>5, AnswerGrows
<1>5. ASSUME NEW n \in Node, NEW p \in Node, HandleSubsock(n, p) PROVE AnswerInv'
  <2>1. startpipe' = startpipe /\ pubnet[p][n] # <<>> /\ pubnet' = [pubnet EXCEPT ![p][n] = Tail(@)]
    BY <1>5 DEF HandleSubsock, inVars
  <2>2. \A m \in Node : hpc'[m] = "pushsub" => hpc[m] = "pushsub"
    BY <1>0, <1>5 DEF HandleSubsock, Blocks, LoopInv
  <2>3. net' = net \/ (net' = [net EXCEPT ![n][p] = Append(@, "sub_hello")] /\ HelloOf(Head(pubnet[p][n])))
    BY <1>5 DEF HandleSubsock, Answer
  <2>4. CASE net' = net
    BY <1>0, <2>1, <2>2, <2>4, AnswerGrows
  <2>5. CASE net' = [net EXCEPT ![n][p] = Append(@, "sub_hello")] /\ HelloOf(Head(pubnet[p][n]))
    <3>1. Publishes(p)
      BY <1>0, <2>1, <2>5, PubPop DEF GreetInv
    <3>2. \A a, b \in Node : a # n \/ b # p => net'[a][b] = net[a][b]
      BY <1>0, <2>5, NetPush
    <3>3. \A a, b \in Node : "sub_hello" \in Range(net'[a][b]) => "sub_hello" \in Range(net[a][b]) \/ Publishes(b)
      BY <3>1, <3>2
    <3> QED BY <1>0, <2>1, <2>2, <3>3, AnswerGrows
  <2> QED BY <2>3, <2>4, <2>5
<1>6. ASSUME NEW n \in Node, NEW t \in Thread, HandlePubstart(n, t) PROVE AnswerInv'
  <2>1. net' = net /\ hpc' = hpc /\ startpipe[t] # <<>> /\ startpipe' = [startpipe EXCEPT ![t] = Tail(@)]
    BY <1>6 DEF HandlePubstart, netVars
  <2>2. \A u \in Thread : startpipe'[u] # <<>> => startpipe[u] # <<>>
    BY <1>0, <2>1 DEF PipeInv
  <2> QED BY <1>0, <2>1, <2>2, AnswerGrows
<1>7. ASSUME NEW t \in Thread, PushRequest(t) PROVE AnswerInv'
  <2>1. net' = net /\ hpc' = hpc /\ step[t] = "lock"
    BY <1>7 DEF PushRequest, handlerRest, netVars, hVars
  <2>2. Index(t) <= Len(Program[t])
    BY <2>1 DEF TypeInv, CallInv, Inside
  <2>3. \A u \in Thread : startpipe'[u] # <<>> => startpipe[u] # <<>> \/ (u = t /\ Call(t).op = "init_pub")
    BY <1>0, <1>7 DEF PushRequest, PipeInv
  <2>4. \A u \in Thread : startpipe'[u] # <<>> => startpipe[u] # <<>> \/ Publishes(NodeOf[u])
    BY <2>2, <2>3, InsidePublishes
  <2> QED BY <1>0, <2>1, <2>4, AnswerGrows
<1>8. ASSUME NEW t \in Thread, ThreadNext(t) PROVE AnswerInv'
  <2>1. net' = net /\ hpc' = hpc
    BY <1>8, ThreadRest DEF netVars, hVars
  <2> QED BY <1>1, <1>7, <1>8, <2>1 DEF ThreadNext, Refused, get_one_connection, AcceptReturns, connect_to,
           subscribe_to, Wakes, CheckReturns, publish, init_pub, InitPubPull, InitPubGreets, InitPubGreeted,
           InitPubDrains, InitPubReturns, recv, RecvReturns, inVars
<1>9. ASSUME NEW n \in Node, HandlerNext(n) \/ HandlerFails(n) PROVE AnswerInv'
  <2>1. CASE PollBegins(n) \/ PollReturns(n) \/ PollFails(n) \/ PushSuber(n) \/ PushTask(n)
    BY <1>2, <2>1 DEF PollBegins, PollReturns, PollFails, PushSuber, PushTask, pollRest, netVars, inVars, Fail
  <2>2. ASSUME NEW t \in Thread, HandleConn(n, t) \/ ConnFails(n, t) PROVE AnswerInv'
    BY <1>2, <2>2 DEF HandleConn, Blocks, ConnFails, Fail, failRest, netVars, inVars
  <2>3. CASE BranchFails(n)
    BY <1>2, <2>3 DEF BranchFails, Fail, failRest, netVars
  <2>4. ASSUME NEW t \in Thread, HandlePubsend(n, t) \/ HandleSub(n, t) PROVE AnswerInv'
    BY <1>1, <2>4 DEF HandlePubsend, HandleSub, TakeSub, netVars
  <2>5. ASSUME NEW t \in Thread, SubFails(n, t) PROVE AnswerInv'
    BY <1>2, <2>5 DEF SubFails, Fail, netVars
  <2> QED BY <1>3, <1>4, <1>5, <1>6, <1>9, <2>1, <2>2, <2>3, <2>4, <2>5 DEF HandlerNext, HandlerFails
<1>10. CASE NetworkNext
  BY <1>1, <1>10 DEF NetworkNext, Handshake, Join, inVars, netVars, hVars
<1> QED BY <1>8, <1>9, <1>10 DEF Next

-----------------------------------------------------------------------------
(* Honest requests: one at a time *)

\* A communication thread acts for its own node.
LEMMA HandlerLocal ==
  ASSUME TypeInv, NEW n \in Node, HandlerNext(n) \/ HandlerFails(n)
  PROVE  /\ \A m \in Node : m # n => /\ hpc'[m] = hpc[m] /\ pend'[m] = pend[m] /\ mtx'[m] = mtx[m]
                                     /\ publishermap'[m] = publishermap[m] /\ subconn'[m] = subconn[m]
         /\ \A u \in Thread : NodeOf[u] # n => connpipe'[u] = connpipe[u] /\ subpipe'[u] = subpipe[u]
<1>0. /\ hpc \in [Node -> {"handle", "poll", "push", "pushsub", "hello", "dead"}]
      /\ pend \in [Node -> [to : Names, msg : Message]] /\ mtx \in [Node -> BOOLEAN]
      /\ publishermap \in [Node -> SUBSET Node] /\ subconn \in [Node -> SUBSET Node]
      /\ connpipe \in [Thread -> Seq(Node)] /\ subpipe \in [Thread -> Seq(CallType)]
  BY DEF TypeInv, LoopInv, MapInv, CastInv, PipeInv
<1>1. \A m \in Node : m # n => hpc'[m] = hpc[m]
  <2>1. hpc' = hpc \/ \E s : hpc' = [hpc EXCEPT ![n] = s]
    BY DEF HandlerNext, PollBegins, PollReturns, HandleRouter, PushSuber, PushTask, HandleConn, SendHello,
           HandlePubsend, HandleSub, HandleSubsock, HandlePubstart, HandlerFails, PollFails, BranchFails, ConnFails,
           SubFails, TakeSub,
           Fail, Blocks
  <2> QED BY <1>0, <2>1
<1>2. \A m \in Node : m # n => pend'[m] = pend[m]
  <2>1. pend' = pend \/ \E s : pend' = [pend EXCEPT ![n] = s]
    BY DEF HandlerNext, PollBegins, PollReturns, HandleRouter, PushSuber, PushTask, HandleConn, SendHello,
           HandlePubsend, HandleSub, HandleSubsock, HandlePubstart, HandlerFails, PollFails, BranchFails, ConnFails,
           SubFails, TakeSub,
           pollRest, failRest, Blocks
  <2> QED BY <1>0, <2>1
<1>3. \A m \in Node : m # n => mtx'[m] = mtx[m]
  <2>1. mtx' = mtx \/ \E s : mtx' = [mtx EXCEPT ![n] = s]
    BY DEF HandlerNext, PollBegins, PollReturns, HandleRouter, PushSuber, PushTask, HandleConn, SendHello,
           HandlePubsend, HandleSub, HandleSubsock, HandlePubstart, HandlerFails, PollFails, BranchFails, ConnFails,
           SubFails, TakeSub,
           pollRest, Unlock, SubWaits, Answer
  <2> QED BY <1>0, <2>1
<1>4. \A m \in Node : m # n => publishermap'[m] = publishermap[m]
  <2>1. publishermap' = publishermap \/ \E s : publishermap' = [publishermap EXCEPT ![n] = s]
    BY DEF HandlerNext, PollBegins, PollReturns, HandleRouter, PushSuber, PushTask, HandleConn, SendHello,
           HandlePubsend, HandleSub, HandleSubsock, HandlePubstart, HandlerFails, PollFails, BranchFails, ConnFails,
           SubFails, TakeSub,
           pollRest, failRest, mapVars, Answer
  <2> QED BY <1>0, <2>1
<1>5. \A m \in Node : m # n => subconn'[m] = subconn[m]
  <2>1. subconn' = subconn \/ \E s : subconn' = [subconn EXCEPT ![n] = s]
    BY DEF HandlerNext, PollBegins, PollReturns, HandleRouter, PushSuber, PushTask, HandleConn, SendHello,
           HandlePubsend, HandleSub, HandleSubsock, HandlePubstart, HandlerFails, PollFails, BranchFails, ConnFails,
           SubFails, TakeSub,
           pollRest, failRest, pubVars
  <2> QED BY <1>0, <2>1
<1>6. \A u \in Thread : NodeOf[u] # n => connpipe'[u] = connpipe[u]
  <2>1. connpipe' = connpipe \/ \E t \in Thread : NodeOf[t] = n /\ connpipe' = [connpipe EXCEPT ![t] = Tail(@)]
    BY DEF HandlerNext, PollBegins, PollReturns, HandleRouter, PushSuber, PushTask, HandleConn, SendHello,
           HandlePubsend, HandleSub, HandleSubsock, HandlePubstart, HandlerFails, PollFails, BranchFails, ConnFails,
           SubFails, TakeSub,
           pollRest, inVars, TakeConn
  <2> QED BY <1>0, <2>1
<1>7. \A u \in Thread : NodeOf[u] # n => subpipe'[u] = subpipe[u]
  <2>1. subpipe' = subpipe \/ \E t \in Thread : NodeOf[t] = n /\ subpipe' = [subpipe EXCEPT ![t] = Tail(@)]
    BY DEF HandlerNext, PollBegins, PollReturns, HandleRouter, PushSuber, PushTask, HandleConn, SendHello,
           HandlePubsend, HandleSub, HandleSubsock, HandlePubstart, HandlerFails, PollFails, BranchFails, ConnFails,
           SubFails, TakeSub,
           pollRest, inVars, failRest
  <2> QED BY <1>0, <2>1
<1> QED BY <1>1, <1>2, <1>3, <1>4, <1>5, <1>6, <1>7

\* What a node's requests are made of stays as it is.
LEMMA OneSame ==
  ASSUME NEW n \in Node, OneOf(n), Subject(n)' => Subject(n),
         \A t \in ThreadsOf(n) : connpipe'[t] = connpipe[t] /\ subpipe'[t] = subpipe[t],
         hpc'[n] = "hello" <=> hpc[n] = "hello",
         subconn'[n] = subconn[n], publishermap'[n] = publishermap[n], mtx'[n] = mtx[n]
  PROVE  OneOf(n)'
<1>1. Asks(n, connpipe)' = Asks(n, connpipe) /\ Asks(n, subpipe)' = Asks(n, subpipe)
  BY DEF Asks, ThreadsOf
<1>2. PICK C, S, Q, h, l :
        C = Asks(n, connpipe) /\ S = Asks(n, subpipe) /\ Q = subconn[n] \ publishermap[n] /\ h = (hpc[n] = "hello") /\ l = mtx[n]
  OBVIOUS
<1>3. Subject(n) => Single(C, S, h, Q, l)
  BY <1>2 DEF OneOf
<1>4. Subject(n)' => Single(C, S, h, Q, l)'
  BY <1>3 DEF Single
<1>5. (hpc'[n] = "hello") = h /\ subconn'[n] \ publishermap'[n] = Q /\ mtx'[n] = l
  BY <1>2
<1> QED BY <1>1, <1>2, <1>4, <1>5 DEF OneOf, ThreadsOf

\* Nobody waits.
LEMMA NoneAsked ==
  ASSUME TypeInv, NEW n \in Node, OneOf(n), Subject(n), ~mtx[n]
  PROVE  /\ Asks(n, connpipe) = {} /\ Asks(n, subpipe) = {} /\ hpc[n] # "hello" /\ subconn[n] \subseteq publishermap[n]
         /\ \A t \in ThreadsOf(n) : connpipe[t] = <<>> /\ subpipe[t] = <<>>
<1>1. Asks(n, connpipe) = {} /\ Asks(n, subpipe) = {} /\ hpc[n] # "hello" /\ subconn[n] \ publishermap[n] = {}
  BY DEF OneOf, Single
<1> QED BY <1>1 DEF Asks

\* The request to connect is taken: its destination is greeted.
LEMMA OneConn ==
  ASSUME TypeInv, NEW n \in Node, NEW t \in Thread, HandleConn(n, t), OneOf(n), Subject(n)' => Subject(n)
  PROVE  OneOf(n)'
<1> SUFFICES ASSUME Subject(n)'
             PROVE  /\ Single(Asks(n, connpipe), Asks(n, subpipe), hpc[n] = "hello", subconn[n] \ publishermap[n], mtx[n])'
                    /\ \A u \in ThreadsOf(n) : /\ connpipe'[u] # <<>> => Tail(connpipe'[u]) = <<>>
                                               /\ subpipe'[u] # <<>> => Tail(subpipe'[u]) = <<>>
  BY DEF OneOf, ThreadsOf
<1>1. /\ NodeOf[t] = n /\ connpipe[t] # <<>> /\ connpipe' = [connpipe EXCEPT ![t] = Tail(@)] /\ subpipe' = subpipe
      /\ hpc' = [hpc EXCEPT ![n] = "hello"] /\ mtx' = mtx /\ subconn' = subconn /\ publishermap' = publishermap
  BY DEF HandleConn, TakeConn, Blocks, pubVars
<1>2. connpipe \in [Thread -> Seq(Node)] /\ hpc'[n] = "hello"
  BY <1>1 DEF TypeInv, PipeInv, LoopInv
<1>3. t \in Asks(n, connpipe) /\ t \in ThreadsOf(n)
  BY <1>1 DEF Asks, ThreadsOf
<1>4. /\ \A u \in Asks(n, connpipe) : u = t
      /\ Asks(n, subpipe) = {} /\ subconn[n] \ publishermap[n] = {} /\ mtx[n] /\ Tail(connpipe[t]) = <<>>
  BY <1>1, <1>3 DEF OneOf, Single
<1>5. \A u \in ThreadsOf(n) : connpipe'[u] = <<>> /\ subpipe'[u] = <<>>
  BY <1>1, <1>2, <1>4 DEF Asks, ThreadsOf
<1>6. Asks(n, connpipe)' = {} /\ Asks(n, subpipe)' = {}
  BY <1>5 DEF Asks, ThreadsOf
<1>7. subconn'[n] \ publishermap'[n] = {} /\ mtx'[n]
  BY <1>1, <1>4
<1>8. Single(Asks(n, connpipe), Asks(n, subpipe), hpc[n] = "hello", subconn[n] \ publishermap[n], mtx[n])'
  BY <1>2, <1>6, <1>7 DEF Single
<1> QED BY <1>5, <1>8

\* The greeting is sent.
LEMMA OneHello ==
  ASSUME TypeInv, NEW n \in Node, SendHello(n), OneOf(n), Subject(n)' => Subject(n)
  PROVE  OneOf(n)'
<1> SUFFICES ASSUME Subject(n)'
             PROVE  /\ Single(Asks(n, connpipe), Asks(n, subpipe), hpc[n] = "hello", subconn[n] \ publishermap[n], mtx[n])'
                    /\ \A u \in ThreadsOf(n) : /\ connpipe'[u] # <<>> => Tail(connpipe'[u]) = <<>>
                                               /\ subpipe'[u] # <<>> => Tail(subpipe'[u]) = <<>>
  BY DEF OneOf, ThreadsOf
<1>1. /\ hpc[n] = "hello" /\ connpipe' = connpipe /\ subpipe' = subpipe /\ subconn' = subconn /\ publishermap' = publishermap
      /\ hpc' = [hpc EXCEPT ![n] = "handle"]
  BY DEF SendHello, mapVars, pubVars, inVars
<1>2. hpc'[n] # "hello"
  BY <1>1 DEF TypeInv, LoopInv
<1>3. Asks(n, connpipe) = {} /\ Asks(n, subpipe) = {} /\ subconn[n] \ publishermap[n] = {}
  BY <1>1 DEF OneOf, Single
<1>4. \A u \in ThreadsOf(n) : connpipe'[u] = <<>> /\ subpipe'[u] = <<>>
  BY <1>1, <1>3 DEF Asks
<1>5. Asks(n, connpipe)' = {} /\ Asks(n, subpipe)' = {}
  BY <1>4 DEF Asks, ThreadsOf
<1>6. subconn'[n] \ publishermap'[n] = {}
  BY <1>1, <1>3
<1>7. Single(Asks(n, connpipe), Asks(n, subpipe), hpc[n] = "hello", subconn[n] \ publishermap[n], mtx[n])'
  BY <1>2, <1>5, <1>6 DEF Single
<1> QED BY <1>4, <1>7

\* The request to subscribe is taken: at most the greeting of its publisher is awaited.
LEMMA OneSub ==
  ASSUME TypeInv, NEW n \in Node, NEW t \in Thread, HandleSub(n, t), OneOf(n), Subject(n)' => Subject(n)
  PROVE  OneOf(n)'
<1> SUFFICES ASSUME Subject(n)'
             PROVE  /\ Single(Asks(n, connpipe), Asks(n, subpipe), hpc[n] = "hello", subconn[n] \ publishermap[n], mtx[n])'
                    /\ \A u \in ThreadsOf(n) : /\ connpipe'[u] # <<>> => Tail(connpipe'[u]) = <<>>
                                               /\ subpipe'[u] # <<>> => Tail(subpipe'[u]) = <<>>
  BY DEF OneOf, ThreadsOf
<1>1. /\ NodeOf[t] = n /\ subpipe[t] # <<>> /\ subpipe' = [subpipe EXCEPT ![t] = Tail(@)] /\ connpipe' = connpipe
      /\ hpc' = hpc /\ mtx' = mtx /\ publishermap' = publishermap
  BY DEF HandleSub, TakeSub, SubWaits, mapVars
<1>2. subpipe \in [Thread -> Seq(CallType)] /\ subconn \in [Node -> SUBSET Node]
  BY DEF TypeInv, PipeInv, CastInv
<1>3. t \in Asks(n, subpipe) /\ t \in ThreadsOf(n)
  BY <1>1 DEF Asks, ThreadsOf
<1>4. /\ \A u \in Asks(n, subpipe) : u = t
      /\ Asks(n, connpipe) = {} /\ subconn[n] \ publishermap[n] = {} /\ mtx[n] /\ hpc[n] # "hello" /\ Tail(subpipe[t]) = <<>>
  BY <1>1, <1>3 DEF OneOf, Single
<1>5. \A u \in ThreadsOf(n) : connpipe'[u] = <<>> /\ subpipe'[u] = <<>>
  BY <1>1, <1>2, <1>4 DEF Asks, ThreadsOf
<1>6. Asks(n, connpipe)' = {} /\ Asks(n, subpipe)' = {}
  BY <1>5 DEF Asks, ThreadsOf
<1>7. PICK r : r = Head(subpipe[t]).peer
  OBVIOUS
<1>8. subconn'[n] = subconn[n] \union ({r} \ {NoAddr})
  BY <1>2, <1>7 DEF HandleSub, TakeSub
<1>9. \A p, q \in subconn'[n] \ publishermap'[n] : p = q
  BY <1>1, <1>4, <1>8
<1>10. mtx'[n] /\ hpc'[n] # "hello"
  BY <1>1, <1>4
<1>11. Single(Asks(n, connpipe), Asks(n, subpipe), hpc[n] = "hello", subconn[n] \ publishermap[n], mtx[n])'
  BY <1>6, <1>9, <1>10 DEF Single
<1> QED BY <1>5, <1>11

\* A publication arrives: the first greeting of the publisher ends the wait.
LEMMA OneSubsock ==
  ASSUME TypeInv, JoinInv, NEW n \in Node, NEW p \in Node, HandleSubsock(n, p), OneOf(n), Subject(n)' => Subject(n)
  PROVE  OneOf(n)'
<1>1. /\ pubnet[p][n] # <<>> /\ hpc[n] = "handle"
      /\ connpipe' = connpipe /\ subpipe' = subpipe /\ subconn' = subconn
  BY DEF HandleSubsock, Turn, inVars
<1>2. hpc'[n] # "hello"
  BY <1>1 DEF HandleSubsock, Blocks, TypeInv, LoopInv
<1>3. CASE publishermap' = publishermap /\ mtx' = mtx
  BY <1>1, <1>2, <1>3, OneSame
<1>4. CASE Answer(n, p) /\ p \notin publishermap[n]
  <2> SUFFICES ASSUME Subject(n)'
               PROVE  /\ Single(Asks(n, connpipe), Asks(n, subpipe), hpc[n] = "hello", subconn[n] \ publishermap[n], mtx[n])'
                      /\ \A u \in ThreadsOf(n) : /\ connpipe'[u] # <<>> => Tail(connpipe'[u]) = <<>>
                                                 /\ subpipe'[u] # <<>> => Tail(subpipe'[u]) = <<>>
    BY DEF OneOf, ThreadsOf
  <2>1. p \in subconn[n] \ publishermap[n]
    BY <1>1, <1>4 DEF JoinInv, JoinOf
  <2>2. Asks(n, connpipe) = {} /\ Asks(n, subpipe) = {} /\ \A q \in subconn[n] \ publishermap[n] : q = p
    BY <2>1 DEF OneOf, Single
  <2>3. \A u \in ThreadsOf(n) : connpipe'[u] = <<>> /\ subpipe'[u] = <<>>
    BY <1>1, <2>2 DEF Asks
  <2>4. Asks(n, connpipe)' = {} /\ Asks(n, subpipe)' = {}
    BY <2>3 DEF Asks, ThreadsOf
  <2>5. publishermap'[n] = publishermap[n] \union {p}
    BY <1>4 DEF Answer, TypeInv, MapInv
  <2>6. subconn'[n] \ publishermap'[n] = {}
    BY <1>1, <2>2, <2>5
  <2>7. Single(Asks(n, connpipe), Asks(n, subpipe), hpc[n] = "hello", subconn[n] \ publishermap[n], mtx[n])'
    BY <1>2, <2>4, <2>6 DEF Single
  <2> QED BY <2>3, <2>7
<1> QED BY <1>3, <1>4 DEF HandleSubsock

\* A call makes its request: nobody waits, and now it does.
LEMMA OneRequest ==
  ASSUME TypeInv, TypeInv', NEW t \in Thread, PushRequest(t), NEW n \in Node, OneOf(n), Subject(n)' => Subject(n)
  PROVE  OneOf(n)'
<1>1. /\ step[t] = "lock" /\ ~mtx[NodeOf[t]] /\ mtx' = [mtx EXCEPT ![NodeOf[t]] = TRUE]
      /\ hpc' = hpc /\ subconn' = subconn /\ publishermap' = publishermap /\ step'[t] = "lock again"
  BY DEF PushRequest, handlerRest, hVars, pubVars, mapVars, Goto, TypeInv, CallInv
<1>2. /\ connpipe \in [Thread -> Seq(Node)] /\ subpipe \in [Thread -> Seq(CallType)] /\ mtx \in [Node -> BOOLEAN]
      /\ Index(t) <= Len(Program[t])
  BY <1>1 DEF TypeInv, PipeInv, LoopInv, CallInv, Inside
<1>3. PICK c \in CallType : c = Call(t) /\ (c.op = "connect" => c.peer \in Node)
  BY <1>2, IndexFacts DEF TypeInv
<1>4. /\ c.op = "connect" => connpipe' = [connpipe EXCEPT ![t] = Append(@, c.peer)] /\ subpipe' = subpipe
      /\ c.op = "subscribe" => subpipe' = [subpipe EXCEPT ![t] = Append(@, c)] /\ connpipe' = connpipe
      /\ c.op = "init_pub" => subpipe' = subpipe /\ connpipe' = connpipe
      /\ c.op \in {"connect", "subscribe", "init_pub"}
  BY <1>3 DEF PushRequest
<1>5. CASE NodeOf[t] # n
  <2>1. \A u \in ThreadsOf(n) : connpipe'[u] = connpipe[u] /\ subpipe'[u] = subpipe[u]
    BY <1>2, <1>4, <1>5 DEF ThreadsOf
  <2>2. mtx'[n] = mtx[n]
    BY <1>1, <1>2, <1>5
  <2> QED BY <1>1, <2>1, <2>2, OneSame
<1>6. CASE NodeOf[t] = n
  <2> SUFFICES ASSUME Subject(n)'
               PROVE  /\ Single(Asks(n, connpipe), Asks(n, subpipe), hpc[n] = "hello", subconn[n] \ publishermap[n], mtx[n])'
                      /\ \A u \in ThreadsOf(n) : /\ connpipe'[u] # <<>> => Tail(connpipe'[u]) = <<>>
                                                 /\ subpipe'[u] # <<>> => Tail(subpipe'[u]) = <<>>
    BY DEF OneOf, ThreadsOf
  <2>1. t \in ThreadsOf(n)
    BY <1>6 DEF ThreadsOf
  <2>2. /\ hpc[n] # "hello" /\ subconn[n] \subseteq publishermap[n]
        /\ \A u \in ThreadsOf(n) : connpipe[u] = <<>> /\ subpipe[u] = <<>>
    BY <1>1, <1>6, NoneAsked
  <2>3. hpc'[n] # "hello" /\ subconn'[n] \ publishermap'[n] = {} /\ mtx'[n]
    BY <1>1, <1>2, <1>6, <2>2
  <2>4. c.op # "init_pub"
    BY <1>2, <1>3, <1>6, InsidePublishes DEF Subject
  <2>5. CASE c.op = "connect"
    <3>1. connpipe'[t] = <<c.peer>> /\ Tail(<<c.peer>>) = <<>>
      <4>1. connpipe'[t] = Append(<<>>, c.peer) /\ c.peer \in Node
        BY <1>2, <1>3, <1>4, <2>1, <2>2, <2>5
      <4> QED BY <4>1, OneQueued
    <3>2. \A u \in ThreadsOf(n) : (u # t => connpipe'[u] = <<>>) /\ subpipe'[u] = <<>>
      BY <1>2, <1>4, <2>2, <2>5 DEF ThreadsOf
    <3>3. (\A u \in Asks(n, connpipe)' : u = t) /\ Asks(n, subpipe)' = {}
      BY <3>2 DEF Asks, ThreadsOf
    <3>4. Single(Asks(n, connpipe), Asks(n, subpipe), hpc[n] = "hello", subconn[n] \ publishermap[n], mtx[n])'
      BY <2>3, <3>3 DEF Single
    <3> QED BY <3>1, <3>2, <3>4
  <2>6. CASE c.op = "subscribe"
    <3>1. subpipe'[t] = <<c>> /\ Tail(<<c>>) = <<>>
      <4>1. subpipe'[t] = Append(<<>>, c)
        BY <1>2, <1>4, <2>1, <2>2, <2>6
      <4> QED BY <1>3, <4>1, OneQueued
    <3>2. \A u \in ThreadsOf(n) : (u # t => subpipe'[u] = <<>>) /\ connpipe'[u] = <<>>
      BY <1>2, <1>4, <2>2, <2>6 DEF ThreadsOf
    <3>3. (\A u \in Asks(n, subpipe)' : u = t) /\ Asks(n, connpipe)' = {}
      BY <3>2 DEF Asks, ThreadsOf
    <3>4. Single(Asks(n, connpipe), Asks(n, subpipe), hpc[n] = "hello", subconn[n] \ publishermap[n], mtx[n])'
      BY <2>3, <3>3 DEF Single
    <3> QED BY <3>1, <3>2, <3>4
  <2> QED BY <1>4, <2>4, <2>5, <2>6
<1> QED BY <1>5, <1>6

\* There is one request at a time: kept by every step.
LEMMA OneStep == ASSUME TypeInv, TypeInv', Next, JoinInv, AnswerInv, OneInv PROVE OneInv'
<1>0. Grown
  BY GrownStep
<1>1. \A n \in Node : OneOf(n) /\ (Subject(n)' => Subject(n)) /\ (Publishes(n) => Publishes(n)')
  BY <1>0, GrownFacts DEF OneInv
<1>2. ASSUME NEW n \in Node, HandlerNext(n) \/ HandlerFails(n), NEW m \in Node PROVE OneOf(m)'
  <2>1. CASE m # n
    <3>1. \A t \in ThreadsOf(m) : connpipe'[t] = connpipe[t] /\ subpipe'[t] = subpipe[t]
      BY <1>2, <2>1, HandlerLocal DEF ThreadsOf
    <3>2. hpc'[m] = hpc[m] /\ mtx'[m] = mtx[m] /\ publishermap'[m] = publishermap[m] /\ subconn'[m] = subconn[m]
      BY <1>2, <2>1, HandlerLocal
    <3> QED BY <1>1, <3>1, <3>2, OneSame
  <2>2. CASE m = n
    <3>1. CASE HandlerFails(n)
      <4>1. errcode'[n]
        BY <3>1 DEF HandlerFails, PollFails, BranchFails, ConnFails,
           SubFails, TakeSub, Fail, TypeInv, LoopInv
      <4> QED BY <2>2, <4>1 DEF OneOf, Subject
    <3>2. ASSUME connpipe' = connpipe, subpipe' = subpipe, subconn' = subconn, publishermap' = publishermap, mtx' = mtx,
                 hpc'[n] = "hello" <=> hpc[n] = "hello"
          PROVE  OneOf(n)'
      BY <1>1, <3>2, OneSame
    <3>3. CASE PollBegins(n) \/ PollReturns(n)
      <4>1. hpc'[n] # "hello" /\ hpc[n] # "hello"
        BY <3>3 DEF PollBegins, PollReturns, TypeInv, LoopInv
      <4> QED BY <2>2, <3>2, <3>3, <4>1 DEF PollBegins, PollReturns, pollRest, inVars, pubVars, mapVars
    <3>4. ASSUME NEW p \in Node, HandleRouter(n, p) PROVE OneOf(n)'
      <4>1. hpc'[n] # "hello" /\ hpc[n] # "hello"
        BY <3>4 DEF HandleRouter, Turn, Blocks, TypeInv, LoopInv
      <4> QED BY <3>2, <3>4, <4>1 DEF HandleRouter, inVars, pubVars
    <3>5. CASE PushTask(n)
      <4>1. hpc'[n] # "hello" /\ hpc[n] # "hello"
        BY <3>5 DEF PushTask, TypeInv, LoopInv
      <4> QED BY <2>2, <3>2, <3>5, <4>1 DEF PushTask, inVars, pubVars, mapVars
    <3>6. ASSUME NEW t \in Thread, HandlePubsend(n, t) PROVE OneOf(n)'
      BY <3>2, <3>6 DEF HandlePubsend, mapVars
    <3>7. ASSUME PushSuber(n) \/ \E t \in Thread : HandlePubstart(n, t) PROVE OneOf(n)'
      <4>1. Publishes(n)
        BY <3>7 DEF PushSuber, HandlePubstart, AnswerInv
      <4> QED BY <1>1, <4>1 DEF OneOf, Subject
    <3> QED BY <1>1, <1>2, <2>2, <3>1, <3>3, <3>4, <3>5, <3>6, <3>7, OneConn, OneHello, OneSub, OneSubsock DEF HandlerNext
  <2> QED BY <2>1, <2>2
<1>3. ASSUME NEW m \in Node, connpipe' = connpipe, subpipe' = subpipe, subconn' = subconn, publishermap' = publishermap,
             mtx' = mtx, hpc' = hpc
      PROVE  OneOf(m)'
  BY <1>1, <1>3, OneSame
<1>4. ASSUME NEW t \in Thread, ThreadNext(t), NEW m \in Node PROVE OneOf(m)'
  <2>1. hpc' = hpc /\ publishermap' = publishermap /\ subconn' = subconn
    BY <1>4, ThreadRest DEF hVars, pubVars
  <2>2. CASE PushRequest(t)
    BY <1>1, <2>2, OneRequest
  <2>3. CASE ~PushRequest(t)
    <3>1. connpipe' = connpipe /\ subpipe' = subpipe /\ mtx' = mtx
      BY <1>4, <2>3 DEF ThreadNext, Refused, get_one_connection, AcceptReturns, connect_to,
           subscribe_to, Wakes, CheckReturns, publish, init_pub, InitPubPull, InitPubGreets, InitPubGreeted,
           InitPubDrains, InitPubReturns, recv, RecvReturns, inVars
    <3> QED BY <1>3, <2>1, <3>1
  <2> QED BY <2>2, <2>3
<1>5. ASSUME NetworkNext, NEW m \in Node PROVE OneOf(m)'
  BY <1>3, <1>5 DEF NetworkNext, Handshake, Join, inVars, pubVars, mapVars, hVars
<1> QED BY <1>2, <1>4, <1>5 DEF Next, OneInv

-----------------------------------------------------------------------------
(* Honest requests: the calls that wait *)

\* A request goes on from the pipe to the greeting and to its end.
LEMMA WaitGoes ==
  ASSUME TypeInv, TypeInv', Grown, NEW t \in Thread, NEW n \in Node, n = NodeOf[t], WaitOf(t),
         step'[t] = step[t], Call(t)' = Call(t),
         Subject(n) /\ connpipe[t] # <<>> => \/ connpipe'[t] = connpipe[t]
                                             \/ hpc'[n] = "hello" /\ pend'[n].to = Head(connpipe[t]),
         Subject(n) /\ hpc[n] = "hello" => \/ hpc'[n] = "hello" /\ pend'[n] = pend[n]
                                           \/ \E d \in Node : d = pend[n].to /\ Greeted(n, d)',
         Subject(n) /\ subpipe[t] # <<>> => \/ subpipe'[t] = subpipe[t]
                                            \/ Head(subpipe[t]).peer \in subconn'[n] \union {NoAddr}
  PROVE  WaitOf(t)'
<1>1. \A m \in Node : Subject(m)' => Subject(m)
  BY GrownFacts
<1>2. \A d \in Node : (Greeted(n, d) => Greeted(n, d)') /\ (Met(n, d) => Met(n, d)')
  BY GrownFacts
<1>3. subconn[n] \subseteq subconn'[n]
  BY DEF Grown
<1>4. PICK c : c = Call(t)
  OBVIOUS
<1>5. step[t] # "idle" => (c.op = "connect" => c.peer \in Node) /\ c.peer \in Node \union {NoAddr}
  BY <1>4, IndexFacts DEF TypeInv, CallInv, Inside
<1>6. ASSUME Subject(n), step[t] = "lock again", c.op = "connect"
      PROVE  \/ connpipe'[t] # <<>> /\ Head(connpipe'[t]) = c.peer
             \/ hpc'[n] = "hello" /\ pend'[n].to = c.peer
             \/ Greeted(n, c.peer)'
  <2>1. \/ connpipe[t] # <<>> /\ Head(connpipe[t]) = c.peer
        \/ hpc[n] = "hello" /\ pend[n].to = c.peer
        \/ Greeted(n, c.peer)
    BY <1>4, <1>6 DEF WaitOf
  <2>2. CASE connpipe[t] # <<>> /\ Head(connpipe[t]) = c.peer
    BY <1>6, <2>2
  <2>3. CASE hpc[n] = "hello" /\ pend[n].to = c.peer
    BY <1>6, <2>3
  <2>4. CASE Greeted(n, c.peer)
    BY <1>2, <1>5, <1>6, <2>4
  <2> QED BY <2>1, <2>2, <2>3, <2>4
<1>7. ASSUME Subject(n), step[t] = "check", c.op = "connect" PROVE Greeted(n, c.peer)'
  BY <1>2, <1>4, <1>5, <1>7 DEF WaitOf
<1>8. ASSUME Subject(n), step[t] = "lock again", c.op = "subscribe", c.peer # NoAddr
      PROVE  (subpipe'[t] # <<>> /\ Head(subpipe'[t]).peer = c.peer) \/ c.peer \in subconn'[n]
  BY <1>3, <1>4, <1>8 DEF WaitOf
<1>9. ASSUME Subject(n), step[t] = "check", c.op = "subscribe", c.peer # NoAddr PROVE Met(n, c.peer)'
  BY <1>2, <1>4, <1>5, <1>9 DEF WaitOf
<1> QED BY <1>1, <1>4, <1>6, <1>7, <1>8, <1>9 DEF WaitOf

\* The steps of the communication threads and of 0MQ.
LEMMA WaitHandler ==
  ASSUME TypeInv, TypeInv', WaitInv, OneInv, NEW n \in Node, HandlerNext(n) \/ HandlerFails(n) PROVE WaitInv'
<1> SUFFICES ASSUME NEW t \in Thread PROVE WaitOf(t)'
  BY DEF WaitInv
<1>0. Grown /\ WaitOf(t)
  BY GrownHandler DEF WaitInv
<1>1. step'[t] = step[t] /\ Call(t)' = Call(t)
  BY HandlerRest DEF appVars, Call, Index, Program
<1>2. PICK m \in Node : m = NodeOf[t]
  BY PubSubAssumption
<1>3. CASE m # n
  <2>1. connpipe'[t] = connpipe[t] /\ subpipe'[t] = subpipe[t] /\ hpc'[m] = hpc[m] /\ pend'[m] = pend[m]
    BY <1>2, <1>3, HandlerLocal
  <2> QED BY <1>0, <1>1, <1>2, <2>1, WaitGoes
<1>4. CASE m = n
  <2>1. ASSUME connpipe'[t] = connpipe[t], subpipe'[t] = subpipe[t], hpc[n] # "hello" PROVE WaitOf(t)'
    BY <1>0, <1>1, <1>2, <1>4, <2>1, WaitGoes
  <2>2. CASE HandlerFails(n)
    <3>1. errcode'[n]
      BY <2>2 DEF HandlerFails, PollFails, BranchFails, ConnFails,
           SubFails, TakeSub, Fail, TypeInv, LoopInv
    <3> QED BY <1>2, <1>4, <3>1 DEF WaitOf, Subject
  <2>3. CASE PollBegins(n) \/ PollReturns(n) \/ PushTask(n) \/ PushSuber(n)
    BY <2>1, <2>3 DEF PollBegins, PollReturns, PushTask, PushSuber, pollRest, inVars
  <2>4. ASSUME NEW p \in Node, HandleRouter(n, p) \/ HandleSubsock(n, p) PROVE WaitOf(t)'
    BY <2>1, <2>4 DEF HandleRouter, HandleSubsock, Turn, inVars
  <2>5. ASSUME NEW u \in Thread, HandlePubsend(n, u) \/ HandlePubstart(n, u) PROVE WaitOf(t)'
    BY <2>1, <2>5 DEF HandlePubsend, HandlePubstart, Turn
  <2>6. ASSUME NEW u \in Thread, HandleConn(n, u) PROVE WaitOf(t)'
    <3>1. /\ hpc[n] = "handle" /\ subpipe' = subpipe /\ connpipe' = [connpipe EXCEPT ![u] = Tail(@)]
          /\ hpc' = [hpc EXCEPT ![n] = "hello"]
          /\ pend' = [pend EXCEPT ![n] = [to |-> Head(connpipe[u]), msg |-> PubHello]]
      BY <2>6 DEF HandleConn, TakeConn, Turn, Blocks
    <3>2. hpc'[n] = "hello" /\ pend'[n].to = Head(connpipe[u]) /\ (t # u => connpipe'[t] = connpipe[t])
      BY <3>1 DEF TypeInv, LoopInv, PipeInv
    <3> QED BY <1>0, <1>1, <1>2, <1>4, <3>1, <3>2, WaitGoes
  <2>7. CASE SendHello(n)
    <3>1. connpipe' = connpipe /\ subpipe' = subpipe /\ net' = [net EXCEPT ![n][pend[n].to] = Append(@, "hello")]
          /\ pend[n].to \in Node
      BY <2>7 DEF SendHello, inVars, TypeInv, LoopInv
    <3>2. PICK d \in Node : d = pend[n].to
      BY <3>1
    <3>3. "hello" \in Range(net'[n][d])
      <4>1. PICK h \in {"hello", "sub_hello"} : h = "hello"
        OBVIOUS
      <4>2. NetInv /\ CastInv /\ net' = [net EXCEPT ![n][d] = Append(@, h)]
        BY <3>1, <3>2, <4>1 DEF TypeInv
      <4>3. Range(net'[n][d]) = Range(net[n][d]) \union {h}
        BY <4>2, NetPush
      <4> QED BY <4>1, <4>3
    <3>4. Greeted(n, d)'
      BY <3>3 DEF Greeted
    <3> QED BY <1>0, <1>1, <1>2, <1>4, <3>1, <3>2, <3>4, WaitGoes
  <2>8. ASSUME NEW u \in Thread, HandleSub(n, u) PROVE WaitOf(t)'
    <3>1. /\ hpc[n] = "handle" /\ connpipe' = connpipe /\ subpipe' = [subpipe EXCEPT ![u] = Tail(@)]
          /\ subconn' = [subconn EXCEPT ![n] = @ \union ({Head(subpipe[u]).peer} \ {NoAddr})]
      BY <2>8 DEF HandleSub, TakeSub, Turn
    <3>2. t # u => subpipe'[t] = subpipe[t]
      BY <3>1 DEF TypeInv, PipeInv
    <3>3. Head(subpipe[u]).peer \in subconn'[n] \union {NoAddr}
      BY <3>1 DEF TypeInv, CastInv
    <3> QED BY <1>0, <1>1, <1>2, <1>4, <3>1, <3>2, <3>3, WaitGoes
  <2> QED BY <2>2, <2>3, <2>4, <2>5, <2>6, <2>7, <2>8 DEF HandlerNext
<1> QED BY <1>3, <1>4

\* 0MQ's own steps.
LEMMA WaitNetwork ==
  ASSUME TypeInv, TypeInv', WaitInv, NetworkNext PROVE WaitInv'
<1> SUFFICES ASSUME NEW t \in Thread PROVE WaitOf(t)'
  BY DEF WaitInv
<1>0. Grown /\ WaitOf(t)
  BY GrownNetwork DEF WaitInv
<1>1. step'[t] = step[t] /\ Call(t)' = Call(t)
  BY HandlerRest DEF appVars, Call, Index, Program
<1>2. PICK m \in Node : m = NodeOf[t]
  BY PubSubAssumption
<1>3. connpipe' = connpipe /\ subpipe' = subpipe /\ hpc' = hpc /\ pend' = pend
  BY DEF NetworkNext, Handshake, Join, inVars, hVars
<1> QED BY <1>0, <1>1, <1>2, <1>3, WaitGoes

\* A call moves only its own thread.
LEMMA ThreadLocal ==
  ASSUME TypeInv, NEW t \in Thread, ThreadNext(t), NEW u \in Thread, u # t
  PROVE  step'[u] = step[u] /\ result'[u] = result[u] /\ Call(u)' = Call(u) /\ connpipe'[u] = connpipe[u] /\ subpipe'[u] = subpipe[u]
<1>1. step \in [Thread -> Steps] /\ result \in [Thread -> Seq(Result)]
      /\ connpipe \in [Thread -> Seq(Node)] /\ subpipe \in [Thread -> Seq(CallType)]
  BY DEF TypeInv, CallInv, PipeInv
<1>2. step'[u] = step[u]
  <2>1. step' = step \/ \E s : step' = [step EXCEPT ![t] = s]
    BY DEF ThreadNext, Refused, get_one_connection, AcceptReturns, connect_to, subscribe_to, PushRequest, Wakes,
           CheckReturns, publish, init_pub, InitPubPull, InitPubGreets, InitPubGreeted, InitPubDrains, InitPubReturns,
           recv, RecvReturns, Goto, Return
  <2> QED BY <1>1, <2>1
<1>3. result'[u] = result[u]
  BY <1>1, ReturnsOrNot DEF Return
<1>4. connpipe'[u] = connpipe[u] /\ subpipe'[u] = subpipe[u]
  <2>1. CASE PushRequest(t)
    BY <1>1, <2>1 DEF PushRequest
  <2>2. CASE ~PushRequest(t)
    BY <2>2 DEF ThreadNext, Refused, get_one_connection, AcceptReturns, connect_to,
           subscribe_to, Wakes, CheckReturns, publish, init_pub, InitPubPull, InitPubGreets, InitPubGreeted,
           InitPubDrains, InitPubReturns, recv, RecvReturns, inVars
  <2> QED BY <2>1, <2>2
<1>5. Call(u)' = Call(u)
  <2>1. prog' = prog
    BY ThreadRest
  <2> QED BY <1>3, <2>1 DEF Call, Index, Program
<1> QED BY <1>2, <1>3, <1>4, <1>5

\* The steps of the calls: a call that is released finds its request carried out.
LEMMA WaitThread ==
  ASSUME TypeInv, TypeInv', JoinInv, OneInv, WaitInv, NEW t \in Thread, ThreadNext(t) PROVE WaitInv'
<1> SUFFICES ASSUME NEW u \in Thread PROVE WaitOf(u)'
  BY DEF WaitInv
<1>0. Grown /\ WaitOf(u)
  BY GrownThread DEF WaitInv
<1>1. PICK n \in Node : n = NodeOf[u]
  BY PubSubAssumption
<1>2. /\ prog' = prog /\ hpc' = hpc /\ pend' = pend /\ errcode' = errcode /\ clientmap' = clientmap
      /\ publishermap' = publishermap /\ net' = net /\ subconn' = subconn /\ subgroups' = subgroups /\ joined' = joined
  BY ThreadRest DEF hVars, netVars, pubVars
<1>3. CASE u # t
  <2>1. step'[u] = step[u] /\ Call(u)' = Call(u) /\ connpipe'[u] = connpipe[u] /\ subpipe'[u] = subpipe[u]
    BY <1>3, ThreadLocal
  <2> QED BY <1>0, <1>1, <1>2, <2>1, WaitGoes
<1>4. CASE u = t
  <2>0. step \in [Thread -> Steps]
    BY DEF TypeInv, CallInv
  <2>1. CASE PushRequest(t)
    <3>1. step[t] = "lock" /\ ~mtx[n] /\ step'[t] = "lock again" /\ result' = result
      BY <1>1, <1>4, <2>0, <2>1 DEF PushRequest, Goto
    <3>2. Call(t)' = Call(t) /\ Index(t) <= Len(Program[t])
      BY <1>2, <3>1 DEF Call, Index, Program, TypeInv, CallInv, Inside
    <3>3. PICK c \in CallType : c = Call(t) /\ (c.op = "connect" => c.peer \in Node)
      BY <3>2, IndexFacts DEF TypeInv
    <3>4. ASSUME Subject(n)'
          PROVE  /\ c.op = "connect" => connpipe'[t] # <<>> /\ Head(connpipe'[t]) = c.peer
                 /\ c.op = "subscribe" => subpipe'[t] # <<>> /\ Head(subpipe'[t]).peer = c.peer
      <4>1. Subject(n) /\ OneOf(n)
        BY <1>0, <3>4, GrownFacts DEF OneInv
      <4>2. t \in ThreadsOf(n)
        BY <1>1, <1>4 DEF ThreadsOf
      <4>3. connpipe[t] = <<>> /\ subpipe[t] = <<>>
        BY <3>1, <4>1, <4>2, NoneAsked
      <4>4. ASSUME c.op = "connect" PROVE connpipe'[t] # <<>> /\ Head(connpipe'[t]) = c.peer
        <5>1. connpipe'[t] = Append(<<>>, c.peer)
          BY <2>1, <3>3, <4>3, <4>4 DEF PushRequest, TypeInv, PipeInv
        <5>2. Append(<<>>, c.peer) = <<c.peer>> /\ Head(<<c.peer>>) = c.peer
          BY <3>3, <4>4, OneQueued
        <5>3. <<c.peer>> # <<>>
          OBVIOUS
        <5> QED BY <5>1, <5>2, <5>3
      <4>5. ASSUME c.op = "subscribe" PROVE subpipe'[t] # <<>> /\ Head(subpipe'[t]) = c
        <5>1. subpipe'[t] = Append(<<>>, c)
          BY <2>1, <3>3, <4>3, <4>5 DEF PushRequest, TypeInv, PipeInv
        <5>2. Append(<<>>, c) = <<c>> /\ Head(<<c>>) = c
          BY <3>3, OneQueued
        <5>3. <<c>> # <<>>
          OBVIOUS
        <5> QED BY <5>1, <5>2, <5>3
      <4> QED BY <4>4, <4>5
    <3> QED BY <1>1, <1>4, <3>1, <3>2, <3>3, <3>4 DEF WaitOf
  <2>2. CASE Wakes(t)
    <3>1. step[t] = "lock again" /\ ~mtx[n] /\ result' = result
      BY <1>1, <1>4, <2>2 DEF Wakes, Goto
    <3>2. Call(t)' = Call(t) /\ Index(t) <= Len(Program[t])
      BY <1>2, <3>1 DEF Call, Index, Program, TypeInv, CallInv, Inside
    <3>3. PICK c \in CallType : c = Call(t) /\ c.peer \in Node \union {NoAddr}
      BY <3>2, IndexFacts DEF TypeInv
    <3>4. step'[t] # "lock again"
      BY <2>0, <2>2 DEF Wakes, Goto
    <3>5. ASSUME Subject(n)'
          PROVE  /\ c.op = "connect" => Greeted(n, c.peer)'
                 /\ c.op = "subscribe" /\ c.peer # NoAddr => Met(n, c.peer)'
      <4>1. Subject(n) /\ OneOf(n)
        BY <1>0, <3>5, GrownFacts DEF OneInv
      <4>2. t \in ThreadsOf(n)
        BY <1>1, <1>4 DEF ThreadsOf
      <4>3. connpipe[t] = <<>> /\ subpipe[t] = <<>> /\ hpc[n] # "hello" /\ subconn[n] \subseteq publishermap[n]
        BY <3>1, <4>1, <4>2, NoneAsked
      <4>4. c.op = "connect" => Greeted(n, c.peer)
        BY <1>0, <1>1, <1>4, <3>1, <3>3, <4>1, <4>3 DEF WaitOf
      <4>5. ASSUME c.op = "subscribe", c.peer # NoAddr PROVE Met(n, c.peer)
        <5>1. c.peer \in subconn[n]
          BY <1>0, <1>1, <1>4, <3>1, <3>3, <4>1, <4>3, <4>5 DEF WaitOf
        <5>2. c.peer \in Node /\ c.peer \in publishermap[n]
          BY <3>3, <4>3, <4>5, <5>1
        <5>3. Subscribed(n, c.peer)
          BY <5>2 DEF JoinInv, JoinOf
        <5> QED BY <5>2, <5>3 DEF Met
      <4>6. (Greeted(n, c.peer) => Greeted(n, c.peer)') /\ (Met(n, c.peer) => Met(n, c.peer)')
        BY <1>2 DEF Greeted, Met, Subscribed
      <4> QED BY <4>4, <4>5, <4>6
    <3> QED BY <1>1, <1>4, <3>2, <3>3, <3>4, <3>5 DEF WaitOf
  <2>3. CASE publish(t)
    <3>1. step'[t] = "check" /\ result' = result /\ Call(t).op = "publish"
      BY <2>0, <2>3 DEF publish, Calls, Goto
    <3>2. Call(t)'.op = "publish"
      BY <1>2, <3>1 DEF Call, Index, Program
    <3> QED BY <1>4, <3>1, <3>2 DEF WaitOf
  <2>4. CASE step'[t] \notin {"lock again", "check"}
    BY <1>4, <2>4 DEF WaitOf
  <2>5. \A s : step' = [step EXCEPT ![t] = s] => step'[t] = s
    BY <2>0
  <2>6. CASE InitPubDrains(t)
    <3>1. step'[t] \in {"drain", "greet"}
      BY <2>5, <2>6 DEF InitPubDrains, Goto
    <3> QED BY <2>4, <3>1
  <2>7. CASE init_pub(t)
    <3>1. step'[t] \in {"pull", "lock"}
      BY <2>5, <2>7 DEF init_pub, Goto
    <3> QED BY <2>4, <3>1
  <2>8. CASE Refused(t) \/ AcceptReturns(t) \/ CheckReturns(t) \/ InitPubReturns(t) \/ RecvReturns(t)
    <3>1. step'[t] = "idle"
      BY <2>5, <2>8 DEF Refused, AcceptReturns, CheckReturns, InitPubReturns, RecvReturns, Return
    <3> QED BY <2>4, <3>1
  <2>9. CASE get_one_connection(t) \/ connect_to(t) \/ subscribe_to(t) \/ InitPubPull(t) \/ recv(t)
    <3>1. step'[t] \in {"pop", "lock", "greet", "wait"}
      BY <2>5, <2>9 DEF get_one_connection, connect_to, subscribe_to, InitPubPull, recv, Goto
    <3> QED BY <2>4, <3>1
  <2>10. CASE InitPubGreets(t) \/ InitPubGreeted(t)
    <3>1. step'[t] \in {"idle", "greeted", "drain"}
      BY <2>5, <2>10 DEF InitPubGreets, InitPubGreeted, Goto, Return
    <3> QED BY <2>4, <3>1
  <2> QED BY <2>1, <2>2, <2>3, <2>6, <2>7, <2>8, <2>9, <2>10 DEF ThreadNext
<1> QED BY <1>3, <1>4

-----------------------------------------------------------------------------
(* Honest requests: the calls that have returned *)

\* What a call has promised stays true.
LEMMA HonestStays ==
  ASSUME TypeInv, TypeInv', Grown, NEW t \in Thread, NEW k \in 1 .. Len(result[t]), HonestOf(t, k),
         k \in 1 .. Len(Program[t]), result'[t][k] = result[t][k]
  PROVE  HonestOf(t, k)'
<1>1. PICK n \in Node : n = NodeOf[t]
  BY PubSubAssumption
<1>2. PICK c : c = Program[t][k] /\ c.peer \in Node \union {NoAddr} /\ (c.op = "connect" => c.peer \in Node)
  BY CallFacts DEF TypeInv, CallInv
<1>3. Program'[t][k] = c
  BY <1>2 DEF Grown, Program
<1>4. (Publishes(n) => Publishes(n)') /\ \A d \in Node : (Greeted(n, d) => Greeted(n, d)') /\ (Met(n, d) => Met(n, d)')
  BY GrownFacts
<1> QED BY <1>1, <1>2, <1>3, <1>4 DEF HonestOf

\* Results belong to calls of the program.
MadeInv == \A t \in Thread : Len(result[t]) <= Len(Program[t])

\* Kept by every step.
LEMMA MadeStep == ASSUME TypeInv, TypeInv', Next, MadeInv PROVE MadeInv'
<1> SUFFICES ASSUME NEW u \in Thread PROVE Len(result'[u]) <= Len(Program'[u])
  BY DEF MadeInv, Program
<1>1. Program' = Program /\ result \in [Thread -> Seq(Result)] /\ Len(result[u]) \in Nat /\ Len(Program[u]) \in Nat
      /\ Len(result[u]) <= Len(Program[u])
  BY GrownStep, IndexFacts, CallFacts DEF Grown, Program, TypeInv, CallInv, MadeInv
<1>2. CASE result'[u] = result[u]
  BY <1>1, <1>2
<1>3. ASSUME NEW t \in Thread, ThreadNext(t), result'[u] # result[u] PROVE Len(result'[u]) <= Len(Program[u])
  <2>1. u = t
    BY <1>3, ThreadLocal
  <2>2. PICK x : result' = [result EXCEPT ![t] = Append(@, x)]
    BY <1>3, ReturnsOrNot DEF Return
  <2>3. Len(result'[t]) = Len(result[t]) + 1
    BY <1>1, <2>2
  <2>4. Index(t) <= Len(Program[t])
    <3>1. CASE step[t] # "idle"
      BY <3>1 DEF TypeInv, CallInv, Inside
    <3>2. CASE step[t] = "idle"
      BY <1>3, <3>2 DEF ThreadNext, Refused, get_one_connection, AcceptReturns, connect_to, subscribe_to, PushRequest, Wakes,
           CheckReturns, publish, init_pub, InitPubPull, InitPubGreets, InitPubGreeted, InitPubDrains, InitPubReturns,
           recv, RecvReturns, Calls
    <3> QED BY <3>1, <3>2
  <2> QED BY <1>1, <2>1, <2>3, <2>4 DEF Index
<1>4. CASE NetworkNext \/ \E n \in Node : HandlerNext(n) \/ HandlerFails(n)
  BY <1>2, <1>4, HandlerRest DEF appVars
<1> QED BY <1>1, <1>2, <1>3, <1>4 DEF Next

\* A call that returns 0 keeps its promise, and so do the earlier ones.
LEMMA HonestStep ==
  ASSUME TypeInv, TypeInv', Next, MadeInv, WaitInv, HonestInv PROVE HonestInv'
<1> SUFFICES ASSUME NEW u \in Thread, NEW k \in 1 .. Len(result'[u]) PROVE HonestOf(u, k)'
  BY DEF HonestInv
<1>0. Grown
  BY GrownStep
<1>1. result \in [Thread -> Seq(Result)] /\ Len(result[u]) \in Nat /\ Len(Program[u]) \in Nat /\ Len(result[u]) <= Len(Program[u])
  BY IndexFacts, CallFacts DEF TypeInv, CallInv, MadeInv
<1>2. CASE result'[u] = result[u]
  <2>1. k \in 1 .. Len(result[u]) /\ k \in 1 .. Len(Program[u]) /\ HonestOf(u, k)
    BY <1>1, <1>2 DEF HonestInv
  <2> QED BY <1>0, <1>2, <2>1, HonestStays
<1>3. ASSUME NEW t \in Thread, ThreadNext(t), result'[u] # result[u] PROVE HonestOf(u, k)'
  <2>1. u = t
    BY <1>3, ThreadLocal
  <2>2. PICK x : result' = [result EXCEPT ![t] = Append(@, x)]
    BY <1>3, ReturnsOrNot DEF Return
  <2>3. Len(result'[t]) = Len(result[t]) + 1 /\ result'[t][Len(result[t]) + 1] = x
        /\ \A j \in 1 .. Len(result[t]) : result'[t][j] = result[t][j]
    BY <1>1, <2>1, <2>2, AppendProperties
  <2>4. CASE k \in 1 .. Len(result[t])
    <3>1. k \in 1 .. Len(Program[u]) /\ HonestOf(u, k) /\ result'[u][k] = result[u][k]
      BY <1>1, <2>1, <2>3, <2>4 DEF HonestInv
    <3> QED BY <1>0, <2>1, <2>4, <3>1, HonestStays
  <2>5. CASE k = Index(t)
    <3>1. result'[t][k] = x /\ Program'[t][k] = Call(t)
      BY <1>0, <2>3, <2>5 DEF Index, Call, Grown, Program
    <3>2. CASE x.ret # "ok" \/ Call(t).op \notin {"connect", "subscribe"}
      BY <2>1, <3>1, <3>2 DEF HonestOf
    <3>3. ASSUME x.ret = "ok", Call(t).op \in {"connect", "subscribe"} PROVE CheckReturns(t)
      <4>1. ASSUME NEW r, NEW from, NEW msg, Return(t, r, from, msg) PROVE r = x.ret
        <5>0. [ret |-> r, from |-> from, msg |-> msg].ret = r
          OBVIOUS
        <5>1. PICK y : y = [ret |-> r, from |-> from, msg |-> msg] /\ y.ret = r
          BY <5>0
        <5>2. result' = [result EXCEPT ![t] = Append(@, y)]
          BY <4>1, <5>1 DEF Return
        <5>3. result'[t][Len(result[t]) + 1] = y
          BY <1>1, <2>1, <5>2, AppendProperties
        <5> QED BY <2>3, <5>1, <5>3
      <4>2. \A op : Inside(t) /\ step[t] # "idle" => StepOf(step[t], Call(t).op)
        BY DEF Inside
      <4>3. Inside(t) /\ result' # result /\ "ok" # "error"
        BY <1>3 DEF TypeInv, CallInv
      <4>4. ~AcceptReturns(t) /\ ~RecvReturns(t) /\ ~InitPubReturns(t)
        BY <3>3, <4>2, <4>3 DEF AcceptReturns, RecvReturns, InitPubReturns, StepOf
      <4>5. ~Refused(t) /\ ~InitPubGreets(t) /\ ~InitPubGreeted(t)
        BY <3>3, <4>1, <4>3 DEF Refused, InitPubGreets, InitPubGreeted, Goto
      <4> QED BY <1>3, <4>3, <4>4, <4>5 DEF ThreadNext, get_one_connection, connect_to, subscribe_to, PushRequest, Wakes,
             publish, init_pub, InitPubPull, InitPubDrains, recv, Goto
    <3>4. CASE x.ret = "ok" /\ Call(t).op \in {"connect", "subscribe"}
      <4>1. CheckReturns(t) /\ step[t] = "check"
        BY <3>3, <3>4 DEF CheckReturns
      <4>2. PICK n \in Node : n = NodeOf[t]
        BY PubSubAssumption
      <4>3. ~errcode[n]
        <5>1. x = [ret |-> Verdict(n), from |-> NoAddr, msg |-> PubHello]
          <6>1. PICK y : y = [ret |-> Verdict(n), from |-> NoAddr, msg |-> PubHello]
            OBVIOUS
          <6>2. result' = [result EXCEPT ![t] = Append(@, y)]
            BY <4>1, <4>2, <6>1 DEF CheckReturns, Return
          <6>3. result'[t][Len(result[t]) + 1] = y
            BY <1>1, <2>1, <6>2, AppendProperties
          <6> QED BY <2>3, <6>1, <6>3
        <5>2. Verdict(n) = "ok"
          BY <3>4, <5>1
        <5> QED BY <5>2 DEF Verdict
      <4>4. WaitOf(t)
        BY DEF WaitInv
      <4>5. Subject(n) \/ Publishes(n)
        BY <4>3 DEF Subject
      <4>6. PICK c : c = Call(t) /\ c.peer \in Node \union {NoAddr} /\ (c.op = "connect" => c.peer \in Node)
        BY <4>1, IndexFacts DEF TypeInv, CallInv, Inside
      <4>7. /\ c.op = "connect" => Greeted(n, c.peer) \/ Publishes(n)
            /\ c.op = "subscribe" => c.peer = NoAddr \/ Publishes(n) \/ Met(n, c.peer)
        BY <4>1, <4>2, <4>4, <4>5, <4>6 DEF WaitOf
      <4>8. (Publishes(n) => Publishes(n)') /\ \A d \in Node : (Greeted(n, d) => Greeted(n, d)') /\ (Met(n, d) => Met(n, d)')
        BY <1>0, GrownFacts
      <4>9. Program'[t][k] = c /\ k = Index(t)
        BY <2>5, <3>1, <4>6
      <4> QED BY <2>1, <4>2, <4>6, <4>7, <4>8, <4>9 DEF HonestOf
    <3> QED BY <3>2, <3>4
  <2>6. k \in 1 .. Len(result[t]) \/ k = Index(t)
    BY <1>1, <2>1, <2>3 DEF Index
  <2> QED BY <2>4, <2>5, <2>6
<1>4. CASE NetworkNext \/ \E n \in Node : HandlerNext(n) \/ HandlerFails(n)
  BY <1>2, <1>4, HandlerRest DEF appVars
<1> QED BY <1>2, <1>3, <1>4 DEF Next

\* A step that changes nothing,
LEMMA RequestSame == ASSUME RequestInv, MadeInv, UNCHANGED vars PROVE RequestInv' /\ MadeInv'
<1>1. UNCHANGED <<prog, hpc, pend, errcode, mtx, clientmap, publishermap, net, subconn, subgroups, joined, pubnet,
                  connpipe, pubpipe, subpipe, startpipe, step, result>>
  BY DEF vars
<1>2. \A n : (Publishes(n)' <=> Publishes(n)) /\ (Subject(n)' <=> Subject(n))
  BY <1>1 DEF Publishes, ThreadsOf, Begun, Index, Program, Subject
<1>3. \A n, d : (Greeted(n, d)' <=> Greeted(n, d)) /\ (Subscribed(n, d)' <=> Subscribed(n, d)) /\ (Met(n, d)' <=> Met(n, d))
  BY <1>1 DEF Greeted, Met, Subscribed
<1>4. JoinInv'
  BY <1>1, <1>3 DEF RequestInv, JoinInv, JoinOf
<1>5. GreetInv' /\ AnswerInv'
  BY <1>1, <1>2 DEF RequestInv, GreetInv, AnswerInv, HelloOf, PubHello
<1>6. OneInv'
  <2>1. ASSUME NEW n \in Node PROVE OneOf(n)'
    BY <1>1, <1>2, OneSame DEF RequestInv, OneInv
  <2> QED BY <2>1 DEF OneInv
<1>7. WaitInv'
  BY <1>1, <1>2, <1>3 DEF RequestInv, WaitInv, WaitOf, Call, Index, Program
<1>8. HonestInv'
  BY <1>1, <1>2, <1>3 DEF RequestInv, HonestInv, HonestOf, Program
<1>9. MadeInv'
  BY <1>1 DEF MadeInv, Program
<1> QED BY <1>4, <1>5, <1>6, <1>7, <1>8, <1>9 DEF RequestInv

\* and any step keeps the invariant.
LEMMA RequestStep ==
  ASSUME TypeInv, TypeInv', RequestInv, MadeInv, [Next]_vars PROVE RequestInv' /\ MadeInv'
<1>1. CASE UNCHANGED vars
  BY <1>1, RequestSame
<1>2. CASE Next
  <2>1. JoinInv' /\ GreetInv' /\ AnswerInv' /\ OneInv' /\ MadeInv' /\ HonestInv'
    BY <1>2, JoinStep, GreetStep, AnswerStep, OneStep, MadeStep, HonestStep DEF RequestInv
  <2>2. WaitInv'
    BY <1>2, WaitHandler, WaitNetwork, WaitThread DEF RequestInv, Next
  <2> QED BY <2>1, <2>2 DEF RequestInv
<1> QED BY <1>1, <1>2

\* connect_to and subscribe_to return 0 only when the destination has been greeted, or the publisher
\* knows a subscription of this node and has been answered, unless the process calls init_pub too:
\* whatever the threads of the process do meanwhile and wherever a communication thread fails.
THEOREM RequestsAreHonest == Spec => []RequestsHonest
<1>1. Init => RequestInv /\ MadeInv
  <2>1. Init => MadeInv
    <3>1. ASSUME Init, NEW t \in Thread PROVE Len(result[t]) = 0 /\ Len(Program[t]) \in Nat
      BY <3>1, CallFacts DEF Init
    <3> QED BY <3>1 DEF MadeInv
  <2> QED BY <2>1, RequestInit
<1>2. TypeInv /\ TypeInv' /\ RequestInv /\ MadeInv /\ [Next]_vars => (RequestInv /\ MadeInv)'
  BY RequestStep
<1>3. TypeInv /\ RequestInv => RequestsHonest
  BY RequestInvImplies
<1> QED BY <1>1, <1>2, <1>3, TypeInvariant, PTL DEF Spec
=============================================================================
