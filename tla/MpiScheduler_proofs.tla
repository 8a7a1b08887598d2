------------------------ MODULE MpiScheduler_proofs ------------------------
(***************************************************************************)
(* Proofs about MpiScheduler for every number of machines and threads.     *)
(***************************************************************************)
EXTENDS MpiScheduler, SequenceTheorems, FiniteSetTheorems, TLAPS

-----------------------------------------------------------------------------
(* Queues: what Head, Tail and Append do to the set of the elements *)

\* Taking the head leaves a queue with no new element.
LEMMA PopFacts ==
  ASSUME NEW S, NEW q \in Seq(S), q # <<>>
  PROVE  /\ Head(q) \in S
         /\ Tail(q) \in Seq(S)
         /\ Head(q) \in Range(q)
         /\ Range(Tail(q)) \subseteq Range(q)
<1>1. /\ Head(q) \in S
      /\ Tail(q) \in Seq(S)
      /\ Len(Tail(q)) = Len(q) - 1
      /\ \A i \in 1 .. Len(Tail(q)) : Tail(q)[i] = q[i + 1]
  BY HeadTailProperties
<1>2. Len(q) \in Nat \ {0} /\ DOMAIN q = 1 .. Len(q) /\ DOMAIN Tail(q) = 1 .. Len(Tail(q))
  BY <1>1, EmptySeq, LenProperties
<1>3. Head(q) = q[1]
  OBVIOUS
<1>4. Head(q) \in Range(q)
  BY <1>2, <1>3 DEF Range
<1>5. Range(Tail(q)) \subseteq Range(q)
  <2> SUFFICES ASSUME NEW k \in DOMAIN Tail(q)
               PROVE  \E j \in DOMAIN q : Tail(q)[k] = q[j]
    BY DEF Range
  <2>1. k + 1 \in DOMAIN q /\ Tail(q)[k] = q[k + 1]
    BY <1>1, <1>2
  <2> QED BY <2>1
<1> QED BY <1>1, <1>4, <1>5

\* Appending adds exactly the one element.
LEMMA PushFacts ==
  ASSUME NEW S, NEW q \in Seq(S), NEW x \in S
  PROVE  /\ Append(q, x) \in Seq(S)
         /\ Append(q, x) # <<>>
         /\ Range(Append(q, x)) = Range(q) \union {x}
<1>1. /\ Append(q, x) \in Seq(S)
      /\ Append(q, x) # <<>>
      /\ Len(Append(q, x)) = Len(q) + 1
      /\ \A i \in 1 .. Len(q) : Append(q, x)[i] = q[i]
      /\ Append(q, x)[Len(q) + 1] = x
  BY AppendProperties
<1>2. /\ Len(q) \in Nat
      /\ DOMAIN q = 1 .. Len(q)
      /\ DOMAIN Append(q, x) = 1 .. Len(q) + 1
  BY <1>1, LenProperties
<1>3. ASSUME NEW e PROVE e \in Range(Append(q, x)) <=> e \in Range(q) \union {x}
  BY <1>1, <1>2 DEF Range
<1> QED BY <1>1, <1>3

\* The empty queue has no element.
LEMMA NothingQueued == \A S : <<>> \in Seq(S) /\ Range(<<>>) = {}
  BY DEF Range

\* A queue of one element.
LEMMA OneQueued ==
  ASSUME NEW S, NEW x \in S
  PROVE  Append(<<>>, x) = <<x>> /\ Head(<<x>>) = x /\ Tail(<<x>>) = <<>>
<1>1. <<x>> \in Seq(S) /\ Len(<<x>>) = 1 /\ <<x>>[1] = x
  OBVIOUS
<1>2. Head(<<x>>) = x
  BY <1>1
<1>3. Tail(<<x>>) \in Seq(S) /\ Len(Tail(<<x>>)) = 0
  BY <1>1, HeadTailProperties
<1>4. Tail(<<x>>) = <<>>
  BY <1>3, EmptySeq
<1>5. Append(<<>>, x) = <<x>>
  <2>1. <<>> \in Seq(S) /\ Len(<<>>) = 0
    OBVIOUS
  <2>2. /\ Append(<<>>, x) \in Seq(S)
        /\ Len(Append(<<>>, x)) = 1
        /\ Append(<<>>, x)[1] = x
    BY <2>1, AppendProperties
  <2> QED BY <1>1, <2>2, SeqEqual
<1> QED BY <1>2, <1>4, <1>5


-----------------------------------------------------------------------------
(* Packets keep their type. *)

\* Ranks and counters start in their ranges.
LEMMA MachineFacts ==
  /\ \A m \in Machine : m \in 0 .. Machines
  /\ Server \in 0 .. Machines
  /\ 0 \in Machine /\ 0 \in Seqno /\ 0 \in 0 .. ThrdPM - 1
  BY ConstAssumption DEF Machine, Server, Seqno

\* sendheartbeat builds a packet.
LEMMA HeartbeatType == ASSUME NEW m \in Machine PROVE Heartbeat(m) \in Packet
  BY MachineFacts DEF Heartbeat, encappkt, Packet, Msg, Status

\* server_sendtestmsg builds a packet.
LEMMA NewTaskType ==
  ASSUME TypeOK, NEW m \in Machine PROVE NewTask(m) \in Packet
  BY MachineFacts DEF TypeOK, NewTask, encappkt, Packet, Msg, Status

\* The fields of a packet's message.
LEMMA PacketFields ==
  ASSUME NEW p \in Packet
  PROVE  p.bin \in Msg /\ p.bin.seq \in Seqno /\ p.bin.status \in Status
  BY DEF Packet, Msg

\* client_sendtestmsg_wt_buffer builds a packet.
LEMMA DonePacketType ==
  ASSUME NEW m \in Machine, NEW p \in Packet PROVE DonePacket(m, p) \in Packet
  BY MachineFacts, PacketFields DEF DonePacket, encappkt, Packet, Msg

\* A worker's change of status yields a finished packet.
LEMMA FinishTaskType ==
  ASSUME NEW p \in Packet
  PROVE  FinishTask(p) \in Packet /\ FinishTask(p).bin.status = "DONE"
  BY DEF FinishTask, Packet, Msg, Status

\* outmsg and inmsg wrap inside the range of the C int.
LEMMA SeqAfterType == ASSUME NEW s \in Seqno PROVE SeqAfter(s) \in Seqno
  BY ConstAssumption DEF SeqAfter, Seqno

-----------------------------------------------------------------------------
\* The type invariant holds of every behaviour: in particular outmsg and inmsg
\* stay in the range of the C int, and the send loops stay inside the arrays.
THEOREM TypeCorrect == Spec => []TypeOK
<1>1. Init => TypeOK
  BY NothingQueued, MachineFacts DEF Init, TypeOK
<1>2. TypeOK /\ [Next]_vars => TypeOK'
  <2> SUFFICES ASSUME TypeOK, [Next]_vars PROVE TypeOK'
    OBVIOUS
  <2>1. ASSUME NEW m \in Machine, waitforall(m) PROVE TypeOK'
    <3>1. Tail(toServer[m]) \in Seq(Packet)
      BY <2>1, PopFacts DEF TypeOK, waitforall
    <3> QED BY <2>1, <3>1 DEF TypeOK, waitforall
  <2>2. ASSUME NEW m \in Machine, ServerReceive(m) PROVE TypeOK'
    <3>1. Tail(toServer[m]) \in Seq(Packet)
      BY <2>2, PopFacts DEF TypeOK, ServerReceive, server_async_receivemsg
    <3> QED BY <2>2, <3>1, SeqAfterType DEF TypeOK, ServerReceive, server_async_receivemsg
  <2>3. CASE server_sendtestmsg
    <3>1. AdvanceSendLoop => /\ sj' \in 0 .. ThrdPM - 1
                             /\ si' \in Machine
                             /\ spc' \in {"send", "recv"}
      BY ConstAssumption DEF TypeOK, AdvanceSendLoop, Machine
    <3>2. Append(toClient[si], NewTask(si)) \in Seq(Packet)
      BY NewTaskType, PushFacts DEF TypeOK
    <3>3. toClient' \in [Machine -> Seq(Packet)]
      BY <2>3, <3>2 DEF TypeOK, server_sendtestmsg
    <3>4. lost' \in SUBSET Seqno
      BY <2>3 DEF TypeOK, server_sendtestmsg
    <3> QED
      BY <2>3, <3>1, <3>3, <3>4, SeqAfterType DEF TypeOK, server_sendtestmsg
  <2>4. CASE RoundEnd
    BY <2>4 DEF TypeOK, RoundEnd, netVars
  <2>5. ASSUME NEW m \in Machine, sendheartbeat(m) PROVE TypeOK'
    <3>1. Append(toServer[m], Heartbeat(m)) \in Seq(Packet)
      BY HeartbeatType, PushFacts DEF TypeOK
    <3> QED BY <2>5, <3>1 DEF TypeOK, sendheartbeat, serverVars
  <2>6. ASSUME NEW m \in Machine, ClientPass(m) PROVE TypeOK'
    BY <2>6 DEF TypeOK, ClientPass, serverVars, netVars
  <2>7. ASSUME NEW m \in Machine, ClientReceive(m) PROVE TypeOK'
    <3>1. Head(toClient[m]) \in Packet /\ Tail(toClient[m]) \in Seq(Packet)
      BY <2>7, PopFacts DEF TypeOK, ClientReceive, client_async_receivemsg, client_put_task
    <3>2. Append(s2w[m], Head(toClient[m])) \in Seq(Packet)
      BY <3>1, PushFacts DEF TypeOK
    <3> QED BY <2>7, <3>1, <3>2 DEF TypeOK, ClientReceive, client_async_receivemsg, client_put_task, serverVars
  <2>8. ASSUME NEW m \in Machine, ClientSendDone(m) PROVE TypeOK'
    <3>1. Head(w2s[m]) \in Packet /\ Tail(w2s[m]) \in Seq(Packet)
      BY <2>8, PopFacts DEF TypeOK, ClientSendDone, client_putback_task, client_sendtestmsg_wt_buffer
    <3>2. Append(toServer[m], DonePacket(m, Head(w2s[m]))) \in Seq(Packet)
      BY <3>1, DonePacketType, PushFacts DEF TypeOK
    <3>3. Head(w2s[m]).bin.seq \in Seqno
      BY <3>1, PacketFields
    <3>4. toServer' \in [Machine -> Seq(Packet)] /\ lost' \in SUBSET Seqno
      BY <2>8, <3>2, <3>3 DEF TypeOK, ClientSendDone, client_putback_task, client_sendtestmsg_wt_buffer
    <3> QED BY <2>8, <3>1, <3>4 DEF TypeOK, ClientSendDone, client_putback_task, client_sendtestmsg_wt_buffer, serverVars
  <2>9. ASSUME NEW m \in Machine, NEW w \in Worker, WorkerArrive(m, w) PROVE TypeOK'
    BY <2>9 DEF TypeOK, WorkerArrive, serverVars, netVars
  <2>10. ASSUME NEW m \in Machine, NEW w \in Worker, WorkerPass(m, w) PROVE TypeOK'
    BY <2>10 DEF TypeOK, WorkerPass, serverVars, netVars
  <2>11. ASSUME NEW m \in Machine, NEW w \in Worker, worker_get_task(m, w) PROVE TypeOK'
    <3>1. Head(s2w[m]) \in Packet /\ PopTask(s2w[m]) \in Seq(Packet)
      BY <2>11, PopFacts DEF TypeOK, worker_get_task, PopTask
    <3>2. <<Head(s2w[m])>> \in Seq(Packet)
      BY <3>1
    <3>3. task' \in [Machine -> [Worker -> Seq(Packet)]]
      BY <2>11, <3>2 DEF TypeOK, worker_get_task
    <3>4. s2w' \in [Machine -> Seq(Packet)]
      BY <2>11, <3>1 DEF TypeOK, worker_get_task
    <3> QED
      BY <2>11, <3>3, <3>4 DEF TypeOK, worker_get_task, serverVars, netVars
  <2>12. ASSUME NEW m \in Machine, NEW w \in Worker, worker_putback_task(m, w) PROVE TypeOK'
    <3>1. Head(task[m][w]) \in Packet
      BY <2>12, PopFacts DEF TypeOK, worker_putback_task
    <3>2. Append(w2s[m], FinishTask(Head(task[m][w]))) \in Seq(Packet)
      BY <3>1, FinishTaskType, PushFacts DEF TypeOK
    <3>3. w2s' \in [Machine -> Seq(Packet)]
      BY <2>12, <3>2 DEF TypeOK, worker_putback_task
    <3>4. task' \in [Machine -> [Worker -> Seq(Packet)]]
      BY <2>12, NothingQueued DEF TypeOK, worker_putback_task
    <3> QED
      BY <2>12, <3>3, <3>4 DEF TypeOK, worker_putback_task, serverVars, netVars
  <2>13. CASE UNCHANGED vars
    BY <2>13 DEF TypeOK, vars
  <2> QED
    BY <2>1, <2>2, <2>3, <2>4, <2>5, <2>6, <2>7, <2>8, <2>9, <2>10, <2>11, <2>12, <2>13
       DEF Next, ServerNext, ClientNext, WorkerNext
<1> QED
  BY <1>1, <1>2, PTL DEF Spec

-----------------------------------------------------------------------------
\* The assertions on msg_checkcrc never fail, on any number of machines, and
\* every packet reaches the rank it is addressed to.
THEOREM PacketsStayIntact == Spec => []PacketsIntact
<1>1. Init => PacketsIntact
  BY NothingQueued DEF Init, PacketsIntact
<1>2. TypeOK /\ PacketsIntact /\ [Next]_vars => PacketsIntact'
  <2> SUFFICES ASSUME TypeOK, PacketsIntact, [Next]_vars PROVE PacketsIntact'
    OBVIOUS
  <2> DEFINE ForClient(m, p) == msg_checkcrc(p) /\ p.bin.src = Server /\ p.bin.dst = m
             ForServer(m, p) == msg_checkcrc(p) /\ p.bin.src = m /\ p.bin.dst = Server
  <2>1. ASSUME NEW m \in Machine,
               toServer[m] # <<>>,
               toServer' = [toServer EXCEPT ![m] = Tail(@)],
               UNCHANGED toClient
        PROVE  PacketsIntact'
    <3>1. Range(Tail(toServer[m])) \subseteq Range(toServer[m])
      BY <2>1, PopFacts DEF TypeOK
    <3> QED BY <2>1, <3>1 DEF PacketsIntact, TypeOK
  <2>2. ASSUME NEW m \in Machine, waitforall(m) PROVE PacketsIntact'
    BY <2>1, <2>2 DEF waitforall
  <2>3. ASSUME NEW m \in Machine, ServerReceive(m) PROVE PacketsIntact'
    BY <2>1, <2>3 DEF ServerReceive, server_async_receivemsg
  <2>4. CASE server_sendtestmsg
    <3>1. ForClient(si, NewTask(si))
      BY DEF NewTask, encappkt, msg_checkcrc
    <3>2. Range(Append(toClient[si], NewTask(si))) = Range(toClient[si]) \union {NewTask(si)}
      BY NewTaskType, PushFacts DEF TypeOK
    <3>3. UNCHANGED toServer
      BY <2>4 DEF server_sendtestmsg
    <3>4. CASE UNCHANGED toClient
      BY <3>3, <3>4 DEF PacketsIntact
    <3>5. CASE toClient' = [toClient EXCEPT ![si] = Append(@, NewTask(si))]
      BY <3>1, <3>2, <3>3, <3>5 DEF PacketsIntact, TypeOK
    <3> QED BY <2>4, <3>4, <3>5 DEF server_sendtestmsg
  <2>5. CASE RoundEnd
    BY <2>5 DEF PacketsIntact, RoundEnd, netVars
  <2>6. ASSUME NEW m \in Machine, sendheartbeat(m) PROVE PacketsIntact'
    <3>1. ForServer(m, Heartbeat(m))
      BY DEF Heartbeat, encappkt, msg_checkcrc
    <3>2. Range(Append(toServer[m], Heartbeat(m))) = Range(toServer[m]) \union {Heartbeat(m)}
      BY HeartbeatType, PushFacts DEF TypeOK
    <3> QED BY <2>6, <3>1, <3>2 DEF PacketsIntact, TypeOK, sendheartbeat
  <2>7. ASSUME NEW m \in Machine, ClientPass(m) PROVE PacketsIntact'
    BY <2>7 DEF PacketsIntact, ClientPass, netVars
  <2>8. ASSUME NEW m \in Machine, ClientReceive(m) PROVE PacketsIntact'
    <3>1. Range(Tail(toClient[m])) \subseteq Range(toClient[m])
      BY <2>8, PopFacts DEF TypeOK, ClientReceive, client_async_receivemsg, client_put_task
    <3> QED BY <2>8, <3>1 DEF PacketsIntact, TypeOK, ClientReceive, client_async_receivemsg, client_put_task
  <2>9. ASSUME NEW m \in Machine, ClientSendDone(m) PROVE PacketsIntact'
    <3> DEFINE done == DonePacket(m, Head(w2s[m]))
    <3>1. Head(w2s[m]) \in Packet
      BY <2>9, PopFacts DEF TypeOK, ClientSendDone, client_putback_task, client_sendtestmsg_wt_buffer
    <3>2. ForServer(m, done)
      BY DEF DonePacket, encappkt, msg_checkcrc
    <3>3. Range(Append(toServer[m], done)) = Range(toServer[m]) \union {done}
      BY <3>1, DonePacketType, PushFacts DEF TypeOK
    <3>4. UNCHANGED toClient
      BY <2>9 DEF ClientSendDone, client_putback_task, client_sendtestmsg_wt_buffer
    <3>5. CASE UNCHANGED toServer
      BY <3>4, <3>5 DEF PacketsIntact
    <3>6. CASE toServer' = [toServer EXCEPT ![m] = Append(@, done)]
      BY <3>2, <3>3, <3>4, <3>6 DEF PacketsIntact, TypeOK
    <3> QED BY <2>9, <3>5, <3>6 DEF ClientSendDone, client_putback_task, client_sendtestmsg_wt_buffer
  <2>10. ASSUME NEW m \in Machine, NEW w \in Worker, WorkerNext(m, w) PROVE PacketsIntact'
    BY <2>10 DEF PacketsIntact, WorkerNext, WorkerArrive, WorkerPass,
                 worker_get_task, worker_putback_task, netVars
  <2>11. CASE UNCHANGED vars
    BY <2>11 DEF PacketsIntact, vars
  <2> QED
    BY <2>2, <2>3, <2>4, <2>5, <2>6, <2>7, <2>8, <2>9, <2>10, <2>11
       DEF Next, ServerNext, ClientNext
<1> QED
  BY <1>1, <1>2, TypeCorrect, PTL DEF Spec

-----------------------------------------------------------------------------
(* Why no heartbeat is taken for an acknowledgement: waitforall does not     *)
(* check whose heartbeats it counts, so it must be shown that Machines       *)
(* packets from any source are one heartbeat of each client.                 *)

\* Clients whose heartbeat has been received.
Registered == {m \in Machine : cpc[m] # "boot" /\ toServer[m] = <<>>}

\* Before the first task, the only packets are unreceived heartbeats.
BootPhase ==
  /\ \A m \in Machine : toClient[m] = <<>> /\ s2w[m] = <<>> /\ w2s[m] = <<>>
  /\ \A m \in Machine : \A w \in Worker : task[m][w] = <<>>
  /\ \A m \in Machine : cpc[m] = "boot" => toServer[m] = <<>>
  /\ \A m \in Machine : toServer[m] # <<>> => toServer[m] = <<Heartbeat(m)>>
  /\ livecnt = Cardinality(Registered)

\* The inductive strengthening of OnlyAcksComeIn.
AckInv ==
  /\ spc = "waitforall" => BootPhase
  /\ spc # "waitforall" => \A m \in Machine : cpc[m] # "boot"
  /\ \A m \in Machine : \A p \in Range(w2s[m]) : p.bin.status = "DONE"
  /\ OnlyAcksComeIn

\* There are Machines client ranks.
LEMMA MachineFinite == IsFiniteSet(Machine) /\ Cardinality(Machine) = Machines
  BY ConstAssumption, FS_Interval DEF Machine

\* In the boot phase waitforall receives one more client's heartbeat.
LEMMA CountHeartbeat ==
  ASSUME TypeOK, BootPhase, NEW m \in Machine, waitforall(m)
  PROVE  /\ Registered' = Registered \union {m}
         /\ toServer'[m] = <<>>
         /\ cpc'[m] # "boot"
         /\ livecnt' = Cardinality(Registered')
<1>1. toServer[m] = <<Heartbeat(m)>> /\ cpc[m] # "boot"
  BY DEF BootPhase, waitforall
<1>2. toServer'[m] = <<>>
  BY <1>1 DEF waitforall, TypeOK
<1>3. \A n \in Machine : n # m => toServer'[n] = toServer[n]
  BY DEF waitforall, TypeOK
<1>4. UNCHANGED cpc /\ livecnt' = livecnt + 1
  BY DEF waitforall
<1>5. Registered' = Registered \union {m}
  BY <1>1, <1>2, <1>3, <1>4 DEF Registered
<1>6. m \notin Registered
  BY DEF Registered, waitforall
<1>7. IsFiniteSet(Registered)
  BY MachineFinite, FS_Subset DEF Registered
<1>8. Cardinality(Registered') = Cardinality(Registered) + 1
  BY <1>5, <1>6, <1>7, FS_AddElement
<1> QED
  BY <1>1, <1>2, <1>4, <1>5, <1>8 DEF BootPhase

\* When waitforall returns, the heartbeat of every client has been received.
LEMMA LastHeartbeat ==
  ASSUME TypeOK, BootPhase, NEW m \in Machine, waitforall(m), spc' # "waitforall"
  PROVE  \A n \in Machine : cpc'[n] # "boot" /\ toServer'[n] = <<>>
<1>1. livecnt' = livecnt + 1 /\ ~(livecnt + 1 < Machines)
  BY DEF waitforall, MoreHeartbeats
<1>2. Registered' \subseteq Machine
  BY DEF Registered
<1>3. livecnt' = Cardinality(Registered')
  BY CountHeartbeat
<1>4. Cardinality(Registered') <= Machines
  BY <1>2, MachineFinite, FS_Subset
<1>5. Cardinality(Registered') = Machines
  BY <1>1, <1>3, <1>4, ConstAssumption DEF TypeOK
<1>6. Registered' = Machine
  BY <1>2, <1>5, MachineFinite, FS_Subset
<1> QED BY <1>6 DEF Registered

\* AckInv is an invariant.
LEMMA AckCorrect == Spec => []AckInv
<1>1. Init => AckInv
  <2> SUFFICES ASSUME Init PROVE AckInv
    OBVIOUS
  <2>1. Registered = {}
    BY DEF Init, Registered
  <2>2. BootPhase
    BY <2>1, FS_EmptySet DEF Init, BootPhase
  <2> QED BY <2>2, NothingQueued DEF Init, AckInv, OnlyAcksComeIn
<1>2. TypeOK /\ AckInv /\ [Next]_vars => AckInv'
  <2> SUFFICES ASSUME TypeOK, AckInv, [Next]_vars PROVE AckInv'
    OBVIOUS
  <2>1. ASSUME NEW m \in Machine, waitforall(m) PROVE AckInv'
    <3>1. BootPhase /\ spc = "waitforall"
      BY <2>1 DEF AckInv, waitforall
    <3>2. /\ Registered' = Registered \union {m}
          /\ toServer'[m] = <<>>
          /\ cpc'[m] # "boot"
          /\ livecnt' = Cardinality(Registered')
      BY <2>1, <3>1, CountHeartbeat
    <3>3. \A n \in Machine : n # m => toServer'[n] = toServer[n]
      BY <2>1 DEF waitforall, TypeOK
    <3>4. UNCHANGED <<toClient, s2w, w2s, task, cpc>>
      BY <2>1 DEF waitforall
    <3>5. CASE spc' = "waitforall"
      <4>1. BootPhase'
        BY <3>1, <3>2, <3>3, <3>4 DEF BootPhase, Heartbeat, Server
      <4> QED BY <3>4, <3>5, <4>1 DEF AckInv, OnlyAcksComeIn
    <3>6. CASE spc' # "waitforall"
      <4>1. \A n \in Machine : cpc'[n] # "boot" /\ toServer'[n] = <<>>
        BY <2>1, <3>1, <3>6, LastHeartbeat
      <4> QED BY <3>4, <3>6, <4>1, NothingQueued DEF AckInv, OnlyAcksComeIn
    <3> QED BY <3>5, <3>6
  <2>2. ASSUME NEW m \in Machine, ServerReceive(m) PROVE AckInv'
    <3>1. Range(Tail(toServer[m])) \subseteq Range(toServer[m])
      BY <2>2, PopFacts DEF TypeOK, ServerReceive, server_async_receivemsg
    <3> QED BY <2>2, <3>1 DEF AckInv, OnlyAcksComeIn, ServerReceive, server_async_receivemsg, TypeOK
  <2>3. CASE server_sendtestmsg
    <3>1. spc # "waitforall" /\ spc' # "waitforall"
      BY <2>3 DEF server_sendtestmsg, AdvanceSendLoop
    <3> QED BY <2>3, <3>1 DEF AckInv, OnlyAcksComeIn, server_sendtestmsg
  <2>4. CASE RoundEnd
    BY <2>4 DEF AckInv, OnlyAcksComeIn, RoundEnd, netVars
  <2>5. ASSUME NEW m \in Machine, sendheartbeat(m) PROVE AckInv'
    <3>1. spc = "waitforall" /\ BootPhase /\ cpc[m] = "boot" /\ toServer[m] = <<>>
      BY <2>5 DEF AckInv, BootPhase, sendheartbeat
    <3>2. toServer'[m] = <<Heartbeat(m)>> /\ cpc'[m] = "barrier"
      BY <2>5, <3>1 DEF sendheartbeat, TypeOK
    <3>3. \A n \in Machine : n # m => toServer'[n] = toServer[n] /\ cpc'[n] = cpc[n]
      BY <2>5 DEF sendheartbeat, TypeOK
    <3>4. UNCHANGED <<spc, livecnt, toClient, s2w, w2s, task>>
      BY <2>5 DEF sendheartbeat, serverVars
    <3>5. Registered' = Registered
      BY <3>1, <3>2, <3>3 DEF Registered
    <3>6. BootPhase'
      BY <3>1, <3>2, <3>3, <3>4, <3>5 DEF BootPhase, Heartbeat, Server
    <3> QED BY <3>1, <3>4, <3>6 DEF AckInv, OnlyAcksComeIn
  <2>6. ASSUME NEW m \in Machine, ClientPass(m) PROVE AckInv'
    <3>1. \A n \in Machine : (cpc'[n] = "boot") = (cpc[n] = "boot")
      BY <2>6 DEF ClientPass, TypeOK
    <3>2. UNCHANGED <<spc, livecnt, toServer, toClient, s2w, w2s, task>>
      BY <2>6 DEF ClientPass, serverVars, netVars
    <3>3. Registered' = Registered
      BY <3>1, <3>2 DEF Registered
    <3>4. BootPhase => BootPhase'
      BY <3>1, <3>2, <3>3 DEF BootPhase, Heartbeat, Server
    <3> QED BY <3>1, <3>2, <3>4 DEF AckInv, OnlyAcksComeIn
  <2>7. ASSUME NEW m \in Machine, ClientReceive(m) PROVE AckInv'
    <3>1. spc # "waitforall"
      BY <2>7 DEF AckInv, BootPhase, ClientReceive, client_async_receivemsg, client_put_task
    <3> QED BY <2>7, <3>1 DEF AckInv, OnlyAcksComeIn, ClientReceive, client_async_receivemsg, client_put_task, serverVars
  <2>8. ASSUME NEW m \in Machine, ClientSendDone(m) PROVE AckInv'
    <3> DEFINE done == DonePacket(m, Head(w2s[m]))
    <3>1. spc # "waitforall" /\ UNCHANGED <<spc, cpc>>
      BY <2>8 DEF AckInv, BootPhase, ClientSendDone, client_putback_task, client_sendtestmsg_wt_buffer, serverVars
    <3>2. Head(w2s[m]) \in Packet /\ Head(w2s[m]) \in Range(w2s[m])
          /\ Range(Tail(w2s[m])) \subseteq Range(w2s[m])
      BY <2>8, PopFacts DEF TypeOK, ClientSendDone, client_putback_task, client_sendtestmsg_wt_buffer
    <3>3. done.bin.status = "DONE"
      BY <3>2 DEF AckInv, DonePacket, encappkt
    <3>4. Range(Append(toServer[m], done)) = Range(toServer[m]) \union {done}
      BY <3>2, DonePacketType, PushFacts DEF TypeOK
    <3>5. \A n \in Machine : \A p \in Range(w2s'[n]) : p.bin.status = "DONE"
      BY <2>8, <3>2 DEF AckInv, ClientSendDone, client_putback_task, client_sendtestmsg_wt_buffer, TypeOK
    <3>6. OnlyAcksComeIn'
      BY <2>8, <3>1, <3>3, <3>4 DEF AckInv, OnlyAcksComeIn, ClientSendDone, client_putback_task, client_sendtestmsg_wt_buffer, TypeOK
    <3> QED BY <3>1, <3>5, <3>6 DEF AckInv
  <2>9. ASSUME NEW m \in Machine, NEW w \in Worker, WorkerArrive(m, w) \/ WorkerPass(m, w)
        PROVE  AckInv'
    <3>1. UNCHANGED <<spc, livecnt, toServer, toClient, cpc, s2w, w2s, task>>
      BY <2>9 DEF WorkerArrive, WorkerPass, serverVars, netVars
    <3> QED BY <3>1 DEF AckInv, OnlyAcksComeIn, BootPhase, Registered, Heartbeat, Server
  <2>10. ASSUME NEW m \in Machine, NEW w \in Worker, worker_get_task(m, w) PROVE AckInv'
    <3>1. spc # "waitforall"
      BY <2>10 DEF AckInv, BootPhase, worker_get_task
    <3> QED BY <2>10, <3>1 DEF AckInv, OnlyAcksComeIn, worker_get_task, serverVars, netVars
  <2>11. ASSUME NEW m \in Machine, NEW w \in Worker, worker_putback_task(m, w) PROVE AckInv'
    <3> DEFINE done == FinishTask(Head(task[m][w]))
    <3>1. spc # "waitforall" /\ UNCHANGED <<spc, cpc, toServer>>
      BY <2>11 DEF AckInv, BootPhase, worker_putback_task, serverVars, netVars
    <3>2. done \in Packet /\ done.bin.status = "DONE"
      BY <2>11, PopFacts, FinishTaskType DEF TypeOK, worker_putback_task
    <3>3. Range(Append(w2s[m], done)) = Range(w2s[m]) \union {done}
      BY <3>2, PushFacts DEF TypeOK
    <3>4. \A n \in Machine : \A p \in Range(w2s'[n]) : p.bin.status = "DONE"
      BY <2>11, <3>2, <3>3 DEF AckInv, worker_putback_task, TypeOK
    <3> QED BY <3>1, <3>4 DEF AckInv, OnlyAcksComeIn
  <2>12. CASE UNCHANGED vars
    BY <2>12 DEF AckInv, OnlyAcksComeIn, BootPhase, Registered, Heartbeat, Server, vars
  <2> QED
    BY <2>1, <2>2, <2>3, <2>4, <2>5, <2>6, <2>7, <2>8, <2>9, <2>10, <2>11, <2>12
       DEF Next, ServerNext, ClientNext, WorkerNext
<1> QED BY <1>1, <1>2, TypeCorrect, PTL DEF Spec

\* Whatever the speed of the clients, the receive loop of the server counts
\* only finished tasks: waitforall consumed the heartbeat of every client.
THEOREM AcksAreFinishedTasks == Spec => []OnlyAcksComeIn
<1>1. AckInv => OnlyAcksComeIn
  BY DEF AckInv
<1> QED BY <1>1, AckCorrect, PTL

-----------------------------------------------------------------------------
(* Sequence numbers: C ints that wrap. *)

\* Remainders of numbers below twice the modulus.
LEMMA ModFacts ==
  ASSUME NEW n \in Nat, n > 0, NEW a \in 0 .. n - 1
  PROVE  a % n = a /\ (a + n) % n = a
<1>1. a % n = a
  OBVIOUS
<1>2. (a + n) % n = a
  OBVIOUS
<1> QED BY <1>1, <1>2

\* The number sent k messages before the counter reached o.
Back(o, k) == (o + IntMod - k) % IntMod

\* The counter after one more message: it wraps to zero.
LEMMA SeqAfterValue ==
  ASSUME NEW s \in Seqno
  PROVE  SeqAfter(s) = IF s + 1 = IntMod THEN 0 ELSE s + 1
<1>1. IntMod \in Nat /\ IntMod > 0 /\ s \in Nat /\ s < IntMod
  BY ConstAssumption DEF Seqno
<1>2. CASE s + 1 = IntMod
  <2>1. (0 + IntMod) % IntMod = 0
    BY <1>1, ModFacts
  <2> QED BY <1>1, <1>2, <2>1 DEF SeqAfter
<1>3. CASE s + 1 # IntMod
  <2>1. (s + 1) % IntMod = s + 1
    BY <1>1, <1>3, ModFacts
  <2> QED BY <1>3, <2>1 DEF SeqAfter
<1> QED BY <1>2, <1>3

\* Counting back at most a round wraps at most once.
LEMMA BackValue ==
  ASSUME NEW o \in Seqno, NEW k \in 0 .. Total
  PROVE  /\ Back(o, k) = IF k <= o THEN o - k ELSE o + IntMod - k
         /\ Back(o, k) \in Seqno
<1>0. Total \in Nat /\ Total < IntMod
  BY ConstAssumption DEF Total
<1>1. IntMod \in Nat /\ IntMod > 0 /\ o \in Nat /\ o < IntMod /\ k \in Nat /\ k < IntMod
  BY <1>0, ConstAssumption DEF Seqno
<1>2. CASE k <= o
  <2>1. ((o - k) + IntMod) % IntMod = o - k
    BY <1>1, <1>2, ModFacts
  <2>2. (o - k) + IntMod = o + IntMod - k
    BY <1>1
  <2> QED BY <1>1, <1>2, <2>1, <2>2 DEF Back, Seqno
<1>3. CASE ~(k <= o)
  <2>1. (o + IntMod - k) % IntMod = o + IntMod - k
    BY <1>1, <1>3, ModFacts
  <2> QED BY <1>1, <1>3, <2>1 DEF Back, Seqno
<1> QED BY <1>2, <1>3

\* Sending makes every number one older; receiving makes the gap one smaller.
LEMMA BackSteps ==
  ASSUME NEW o \in Seqno, NEW k \in 0 .. Total
  PROVE  /\ Back(o, 0) = o
         /\ k + 1 <= Total => Back(SeqAfter(o), k + 1) = Back(o, k)
         /\ k > 0 => SeqAfter(Back(o, k)) = Back(o, k - 1)
<1>1. Total \in Nat /\ Total < IntMod /\ IntMod \in Nat /\ o \in Nat /\ o < IntMod
  BY ConstAssumption DEF Total, Seqno
<1>2. Back(o, 0) = o
  BY <1>1, BackValue
<1>3. k + 1 <= Total => Back(SeqAfter(o), k + 1) = Back(o, k)
  <2> SUFFICES ASSUME k + 1 <= Total PROVE Back(SeqAfter(o), k + 1) = Back(o, k)
    OBVIOUS
  <2>1. SeqAfter(o) \in Seqno /\ k + 1 \in 0 .. Total
    BY <1>1, SeqAfterType
  <2>2. Back(o, k) = IF k <= o THEN o - k ELSE o + IntMod - k
    BY BackValue
  <2>3. Back(SeqAfter(o), k + 1) = IF k + 1 <= SeqAfter(o) THEN SeqAfter(o) - (k + 1)
                                   ELSE SeqAfter(o) + IntMod - (k + 1)
    BY <2>1, BackValue
  <2>4. SeqAfter(o) = IF o + 1 = IntMod THEN 0 ELSE o + 1
    BY SeqAfterValue
  <2> QED BY <1>1, <2>2, <2>3, <2>4
<1>4. k > 0 => SeqAfter(Back(o, k)) = Back(o, k - 1)
  <2> SUFFICES ASSUME k > 0 PROVE SeqAfter(Back(o, k)) = Back(o, k - 1)
    OBVIOUS
  <2>1. k - 1 \in 0 .. Total
    BY <1>1
  <2>2. /\ Back(o, k) \in Seqno
        /\ Back(o, k) = IF k <= o THEN o - k ELSE o + IntMod - k
    BY BackValue
  <2>3. Back(o, k - 1) = IF k - 1 <= o THEN o - (k - 1) ELSE o + IntMod - (k - 1)
    BY <2>1, BackValue
  <2>4. SeqAfter(Back(o, k)) = IF Back(o, k) + 1 = IntMod THEN 0 ELSE Back(o, k) + 1
    BY <2>2, SeqAfterValue
  <2> QED BY <1>1, <2>2, <2>3, <2>4
<1> QED BY <1>2, <1>3, <1>4

\* Two numbers sent less than a round apart differ.
LEMMA BackInjective ==
  ASSUME NEW o \in Seqno, NEW j \in 0 .. Total, NEW k \in 0 .. Total, j # k
  PROVE  Back(o, j) # Back(o, k)
<1>1. Total \in Nat /\ Total < IntMod /\ IntMod \in Nat /\ o \in Nat /\ o < IntMod
  BY ConstAssumption DEF Total, Seqno
<1>2. /\ Back(o, j) = IF j <= o THEN o - j ELSE o + IntMod - j
      /\ Back(o, k) = IF k <= o THEN o - k ELSE o + IntMod - k
  BY BackValue
<1> QED BY <1>1, <1>2

-----------------------------------------------------------------------------
(* The loops of sched_server. *)

\* In the send loop fewer than Total tasks are out, and each turn adds one.
LEMMA IssuedFacts ==
  ASSUME TypeOK
  PROVE  /\ Issued \in 0 .. Total
         /\ spc = "send" => Issued = si * ThrdPM + sj /\ Issued < Total
         /\ spc = "recv" => Issued = Total
         /\ spc = "waitforall" => Issued = 0
<1>1. /\ Machines \in Nat /\ ThrdPM \in Nat /\ si \in Nat /\ sj \in Nat
      /\ si <= Machines - 1 /\ sj < ThrdPM
  BY ConstAssumption DEF TypeOK, Machine
<1>2. si * ThrdPM <= (Machines - 1) * ThrdPM
  BY <1>1
<1>3. (Machines - 1) * ThrdPM + ThrdPM = Total
  BY <1>1 DEF Total
<1>4. si * ThrdPM \in Nat /\ Total \in Nat
  BY <1>1 DEF Total
<1>5. si * ThrdPM + sj \in 0 .. Total /\ si * ThrdPM + sj < Total
  BY <1>1, <1>2, <1>3, <1>4
<1> QED BY <1>4, <1>5 DEF TypeOK, Issued

\* One turn of the nested send loops adds one task; the last turn ends them.
LEMMA SendLoopStep ==
  ASSUME TypeOK, spc = "send", AdvanceSendLoop
  PROVE  /\ Issued' = Issued + 1
         /\ spc' = IF Issued + 1 = Total THEN "recv" ELSE "send"
         /\ spc' = "recv" => si' = 0 /\ sj' = 0
<1>1. /\ Machines \in Nat /\ ThrdPM \in Nat /\ si \in Nat /\ sj \in Nat
      /\ si + 1 <= Machines /\ sj + 1 <= ThrdPM /\ ThrdPM > 0
  BY ConstAssumption DEF TypeOK, Machine
<1>2. Issued = si * ThrdPM + sj
  BY IssuedFacts
<1>3. (si + 1) * ThrdPM = si * ThrdPM + ThrdPM /\ si * ThrdPM \in Nat /\ Total \in Nat
  BY <1>1 DEF Total
<1>4. (si + 1) * ThrdPM <= Total
  BY <1>1 DEF Total
<1>5. CASE sj + 1 < ThrdPM
  <2>1. (sj + 1) % ThrdPM = sj + 1
    BY <1>1, <1>5, ModFacts
  <2>2. sj' = sj + 1 /\ si' = si /\ spc' = "send"
    BY <1>1, <1>5, <2>1 DEF AdvanceSendLoop
  <2>3. Issued' = si * ThrdPM + (sj + 1)
    BY <2>2 DEF Issued
  <2>4. Issued + 1 < Total
    BY <1>1, <1>2, <1>3, <1>4, <1>5
  <2> QED BY <1>1, <1>2, <1>3, <2>2, <2>3, <2>4
<1>6. CASE sj + 1 = ThrdPM
  <2>1. (0 + ThrdPM) % ThrdPM = 0
    BY <1>1, ModFacts
  <2>2. sj' = 0
    BY <1>1, <1>6, <2>1 DEF AdvanceSendLoop
  <2>3. Issued + 1 = (si + 1) * ThrdPM
    BY <1>1, <1>2, <1>3, <1>6
  <2>4. CASE si + 1 = Machines
    <3>1. Issued + 1 = Total
      BY <2>3, <2>4 DEF Total
    <3>2. spc' = "recv" /\ si' = 0
      BY <1>1, <1>6, <2>4 DEF AdvanceSendLoop
    <3> QED BY <2>2, <3>1, <3>2 DEF Issued
  <2>5. CASE si + 1 # Machines
    <3>1. spc' = "send" /\ si' = si + 1
      BY <1>1, <1>6, <2>5 DEF AdvanceSendLoop
    <3>2. (si + 1) * ThrdPM < Total
      <4>1. si + 2 <= Machines
        BY <1>1, <2>5
      <4>2. (si + 2) * ThrdPM <= Total
        BY <1>1, <4>1 DEF Total
      <4>3. (si + 2) * ThrdPM = (si + 1) * ThrdPM + ThrdPM
        BY <1>1
      <4> QED BY <1>1, <1>3, <4>2, <4>3
    <3>3. Issued' = (si + 1) * ThrdPM
      BY <1>1, <1>3, <2>2, <3>1 DEF Issued
    <3> QED BY <1>3, <2>3, <3>1, <3>2, <3>3
  <2> QED BY <2>4, <2>5
<1> QED BY <1>1, <1>5, <1>6

\* The counters of the server: what is sent and not yet acknowledged is what
\* inmsg is behind outmsg, and the loop indices start at zero in every round.
LoopInv ==
  /\ spc # "send" => si = 0 /\ sj = 0
  /\ spc # "recv" => acks = 0
  /\ acks <= Issued
  /\ inmsg = Back(outmsg, Issued - acks)

\* Every step preserves LoopInv.
LEMMA LoopStep == TypeOK /\ LoopInv /\ [Next]_vars => LoopInv'
<1> SUFFICES ASSUME TypeOK, LoopInv, [Next]_vars PROVE LoopInv'
  OBVIOUS
<1>0. Total \in Nat \ {0} /\ acks \in Nat /\ Issued \in 0 .. Total
  BY IssuedFacts, ConstAssumption DEF TypeOK, Total
<1>1. ASSUME NEW m \in Machine, waitforall(m) PROVE LoopInv'
  <2>1. UNCHANGED <<si, sj, acks, outmsg, inmsg>> /\ si = 0 /\ sj = 0 /\ acks = 0
    BY <1>1 DEF waitforall, LoopInv
  <2>2. Issued = 0
    BY <1>1, IssuedFacts DEF waitforall
  <2>3. spc' \in {"waitforall", "send"}
    BY <1>1 DEF waitforall
  <2>4. Issued' = 0
    BY <2>1, <2>3, ConstAssumption DEF Issued
  <2> QED BY <2>1, <2>2, <2>3, <2>4 DEF LoopInv, Back
<1>2. ASSUME NEW m \in Machine, ServerReceive(m) PROVE LoopInv'
  <2>1. /\ spc = "recv" /\ acks < Total /\ acks' = acks + 1
        /\ inmsg' = SeqAfter(inmsg) /\ UNCHANGED <<spc, si, sj, outmsg>>
    BY <1>2 DEF ServerReceive, MoreAcks
  <2>2. Issued = Total /\ Issued' = Total
    BY <2>1 DEF Issued
  <2>3. SeqAfter(Back(outmsg, Total - acks)) = Back(outmsg, Total - acks - 1)
    BY <1>0, <2>1, BackSteps DEF TypeOK
  <2>4. Total - acks' = Total - acks - 1
    BY <1>0, <2>1
  <2> QED BY <1>0, <2>1, <2>2, <2>3, <2>4 DEF LoopInv, Back
<1>3. CASE server_sendtestmsg
  <2>1. /\ spc = "send" /\ AdvanceSendLoop /\ outmsg' = SeqAfter(outmsg)
        /\ UNCHANGED <<acks, inmsg>> /\ acks = 0
    BY <1>3 DEF server_sendtestmsg, LoopInv
  <2>2. /\ Issued' = Issued + 1
        /\ spc' = IF Issued + 1 = Total THEN "recv" ELSE "send"
        /\ spc' = "recv" => si' = 0 /\ sj' = 0
    BY <2>1, SendLoopStep
  <2>3. Issued < Total
    BY <2>1, IssuedFacts
  <2>4. Back(SeqAfter(outmsg), Issued + 1) = Back(outmsg, Issued)
    BY <1>0, <2>3, BackSteps DEF TypeOK
  <2>5. Issued - acks = Issued /\ Issued' - acks' = Issued + 1
    BY <1>0, <2>1, <2>2
  <2>6. inmsg' = Back(outmsg', Issued' - acks')
    BY <2>1, <2>4, <2>5 DEF LoopInv, Back
  <2> QED BY <1>0, <2>1, <2>2, <2>6 DEF LoopInv
<1>4. CASE RoundEnd
  <2>1. /\ spc = "recv" /\ ~(acks < Total) /\ spc' = "send" /\ acks' = 0
        /\ UNCHANGED <<si, sj, outmsg, inmsg>> /\ si = 0 /\ sj = 0
    BY <1>4 DEF RoundEnd, MoreAcks, LoopInv
  <2>2. Issued = Total /\ Issued' = 0
    BY <2>1, ConstAssumption DEF Issued
  <2>3. acks = Total
    BY <1>0, <2>1, <2>2 DEF LoopInv
  <2> QED BY <1>0, <2>1, <2>2, <2>3 DEF LoopInv, Back
<1>5. CASE UNCHANGED serverVars
  BY <1>5 DEF serverVars, LoopInv, Issued, Back
<1>6. ASSUME NEW m \in Machine, ClientNext(m) PROVE UNCHANGED serverVars
  BY <1>6 DEF ClientNext, sendheartbeat, ClientPass, ClientReceive, ClientSendDone
<1>7. ASSUME NEW m \in Machine, NEW w \in Worker, WorkerNext(m, w) PROVE UNCHANGED serverVars
  BY <1>7 DEF WorkerNext, WorkerArrive, WorkerPass, worker_get_task, worker_putback_task
<1>8. CASE UNCHANGED vars
  BY <1>5, <1>8 DEF vars, serverVars
<1> QED
  BY <1>1, <1>2, <1>3, <1>4, <1>5, <1>6, <1>7, <1>8 DEF Next, ServerNext

\* LoopInv is an invariant.
LEMMA LoopCorrect == Spec => []LoopInv
<1>1. Init => LoopInv
  <2> SUFFICES ASSUME Init PROVE LoopInv
    OBVIOUS
  <2>1. Back(0, 0) = 0
    BY BackValue, MachineFacts, ConstAssumption DEF Total
  <2>2. Issued = 0
    BY DEF Init, Issued
  <2> QED BY <2>1, <2>2 DEF Init, LoopInv
<1> QED BY <1>1, LoopStep, TypeCorrect, PTL DEF Spec

\* assert(ctx->inmsg == ctx->outmsg) holds at the end of every round, for any
\* number of machines and threads, also when the counters wrap around.
THEOREM CountersAgree == Spec => []RoundEndAssert
<1>1. TypeOK /\ LoopInv => RoundEndAssert
  <2> SUFFICES ASSUME TypeOK, LoopInv, spc = "recv", ~MoreAcks(acks) PROVE inmsg = outmsg
    BY DEF RoundEndAssert
  <2>1. Issued = Total /\ Total \in Nat
    BY IssuedFacts, ConstAssumption DEF Total
  <2>2. Issued - acks = 0
    BY <2>1 DEF LoopInv, MoreAcks, TypeOK
  <2> QED BY <2>1, <2>2, BackSteps DEF LoopInv, TypeOK
<1> QED BY <1>1, LoopCorrect, TypeCorrect, PTL

-----------------------------------------------------------------------------
(* Where the packets are: all the channels, queues and hands as one function, *)
(* so that each action takes the head off one of them, appends to one of      *)
(* them, or both.                                                             *)

\* A place: the name of a queue, its machine, and the worker for task.
Place == ({"toClient", "s2w", "w2s", "toServer"} \X Machine \X {0})
           \union ({"task"} \X Machine \X Worker)

\* The queues at all places, from the variables.
QueuesOf(tc, sw, ws, ts, tk) ==
  [x \in Place |-> IF x[1] = "toClient" THEN tc[x[2]]
                   ELSE IF x[1] = "s2w" THEN sw[x[2]]
                   ELSE IF x[1] = "w2s" THEN ws[x[2]]
                   ELSE IF x[1] = "toServer" THEN ts[x[2]]
                   ELSE tk[x[2]][x[3]]]

Queues == QueuesOf(toClient, s2w, w2s, toServer, task)

\* Functions like Queues, and their changes: without the head of queue x, and
\* with p appended to queue x.
QueueMap(P)     == [P -> Seq(Packet)]
Popped(f, x)    == [f EXCEPT ![x] = Tail(@)]
Pushed(f, x, p) == [f EXCEPT ![x] = Append(@, p)]

\* The sequence numbers in the queues of f, and that none occurs twice.
Held(f) == UNION {{f[x][i].bin.seq : i \in DOMAIN f[x]} : x \in DOMAIN f}

Spread(f) ==
  \A x, y \in DOMAIN f : \A i \in DOMAIN f[x], j \in DOMAIN f[y] :
    f[x][i].bin.seq = f[y][j].bin.seq => x = y /\ i = j

\* What is held is at some position of some queue.
LEMMA HeldIntro ==
  ASSUME NEW f, NEW x \in DOMAIN f, NEW i \in DOMAIN f[x]
  PROVE  f[x][i].bin.seq \in Held(f)
<1>1. f[x][i].bin.seq \in {f[x][k].bin.seq : k \in DOMAIN f[x]}
  OBVIOUS
<1> QED BY <1>1 DEF Held

\* Every number held is that of a packet at some position.
LEMMA HeldElim ==
  ASSUME NEW f, NEW e \in Held(f)
  PROVE  \E x \in DOMAIN f : \E i \in DOMAIN f[x] : e = f[x][i].bin.seq
<1>1. PICK x \in DOMAIN f : e \in {f[x][i].bin.seq : i \in DOMAIN f[x]}
  BY DEF Held
<1> QED BY <1>1

\* Taking the head off a queue takes one number away.
LEMMA PopHeld ==
  ASSUME NEW P, NEW f \in QueueMap(P), NEW x \in P, f[x] # <<>>, Spread(f)
  PROVE  /\ Popped(f, x) \in QueueMap(P)
         /\ Spread(Popped(f, x))
         /\ Head(f[x]).bin.seq \in Held(f)
         /\ Held(Popped(f, x)) = Held(f) \ {Head(f[x]).bin.seq}
<1> DEFINE g == Popped(f, x)
           s == Head(f[x]).bin.seq
<1>1. /\ Tail(f[x]) \in Seq(Packet)
      /\ Len(Tail(f[x])) = Len(f[x]) - 1
      /\ \A i \in 1 .. Len(Tail(f[x])) : Tail(f[x])[i] = f[x][i + 1]
  BY HeadTailProperties DEF QueueMap
<1>2. /\ Len(f[x]) \in Nat \ {0} /\ DOMAIN f[x] = 1 .. Len(f[x])
      /\ DOMAIN Tail(f[x]) = 1 .. Len(f[x]) - 1
      /\ Head(f[x]) = f[x][1]
  BY <1>1, EmptySeq, LenProperties DEF QueueMap
<1>3. /\ g \in QueueMap(P) /\ DOMAIN g = P /\ DOMAIN f = P
      /\ g[x] = Tail(f[x]) /\ \A y \in P : y # x => g[y] = f[y]
  BY <1>1 DEF Popped, QueueMap
<1> HIDE DEF g
<1>4. \A i \in DOMAIN g[x] : i + 1 \in DOMAIN f[x] /\ g[x][i] = f[x][i + 1] /\ i + 1 # 1
  BY <1>1, <1>2, <1>3
<1>5. \A j \in DOMAIN f[x] : j # 1 => j - 1 \in DOMAIN g[x] /\ g[x][j - 1] = f[x][j]
  BY <1>1, <1>2, <1>3
<1>6. 1 \in DOMAIN f[x] /\ s = f[x][1].bin.seq
  BY <1>2
<1>7. Spread(g)
  <2> SUFFICES ASSUME NEW y \in P, NEW z \in P, NEW i \in DOMAIN g[y], NEW j \in DOMAIN g[z],
                      g[y][i].bin.seq = g[z][j].bin.seq
               PROVE  y = z /\ i = j
    BY <1>3 DEF Spread
  <2>1. i \in Nat /\ j \in Nat
    BY <1>3, LenProperties DEF QueueMap
  <2>2. CASE y = x /\ z = x
    <3>1. i + 1 = j + 1
      BY <1>3, <1>4, <2>2 DEF Spread
    <3> QED BY <2>1, <2>2, <3>1
  <2>3. CASE y = x /\ z # x
    BY <1>3, <1>4, <2>3 DEF Spread
  <2>4. CASE y # x /\ z = x
    BY <1>3, <1>4, <2>4 DEF Spread
  <2>5. CASE y # x /\ z # x
    BY <1>3, <2>5 DEF Spread
  <2> QED BY <2>2, <2>3, <2>4, <2>5
<1>8. s \in Held(f)
  BY <1>3, <1>6, HeldIntro
<1>9. ASSUME NEW e \in Held(g) PROVE e \in Held(f) /\ e # s
  <2>1. PICK y \in P : \E k \in DOMAIN g[y] : e = g[y][k].bin.seq
    BY <1>3, HeldElim
  <2>2. PICK i \in DOMAIN g[y] : e = g[y][i].bin.seq
    BY <2>1
  <2>3. CASE y = x
    <3>1. i + 1 \in DOMAIN f[x] /\ e = f[x][i + 1].bin.seq /\ i + 1 # 1
      BY <1>4, <2>2, <2>3
    <3> QED BY <1>3, <1>6, <3>1, HeldIntro DEF Spread
  <2>4. CASE y # x
    <3>1. i \in DOMAIN f[y] /\ e = f[y][i].bin.seq
      BY <1>3, <2>2, <2>4
    <3> QED BY <1>3, <1>6, <2>4, <3>1, HeldIntro DEF Spread
  <2> QED BY <2>3, <2>4
<1>10. ASSUME NEW e \in Held(f), e # s PROVE e \in Held(g)
  <2>1. PICK y \in P : \E k \in DOMAIN f[y] : e = f[y][k].bin.seq
    BY <1>3, HeldElim
  <2>2. PICK i \in DOMAIN f[y] : e = f[y][i].bin.seq
    BY <2>1
  <2>3. CASE y = x
    <3>1. i - 1 \in DOMAIN g[x] /\ e = g[x][i - 1].bin.seq
      BY <1>5, <1>6, <1>10, <2>2, <2>3
    <3> QED BY <1>3, <3>1, HeldIntro
  <2>4. CASE y # x
    BY <1>3, <2>2, <2>4, HeldIntro
  <2> QED BY <2>3, <2>4
<1> QED BY <1>3, <1>7, <1>8, <1>9, <1>10 DEF g

\* Appending a packet adds its number.
LEMMA PushHeld ==
  ASSUME NEW P, NEW f \in QueueMap(P), NEW x \in P, Spread(f),
         NEW p \in Packet, p.bin.seq \notin Held(f)
  PROVE  /\ Pushed(f, x, p) \in QueueMap(P)
         /\ Spread(Pushed(f, x, p))
         /\ Held(Pushed(f, x, p)) = Held(f) \union {p.bin.seq}
<1> DEFINE g == Pushed(f, x, p)
           n == Len(f[x]) + 1
<1>1. /\ Append(f[x], p) \in Seq(Packet)
      /\ Len(Append(f[x], p)) = n
      /\ \A i \in 1 .. Len(f[x]) : Append(f[x], p)[i] = f[x][i]
      /\ Append(f[x], p)[n] = p
  BY AppendProperties DEF QueueMap
<1>2. Len(f[x]) \in Nat /\ DOMAIN f[x] = 1 .. Len(f[x]) /\ DOMAIN Append(f[x], p) = 1 .. n
  BY <1>1, LenProperties DEF QueueMap
<1>3. /\ g \in QueueMap(P) /\ DOMAIN g = P /\ DOMAIN f = P
      /\ g[x] = Append(f[x], p) /\ \A y \in P : y # x => g[y] = f[y]
  BY <1>1 DEF Pushed, QueueMap
<1> HIDE DEF g
<1>4. n \in DOMAIN g[x] /\ g[x][n] = p
  BY <1>1, <1>2, <1>3
<1>5. \A i \in DOMAIN g[x] : i # n => i \in DOMAIN f[x] /\ g[x][i] = f[x][i]
  BY <1>1, <1>2, <1>3
<1>6. \A i \in DOMAIN f[x] : i \in DOMAIN g[x] /\ g[x][i] = f[x][i]
  BY <1>1, <1>2, <1>3
<1>7. ASSUME NEW y \in P, NEW i \in DOMAIN g[y]
      PROVE  \/ y = x /\ i = n /\ g[y][i] = p
             \/ /\ i \in DOMAIN f[y] /\ g[y][i] = f[y][i]
                /\ f[y][i].bin.seq \in Held(f)
  BY <1>3, <1>4, <1>5, HeldIntro
<1>8. Spread(g)
  <2> SUFFICES ASSUME NEW y \in P, NEW z \in P, NEW i \in DOMAIN g[y], NEW j \in DOMAIN g[z],
                      g[y][i].bin.seq = g[z][j].bin.seq
               PROVE  y = z /\ i = j
    BY <1>3 DEF Spread
  <2>1. CASE y = x /\ i = n /\ g[y][i] = p
    BY <1>7, <2>1
  <2>2. CASE z = x /\ j = n /\ g[z][j] = p
    BY <1>7, <2>2
  <2>3. CASE /\ i \in DOMAIN f[y] /\ g[y][i] = f[y][i]
             /\ j \in DOMAIN f[z] /\ g[z][j] = f[z][j]
    BY <1>3, <2>3 DEF Spread
  <2> QED BY <1>7, <2>1, <2>2, <2>3
<1>9. ASSUME NEW e \in Held(g) PROVE e \in Held(f) \union {p.bin.seq}
  <2>1. PICK y \in P : \E k \in DOMAIN g[y] : e = g[y][k].bin.seq
    BY <1>3, HeldElim
  <2> QED BY <1>7, <2>1
<1>10. p.bin.seq \in Held(g)
  BY <1>3, <1>4, HeldIntro
<1>11. ASSUME NEW e \in Held(f) PROVE e \in Held(g)
  <2>1. PICK y \in P : \E k \in DOMAIN f[y] : e = f[y][k].bin.seq
    BY <1>3, HeldElim
  <2>2. PICK i \in DOMAIN f[y] : e = f[y][i].bin.seq
    BY <2>1
  <2>3. i \in DOMAIN g[y] /\ g[y][i] = f[y][i]
    BY <1>3, <1>6
  <2> QED BY <1>3, <2>2, <2>3, HeldIntro
<1> QED BY <1>3, <1>8, <1>9, <1>10, <1>11 DEF g

\* Moving a packet from one queue to another loses and duplicates nothing.
LEMMA MoveHeld ==
  ASSUME NEW P, NEW f \in QueueMap(P), NEW x \in P, NEW y \in P, f[x] # <<>>, Spread(f),
         NEW p \in Packet, p.bin.seq = Head(f[x]).bin.seq
  PROVE  /\ Spread(Pushed(Popped(f, x), y, p))
         /\ Held(Pushed(Popped(f, x), y, p)) = Held(f)
<1>1. PICK h : h = Popped(f, x)
  OBVIOUS
<1>2. /\ h \in QueueMap(P) /\ Spread(h)
      /\ p.bin.seq \in Held(f) /\ Held(h) = Held(f) \ {p.bin.seq}
  BY <1>1, PopHeld
<1>3. p.bin.seq \notin Held(h)
  BY <1>2
<1>4. Spread(Pushed(h, y, p)) /\ Held(Pushed(h, y, p)) = Held(h) \union {p.bin.seq}
  BY <1>2, <1>3, PushHeld
<1> QED BY <1>1, <1>2, <1>4

\* A place is one of five kinds.
LEMMA PlaceCases ==
  ASSUME NEW x \in Place
  PROVE  \/ \E m \in Machine : \/ x = <<"toClient", m, 0>>
                               \/ x = <<"s2w", m, 0>>
                               \/ x = <<"w2s", m, 0>>
                               \/ x = <<"toServer", m, 0>>
         \/ \E m \in Machine : \E w \in Worker : x = <<"task", m, w>>
  BY DEF Place

\* The queues by their names.
QueueNames(f, tc, sw, ws, ts, tk) ==
  \A m \in Machine :
    /\ f[<<"toClient", m, 0>>] = tc[m]
    /\ f[<<"s2w", m, 0>>] = sw[m]
    /\ f[<<"w2s", m, 0>>] = ws[m]
    /\ f[<<"toServer", m, 0>>] = ts[m]
    /\ \A w \in Worker : f[<<"task", m, w>>] = tk[m][w]

\* The names of the queues are places.
LEMMA PlaceNames ==
  ASSUME NEW m \in Machine
  PROVE  /\ <<"toClient", m, 0>> \in Place /\ <<"s2w", m, 0>> \in Place
         /\ <<"w2s", m, 0>> \in Place /\ <<"toServer", m, 0>> \in Place
         /\ \A w \in Worker : <<"task", m, w>> \in Place
  BY DEF Place

\* Each queue is found under its name.
LEMMA QueuesNamed ==
  ASSUME NEW tc, NEW sw, NEW ws, NEW ts, NEW tk
  PROVE  QueueNames(QueuesOf(tc, sw, ws, ts, tk), tc, sw, ws, ts, tk)
  BY DEF Place, QueuesOf, QueueNames

\* A function with the same queues under the names is the same function.
LEMMA SameQueues ==
  ASSUME NEW tc, NEW sw, NEW ws, NEW ts, NEW tk,
         NEW f \in QueueMap(Place), QueueNames(f, tc, sw, ws, ts, tk)
  PROVE  f = QueuesOf(tc, sw, ws, ts, tk)
<1> DEFINE g == QueuesOf(tc, sw, ws, ts, tk)
<1>1. QueueNames(g, tc, sw, ws, ts, tk)
  BY QueuesNamed
<1>2. f = [x \in Place |-> f[x]] /\ g = [x \in Place |-> g[x]]
  BY DEF QueueMap, QueuesOf
<1> HIDE DEF g
<1>3. ASSUME NEW x \in Place PROVE f[x] = g[x]
  <2>1. ASSUME NEW m \in Machine
        PROVE  /\ f[<<"toClient", m, 0>>] = g[<<"toClient", m, 0>>]
               /\ f[<<"s2w", m, 0>>] = g[<<"s2w", m, 0>>]
               /\ f[<<"w2s", m, 0>>] = g[<<"w2s", m, 0>>]
               /\ f[<<"toServer", m, 0>>] = g[<<"toServer", m, 0>>]
               /\ \A w \in Worker : f[<<"task", m, w>>] = g[<<"task", m, w>>]
    BY <1>1 DEF QueueNames
  <2> QED BY <2>1, PlaceCases, Zenon
<1> QED BY <1>2, <1>3 DEF g

\* In a state of the right type, Queues is such a function.
LEMMA QueuesAre ==
  ASSUME TypeOK
  PROVE  /\ Queues \in QueueMap(Place)
         /\ QueueNames(Queues, toClient, s2w, w2s, toServer, task)
<1>1. QueueNames(Queues, toClient, s2w, w2s, toServer, task)
  BY QueuesNamed DEF Queues
<1>2. \A x \in Place : Queues[x] \in Seq(Packet)
  <2> SUFFICES ASSUME NEW x \in Place PROVE Queues[x] \in Seq(Packet)
    OBVIOUS
  <2>1. CASE \E m \in Machine : \/ x = <<"toClient", m, 0>>
                                \/ x = <<"s2w", m, 0>>
                                \/ x = <<"w2s", m, 0>>
                                \/ x = <<"toServer", m, 0>>
    <3>1. \A m \in Machine : /\ toClient[m] \in Seq(Packet) /\ s2w[m] \in Seq(Packet)
                             /\ w2s[m] \in Seq(Packet) /\ toServer[m] \in Seq(Packet)
      BY DEF TypeOK
    <3> QED BY <1>1, <2>1, <3>1, Zenon DEF QueueNames
  <2>2. CASE \E m \in Machine : \E w \in Worker : x = <<"task", m, w>>
    <3>1. \A m \in Machine : \A w \in Worker : task[m][w] \in Seq(Packet)
      BY DEF TypeOK
    <3> QED BY <1>1, <2>2, <3>1, Zenon DEF QueueNames
  <2> QED BY <2>1, <2>2, PlaceCases
<1>3. Queues = [x \in Place |-> Queues[x]]
  BY DEF Queues, QueuesOf
<1> QED BY <1>1, <1>2, <1>3 DEF QueueMap

\* Popped and Pushed, place by place.
LEMMA PoppedAt ==
  ASSUME NEW P, NEW f \in QueueMap(P), NEW x \in P, f[x] # <<>>
  PROVE  /\ Popped(f, x) \in QueueMap(P)
         /\ Popped(f, x)[x] = Tail(f[x])
         /\ \A z \in P : z # x => Popped(f, x)[z] = f[z]
<1>1. f[x] \in Seq(Packet)
  BY DEF QueueMap
<1>2. Tail(f[x]) \in Seq(Packet)
  BY <1>1, PopFacts
<1> QED BY <1>2 DEF Popped, QueueMap

\* What an append changes.
LEMMA PushedAt ==
  ASSUME NEW P, NEW f \in QueueMap(P), NEW x \in P, NEW p \in Packet
  PROVE  /\ Pushed(f, x, p) \in QueueMap(P)
         /\ Pushed(f, x, p)[x] = Append(f[x], p)
         /\ \A z \in P : z # x => Pushed(f, x, p)[z] = f[z]
<1>1. Append(f[x], p) \in Seq(Packet)
  BY AppendProperties DEF QueueMap
<1> QED BY <1>1 DEF Pushed, QueueMap

\* The packet p leaves x and comes into y.
LEMMA MovedAt ==
  ASSUME NEW P, NEW f \in QueueMap(P), NEW x \in P, NEW y \in P, x # y, f[x] # <<>>,
         NEW p \in Packet, NEW g, g = Pushed(Popped(f, x), y, p)
  PROVE  /\ g \in QueueMap(P)
         /\ g[x] = Tail(f[x]) /\ g[y] = Append(f[y], p)
         /\ \A z \in P : z \notin {x, y} => g[z] = f[z]
<1>1. PICK h : h = Popped(f, x)
  OBVIOUS
<1>2. /\ h \in QueueMap(P) /\ h[x] = Tail(f[x])
      /\ \A z \in P : z # x => h[z] = f[z]
  BY <1>1, PoppedAt
<1>3. /\ g \in QueueMap(P) /\ g[y] = Append(h[y], p)
      /\ \A z \in P : z # y => g[z] = h[z]
  BY <1>1, <1>2, PushedAt
<1> QED BY <1>2, <1>3

\* The step makes the queues those of g at the places X, and changes no other.
BecomesAt(g, X) ==
  /\ \A z \in Place : z \notin X => g[z] = Queues[z]
  /\ \A n \in Machine :
       /\ toClient'[n] = IF <<"toClient", n, 0>> \in X THEN g[<<"toClient", n, 0>>] ELSE toClient[n]
       /\ s2w'[n] = IF <<"s2w", n, 0>> \in X THEN g[<<"s2w", n, 0>>] ELSE s2w[n]
       /\ w2s'[n] = IF <<"w2s", n, 0>> \in X THEN g[<<"w2s", n, 0>>] ELSE w2s[n]
       /\ toServer'[n] = IF <<"toServer", n, 0>> \in X THEN g[<<"toServer", n, 0>>] ELSE toServer[n]
       /\ \A w \in Worker :
            task'[n][w] = IF <<"task", n, w>> \in X THEN g[<<"task", n, w>>] ELSE task[n][w]

\* A function that agrees with the next state at the changed places is Queues'.
LEMMA ChangedAt ==
  ASSUME TypeOK, NEW X, NEW g \in QueueMap(Place), BecomesAt(g, X)
  PROVE  Queues' = g
<1>1. QueueNames(Queues, toClient, s2w, w2s, toServer, task)
  BY QueuesAre
<1>2. ASSUME NEW n \in Machine
      PROVE  /\ g[<<"toClient", n, 0>>] = toClient'[n]
             /\ g[<<"s2w", n, 0>>] = s2w'[n]
             /\ g[<<"w2s", n, 0>>] = w2s'[n]
             /\ g[<<"toServer", n, 0>>] = toServer'[n]
             /\ \A w \in Worker : g[<<"task", n, w>>] = task'[n][w]
  <2>1. g[<<"toClient", n, 0>>] = toClient'[n]
    BY <1>1, PlaceNames DEF BecomesAt, QueueNames
  <2>2. g[<<"s2w", n, 0>>] = s2w'[n]
    BY <1>1, PlaceNames DEF BecomesAt, QueueNames
  <2>3. g[<<"w2s", n, 0>>] = w2s'[n]
    BY <1>1, PlaceNames DEF BecomesAt, QueueNames
  <2>4. g[<<"toServer", n, 0>>] = toServer'[n]
    BY <1>1, PlaceNames DEF BecomesAt, QueueNames
  <2>5. ASSUME NEW w \in Worker PROVE g[<<"task", n, w>>] = task'[n][w]
    <3>1. <<"task", n, w>> \in Place /\ Queues[<<"task", n, w>>] = task[n][w]
      BY <1>1, PlaceNames DEF QueueNames
    <3> QED BY <3>1 DEF BecomesAt
  <2> QED BY <2>1, <2>2, <2>3, <2>4, <2>5
<1>3. QueueNames(g, toClient', s2w', w2s', toServer', task')
  BY <1>2 DEF QueueNames
<1>4. g = QueuesOf(toClient', s2w', w2s', toServer', task')
  BY <1>3, SameQueues
<1> QED BY <1>4 DEF Queues

\* A worker holds at most one packet.
HandsInv == \A m \in Machine : \A w \in Worker :
              task[m][w] = <<>> \/ \E p \in Packet : task[m][w] = <<p>>

\* What each action does to the queues.
LEMMA ReceivePops ==
  ASSUME TypeOK, NEW m \in Machine, ServerReceive(m)
  PROVE  /\ Queues[<<"toServer", m, 0>>] # <<>>
         /\ Queues' = Popped(Queues, <<"toServer", m, 0>>)
<1> DEFINE x == <<"toServer", m, 0>>
           g == Popped(Queues, x)
<1>1. Queues \in QueueMap(Place) /\ x \in Place /\ Queues[x] = toServer[m] /\ toServer[m] # <<>>
  BY QueuesAre, PlaceNames DEF QueueNames, ServerReceive, server_async_receivemsg
<1>2. /\ g \in QueueMap(Place) /\ g[x] = Tail(toServer[m])
      /\ \A z \in Place : z # x => g[z] = Queues[z]
  BY <1>1, PoppedAt
<1> HIDE DEF g
<1>3. BecomesAt(g, {x})
  BY <1>2 DEF BecomesAt, TypeOK, ServerReceive, server_async_receivemsg
<1>4. Queues' = g
  BY <1>2, <1>3, ChangedAt
<1> QED BY <1>1, <1>4 DEF g

\* server_sendtestmsg, when MPI takes the packet, appends to a channel.
LEMMA SendPushes ==
  ASSUME TypeOK, server_sendtestmsg, toClient' = [toClient EXCEPT ![si] = Append(@, NewTask(si))]
  PROVE  Queues' = Pushed(Queues, <<"toClient", si, 0>>, NewTask(si))
<1> DEFINE x == <<"toClient", si, 0>>
           g == Pushed(Queues, x, NewTask(si))
<1>1. Queues \in QueueMap(Place) /\ x \in Place /\ Queues[x] = toClient[si] /\ si \in Machine
  BY QueuesAre, PlaceNames DEF QueueNames, TypeOK
<1>1a. NewTask(si) \in Packet
  BY <1>1, NewTaskType
<1> HIDE DEF x
<1>2. /\ g \in QueueMap(Place) /\ g[x] = Append(toClient[si], NewTask(si))
      /\ \A z \in Place : z # x => g[z] = Queues[z]
  BY <1>1, <1>1a, PushedAt
<1> HIDE DEF g
<1>3. BecomesAt(g, {x})
  BY <1>1, <1>2 DEF BecomesAt, TypeOK, server_sendtestmsg, x
<1>4. Queues' = g
  BY <1>2, <1>3, ChangedAt
<1> QED BY <1>4 DEF g, x

\* The client moves a packet from its channel to s2w.
LEMMA ClientReceiveMoves ==
  ASSUME TypeOK, NEW m \in Machine, ClientReceive(m)
  PROVE  /\ Queues[<<"toClient", m, 0>>] # <<>>
         /\ Queues' = Pushed(Popped(Queues, <<"toClient", m, 0>>), <<"s2w", m, 0>>,
                             Head(Queues[<<"toClient", m, 0>>]))
<1> DEFINE x == <<"toClient", m, 0>>
           y == <<"s2w", m, 0>>
           p == Head(Queues[x])
<1>1. /\ Queues \in QueueMap(Place) /\ x \in Place /\ y \in Place /\ x # y
      /\ Queues[x] = toClient[m] /\ Queues[y] = s2w[m]
  BY QueuesAre, PlaceNames DEF QueueNames
<1>2. toClient[m] # <<>> /\ p \in Packet /\ p = Head(toClient[m])
  BY <1>1, PopFacts DEF TypeOK, ClientReceive, client_async_receivemsg
<1> HIDE DEF p, x, y
<1>2a. PICK g : g = Pushed(Popped(Queues, x), y, p)
  OBVIOUS
<1>3. /\ g \in QueueMap(Place) /\ g[x] = Tail(toClient[m]) /\ g[y] = Append(s2w[m], p)
      /\ \A z \in Place : z \notin {x, y} => g[z] = Queues[z]
  BY <1>1, <1>2, <1>2a, MovedAt
<1>4. BecomesAt(g, {x, y})
  BY <1>2, <1>3 DEF x, y, BecomesAt, TypeOK, ClientReceive, client_async_receivemsg, client_put_task
<1>5. Queues' = g
  BY <1>3, <1>4, ChangedAt
<1> QED BY <1>1, <1>2, <1>2a, <1>5 DEF p, x, y

\* worker_get_task moves a packet from s2w to the worker's hands.
LEMMA WorkerGetMoves ==
  ASSUME TypeOK, NEW m \in Machine, NEW w \in Worker, worker_get_task(m, w)
  PROVE  /\ Queues[<<"s2w", m, 0>>] # <<>>
         /\ Queues' = Pushed(Popped(Queues, <<"s2w", m, 0>>), <<"task", m, w>>,
                             Head(Queues[<<"s2w", m, 0>>]))
<1> DEFINE x == <<"s2w", m, 0>>
           y == <<"task", m, w>>
           p == Head(Queues[x])
<1>1. /\ Queues \in QueueMap(Place) /\ x \in Place /\ y \in Place /\ x # y
      /\ Queues[x] = s2w[m] /\ Queues[y] = task[m][w]
  BY QueuesAre, PlaceNames DEF QueueNames
<1>2. s2w[m] # <<>> /\ p \in Packet /\ p = Head(s2w[m])
  BY <1>1, PopFacts DEF TypeOK, worker_get_task, PopTask
<1> HIDE DEF p, x, y
<1>3. PICK g : g = Pushed(Popped(Queues, x), y, p)
  OBVIOUS
<1>4. /\ g \in QueueMap(Place) /\ g[x] = Tail(s2w[m]) /\ g[y] = Append(task[m][w], p)
      /\ \A z \in Place : z \notin {x, y} => g[z] = Queues[z]
  BY <1>1, <1>2, <1>3, MovedAt
<1>5. Append(task[m][w], p) = <<p>>
  BY <1>2, OneQueued DEF worker_get_task
<1>6. BecomesAt(g, {x, y})
  <2>1. task' = [task EXCEPT ![m][w] = <<p>>] /\ UNCHANGED <<toClient, toServer>>
    BY <1>2 DEF worker_get_task, PopTask, netVars
  <2>2. ASSUME NEW n \in Machine, NEW v \in Worker
        PROVE  task'[n][v] = IF <<"task", n, v>> \in {x, y} THEN g[<<"task", n, v>>] ELSE task[n][v]
    <3>1. CASE n = m /\ v = w
      BY <1>4, <1>5, <2>1, <3>1 DEF TypeOK, x, y
    <3>2. CASE ~(n = m /\ v = w)
      BY <2>1, <3>2 DEF TypeOK, x, y
    <3> QED BY <3>1, <3>2
  <2>3. ASSUME NEW n \in Machine
        PROVE  /\ s2w'[n] = IF <<"s2w", n, 0>> \in {x, y} THEN g[<<"s2w", n, 0>>] ELSE s2w[n]
               /\ w2s'[n] = IF <<"w2s", n, 0>> \in {x, y} THEN g[<<"w2s", n, 0>>] ELSE w2s[n]
    BY <1>2, <1>4 DEF TypeOK, worker_get_task, PopTask, x, y
  <2>4. ASSUME NEW n \in Machine
        PROVE  <<"toClient", n, 0>> \notin {x, y} /\ <<"toServer", n, 0>> \notin {x, y}
    BY DEF x, y
  <2> QED BY <1>4, <2>1, <2>2, <2>3, <2>4 DEF BecomesAt
<1>7. Queues' = g
  BY <1>4, <1>6, ChangedAt
<1> QED BY <1>1, <1>2, <1>3, <1>7 DEF p, x, y

\* worker_putback_task moves it, finished, from the worker's hands to w2s.
LEMMA WorkerPutMoves ==
  ASSUME TypeOK, HandsInv, NEW m \in Machine, NEW w \in Worker, worker_putback_task(m, w)
  PROVE  /\ Queues[<<"task", m, w>>] # <<>>
         /\ Queues' = Pushed(Popped(Queues, <<"task", m, w>>), <<"w2s", m, 0>>,
                             FinishTask(Head(Queues[<<"task", m, w>>])))
<1> DEFINE x == <<"task", m, w>>
           y == <<"w2s", m, 0>>
           p == FinishTask(Head(Queues[x]))
<1>1. /\ Queues \in QueueMap(Place) /\ x \in Place /\ y \in Place /\ x # y
      /\ Queues[x] = task[m][w] /\ Queues[y] = w2s[m]
  BY QueuesAre, PlaceNames DEF QueueNames
<1>2. task[m][w] # <<>> /\ p \in Packet /\ p = FinishTask(Head(task[m][w]))
  BY <1>1, PopFacts, FinishTaskType DEF TypeOK, worker_putback_task
<1> HIDE DEF p, x, y
<1>3. PICK g : g = Pushed(Popped(Queues, x), y, p)
  OBVIOUS
<1>4. /\ g \in QueueMap(Place) /\ g[x] = Tail(task[m][w]) /\ g[y] = Append(w2s[m], p)
      /\ \A z \in Place : z \notin {x, y} => g[z] = Queues[z]
  BY <1>1, <1>2, <1>3, MovedAt
<1>5. Tail(task[m][w]) = <<>>
  BY <1>2, OneQueued DEF worker_putback_task, HandsInv
<1>6. BecomesAt(g, {x, y})
  <2>1. task' = [task EXCEPT ![m][w] = <<>>] /\ UNCHANGED <<toClient, toServer>>
    BY <1>2 DEF worker_putback_task, netVars
  <2>2. ASSUME NEW n \in Machine, NEW v \in Worker
        PROVE  task'[n][v] = IF <<"task", n, v>> \in {x, y} THEN g[<<"task", n, v>>] ELSE task[n][v]
    <3>1. CASE n = m /\ v = w
      BY <1>4, <1>5, <2>1, <3>1 DEF TypeOK, x, y
    <3>2. CASE ~(n = m /\ v = w)
      BY <2>1, <3>2 DEF TypeOK, x, y
    <3> QED BY <3>1, <3>2
  <2>3. ASSUME NEW n \in Machine
        PROVE  /\ s2w'[n] = IF <<"s2w", n, 0>> \in {x, y} THEN g[<<"s2w", n, 0>>] ELSE s2w[n]
               /\ w2s'[n] = IF <<"w2s", n, 0>> \in {x, y} THEN g[<<"w2s", n, 0>>] ELSE w2s[n]
    BY <1>2, <1>4 DEF TypeOK, worker_putback_task, x, y
  <2>4. ASSUME NEW n \in Machine
        PROVE  <<"toClient", n, 0>> \notin {x, y} /\ <<"toServer", n, 0>> \notin {x, y}
    BY DEF x, y
  <2> QED BY <1>4, <2>1, <2>2, <2>3, <2>4 DEF BecomesAt
<1>7. Queues' = g
  BY <1>4, <1>6, ChangedAt
<1> QED BY <1>1, <1>2, <1>3, <1>7 DEF p, x, y

\* The client moves a finished task from w2s to its channel, readdressed.
LEMMA SendDoneMoves ==
  ASSUME TypeOK, NEW m \in Machine, ClientSendDone(m),
         toServer' = [toServer EXCEPT ![m] = Append(@, DonePacket(m, Head(w2s[m])))]
  PROVE  /\ Queues[<<"w2s", m, 0>>] # <<>>
         /\ Queues' = Pushed(Popped(Queues, <<"w2s", m, 0>>), <<"toServer", m, 0>>,
                             DonePacket(m, Head(Queues[<<"w2s", m, 0>>])))
<1> DEFINE x == <<"w2s", m, 0>>
           y == <<"toServer", m, 0>>
           p == DonePacket(m, Head(Queues[x]))
<1>1. /\ Queues \in QueueMap(Place) /\ x \in Place /\ y \in Place /\ x # y
      /\ Queues[x] = w2s[m] /\ Queues[y] = toServer[m]
  BY QueuesAre, PlaceNames DEF QueueNames
<1>2. w2s[m] # <<>> /\ p \in Packet /\ p = DonePacket(m, Head(w2s[m]))
  BY <1>1, PopFacts, DonePacketType DEF TypeOK, ClientSendDone, client_putback_task
<1> HIDE DEF p, x, y
<1>3. PICK g : g = Pushed(Popped(Queues, x), y, p)
  OBVIOUS
<1>4. /\ g \in QueueMap(Place) /\ g[x] = Tail(w2s[m]) /\ g[y] = Append(toServer[m], p)
      /\ \A z \in Place : z \notin {x, y} => g[z] = Queues[z]
  BY <1>1, <1>2, <1>3, MovedAt
<1>6. BecomesAt(g, {x, y})
  BY <1>2, <1>4 DEF BecomesAt, TypeOK, ClientSendDone, client_putback_task, x, y
<1>7. Queues' = g
  BY <1>4, <1>6, ChangedAt
<1> QED BY <1>1, <1>2, <1>3, <1>7 DEF p, x, y

\* When MPI_Bsend refuses the packet it only leaves w2s.
LEMMA SendDoneLoses ==
  ASSUME TypeOK, NEW m \in Machine, ClientSendDone(m), UNCHANGED toServer
  PROVE  /\ Queues[<<"w2s", m, 0>>] # <<>>
         /\ Queues' = Popped(Queues, <<"w2s", m, 0>>)
<1> DEFINE x == <<"w2s", m, 0>>
           g == Popped(Queues, x)
<1>1. Queues \in QueueMap(Place) /\ x \in Place /\ Queues[x] = w2s[m] /\ w2s[m] # <<>>
  BY QueuesAre, PlaceNames DEF QueueNames, ClientSendDone, client_putback_task
<1>2. /\ g \in QueueMap(Place) /\ g[x] = Tail(w2s[m])
      /\ \A z \in Place : z # x => g[z] = Queues[z]
  BY <1>1, PoppedAt
<1> HIDE DEF g
<1>3. BecomesAt(g, {x})
  BY <1>2 DEF BecomesAt, TypeOK, ClientSendDone, client_putback_task
<1>4. Queues' = g
  BY <1>2, <1>3, ChangedAt
<1> QED BY <1>1, <1>4 DEF g

-----------------------------------------------------------------------------
(* The numbers of a round. *)

\* A round has as many different numbers as tasks were sent.
LEMMA IssuedSeqsFacts ==
  ASSUME TypeOK
  PROVE  /\ IssuedSeqs = {Back(outmsg, k) : k \in 1 .. Issued}
         /\ IssuedSeqs \subseteq Seqno
         /\ IsFiniteSet(IssuedSeqs)
         /\ Cardinality(IssuedSeqs) = Issued
<1>1. Total \in Nat /\ Issued \in Nat /\ Issued <= Total /\ outmsg \in Seqno
  BY IssuedFacts, ConstAssumption DEF TypeOK, Total
<1>2. IssuedSeqs = {Back(outmsg, k) : k \in 1 .. Issued}
  BY DEF IssuedSeqs, Back
<1>3. ASSUME NEW k \in 1 .. Issued PROVE k \in 0 .. Total
  BY <1>1
<1>4. IssuedSeqs \subseteq Seqno
  BY <1>1, <1>2, <1>3, BackValue
<1> DEFINE f == [k \in 1 .. Issued |-> Back(outmsg, k)]
<1>5. f \in Surjection(1 .. Issued, IssuedSeqs)
  BY <1>2 DEF Surjection
<1>6. ASSUME NEW j \in 1 .. Issued, NEW k \in 1 .. Issued, f[j] = f[k] PROVE j = k
  BY <1>1, <1>3, <1>6, BackInjective
<1>7. f \in Bijection(1 .. Issued, IssuedSeqs)
  BY <1>5, <1>6 DEF Bijection, Injection, IsInjective, Surjection
<1>8. ExistsBijection(1 .. Issued, IssuedSeqs)
  BY <1>7 DEF ExistsBijection
<1>9. IsFiniteSet(1 .. Issued) /\ Cardinality(1 .. Issued) = Issued
  BY <1>1, FS_Interval
<1>10. IsFiniteSet(IssuedSeqs) /\ Cardinality(IssuedSeqs) = Issued
  BY <1>8, <1>9, FS_Bijection
<1> QED BY <1>2, <1>4, <1>10

\* server_sendtestmsg uses a number that no task of the round has.
LEMMA SendIsFresh ==
  ASSUME TypeOK, server_sendtestmsg
  PROVE  outmsg \notin IssuedSeqs /\ IssuedSeqs' = IssuedSeqs \union {outmsg}
<1>1. /\ Total \in Nat /\ Issued \in Nat /\ Issued < Total /\ outmsg \in Seqno
      /\ Issued' = Issued + 1 /\ outmsg' = SeqAfter(outmsg)
  BY IssuedFacts, SendLoopStep, ConstAssumption DEF TypeOK, Total, server_sendtestmsg
<1>2. IssuedSeqs = {Back(outmsg, k) : k \in 1 .. Issued}
  BY IssuedSeqsFacts
<1>3. outmsg = Back(outmsg, 0)
  BY <1>1, BackSteps
<1>4. outmsg \notin IssuedSeqs
  <2> SUFFICES ASSUME NEW k \in 1 .. Issued PROVE outmsg # Back(outmsg, k)
    BY <1>2
  <2>1. k \in 0 .. Total /\ 0 \in 0 .. Total /\ k # 0
    BY <1>1
  <2> QED BY <1>1, <1>3, <2>1, BackInjective
<1>5. IssuedSeqs' = {Back(SeqAfter(outmsg), k) : k \in 1 .. Issued + 1}
  BY <1>1 DEF IssuedSeqs, Back
<1>6. ASSUME NEW k \in 0 .. Issued PROVE Back(SeqAfter(outmsg), k + 1) = Back(outmsg, k)
  BY <1>1, BackSteps
<1>7. ASSUME NEW e \in IssuedSeqs' PROVE e \in IssuedSeqs \union {outmsg}
  <2>1. PICK k \in 1 .. Issued + 1 : e = Back(SeqAfter(outmsg), k)
    BY <1>5
  <2>2. k - 1 \in 0 .. Issued /\ (k - 1) + 1 = k
    BY <1>1
  <2>3. e = Back(outmsg, k - 1)
    BY <1>6, <2>1, <2>2
  <2>4. CASE k - 1 = 0
    BY <1>3, <2>3, <2>4
  <2>5. CASE k - 1 # 0
    <3>1. k - 1 \in 1 .. Issued
      BY <1>1, <2>2, <2>5
    <3> QED BY <1>2, <2>3, <3>1
  <2> QED BY <2>4, <2>5
<1>8. ASSUME NEW k \in 0 .. Issued PROVE Back(outmsg, k) \in IssuedSeqs'
  <2>1. k + 1 \in 1 .. Issued + 1
    BY <1>1
  <2> QED BY <1>5, <1>6, <2>1
<1>9. outmsg \in IssuedSeqs'
  BY <1>1, <1>3, <1>8
<1>10. IssuedSeqs \subseteq IssuedSeqs'
  BY <1>1, <1>2, <1>8
<1> QED BY <1>4, <1>7, <1>9, <1>10

-----------------------------------------------------------------------------
(* No task is lost or done twice. *)

\* No packet of f is a heartbeat.
Settled(f) == \A x \in DOMAIN f : \A p \in Range(f[x]) : p.bin.status # "none"

\* A pop keeps queues free of heartbeats.
LEMMA PopSettled ==
  ASSUME NEW P, NEW f \in QueueMap(P), NEW x \in P, f[x] # <<>>, Settled(f)
  PROVE  Settled(Popped(f, x)) /\ Head(f[x]) \in Packet /\ Head(f[x]).bin.status # "none"
<1>1. /\ Head(f[x]) \in Packet /\ Head(f[x]) \in Range(f[x])
      /\ Range(Tail(f[x])) \subseteq Range(f[x])
  BY PopFacts DEF QueueMap
<1>2. DOMAIN f = P /\ DOMAIN Popped(f, x) = P
  BY DEF QueueMap, Popped
<1> QED BY <1>1, <1>2, PoppedAt DEF Settled

\* An append of anything but a heartbeat does too.
LEMMA PushSettled ==
  ASSUME NEW P, NEW f \in QueueMap(P), NEW x \in P, NEW p \in Packet,
         p.bin.status # "none", Settled(f)
  PROVE  Settled(Pushed(f, x, p))
<1>1. Range(Append(f[x], p)) = Range(f[x]) \union {p}
  BY PushFacts DEF QueueMap
<1>2. DOMAIN f = P /\ DOMAIN Pushed(f, x, p) = P
  BY DEF QueueMap, Pushed
<1>3. /\ Pushed(f, x, p)[x] = Append(f[x], p)
      /\ \A z \in P : z # x => Pushed(f, x, p)[z] = f[z]
  BY PushedAt
<1>4. ASSUME NEW z \in P, NEW q \in Range(Pushed(f, x, p)[z]) PROVE q.bin.status # "none"
  <2>1. CASE z = x
    BY <1>1, <1>2, <1>3, <2>1 DEF Settled
  <2>2. CASE z # x
    BY <1>2, <1>3, <2>2 DEF Settled
  <2> QED BY <2>1, <2>2
<1> QED BY <1>2, <1>4 DEF Settled

\* One move of a packet, with its number and without becoming a heartbeat.
LEMMA MoveKeeps ==
  ASSUME NEW P, NEW f \in QueueMap(P), NEW x \in P, NEW y \in P, f[x] # <<>>,
         Settled(f), Spread(f),
         NEW p \in Packet, p.bin.seq = Head(f[x]).bin.seq, p.bin.status # "none"
  PROVE  LET g == Pushed(Popped(f, x), y, p)
         IN  Settled(g) /\ Spread(g) /\ Held(g) = Held(f)
<1>1. PICK h : h = Popped(f, x)
  OBVIOUS
<1>2. h \in QueueMap(P) /\ Settled(h)
  BY <1>1, PoppedAt, PopSettled
<1>3. Settled(Pushed(h, y, p))
  BY <1>2, PushSettled
<1> QED BY <1>1, <1>3, MoveHeld

\* The tasks of the round: spread over the queues and what MPI_Bsend refused.
InFlight ==
  /\ Settled(Queues) /\ Spread(Queues)
  /\ Held(Queues) \cap lost = {}
  /\ Held(Queues) \union lost \subseteq IssuedSeqs
  /\ Cardinality(Held(Queues) \union lost) + acks = Issued

\* The inductive strengthening of TasksConserved.
CopyInv ==
  /\ HandsInv
  /\ spc = "waitforall" => lost = {}
  /\ spc # "waitforall" => InFlight

\* With nothing queued and nothing refused, nothing is in flight.
LEMMA NothingInFlight ==
  ASSUME NEW f, \A x \in DOMAIN f : f[x] = <<>>
  PROVE  Settled(f) /\ Spread(f) /\ Held(f) = {}
<1>1. \A x \in DOMAIN f : DOMAIN f[x] = {} /\ Range(f[x]) = {}
  BY DEF Range
<1>2. Settled(f) /\ Spread(f)
  BY <1>1 DEF Settled, Spread
<1>3. Held(f) = {}
  BY <1>1, HeldElim
<1> QED BY <1>2, <1>3

\* The same for the queues of a state, given one by one.
LEMMA QueuesEmpty ==
  ASSUME NEW tc, NEW sw, NEW ws, NEW ts, NEW tk,
         \A m \in Machine : /\ tc[m] = <<>> /\ sw[m] = <<>> /\ ws[m] = <<>> /\ ts[m] = <<>>
                            /\ \A w \in Worker : tk[m][w] = <<>>
  PROVE  LET f == QueuesOf(tc, sw, ws, ts, tk)
         IN  Settled(f) /\ Spread(f) /\ Held(f) = {}
<1> DEFINE f == QueuesOf(tc, sw, ws, ts, tk)
<1>1. DOMAIN f = Place
  BY DEF QueuesOf
<1>2. QueueNames(f, tc, sw, ws, ts, tk)
  BY QueuesNamed
<1> HIDE DEF f
<1>3. PICK e : e = <<>>
  OBVIOUS
<1>4. ASSUME NEW m \in Machine
      PROVE  /\ f[<<"toClient", m, 0>>] = e /\ f[<<"s2w", m, 0>>] = e
             /\ f[<<"w2s", m, 0>>] = e /\ f[<<"toServer", m, 0>>] = e
             /\ \A w \in Worker : f[<<"task", m, w>>] = e
  BY <1>2, <1>3 DEF QueueNames
<1>5. ASSUME NEW x \in Place PROVE f[x] = e
  <2>1. CASE \E m \in Machine : \/ x = <<"toClient", m, 0>>
                                \/ x = <<"s2w", m, 0>>
                                \/ x = <<"w2s", m, 0>>
                                \/ x = <<"toServer", m, 0>>
    BY <1>4, <2>1, Zenon
  <2>2. CASE \E m \in Machine : \E w \in Worker : x = <<"task", m, w>>
    BY <1>4, <2>2, Zenon
  <2> QED BY <2>1, <2>2, PlaceCases
<1> QED BY <1>1, <1>3, <1>5, NothingInFlight DEF f

\* An action that keeps the held numbers, the refused ones and the round.
LEMMA InFlightKept ==
  ASSUME InFlight, Settled(Queues'), Spread(Queues'), Held(Queues') = Held(Queues),
         UNCHANGED <<lost, serverVars>>
  PROVE  InFlight'
<1>1. Issued' = Issued /\ IssuedSeqs' = IssuedSeqs
  BY DEF Issued, IssuedSeqs, serverVars
<1> QED BY <1>1 DEF InFlight, serverVars

\* The set of open tasks is finite.
LEMMA InFlightFinite ==
  ASSUME TypeOK, InFlight
  PROVE  /\ IsFiniteSet(Held(Queues) \union lost) /\ IsFiniteSet(lost)
         /\ Cardinality(Held(Queues) \union lost) \in Nat
<1>1. IsFiniteSet(Held(Queues) \union lost)
  BY IssuedSeqsFacts, FS_Subset DEF InFlight
<1>2. IsFiniteSet(lost)
  BY <1>1, FS_Subset
<1> QED BY <1>1, <1>2, FS_CardinalityType

\* One more task of the round, sent or refused.
LEMMA SendInFlight ==
  ASSUME TypeOK, LoopInv, InFlight, server_sendtestmsg
  PROVE  /\ InFlight'
         /\ Held(Queues') \union lost' = (Held(Queues) \union lost) \union {outmsg}
<1>1. /\ outmsg \notin IssuedSeqs /\ IssuedSeqs' = IssuedSeqs \union {outmsg}
      /\ Issued' = Issued + 1 /\ acks' = acks /\ acks \in Nat /\ Issued \in Nat
  BY SendIsFresh, SendLoopStep, IssuedFacts, ConstAssumption DEF server_sendtestmsg, TypeOK, Total
<1>2. outmsg \notin Held(Queues) /\ outmsg \notin lost
  BY <1>1 DEF InFlight
<1>3. ASSUME Settled(Queues'), Spread(Queues'),
             \/ Held(Queues') = Held(Queues) \union {outmsg} /\ lost' = lost
             \/ Held(Queues') = Held(Queues) /\ lost' = lost \union {outmsg}
      PROVE  /\ InFlight'
             /\ Held(Queues') \union lost' = (Held(Queues) \union lost) \union {outmsg}
  <2>1. Held(Queues') \union lost' = (Held(Queues) \union lost) \union {outmsg}
    BY <1>3
  <2>2. Cardinality(Held(Queues') \union lost') = Cardinality(Held(Queues) \union lost) + 1
    BY <1>2, <2>1, InFlightFinite, FS_AddElement
  <2>3. Held(Queues') \cap lost' = {}
    BY <1>2, <1>3 DEF InFlight
  <2>4. Cardinality(Held(Queues') \union lost') + acks' = Issued'
    BY <1>1, <2>2, InFlightFinite DEF InFlight
  <2> QED BY <1>1, <1>3, <2>1, <2>3, <2>4 DEF InFlight
<1>4. CASE toClient' = [toClient EXCEPT ![si] = Append(@, NewTask(si))] /\ UNCHANGED lost
  <2> DEFINE x == <<"toClient", si, 0>>
             p == NewTask(si)
  <2>1. Queues' = Pushed(Queues, x, p) /\ Queues \in QueueMap(Place) /\ x \in Place
    BY <1>4, SendPushes, QueuesAre, PlaceNames DEF TypeOK
  <2>2. p \in Packet /\ p.bin.seq = outmsg /\ p.bin.status = "UNDONE"
    BY NewTaskType DEF NewTask, encappkt, TypeOK
  <2> HIDE DEF x, p
  <2>3. Spread(Queues') /\ Held(Queues') = Held(Queues) \union {p.bin.seq}
    BY <1>2, <2>1, <2>2, PushHeld DEF InFlight
  <2>4. Settled(Queues')
    BY <2>1, <2>2, PushSettled DEF InFlight
  <2> QED BY <1>3, <1>4, <2>2, <2>3, <2>4
<1>5. CASE lost' = lost \union {outmsg} /\ UNCHANGED toClient
  <2>1. Queues' = Queues
    BY <1>5 DEF Queues, server_sendtestmsg
  <2> QED BY <1>3, <1>5, <2>1 DEF InFlight
<1> QED BY <1>4, <1>5 DEF server_sendtestmsg

\* One acknowledgement takes one task off.
LEMMA ReceiveInFlight ==
  ASSUME TypeOK, InFlight, NEW m \in Machine, ServerReceive(m)
  PROVE  /\ InFlight'
         /\ \E s \in Held(Queues) : Held(Queues') = Held(Queues) \ {s}
<1> DEFINE x == <<"toServer", m, 0>>
           s == Head(Queues[x]).bin.seq
<1>1. /\ Queues \in QueueMap(Place) /\ x \in Place /\ Queues[x] # <<>>
      /\ Queues' = Popped(Queues, x)
  BY ReceivePops, QueuesAre, PlaceNames
<1> HIDE DEF x
<1>2. Spread(Queues') /\ s \in Held(Queues) /\ Held(Queues') = Held(Queues) \ {s}
  BY <1>1, PopHeld DEF InFlight
<1>3. Settled(Queues')
  BY <1>1, PopSettled DEF InFlight
<1> HIDE DEF s
<1>4. UNCHANGED <<lost, spc, si, sj, outmsg>> /\ acks' = acks + 1
  BY DEF ServerReceive
<1>5. Issued' = Issued /\ IssuedSeqs' = IssuedSeqs
  BY <1>4 DEF Issued, IssuedSeqs
<1>6. s \notin lost
  BY <1>2 DEF InFlight
<1>7. Held(Queues') \union lost' = (Held(Queues) \union lost) \ {s}
  BY <1>2, <1>4, <1>6
<1>8. Cardinality(Held(Queues') \union lost') = Cardinality(Held(Queues) \union lost) - 1
  BY <1>2, <1>7, InFlightFinite, FS_RemoveElement
<1>9. Cardinality(Held(Queues') \union lost') + acks' = Issued'
  BY <1>4, <1>5, <1>8, InFlightFinite DEF InFlight, TypeOK
<1>10. InFlight'
  BY <1>2, <1>3, <1>4, <1>5, <1>7, <1>9 DEF InFlight
<1> QED BY <1>2, <1>10

\* A round ends with nothing in flight.
LEMMA RoundEndInFlight ==
  ASSUME TypeOK, LoopInv, InFlight, RoundEnd
  PROVE  InFlight' /\ Held(Queues) = {} /\ lost = {} /\ IssuedSeqs' = {}
<1>1. /\ spc = "recv" /\ ~(acks < Total) /\ spc' = "send" /\ acks' = 0 /\ si = 0 /\ sj = 0
      /\ UNCHANGED <<si, sj, outmsg, lost>> /\ Queues' = Queues
  BY DEF RoundEnd, MoreAcks, LoopInv, netVars, Queues
<1>2. Issued = Total /\ Issued' = 0 /\ Total \in Nat
  BY <1>1, ConstAssumption DEF Issued, Total
<1>3. Cardinality(Held(Queues) \union lost) = 0
  BY <1>1, <1>2, InFlightFinite DEF InFlight, TypeOK
<1>4. Held(Queues) \union lost = {}
  BY <1>3, InFlightFinite, FS_EmptySet
<1>5. IssuedSeqs' = {}
  BY <1>2 DEF IssuedSeqs
<1>6. InFlight'
  BY <1>1, <1>2, <1>4, <1>5, FS_EmptySet DEF InFlight
<1> QED BY <1>4, <1>5, <1>6

\* Neither the server nor the set of open tasks changes.
TasksStay ==
  /\ UNCHANGED serverVars /\ spc # "waitforall"
  /\ Held(Queues') \union lost' = Held(Queues) \union lost

\* A task moves from its channel to s2w.
LEMMA ClientReceiveKeeps ==
  ASSUME TypeOK, AckInv, CopyInv, NEW m \in Machine, ClientReceive(m)
  PROVE  CopyInv' /\ TasksStay
<1>0. Queues \in QueueMap(Place)
  BY QueuesAre
<1> DEFINE x == <<"toClient", m, 0>>
           y == <<"s2w", m, 0>>
           p == Head(Queues[x])
<1>1. /\ x \in Place /\ y \in Place /\ Queues[x] # <<>>
      /\ Queues' = Pushed(Popped(Queues, x), y, p)
  BY ClientReceiveMoves, PlaceNames
<1>2. UNCHANGED <<lost, serverVars, task>> /\ spc # "waitforall"
  BY DEF ClientReceive, client_async_receivemsg, AckInv, BootPhase
<1> HIDE DEF x, y
<1>3. p \in Packet /\ p.bin.status # "none"
  BY <1>0, <1>1, <1>2, PopSettled DEF CopyInv, InFlight
<1> HIDE DEF p
<1>4. Settled(Queues') /\ Spread(Queues') /\ Held(Queues') = Held(Queues)
  BY <1>0, <1>1, <1>2, <1>3, MoveKeeps DEF CopyInv, InFlight, p
<1>5. InFlight'
  BY <1>2, <1>4, InFlightKept DEF CopyInv
<1> QED BY <1>2, <1>4, <1>5 DEF CopyInv, HandsInv, serverVars, TasksStay

\* A finished task moves from w2s to its channel or is refused.
LEMMA ClientSendDoneKeeps ==
  ASSUME TypeOK, AckInv, CopyInv, NEW m \in Machine, ClientSendDone(m)
  PROVE  CopyInv' /\ TasksStay
<1>0. Queues \in QueueMap(Place)
  BY QueuesAre
<1> DEFINE x == <<"w2s", m, 0>>
           y == <<"toServer", m, 0>>
           p == Head(Queues[x])
           d == DonePacket(m, p)
<1>1. /\ x \in Place /\ y \in Place /\ Queues[x] = w2s[m] /\ w2s[m] # <<>>
      /\ UNCHANGED <<serverVars, task>> /\ spc # "waitforall"
  BY QueuesAre, PlaceNames
     DEF QueueNames, ClientSendDone, client_putback_task, AckInv, BootPhase
<1>2. p \in Packet /\ p.bin.status # "none"
  BY <1>0, <1>1, PopSettled DEF CopyInv, InFlight
<1>3. d \in Packet /\ d.bin.seq = p.bin.seq /\ d.bin.status # "none"
  BY <1>2, DonePacketType DEF DonePacket, encappkt
<1>4. CASE toServer' = [toServer EXCEPT ![m] = Append(@, DonePacket(m, Head(w2s[m])))] /\ UNCHANGED lost
  <2>1. Queues' = Pushed(Popped(Queues, x), y, d)
    BY <1>4, SendDoneMoves
  <2> HIDE DEF x, y, d
  <2>2. Settled(Queues') /\ Spread(Queues') /\ Held(Queues') = Held(Queues)
    BY <1>0, <1>1, <1>3, <2>1, MoveKeeps DEF CopyInv, InFlight
  <2>3. InFlight'
    BY <1>1, <1>4, <2>2, InFlightKept DEF CopyInv
  <2> QED BY <1>1, <1>4, <2>2, <2>3 DEF CopyInv, HandsInv, serverVars, TasksStay
<1>5. CASE lost' = lost \union {Head(w2s[m]).bin.seq} /\ UNCHANGED toServer
  <2> DEFINE s == p.bin.seq
  <2>1. Queues' = Popped(Queues, x)
    BY <1>5, SendDoneLoses
  <2>2. lost' = lost \union {s}
    BY <1>1, <1>5
  <2> HIDE DEF x
  <2>3. Settled(Queues') /\ Spread(Queues') /\ s \in Held(Queues) /\ Held(Queues') = Held(Queues) \ {s}
    BY <1>0, <1>1, <2>1, PopHeld, PopSettled DEF CopyInv, InFlight
  <2> HIDE DEF s
  <2>4. Held(Queues') \union lost' = Held(Queues) \union lost /\ Held(Queues') \cap lost' = {}
    BY <1>1, <2>2, <2>3 DEF CopyInv, InFlight
  <2>5. Issued' = Issued /\ IssuedSeqs' = IssuedSeqs /\ acks' = acks
    BY <1>1 DEF Issued, IssuedSeqs, serverVars
  <2>6. InFlight'
    BY <1>1, <2>3, <2>4, <2>5 DEF CopyInv, InFlight
  <2> QED BY <1>1, <2>4, <2>6 DEF CopyInv, HandsInv, serverVars, TasksStay
<1> QED BY <1>4, <1>5 DEF ClientSendDone, client_sendtestmsg_wt_buffer

\* A task moves from s2w to a worker's hands.
LEMMA WorkerGetKeeps ==
  ASSUME TypeOK, AckInv, CopyInv, NEW m \in Machine, NEW w \in Worker, worker_get_task(m, w)
  PROVE  CopyInv' /\ TasksStay
<1>0. Queues \in QueueMap(Place)
  BY QueuesAre
<1> DEFINE x == <<"s2w", m, 0>>
           y == <<"task", m, w>>
           p == Head(Queues[x])
<1>1. /\ x \in Place /\ y \in Place /\ Queues[x] # <<>> /\ Queues[x] = s2w[m]
      /\ Queues' = Pushed(Popped(Queues, x), y, p)
  BY WorkerGetMoves, PlaceNames, QueuesAre DEF QueueNames
<1>2. UNCHANGED <<lost, serverVars>> /\ spc # "waitforall"
  BY DEF worker_get_task, netVars, AckInv, BootPhase
<1> HIDE DEF x, y
<1>3. p \in Packet /\ p.bin.status # "none"
  BY <1>0, <1>1, <1>2, PopSettled DEF CopyInv, InFlight
<1>4. HandsInv'
  <2>1. task' = [task EXCEPT ![m][w] = <<p>>]
    BY <1>1 DEF worker_get_task
  <2> HIDE DEF p
  <2>2. ASSUME NEW n \in Machine, NEW v \in Worker
        PROVE  task'[n][v] = <<>> \/ \E q \in Packet : task'[n][v] = <<q>>
    <3>1. task'[n][v] = <<p>> \/ task'[n][v] = task[n][v]
      BY <2>1 DEF TypeOK
    <3> QED BY <1>3, <3>1 DEF CopyInv, HandsInv
  <2> QED BY <2>2 DEF HandsInv
<1> HIDE DEF p
<1>5. Settled(Queues') /\ Spread(Queues') /\ Held(Queues') = Held(Queues)
  BY <1>0, <1>1, <1>2, <1>3, MoveKeeps DEF CopyInv, InFlight, p
<1>6. InFlight'
  BY <1>2, <1>5, InFlightKept DEF CopyInv
<1> QED BY <1>2, <1>4, <1>5, <1>6 DEF CopyInv, serverVars, TasksStay

\* A finished task moves from a worker's hands to w2s.
LEMMA WorkerPutKeeps ==
  ASSUME TypeOK, AckInv, CopyInv, NEW m \in Machine, NEW w \in Worker, worker_putback_task(m, w)
  PROVE  CopyInv' /\ TasksStay
<1>0. Queues \in QueueMap(Place)
  BY QueuesAre
<1> DEFINE x == <<"task", m, w>>
           y == <<"w2s", m, 0>>
           p == Head(Queues[x])
           d == FinishTask(p)
<1>1. /\ x \in Place /\ y \in Place /\ Queues[x] # <<>>
      /\ Queues' = Pushed(Popped(Queues, x), y, d)
  BY WorkerPutMoves, PlaceNames DEF CopyInv
<1>2. UNCHANGED <<lost, serverVars>> /\ spc # "waitforall"
  BY DEF worker_putback_task, netVars, AckInv, BootPhase
<1> HIDE DEF x, y
<1>3. p \in Packet
  BY <1>0, <1>1, <1>2, PopSettled DEF CopyInv, InFlight
<1> HIDE DEF p
<1>4. d \in Packet /\ d.bin.seq = p.bin.seq /\ d.bin.status # "none"
  BY <1>3, FinishTaskType DEF FinishTask, Packet, Msg
<1>5. HandsInv'
  <2>1. task' = [task EXCEPT ![m][w] = <<>>]
    BY DEF worker_putback_task
  <2>2. ASSUME NEW n \in Machine, NEW v \in Worker
        PROVE  task'[n][v] = <<>> \/ task'[n][v] = task[n][v]
    BY <2>1 DEF TypeOK
  <2> QED BY <2>2 DEF CopyInv, HandsInv
<1> HIDE DEF d
<1>6. Settled(Queues') /\ Spread(Queues') /\ Held(Queues') = Held(Queues)
  BY <1>0, <1>1, <1>2, <1>4, MoveKeeps DEF CopyInv, InFlight, p
<1>7. InFlight'
  BY <1>2, <1>6, InFlightKept DEF CopyInv
<1> QED BY <1>2, <1>5, <1>6, <1>7 DEF CopyInv, serverVars, TasksStay

\* Every step preserves CopyInv.
LEMMA CopyStep == TypeOK /\ AckInv /\ LoopInv /\ CopyInv /\ [Next]_vars => CopyInv'
<1> SUFFICES ASSUME TypeOK, AckInv, LoopInv, CopyInv, [Next]_vars PROVE CopyInv'
  OBVIOUS
<1>1. ASSUME NEW m \in Machine, waitforall(m) PROVE CopyInv'
  <2>1. spc = "waitforall" /\ BootPhase /\ lost = {} /\ UNCHANGED <<lost, task, acks>> /\ acks = 0
    BY <1>1 DEF waitforall, AckInv, CopyInv, LoopInv
  <2>2. HandsInv'
    BY <2>1 DEF HandsInv, CopyInv
  <2>3. CASE spc' = "waitforall"
    BY <2>1, <2>2, <2>3 DEF CopyInv
  <2>4. CASE spc' # "waitforall"
    <3>1. \A n \in Machine : toServer'[n] = <<>>
      BY <1>1, <2>1, <2>4, LastHeartbeat
    <3>2. /\ Settled(QueuesOf(toClient', s2w', w2s', toServer', task'))
          /\ Spread(QueuesOf(toClient', s2w', w2s', toServer', task'))
          /\ Held(QueuesOf(toClient', s2w', w2s', toServer', task')) = {}
      <4>1. UNCHANGED <<toClient, s2w, w2s, task>>
        BY <1>1 DEF waitforall
      <4>2. \A n \in Machine : /\ toClient'[n] = <<>> /\ s2w'[n] = <<>> /\ w2s'[n] = <<>> /\ toServer'[n] = <<>>
                               /\ \A w \in Worker : task'[n][w] = <<>>
        BY <2>1, <3>1, <4>1 DEF BootPhase
      <4> QED BY <4>2, QueuesEmpty
    <3>3. Settled(Queues') /\ Spread(Queues') /\ Held(Queues') = {}
      BY <3>2 DEF Queues
    <3>4. Issued' = 0
      BY <1>1, <2>1, <2>4, ConstAssumption DEF Issued, LoopInv, waitforall
    <3>5. InFlight'
      BY <2>1, <3>3, <3>4, FS_EmptySet DEF InFlight
    <3> QED BY <2>1, <2>2, <2>4, <3>5 DEF CopyInv
  <2> QED BY <2>3, <2>4
<1>2. ASSUME NEW m \in Machine, ServerReceive(m) PROVE CopyInv'
  <2>1. spc = "recv" /\ spc' = "recv" /\ UNCHANGED task
    BY <1>2 DEF ServerReceive
  <2>2. InFlight'
    BY <1>2, <2>1, ReceiveInFlight DEF CopyInv
  <2> QED BY <2>1, <2>2 DEF CopyInv, HandsInv
<1>3. CASE server_sendtestmsg
  <2>1. spc = "send" /\ spc' # "waitforall" /\ UNCHANGED task
    BY <1>3 DEF server_sendtestmsg, AdvanceSendLoop
  <2>2. InFlight'
    BY <1>3, <2>1, SendInFlight DEF CopyInv
  <2> QED BY <2>1, <2>2 DEF CopyInv, HandsInv
<1>4. CASE RoundEnd
  <2>1. spc = "recv" /\ spc' = "send" /\ UNCHANGED task
    BY <1>4 DEF RoundEnd
  <2>2. InFlight'
    BY <1>4, <2>1, RoundEndInFlight DEF CopyInv
  <2> QED BY <2>1, <2>2 DEF CopyInv, HandsInv
<1>5. ASSUME NEW m \in Machine, sendheartbeat(m) PROVE CopyInv'
  <2>1. spc = "waitforall" /\ spc' = spc /\ UNCHANGED <<lost, task>>
    BY <1>5 DEF sendheartbeat, AckInv, serverVars
  <2> QED BY <2>1 DEF CopyInv, HandsInv
<1>6. ASSUME UNCHANGED <<serverVars, toServer, toClient, lost, task, s2w, w2s>> PROVE CopyInv'
  <2>1. UNCHANGED <<Queues, lost, task, spc, acks, Issued, IssuedSeqs>>
    BY <1>6 DEF Queues, serverVars, Issued, IssuedSeqs
  <2> QED BY <2>1 DEF CopyInv, HandsInv, InFlight
<1>7. ASSUME NEW m \in Machine, ClientPass(m) PROVE CopyInv'
  BY <1>6, <1>7 DEF ClientPass, netVars
<1>8. ASSUME NEW m \in Machine, ClientReceive(m) PROVE CopyInv'
  BY <1>8, ClientReceiveKeeps
<1>9. ASSUME NEW m \in Machine, ClientSendDone(m) PROVE CopyInv'
  BY <1>9, ClientSendDoneKeeps
<1>10. ASSUME NEW m \in Machine, NEW w \in Worker, WorkerArrive(m, w) \/ WorkerPass(m, w)
       PROVE  CopyInv'
  BY <1>6, <1>10 DEF WorkerArrive, WorkerPass, netVars
<1>11. ASSUME NEW m \in Machine, NEW w \in Worker, worker_get_task(m, w) PROVE CopyInv'
  BY <1>11, WorkerGetKeeps
<1>12. ASSUME NEW m \in Machine, NEW w \in Worker, worker_putback_task(m, w) PROVE CopyInv'
  BY <1>12, WorkerPutKeeps
<1>13. CASE UNCHANGED vars
  BY <1>6, <1>13 DEF vars, serverVars
<1> QED
  BY <1>1, <1>2, <1>3, <1>4, <1>5, <1>7, <1>8, <1>9, <1>10, <1>11, <1>12, <1>13
     DEF Next, ServerNext, ClientNext, WorkerNext

\* CopyInv is an invariant.
LEMMA CopyCorrect == Spec => []CopyInv
<1>1. Init => CopyInv
  BY DEF Init, CopyInv, HandsInv
<1> QED BY <1>1, CopyStep, TypeCorrect, AckCorrect, LoopCorrect, PTL DEF Spec

\* The tuple by which Copies names the packet at position k of place x.
CopyAt(x, k) == <<x[1], x[2], x[3], k, Queues[x][k].bin.seq>>

\* The members of TasksIn.
LEMMA TasksInIs ==
  ASSUME NEW place, NEW m, NEW w, NEW q, NEW c
  PROVE  c \in TasksIn(place, m, w, q) <=>
           \E k \in DOMAIN q : /\ q[k].bin.status # "none"
                               /\ c = <<place, m, w, k, q[k].bin.seq>>
  BY DEF TasksIn

\* The members of Copies, place by place.
LEMMA CopiesAre ==
  ASSUME NEW c
  PROVE  c \in Copies <=>
           \/ \E m \in Machine : \/ c \in TasksIn("toClient", m, 0, toClient[m])
                                 \/ c \in TasksIn("s2w", m, 0, s2w[m])
                                 \/ c \in TasksIn("w2s", m, 0, w2s[m])
                                 \/ c \in TasksIn("toServer", m, 0, toServer[m])
           \/ \E m \in Machine : \E w \in Worker : c \in TasksIn("task", m, w, task[m][w])
           \/ \E s \in lost : c = <<"lost", 0, 0, 0, s>>
<1>1. c \in Copies <=> \/ \E m \in Machine : c \in TasksAt(m)
                       \/ \E s \in lost : c = <<"lost", 0, 0, 0, s>>
  <2> DEFINE A == UNION {TasksAt(m) : m \in Machine}
             L == {<<"lost", 0, 0, 0, s>> : s \in lost}
  <2>1. Copies = A \union L
    BY DEF Copies
  <2>2. c \in A <=> \E m \in Machine : c \in TasksAt(m)
    OBVIOUS
  <2>3. c \in L <=> \E s \in lost : c = <<"lost", 0, 0, 0, s>>
    OBVIOUS
  <2> HIDE DEF A, L
  <2>4. c \in Copies <=> c \in A \/ c \in L
    BY <2>1
  <2> QED BY <2>2, <2>3, <2>4
<1>2. ASSUME NEW m \in Machine
      PROVE  c \in TasksAt(m) <=> \/ c \in TasksIn("toClient", m, 0, toClient[m])
                                 \/ c \in TasksIn("s2w", m, 0, s2w[m])
                                 \/ c \in TasksIn("w2s", m, 0, w2s[m])
                                 \/ c \in TasksIn("toServer", m, 0, toServer[m])
                                 \/ \E w \in Worker : c \in TasksIn("task", m, w, task[m][w])
  BY DEF TasksAt
<1> QED BY <1>1, <1>2, Zenon

\* Every member of Copies is a refused number or a packet in a queue.
LEMMA CopiesElim ==
  ASSUME TypeOK, NEW c \in Copies
  PROVE  \/ \E s \in lost : c = <<"lost", 0, 0, 0, s>>
         \/ \E x \in Place : \E k \in DOMAIN Queues[x] :
              Queues[x][k].bin.status # "none" /\ c = CopyAt(x, k)
<1>1. QueueNames(Queues, toClient, s2w, w2s, toServer, task)
  BY QueuesAre
<1>2. ASSUME NEW m \in Machine, NEW w, NEW place, NEW q, NEW x, x = <<place, m, w>>,
             x \in Place, Queues[x] = q, c \in TasksIn(place, m, w, q)
      PROVE  \E y \in Place : \E k \in DOMAIN Queues[y] :
               Queues[y][k].bin.status # "none" /\ c = CopyAt(y, k)
  <2>1. PICK k \in DOMAIN q : q[k].bin.status # "none" /\ c = <<place, m, w, k, q[k].bin.seq>>
    BY <1>2, TasksInIs
  <2>2. x[1] = place /\ x[2] = m /\ x[3] = w
    BY <1>2
  <2>3. c = CopyAt(x, k)
    BY <1>2, <2>1, <2>2 DEF CopyAt
  <2> QED BY <1>2, <2>1, <2>3
<1>3. CASE \E m \in Machine : \/ c \in TasksIn("toClient", m, 0, toClient[m])
                              \/ c \in TasksIn("s2w", m, 0, s2w[m])
                              \/ c \in TasksIn("w2s", m, 0, w2s[m])
                              \/ c \in TasksIn("toServer", m, 0, toServer[m])
  <2>1. PICK m \in Machine : \/ c \in TasksIn("toClient", m, 0, toClient[m])
                             \/ c \in TasksIn("s2w", m, 0, s2w[m])
                             \/ c \in TasksIn("w2s", m, 0, w2s[m])
                             \/ c \in TasksIn("toServer", m, 0, toServer[m])
    BY <1>3
  <2>2. /\ <<"toClient", m, 0>> \in Place /\ Queues[<<"toClient", m, 0>>] = toClient[m]
        /\ <<"s2w", m, 0>> \in Place /\ Queues[<<"s2w", m, 0>>] = s2w[m]
        /\ <<"w2s", m, 0>> \in Place /\ Queues[<<"w2s", m, 0>>] = w2s[m]
        /\ <<"toServer", m, 0>> \in Place /\ Queues[<<"toServer", m, 0>>] = toServer[m]
    BY <1>1, PlaceNames DEF QueueNames
  <2>3. CASE c \in TasksIn("toClient", m, 0, toClient[m])
    BY <1>2, <2>2, <2>3
  <2>4. CASE c \in TasksIn("s2w", m, 0, s2w[m])
    BY <1>2, <2>2, <2>4
  <2>5. CASE c \in TasksIn("w2s", m, 0, w2s[m])
    BY <1>2, <2>2, <2>5
  <2>6. CASE c \in TasksIn("toServer", m, 0, toServer[m])
    BY <1>2, <2>2, <2>6
  <2> QED BY <2>1, <2>3, <2>4, <2>5, <2>6
<1>4. CASE \E m \in Machine : \E w \in Worker : c \in TasksIn("task", m, w, task[m][w])
  <2>1. PICK m \in Machine : \E w \in Worker : c \in TasksIn("task", m, w, task[m][w])
    BY <1>4
  <2>2. PICK w \in Worker : c \in TasksIn("task", m, w, task[m][w])
    BY <2>1
  <2>3. <<"task", m, w>> \in Place /\ Queues[<<"task", m, w>>] = task[m][w]
    BY <1>1, PlaceNames DEF QueueNames
  <2> QED BY <1>2, <2>2, <2>3
<1>5. CASE \E s \in lost : c = <<"lost", 0, 0, 0, s>>
  BY <1>5
<1>6. \/ \E m \in Machine : \/ c \in TasksIn("toClient", m, 0, toClient[m])
                            \/ c \in TasksIn("s2w", m, 0, s2w[m])
                            \/ c \in TasksIn("w2s", m, 0, w2s[m])
                            \/ c \in TasksIn("toServer", m, 0, toServer[m])
      \/ \E m \in Machine : \E w \in Worker : c \in TasksIn("task", m, w, task[m][w])
      \/ \E s \in lost : c = <<"lost", 0, 0, 0, s>>
  BY CopiesAre
<1> QED BY <1>3, <1>4, <1>5, <1>6

\* Every refused number and every task packet is in Copies.
LEMMA CopiesIntro ==
  ASSUME TypeOK
  PROVE  /\ \A s \in lost : <<"lost", 0, 0, 0, s>> \in Copies
         /\ \A x \in Place : \A k \in DOMAIN Queues[x] :
              Queues[x][k].bin.status # "none" => CopyAt(x, k) \in Copies
<1>1. QueueNames(Queues, toClient, s2w, w2s, toServer, task)
  BY QueuesAre
<1>2. ASSUME NEW m \in Machine, NEW c
      PROVE  /\ c \in TasksIn("toClient", m, 0, toClient[m]) => c \in Copies
             /\ c \in TasksIn("s2w", m, 0, s2w[m]) => c \in Copies
             /\ c \in TasksIn("w2s", m, 0, w2s[m]) => c \in Copies
             /\ c \in TasksIn("toServer", m, 0, toServer[m]) => c \in Copies
             /\ \A w \in Worker : c \in TasksIn("task", m, w, task[m][w]) => c \in Copies
  BY CopiesAre
<1>3. ASSUME NEW s \in lost PROVE <<"lost", 0, 0, 0, s>> \in Copies
  BY CopiesAre, Zenon
<1>4. ASSUME NEW x \in Place, NEW k \in DOMAIN Queues[x], Queues[x][k].bin.status # "none"
      PROVE  CopyAt(x, k) \in Copies
  <2>1. CopyAt(x, k) \in TasksIn(x[1], x[2], x[3], Queues[x])
    BY <1>4, TasksInIs DEF CopyAt
  <2>2. ASSUME NEW m \in Machine, x = <<"toClient", m, 0>> PROVE CopyAt(x, k) \in Copies
    BY <1>1, <1>2, <2>1, <2>2 DEF QueueNames
  <2>3. ASSUME NEW m \in Machine, x = <<"s2w", m, 0>> PROVE CopyAt(x, k) \in Copies
    BY <1>1, <1>2, <2>1, <2>3 DEF QueueNames
  <2>4. ASSUME NEW m \in Machine, x = <<"w2s", m, 0>> PROVE CopyAt(x, k) \in Copies
    BY <1>1, <1>2, <2>1, <2>4 DEF QueueNames
  <2>5. ASSUME NEW m \in Machine, x = <<"toServer", m, 0>> PROVE CopyAt(x, k) \in Copies
    BY <1>1, <1>2, <2>1, <2>5 DEF QueueNames
  <2>6. ASSUME NEW m \in Machine, NEW w \in Worker, x = <<"task", m, w>> PROVE CopyAt(x, k) \in Copies
    BY <1>1, <1>2, <2>1, <2>6 DEF QueueNames
  <2> QED BY <2>2, <2>3, <2>4, <2>5, <2>6, PlaceCases
<1> QED BY <1>3, <1>4

\* The open tasks are the numbers in the queues and the refused ones.
LEMMA OpenIs ==
  ASSUME TypeOK, AckInv, CopyInv
  PROVE  /\ spc = "waitforall" => Copies = {} /\ Open = {}
         /\ spc # "waitforall" => Open = Held(Queues) \union lost
<1>0. Queues \in QueueMap(Place) /\ DOMAIN Queues = Place
  BY QueuesAre DEF QueueMap
<1>1. CASE spc = "waitforall"
  <2>1. BootPhase /\ lost = {}
    BY <1>1 DEF AckInv, CopyInv
  <2>2. ASSUME NEW c, NEW m \in Machine PROVE c \notin TasksIn("toServer", m, 0, toServer[m])
    <3>1. toServer[m] = <<>> \/ toServer[m] = <<Heartbeat(m)>>
      BY <2>1 DEF BootPhase
    <3>2. Heartbeat(m).bin.status = "none"
      BY DEF Heartbeat, encappkt
    <3>3. \A k \in DOMAIN toServer[m] : toServer[m][k].bin.status = "none"
      BY <3>1, <3>2
    <3> QED BY <3>3, TasksInIs
  <2>3. ASSUME NEW c, NEW place, NEW m, NEW w PROVE c \notin TasksIn(place, m, w, <<>>)
    BY TasksInIs
  <2>4. ASSUME NEW c PROVE c \notin Copies
    BY <2>1, <2>2, <2>3, CopiesAre DEF BootPhase
  <2>5. Copies = {}
    BY <2>4
  <2> QED BY <1>1, <2>5 DEF Open
<1>2. CASE spc # "waitforall"
  <2>1. InFlight
    BY <1>2 DEF CopyInv
  <2>2. ASSUME NEW x \in Place, NEW k \in DOMAIN Queues[x]
        PROVE  /\ Queues[x][k].bin.status # "none"
               /\ Queues[x][k].bin.seq \in Held(Queues)
               /\ CopyAt(x, k)[5] = Queues[x][k].bin.seq
    <3>1. Queues[x][k] \in Range(Queues[x])
      BY DEF Range
    <3>2. Queues[x][k].bin.status # "none"
      BY <1>0, <2>1, <3>1 DEF InFlight, Settled
    <3> QED BY <1>0, <3>2, HeldIntro DEF CopyAt
  <2>3. ASSUME NEW c \in Copies PROVE c[5] \in Held(Queues) \union lost
    <3>1. CASE \E s \in lost : c = <<"lost", 0, 0, 0, s>>
      BY <3>1
    <3>2. CASE \E x \in Place : \E k \in DOMAIN Queues[x] : c = CopyAt(x, k)
      BY <2>2, <3>2
    <3> QED BY <3>1, <3>2, CopiesElim
  <2>4. ASSUME NEW e \in Held(Queues) \union lost PROVE \E c \in Copies : c[5] = e
    <3>1. CASE e \in lost
      <4>1. <<"lost", 0, 0, 0, e>> \in Copies
        BY <3>1, CopiesIntro
      <4>2. <<"lost", 0, 0, 0, e>>[5] = e
        OBVIOUS
      <4> QED BY <4>1, <4>2, Zenon
    <3>2. CASE e \in Held(Queues)
      <4>1. PICK x \in Place : \E i \in DOMAIN Queues[x] : e = Queues[x][i].bin.seq
        BY <1>0, <3>2, HeldElim
      <4>2. PICK k \in DOMAIN Queues[x] : e = Queues[x][k].bin.seq
        BY <4>1
      <4>3. CopyAt(x, k) \in Copies /\ CopyAt(x, k)[5] = e
        BY <2>2, <4>2, CopiesIntro
      <4> QED BY <4>3
    <3> QED BY <3>1, <3>2
  <2>5. Open = Held(Queues) \union lost
    BY <2>3, <2>4 DEF Open
  <2> QED BY <1>2, <2>5
<1> QED BY <1>1, <1>2

\* For every number of machines and threads and any speeds: a task number is
\* never in two places and never vanishes between two queues.
THEOREM TasksAreConserved == Spec => []TasksConserved
<1>1. TypeOK /\ AckInv /\ LoopInv /\ CopyInv => TasksConserved
  <2> SUFFICES ASSUME TypeOK, AckInv, LoopInv, CopyInv PROVE TasksConserved
    OBVIOUS
  <2>1. CASE spc = "waitforall"
    <3>1. Copies = {} /\ Open = {} /\ acks = 0 /\ Issued = 0
      BY <2>1, OpenIs, IssuedFacts DEF LoopInv
    <3> QED BY <3>1, FS_EmptySet DEF TasksConserved
  <2>2. CASE spc # "waitforall"
    <3>1. InFlight /\ Open = Held(Queues) \union lost
      BY <2>2, OpenIs DEF CopyInv
    <3>2. DOMAIN Queues = Place
      BY QueuesAre DEF QueueMap
    <3>3. ASSUME NEW c \in Copies, NEW d \in Copies, c[5] = d[5] PROVE c = d
      <4>1. ASSUME NEW x \in Place, NEW k \in DOMAIN Queues[x]
            PROVE  CopyAt(x, k)[5] = Queues[x][k].bin.seq /\ CopyAt(x, k)[5] \notin lost
        <5>1. CopyAt(x, k)[5] = Queues[x][k].bin.seq
          BY DEF CopyAt
        <5>2. Queues[x][k].bin.seq \in Held(Queues)
          BY <3>2, HeldIntro
        <5> QED BY <3>1, <5>1, <5>2 DEF InFlight
      <4>2. CASE (\E s \in lost : c = <<"lost", 0, 0, 0, s>>) /\ (\E s \in lost : d = <<"lost", 0, 0, 0, s>>)
        BY <3>3, <4>2
      <4>3. CASE /\ \E s \in lost : c = <<"lost", 0, 0, 0, s>>
                 /\ \E x \in Place : \E k \in DOMAIN Queues[x] : d = CopyAt(x, k)
        BY <3>3, <4>1, <4>3
      <4>4. CASE /\ \E s \in lost : d = <<"lost", 0, 0, 0, s>>
                 /\ \E x \in Place : \E k \in DOMAIN Queues[x] : c = CopyAt(x, k)
        BY <3>3, <4>1, <4>4
      <4>5. ASSUME NEW x \in Place, NEW k \in DOMAIN Queues[x], c = CopyAt(x, k),
                   NEW y \in Place, NEW j \in DOMAIN Queues[y], d = CopyAt(y, j)
            PROVE  c = d
        <5>1. Queues[x][k].bin.seq = Queues[y][j].bin.seq
          BY <3>3, <4>1, <4>5
        <5>2. x = y /\ k = j
          BY <3>1, <3>2, <5>1 DEF InFlight, Spread
        <5> QED BY <4>5, <5>2
      <4> QED BY <4>2, <4>3, <4>4, <4>5, CopiesElim
    <3> QED BY <3>1, <3>3 DEF TasksConserved, InFlight
  <2> QED BY <2>1, <2>2
<1> QED BY <1>1, TypeCorrect, AckCorrect, LoopCorrect, CopyCorrect, PTL

\* For every size of the attached buffers: a round with a refused packet cannot
\* reach its last acknowledgement, and no later round starts.
THEOREM LossStalls == Spec => []LossStallsRound
<1>1. TypeOK /\ CopyInv => LossStallsRound
  <2> SUFFICES ASSUME TypeOK, CopyInv, lost # {}
               PROVE  acks + Cardinality(lost) <= Total /\ lost \subseteq IssuedSeqs
    BY DEF LossStallsRound
  <2>1. InFlight
    BY DEF CopyInv
  <2>2. Cardinality(lost) <= Cardinality(Held(Queues) \union lost)
    BY <2>1, InFlightFinite, FS_Subset
  <2>3. Cardinality(lost) \in Nat /\ Total \in Nat
    BY <2>1, InFlightFinite, FS_CardinalityType, ConstAssumption DEF Total
  <2>4. acks + Cardinality(lost) <= Total
    <3>1. Cardinality(Held(Queues) \union lost) + acks = Issued
      BY <2>1 DEF InFlight
    <3>2. Issued \in 0 .. Total /\ acks \in Nat /\ Cardinality(Held(Queues) \union lost) \in Nat
      BY <2>1, InFlightFinite, IssuedFacts DEF TypeOK
    <3> QED BY <2>2, <2>3, <3>1, <3>2
  <2> QED BY <2>1, <2>4 DEF InFlight
<1> QED BY <1>1, TypeCorrect, CopyCorrect, PTL

\* The server's attached buffer holds tasks that are open.
LEMMA ServerBufferBound ==
  ASSUME TypeOK, InFlight
  PROVE  /\ ServerInFlight \in Nat
         /\ ServerInFlight <= Cardinality(Held(Queues) \union lost)
<1> DEFINE S == UNION {{m} \X DOMAIN toClient[m] : m \in Machine}
           H == Held(Queues) \union lost
           g == [d \in S |-> toClient[d[1]][d[2]].bin.seq]
<1>1. QueueNames(Queues, toClient, s2w, w2s, toServer, task) /\ DOMAIN Queues = Place
  BY QueuesAre DEF QueueMap
<1>2. ASSUME NEW d \in S
      PROVE  /\ d = <<d[1], d[2]>> /\ d[1] \in Machine /\ d[2] \in DOMAIN toClient[d[1]]
  OBVIOUS
<1>3. ASSUME NEW m \in Machine, NEW k \in DOMAIN toClient[m]
      PROVE  /\ <<"toClient", m, 0>> \in DOMAIN Queues
             /\ k \in DOMAIN Queues[<<"toClient", m, 0>>]
             /\ toClient[m][k].bin.seq = Queues[<<"toClient", m, 0>>][k].bin.seq
             /\ toClient[m][k].bin.seq \in H
  <2>1. /\ <<"toClient", m, 0>> \in DOMAIN Queues
        /\ Queues[<<"toClient", m, 0>>] = toClient[m]
    BY <1>1, PlaceNames DEF QueueNames
  <2> QED BY <2>1, HeldIntro
<1> HIDE DEF S, H
<1>4. ASSUME NEW d \in S, NEW e \in S, g[d] = g[e] PROVE d = e
  <2>1. /\ d[1] \in Machine /\ d[2] \in DOMAIN toClient[d[1]] /\ d = <<d[1], d[2]>>
        /\ e[1] \in Machine /\ e[2] \in DOMAIN toClient[e[1]] /\ e = <<e[1], e[2]>>
    BY <1>2
  <2>2. toClient[d[1]][d[2]].bin.seq = toClient[e[1]][e[2]].bin.seq
    BY <1>4
  <2> DEFINE x == <<"toClient", d[1], 0>>
             y == <<"toClient", e[1], 0>>
  <2>3. x = y /\ d[2] = e[2]
    <3>1. /\ x \in DOMAIN Queues /\ d[2] \in DOMAIN Queues[x]
          /\ toClient[d[1]][d[2]].bin.seq = Queues[x][d[2]].bin.seq
      BY <1>3, <2>1
    <3>2. /\ y \in DOMAIN Queues /\ e[2] \in DOMAIN Queues[y]
          /\ toClient[e[1]][e[2]].bin.seq = Queues[y][e[2]].bin.seq
      BY <1>3, <2>1
    <3> HIDE DEF x, y
    <3>3. Queues[x][d[2]].bin.seq = Queues[y][e[2]].bin.seq
      BY <2>2, <3>1, <3>2
    <3>4. \A u, v \in DOMAIN Queues : \A i \in DOMAIN Queues[u], j \in DOMAIN Queues[v] :
            Queues[u][i].bin.seq = Queues[v][j].bin.seq => u = v /\ i = j
      BY DEF InFlight, Spread
    <3> QED BY <3>1, <3>2, <3>3, <3>4
  <2>4. d[1] = e[1]
    BY <2>3
  <2> QED BY <2>1, <2>3, <2>4
<1>5. g \in [S -> H]
  BY <1>2, <1>3
<1>6. g \in Injection(S, H)
  BY <1>4, <1>5 DEF Injection, IsInjective
<1>7. IsFiniteSet(H)
  BY InFlightFinite DEF H
<1>8. IsFiniteSet(S) /\ Cardinality(S) <= Cardinality(H)
  BY <1>6, <1>7, FS_Injection
<1>9. ServerInFlight = Cardinality(S)
  BY DEF ServerInFlight, S
<1> QED BY <1>8, <1>9, FS_CardinalityType DEF H

\* So does a client's, and it has not the task it is about to send back.
LEMMA ClientBufferBound ==
  ASSUME TypeOK, InFlight, NEW m \in Machine, w2s[m] # <<>>
  PROVE  Len(toServer[m]) < Cardinality(Held(Queues) \union lost)
<1> DEFINE x == <<"toServer", m, 0>>
           y == <<"w2s", m, 0>>
           S == 1 .. Len(toServer[m])
           s == Head(w2s[m]).bin.seq
           H == Held(Queues) \union lost
           g == [k \in S |-> toServer[m][k].bin.seq]
<1>1. /\ DOMAIN Queues = Place /\ x \in Place /\ y \in Place /\ x # y
      /\ Queues[x] = toServer[m] /\ Queues[y] = w2s[m]
  BY QueuesAre, PlaceNames DEF QueueMap, QueueNames
<1>2. /\ DOMAIN toServer[m] = S /\ Len(toServer[m]) \in Nat
      /\ 1 \in DOMAIN w2s[m] /\ Head(w2s[m]) = w2s[m][1]
  BY EmptySeq, LenProperties DEF TypeOK
<1>3. s \in H
  BY <1>1, <1>2, HeldIntro
<1>4. ASSUME NEW k \in S PROVE toServer[m][k].bin.seq \in H \ {s}
  <2>1. toServer[m][k].bin.seq \in Held(Queues)
    BY <1>1, <1>2, HeldIntro
  <2>2. toServer[m][k].bin.seq # s
    BY <1>1, <1>2 DEF InFlight, Spread
  <2> QED BY <2>1, <2>2
<1>5. ASSUME NEW j \in S, NEW k \in S, toServer[m][j].bin.seq = toServer[m][k].bin.seq PROVE j = k
  BY <1>1, <1>2, <1>5 DEF InFlight, Spread
<1> HIDE DEF H, s
<1>6. g \in Injection(S, H \ {s})
  BY <1>4, <1>5 DEF Injection, IsInjective
<1>7. IsFiniteSet(H)
  BY InFlightFinite DEF H
<1>8. IsFiniteSet(H \ {s}) /\ Cardinality(H \ {s}) = Cardinality(H) - 1 /\ Cardinality(H) \in Nat
  BY <1>3, <1>7, FS_RemoveElement, FS_CardinalityType
<1>9. Cardinality(S) <= Cardinality(H \ {s})
  BY <1>6, <1>8, FS_Injection
<1>10. Cardinality(S) = Len(toServer[m])
  BY <1>2, FS_Interval
<1>11. Len(toServer[m]) < Cardinality(H)
  BY <1>2, <1>8, <1>9, <1>10
<1> QED BY <1>11 DEF H

\* One slot per worker thread of the whole system is enough for every rank, for
\* every number of machines and threads.
THEOREM BuffersSuffice == Spec => []NoBsendLoss
<1>1. Init => NoBsendLoss
  BY DEF Init, NoBsendLoss
<1>2. TypeOK /\ AckInv /\ CopyInv /\ NoBsendLoss /\ [Next]_vars => NoBsendLoss'
  <2> SUFFICES ASSUME TypeOK, AckInv, CopyInv, Total <= BsendSlots, lost = {}, [Next]_vars
               PROVE  lost' = {}
    BY DEF NoBsendLoss, Total
  <2>0. /\ Total \in Nat /\ BsendSlots \in Nat /\ acks \in Nat
        /\ Issued \in 0 .. Total
    BY IssuedFacts, ConstAssumption DEF TypeOK, Total
  <2>1. CASE server_sendtestmsg
    <3>1. spc = "send" /\ InFlight
      BY <2>1 DEF server_sendtestmsg, CopyInv
    <3>2. Issued < Total /\ Cardinality(Held(Queues) \union lost) + acks = Issued
          /\ Cardinality(Held(Queues) \union lost) \in Nat
      BY <3>1, IssuedFacts, InFlightFinite DEF InFlight
    <3>3. ServerInFlight \in Nat /\ ServerInFlight <= Cardinality(Held(Queues) \union lost)
      BY <3>1, ServerBufferBound
    <3>4. ~BsendFails(ServerInFlight)
      BY <2>0, <3>2, <3>3 DEF BsendFails
    <3> QED BY <2>1, <3>4 DEF server_sendtestmsg
  <2>2. ASSUME NEW m \in Machine, ClientSendDone(m) PROVE lost' = {}
    <3>1. spc # "waitforall" /\ w2s[m] # <<>> /\ InFlight
      BY <2>2 DEF ClientSendDone, client_putback_task, AckInv, BootPhase, CopyInv
    <3>2. Cardinality(Held(Queues) \union lost) + acks = Issued
          /\ Cardinality(Held(Queues) \union lost) \in Nat
      BY <3>1, InFlightFinite DEF InFlight
    <3>3. Len(toServer[m]) < Cardinality(Held(Queues) \union lost) /\ Len(toServer[m]) \in Nat
      BY <3>1, ClientBufferBound, LenProperties DEF TypeOK
    <3>4. ~BsendFails(Len(toServer[m]))
      BY <2>0, <3>2, <3>3 DEF BsendFails
    <3> QED BY <2>2, <3>4 DEF ClientSendDone, client_sendtestmsg_wt_buffer
  <2>3. CASE UNCHANGED lost
    BY <2>3
  <2>4. ASSUME NEW m \in Machine, \/ waitforall(m) \/ ServerReceive(m) \/ sendheartbeat(m)
                                  \/ ClientPass(m) \/ ClientReceive(m)
        PROVE  UNCHANGED lost
    BY <2>4 DEF waitforall, ServerReceive, sendheartbeat, ClientPass, ClientReceive, netVars
  <2>5. CASE RoundEnd
    BY <2>5 DEF RoundEnd, netVars
  <2>6. ASSUME NEW m \in Machine, NEW w \in Worker, WorkerNext(m, w) PROVE UNCHANGED lost
    BY <2>6 DEF WorkerNext, WorkerArrive, WorkerPass, worker_get_task, worker_putback_task, netVars
  <2> QED BY <2>1, <2>2, <2>3, <2>4, <2>5, <2>6 DEF Next, ServerNext, ClientNext, vars
<1> QED BY <1>1, <1>2, TypeCorrect, AckCorrect, CopyCorrect, PTL DEF Spec

-----------------------------------------------------------------------------
(* The scheduler implements TaskRounds, its liveness aside. *)

\* The open tasks of TaskRounds in terms of the queues.
OpenInv == Open = IF spc = "waitforall" THEN {} ELSE Held(Queues) \union lost

\* OpenInv is an invariant.
LEMMA OpenCorrect == Spec => []OpenInv
<1>1. TypeOK /\ AckInv /\ CopyInv => OpenInv
  BY OpenIs DEF OpenInv
<1> QED BY <1>1, TypeCorrect, AckCorrect, CopyCorrect, PTL

\* A step that leaves the round alone stutters.
LEMMA RoundsStutter ==
  ASSUME OpenInv, OpenInv', UNCHANGED serverVars,
         spc = "waitforall" \/ Held(Queues') \union lost' = Held(Queues) \union lost
  PROVE  UNCHANGED Rounds!vars
<1>1. UNCHANGED <<spc, si, sj, outmsg>>
  BY DEF serverVars
<1>2. Open' = Open
  BY <1>1 DEF OpenInv
<1>3. IssuedSeqs' = IssuedSeqs
  BY <1>1 DEF IssuedSeqs, Issued
<1> QED BY <1>1, <1>2, <1>3 DEF Rounds!vars

\* TaskRounds counts with the same operator.
LEMMA SameCardinality ==
  ASSUME NEW S
  PROVE  Rounds!Cardinality(S) = Cardinality(S)
BY DEF Rounds!Cardinality, Cardinality

\* A send of the server hands out one task of the round, lost or not.
LEMMA SendDispatches ==
  ASSUME TypeOK, LoopInv, CopyInv, OpenInv, OpenInv', server_sendtestmsg
  PROVE  Rounds!Dispatch(outmsg)
<1>1. /\ spc = "send" /\ InFlight /\ outmsg \notin IssuedSeqs
      /\ IssuedSeqs' = IssuedSeqs \union {outmsg}
      /\ spc' = IF Issued + 1 = Total THEN "recv" ELSE "send"
  BY SendIsFresh, SendLoopStep DEF server_sendtestmsg, CopyInv
<1>2. Open = Held(Queues) \union lost /\ Open' = Held(Queues') \union lost'
  BY <1>1 DEF OpenInv
<1>3. Open \subseteq IssuedSeqs
  BY <1>1, <1>2 DEF InFlight
<1>4. Open' = Open \union {outmsg}
  <2>1. Held(Queues') \union lost' = (Held(Queues) \union lost) \union {outmsg}
    BY <1>1, SendInFlight
  <2> QED BY <1>2, <2>1
<1>5. IssuedSeqs' \ Open' = IssuedSeqs \ Open
  BY <1>1, <1>3, <1>4
<1>6. Open \union (IssuedSeqs \ Open) = IssuedSeqs
  BY <1>3
<1>7. Cardinality(IssuedSeqs) = Issued
  BY IssuedSeqsFacts
<1>8. outmsg \notin Open \union (IssuedSeqs \ Open)
  BY <1>1, <1>6
<1>9. Cardinality(Open \union (IssuedSeqs \ Open)) = Issued
  BY <1>6, <1>7
<1> HIDE DEF Open, IssuedSeqs, Issued
<1>10. (IF spc' = "recv" THEN "collect" ELSE "dispatch")
        = IF Rounds!Cardinality(Open \union (IssuedSeqs \ Open)) + 1 = Total THEN "collect" ELSE "dispatch"
  BY <1>1, <1>9, SameCardinality
<1> QED BY <1>1, <1>4, <1>5, <1>8, <1>10 DEF Rounds!Dispatch

\* An acknowledgement the server counts closes one open task.
LEMMA ReceiveAcknowledges ==
  ASSUME TypeOK, CopyInv, OpenInv, OpenInv', NEW m \in Machine, ServerReceive(m)
  PROVE  \E s \in Seqno : Rounds!Acknowledge(s)
<1>1. /\ spc = "recv" /\ InFlight /\ UNCHANGED <<spc, si, sj, outmsg, lost>>
  BY DEF ServerReceive, CopyInv
<1>2. Open = Held(Queues) \union lost /\ Open' = Held(Queues') \union lost
  BY <1>1 DEF OpenInv
<1>3. PICK s \in Held(Queues) : Held(Queues') = Held(Queues) \ {s}
  BY <1>1, ReceiveInFlight
<1>4. s \notin lost /\ s \in IssuedSeqs /\ s \in Seqno
  BY <1>1, IssuedSeqsFacts DEF InFlight
<1>5. s \in Open /\ Open' = Open \ {s}
  BY <1>2, <1>3, <1>4
<1>6. IssuedSeqs' = IssuedSeqs
  BY <1>1 DEF IssuedSeqs, Issued
<1>7. IssuedSeqs' \ Open' = (IssuedSeqs \ Open) \union {s}
  BY <1>4, <1>5, <1>6
<1>8. Rounds!Acknowledge(s)
  BY <1>1, <1>5, <1>7 DEF Rounds!Acknowledge
<1> QED BY <1>4, <1>8

\* The end of the receive loop begins a round with nothing open.
LEMMA RoundEndStartsRound ==
  ASSUME TypeOK, LoopInv, CopyInv, OpenInv, OpenInv', RoundEnd
  PROVE  Rounds!NewRound
<1>1. /\ spc = "recv" /\ spc' = "send" /\ InFlight /\ lost' = lost /\ Queues' = Queues
  BY DEF RoundEnd, netVars, Queues, CopyInv
<1>2. Held(Queues) = {} /\ lost = {} /\ IssuedSeqs' = {}
  BY <1>1, RoundEndInFlight
<1>3. Open = {} /\ Open' = {}
  BY <1>1, <1>2 DEF OpenInv
<1> QED BY <1>1, <1>2, <1>3 DEF Rounds!NewRound

\* A heartbeat comes in: for TaskRounds nothing has begun.
LEMMA HeartbeatStutters ==
  ASSUME TypeOK, AckInv, LoopInv, CopyInv, CopyInv', OpenInv, OpenInv', NEW m \in Machine, waitforall(m)
  PROVE  UNCHANGED Rounds!vars
<1>1. /\ spc = "waitforall" /\ spc' \in {"waitforall", "send"}
      /\ UNCHANGED <<si, sj, outmsg, lost>> /\ si = 0 /\ sj = 0
  BY DEF waitforall, LoopInv
<1>2. Issued = 0 /\ Issued' = 0
  BY <1>1, ConstAssumption DEF Issued
<1>3. IssuedSeqs = {} /\ IssuedSeqs' = {}
  BY <1>2 DEF IssuedSeqs
<1>4. Open = {} /\ Open' = {}
  <2>1. CASE spc' = "waitforall"
    BY <1>1, <2>1 DEF OpenInv
  <2>2. CASE spc' = "send"
    BY <1>1, <1>3, <2>2 DEF OpenInv, CopyInv, InFlight
  <2> QED BY <1>1, <2>1, <2>2
<1> QED BY <1>1, <1>3, <1>4 DEF Rounds!vars

\* Every step of the scheduler is a step of TaskRounds or leaves it alone.
LEMMA RoundsStep ==
  ASSUME TypeOK, AckInv, LoopInv, CopyInv, CopyInv', OpenInv, OpenInv', [Next]_vars
  PROVE  [Rounds!Next]_(Rounds!vars)
<1>1. ASSUME NEW m \in Machine, waitforall(m) PROVE UNCHANGED Rounds!vars
  BY <1>1, HeartbeatStutters
<1>2. ASSUME NEW m \in Machine, ServerReceive(m) PROVE Rounds!Next
  BY <1>2, ReceiveAcknowledges DEF Rounds!Next
<1>3. CASE server_sendtestmsg
  <2>1. outmsg \in Seqno
    BY DEF TypeOK
  <2>2. Rounds!Dispatch(outmsg)
    BY <1>3, SendDispatches
  <2> QED BY <2>1, <2>2 DEF Rounds!Next
<1>4. CASE RoundEnd
  BY <1>4, RoundEndStartsRound DEF Rounds!Next
<1>5. ASSUME NEW m \in Machine, sendheartbeat(m) PROVE UNCHANGED Rounds!vars
  <2>1. spc = "waitforall" /\ UNCHANGED serverVars
    BY <1>5 DEF sendheartbeat, AckInv
  <2> QED BY <2>1, RoundsStutter
<1>6. ASSUME UNCHANGED <<serverVars, toServer, toClient, lost, task, s2w, w2s>>
      PROVE  UNCHANGED Rounds!vars
  <2>1. UNCHANGED <<serverVars, lost, Queues>>
    BY <1>6 DEF Queues
  <2> QED BY <2>1, RoundsStutter
<1>7. ASSUME NEW m \in Machine, ClientPass(m) PROVE UNCHANGED Rounds!vars
  BY <1>6, <1>7 DEF ClientPass, netVars
<1>8. ASSUME TasksStay PROVE UNCHANGED Rounds!vars
  BY <1>8, RoundsStutter DEF TasksStay
<1>9. ASSUME NEW m \in Machine, ClientReceive(m) \/ ClientSendDone(m)
      PROVE  UNCHANGED Rounds!vars
  BY <1>8, <1>9, ClientReceiveKeeps, ClientSendDoneKeeps
<1>10. ASSUME NEW m \in Machine, NEW w \in Worker, WorkerArrive(m, w) \/ WorkerPass(m, w)
       PROVE  UNCHANGED Rounds!vars
  BY <1>6, <1>10 DEF WorkerArrive, WorkerPass, netVars
<1>11. ASSUME NEW m \in Machine, NEW w \in Worker,
              worker_get_task(m, w) \/ worker_putback_task(m, w)
       PROVE  UNCHANGED Rounds!vars
  BY <1>8, <1>11, WorkerGetKeeps, WorkerPutKeeps
<1>12. CASE UNCHANGED vars
  BY <1>6, <1>12 DEF vars, serverVars
<1> QED
  BY <1>1, <1>2, <1>3, <1>4, <1>5, <1>7, <1>9, <1>10, <1>11, <1>12
     DEF Next, ServerNext, ClientNext, WorkerNext

\* The scheduler hands out tasks in rounds, acknowledges each once and begins a
\* round only when the last one is complete: it implements the safety part of
\* TaskRounds for any number of machines, threads and buffer slots.
THEOREM ImplementsRoundsSafely == Spec => Rounds!Safety
<1>1. Init /\ OpenInv => Rounds!Init
  <2> SUFFICES ASSUME Init, OpenInv PROVE Rounds!Init
    OBVIOUS
  <2>1. spc = "waitforall"
    BY DEF Init
  <2>2. Open = {}
    BY <2>1 DEF OpenInv
  <2>3. IssuedSeqs = {}
    BY <2>1 DEF IssuedSeqs, Issued
  <2> QED BY <2>1, <2>2, <2>3 DEF Rounds!Init
<1>2. TypeOK /\ AckInv /\ LoopInv /\ CopyInv /\ CopyInv' /\ OpenInv /\ OpenInv' /\ [Next]_vars
        => [Rounds!Next]_(Rounds!vars)
  BY RoundsStep
<1> QED
  BY <1>1, <1>2, TypeCorrect, AckCorrect, LoopCorrect, CopyCorrect, OpenCorrect, PTL
     DEF Spec, Rounds!Safety
=============================================================================
