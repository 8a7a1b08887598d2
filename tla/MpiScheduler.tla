---------------------------- MODULE MpiScheduler ----------------------------
(***************************************************************************)
(* The task loop of src/mpi: one scheduler server (the last MPI rank)      *)
(* deals numbered tasks to Machines client ranks; on every client one      *)
(* communication thread (sched_client) and ThrdPM worker threads exchange  *)
(* the packets through the mutex-protected queues s2w and w2s.             *)
(*                                                                         *)
(* MPI is external: a channel per direction and client, FIFO because MPI   *)
(* does not let two messages of one sender with one tag overtake.          *)
(* MPI_ANY_SOURCE takes the head of any client's channel.  A checksum is   *)
(* modelled by the bytes it was computed over, so it matches exactly when  *)
(* the packet has not changed since (CRC-32 collisions are left out).      *)
(*                                                                         *)
(* Definitions named X_<Bug> are X with a plausible programming error;     *)
(* nothing uses them, they document which error a property would catch.    *)
(***************************************************************************)
EXTENDS Integers, Sequences, FiniteSets, Functions

CONSTANTS Machines,    \* client ranks 0 .. Machines-1; the server is rank Machines
          ThrdPM,      \* worker threads per client
          IntMod,      \* 2^32 in the code: outmsg and inmsg are C ints that wrap
          BsendSlots   \* packets that fit in the MPIBUFSIZE bytes of one rank

\* options.cpp accepts no value below 1; a round fits in the counter.
ASSUME ConstAssumption ==
  /\ Machines \in Nat \ {0}
  /\ ThrdPM \in Nat \ {0}
  /\ IntMod \in Nat
  /\ IntMod > Machines * ThrdPM
  /\ BsendSlots \in Nat

Machine == 0 .. Machines - 1
Worker  == 1 .. ThrdPM
Server  == Machines                 \* mctx.schedrank = size - 1
Total   == Machines * ThrdPM        \* tasks of one round
Seqno   == 0 .. IntMod - 1

\* msg: the heartbeat payload machinerank always repeats src; type is never set.
\* A heartbeat is a calloc'ed msg, so its status is neither UNDONE nor DONE.
Status == {"none", "UNDONE", "DONE"}
Msg    == [src : 0 .. Machines, dst : 0 .. Machines, seq : Seqno, status : Status]
Packet == [bin : Msg, crc : Msg]

VARIABLES
  spc,        \* server: "waitforall", "send" or "recv"
  livecnt,    \* server: heartbeats counted by waitforall
  si, sj,     \* server: the indices of the two send loops
  acks,       \* server: the index of the receive loop
  outmsg, inmsg,
  toServer,   \* toServer[m]: packets from client m not yet received
  toClient,   \* toClient[m]: packets for client m not yet received
  lost,       \* sequence numbers in packets MPI_Bsend refused
  cpc,        \* sched_client of m: "boot", "barrier" or "run"
  wpc,        \* wpc[m][w], worker threads: "start", "barrier" or "run"
  task,       \* task[m][w]: <<>>, or the one packet the worker holds
  s2w, w2s    \* the queues between sched_client and the workers

serverVars == <<spc, livecnt, si, sj, acks, outmsg, inmsg>>
netVars    == <<toServer, toClient, lost>>
vars == <<spc, livecnt, si, sj, acks, outmsg, inmsg, toServer, toClient, lost,
          cpc, wpc, task, s2w, w2s>>

-----------------------------------------------------------------------------
(* Packets *)

encappkt(m)     == [bin |-> m, crc |-> m]
msg_checkcrc(p) == p.crc = p.bin

Heartbeat(m) == encappkt([src |-> m, dst |-> Server, seq |-> 0, status |-> "none"])

\* The packet server_sendtestmsg builds for destrank.
NewTask(destrank) ==
  encappkt([src |-> Server, dst |-> destrank, seq |-> outmsg, status |-> "UNDONE"])

DonePacket_StaleCrc(m, p) == [p EXCEPT !.bin.src = m, !.bin.dst = Server]

\* client_sendtestmsg_wt_buffer: readdressed, checksummed again, same seq.
DonePacket(m, p) == encappkt([src |-> m, dst |-> Server,
                              seq |-> p.bin.seq, status |-> p.bin.status])

-----------------------------------------------------------------------------
Init ==
  /\ spc = "waitforall" /\ livecnt = 0
  /\ si = 0 /\ sj = 0 /\ acks = 0
  /\ outmsg = 0 /\ inmsg = 0
  /\ toServer = [m \in Machine |-> <<>>]
  /\ toClient = [m \in Machine |-> <<>>]
  /\ lost = {}
  /\ cpc = [m \in Machine |-> "boot"]
  /\ wpc = [m \in Machine |-> [w \in Worker |-> "start"]]
  /\ task = [m \in Machine |-> [w \in Worker |-> <<>>]]
  /\ s2w = [m \in Machine |-> <<>>]
  /\ w2s = [m \in Machine |-> <<>>]

-----------------------------------------------------------------------------
(* Start of a client rank: sched_client registers with the server, then     *)
(* joins its workers at the barrier bar_all.                                *)

sendheartbeat(m) ==
  /\ cpc[m] = "boot"
  /\ toServer' = [toServer EXCEPT ![m] = Append(@, Heartbeat(m))]
  /\ cpc' = [cpc EXCEPT ![m] = "barrier"]
  /\ UNCHANGED <<serverVars, toClient, lost, wpc, task, s2w, w2s>>

Arrived(m) == Cardinality({w \in Worker : wpc[m][w] # "start"})
                + (IF cpc[m] = "boot" THEN 0 ELSE 1)

\* bar_all is initialised for the ThrdPM workers and the sched_client.
BarrierOpen(m) == Arrived(m) = ThrdPM + 1

WorkerArrive(m, w) ==
  /\ wpc[m][w] = "start"
  /\ wpc' = [wpc EXCEPT ![m][w] = "barrier"]
  /\ UNCHANGED <<serverVars, netVars, cpc, task, s2w, w2s>>

WorkerPass(m, w) ==
  /\ wpc[m][w] = "barrier"
  /\ BarrierOpen(m)
  /\ wpc' = [wpc EXCEPT ![m][w] = "run"]
  /\ UNCHANGED <<serverVars, netVars, cpc, task, s2w, w2s>>

ClientPass(m) ==
  /\ cpc[m] = "barrier"
  /\ BarrierOpen(m)
  /\ cpc' = [cpc EXCEPT ![m] = "run"]
  /\ UNCHANGED <<serverVars, netVars, wpc, task, s2w, w2s>>

-----------------------------------------------------------------------------
(* sched_server *)

MoreHeartbeats_OneShort(cnt) == cnt < Machines - 1

\* The loop condition of waitforall.
MoreHeartbeats(cnt) == cnt < Machines

\* One heartbeat of waitforall, from any source.
waitforall(m) ==
  /\ spc = "waitforall"
  /\ toServer[m] # <<>>
  /\ toServer' = [toServer EXCEPT ![m] = Tail(@)]
  /\ livecnt' = livecnt + 1
  /\ spc' = IF MoreHeartbeats(livecnt + 1) THEN "waitforall" ELSE "send"
  /\ UNCHANGED <<si, sj, acks, outmsg, inmsg, toClient, lost,
                 cpc, wpc, task, s2w, w2s>>

\* Packets of the server in its attached buffer, if MPI moves none early.
ServerInFlight ==
  Cardinality(UNION {{m} \X DOMAIN toClient[m] : m \in Machine})

\* MPI_Bsend: when the attached buffer may be full it can fail, and because
\* initcomm set MPI_ERRORS_RETURN and nobody looks at the result, the packet
\* is gone.  MPI may also have moved packets out of the buffer already.
BsendFails(inFlight) == inFlight >= BsendSlots

SeqAfter_Stuck(s) == s

\* outmsg++ and inmsg++ on a C int.
SeqAfter(s) == (s + 1) % IntMod

\* The step of the nested for loops over machines and threads.
AdvanceSendLoop ==
  /\ sj' = (sj + 1) % ThrdPM
  /\ si' = IF sj + 1 < ThrdPM THEN si
           ELSE IF si + 1 < Machines THEN si + 1 ELSE 0
  /\ spc' = IF sj + 1 = ThrdPM /\ si + 1 = Machines THEN "recv" ELSE "send"

server_sendtestmsg ==
  /\ spc = "send"
  /\ outmsg' = SeqAfter(outmsg)
  /\ \/ /\ toClient' = [toClient EXCEPT ![si] = Append(@, NewTask(si))]
        /\ UNCHANGED lost
     \/ /\ BsendFails(ServerInFlight)
        /\ lost' = lost \union {outmsg}
        /\ UNCHANGED toClient
  /\ AdvanceSendLoop
  /\ UNCHANGED <<livecnt, acks, inmsg, toServer, cpc, wpc, task, s2w, w2s>>

MoreAcks_OneShort(cnt) == cnt < Total - 1

MoreAcks_PerMachine(cnt) == cnt < Machines

\* The loop condition of the receive loop.
MoreAcks(cnt) == cnt < Total

\* The receive from MPI_ANY_SOURCE, completed by a packet of m.
server_async_receivemsg(m) ==
  /\ toServer[m] # <<>>
  /\ toServer' = [toServer EXCEPT ![m] = Tail(@)]

\* One turn of the receive loop.
ServerReceive(m) ==
  /\ spc = "recv"
  /\ MoreAcks(acks)
  /\ server_async_receivemsg(m)
  /\ inmsg' = SeqAfter(inmsg)
  /\ acks' = acks + 1
  /\ UNCHANGED <<spc, livecnt, si, sj, outmsg, toClient, lost,
                 cpc, wpc, task, s2w, w2s>>

\* The receive loop is over: the assertion inmsg == outmsg is evaluated here.
RoundEnd ==
  /\ spc = "recv"
  /\ ~MoreAcks(acks)
  /\ spc' = "send"
  /\ acks' = 0
  /\ UNCHANGED <<livecnt, si, sj, outmsg, inmsg, netVars,
                 cpc, wpc, task, s2w, w2s>>

-----------------------------------------------------------------------------
(* sched_client: each turn of its loop either takes a packet MPI has        *)
(* completed or, when MPI_Test says no, sends back one finished task.       *)
(* MPI_Test may say no although the packet is on its way.                   *)

\* The receive from the scheduler's rank, completed.
client_async_receivemsg(m) ==
  /\ toClient[m] # <<>>
  /\ toClient' = [toClient EXCEPT ![m] = Tail(@)]

client_put_task(m, p) == s2w' = [s2w EXCEPT ![m] = Append(@, p)]

ClientReceive(m) ==
  /\ cpc[m] = "run"
  /\ client_async_receivemsg(m)
  /\ client_put_task(m, Head(toClient[m]))
  /\ UNCHANGED <<serverVars, toServer, lost, cpc, wpc, task, w2s>>

client_putback_task(m) ==
  /\ w2s[m] # <<>>
  /\ w2s' = [w2s EXCEPT ![m] = Tail(@)]

\* After a client's first task its heartbeat has been received, so all of
\* toServer[m] was sent with MPI_Bsend.
client_sendtestmsg_wt_buffer(m, p) ==
  \/ /\ toServer' = [toServer EXCEPT ![m] = Append(@, DonePacket(m, p))]
     /\ UNCHANGED lost
  \/ /\ BsendFails(Len(toServer[m]))
     /\ lost' = lost \union {p.bin.seq}
     /\ UNCHANGED toServer

ClientSendDone(m) ==
  /\ cpc[m] = "run"
  /\ client_putback_task(m)
  /\ client_sendtestmsg_wt_buffer(m, Head(w2s[m]))
  /\ UNCHANGED <<serverVars, toClient, cpc, wpc, task, s2w>>

-----------------------------------------------------------------------------
(* worker *)

PopTask_NoPop(q) == q

\* What worker_get_task leaves in the queue.
PopTask(q) == Tail(q)

worker_get_task(m, w) ==
  /\ wpc[m][w] = "run"
  /\ task[m][w] = <<>>
  /\ s2w[m] # <<>>
  /\ task' = [task EXCEPT ![m][w] = <<Head(s2w[m])>>]
  /\ s2w' = [s2w EXCEPT ![m] = PopTask(@)]
  /\ UNCHANGED <<serverVars, netVars, cpc, wpc, w2s>>

\* wmsg->status = MSGSTATUS_DONE, in place: the checksum is now stale.
FinishTask(p) == [p EXCEPT !.bin.status = "DONE"]

worker_putback_task(m, w) ==
  /\ task[m][w] # <<>>
  /\ w2s' = [w2s EXCEPT ![m] = Append(@, FinishTask(Head(task[m][w])))]
  /\ task' = [task EXCEPT ![m][w] = <<>>]
  /\ UNCHANGED <<serverVars, netVars, cpc, wpc, s2w>>

-----------------------------------------------------------------------------
ServerNext == \/ \E m \in Machine : waitforall(m) \/ ServerReceive(m)
              \/ server_sendtestmsg
              \/ RoundEnd

ClientNext(m) == \/ sendheartbeat(m) \/ ClientPass(m)
                 \/ ClientReceive(m) \/ ClientSendDone(m)

WorkerNext(m, w) == \/ WorkerArrive(m, w) \/ WorkerPass(m, w)
                    \/ worker_get_task(m, w) \/ worker_putback_task(m, w)

Next == \/ ServerNext
        \/ \E m \in Machine : ClientNext(m)
        \/ \E m \in Machine : \E w \in Worker : WorkerNext(m, w)

\* Every thread runs: they all poll and none ever waits on another for long.
\* A client's receives and sends are separately fair: a receive that MPI has
\* completed is seen by the next MPI_Test, and sends are held up only by
\* receives, of which a round has finitely many.
Fairness ==
  /\ WF_vars(ServerNext)
  /\ \A m \in Machine :
       /\ WF_vars(sendheartbeat(m) \/ ClientPass(m))
       /\ WF_vars(ClientReceive(m))
       /\ WF_vars(ClientSendDone(m))
  /\ \A m \in Machine : \A w \in Worker : WF_vars(WorkerNext(m, w))

Spec == Init /\ [][Next]_vars

FairSpec == Spec /\ Fairness

-----------------------------------------------------------------------------
(* Correctness *)

\* The counters of sched_server stay C ints and loop indices in range, and the
\* channels and queues hold packets addressed to ranks of this job.
TypeOK ==
  /\ spc \in {"waitforall", "send", "recv"}
  /\ livecnt \in Nat /\ acks \in Nat
  /\ si \in Machine /\ sj \in 0 .. ThrdPM - 1
  /\ outmsg \in Seqno /\ inmsg \in Seqno
  /\ toServer \in [Machine -> Seq(Packet)]
  /\ toClient \in [Machine -> Seq(Packet)]
  /\ lost \in SUBSET Seqno
  /\ cpc \in [Machine -> {"boot", "barrier", "run"}]
  /\ wpc \in [Machine -> [Worker -> {"start", "barrier", "run"}]]
  /\ task \in [Machine -> [Worker -> Seq(Packet)]]
  /\ s2w \in [Machine -> Seq(Packet)]
  /\ w2s \in [Machine -> Seq(Packet)]

\* The three assertions msg_checkcrc(...) == CRC_OK cannot fail: every packet
\* on its way matches its checksum, although workers rewrite packets after
\* they were checksummed; and it is addressed to the rank that will get it.
PacketsIntact ==
  \A m \in Machine :
    /\ \A p \in Range(toClient[m]) :
         msg_checkcrc(p) /\ p.bin.src = Server /\ p.bin.dst = m
    /\ \A p \in Range(toServer[m]) :
         msg_checkcrc(p) /\ p.bin.src = m /\ p.bin.dst = Server

\* The server's receive loop takes packets from any source and never looks at
\* their status.  It still counts no heartbeat and no unfinished task as an
\* acknowledgement: once waitforall is over only finished tasks come in.
OnlyAcksComeIn ==
  spc # "waitforall" =>
    \A m \in Machine : \A p \in Range(toServer[m]) : p.bin.status = "DONE"

\* Where the tasks are: <<place, machine, worker, position, seq>>.
TasksIn(place, m, w, q) ==
  {<<place, m, w, k, q[k].bin.seq>> : k \in {i \in DOMAIN q : q[i].bin.status # "none"}}

TasksAt(m) ==
  TasksIn("toClient", m, 0, toClient[m]) \union TasksIn("s2w", m, 0, s2w[m])
    \union TasksIn("w2s", m, 0, w2s[m]) \union TasksIn("toServer", m, 0, toServer[m])
    \union UNION {TasksIn("task", m, w, task[m][w]) : w \in Worker}

Copies == (UNION {TasksAt(m) : m \in Machine}) \union {<<"lost", 0, 0, 0, s>> : s \in lost}

Open == {c[5] : c \in Copies}

\* How many tasks this round has sent, and under which numbers.
Issued == CASE spc = "waitforall" -> 0
            [] spc = "send" -> si * ThrdPM + sj
            [] spc = "recv" -> Total

IssuedSeqs == {(outmsg + IntMod - k) % IntMod : k \in 1 .. Issued}

\* No task is lost between two queues or done twice: every number sent in
\* this round is in exactly one place, or acknowledged, or was refused by
\* MPI_Bsend; and no task of an earlier round is still around.
TasksConserved ==
  /\ \A c, d \in Copies : c[5] = d[5] => c = d
  /\ Open \subseteq IssuedSeqs
  /\ Cardinality(Open) + acks = Issued

\* assert(ctx->inmsg == ctx->outmsg) after the receive loop cannot fail.
RoundEndAssert == spc = "recv" /\ ~MoreAcks(acks) => inmsg = outmsg

\* The attached buffers need one slot per worker thread of the whole system:
\* with that many, no MPI_Bsend of the server or of a client can fail.
NoBsendLoss == Total <= BsendSlots => lost = {}

\* A refused packet is not noticed and not resent, so the round it belongs to
\* cannot end: the server never goes on to tasks of another round.
LossStallsRound ==
  lost # {} => /\ acks + Cardinality(lost) <= Total
               /\ lost \subseteq IssuedSeqs

\* The scheduler keeps the promise of TaskRounds, liveness included: every task
\* handed out is acknowledged, none is starved in s2w, in w2s or in a channel.
Rounds == INSTANCE TaskRounds
            WITH Size  <- Total,
                 phase <- IF spc = "recv" THEN "collect" ELSE "dispatch",
                 open  <- Open,
                 acked <- IssuedSeqs \ Open

ImplementsRounds == Rounds!Spec
=============================================================================
