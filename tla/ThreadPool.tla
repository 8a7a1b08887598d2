------------------------------ MODULE ThreadPool ------------------------------
(***************************************************************************)
(* tcpthreadpool (src/socket/src/threadpool.cpp) with a program that uses  *)
(* it, such as scheduler.cpp, and the workers at the other ends of the     *)
(* connections (worker.cpp).                                               *)
(*                                                                         *)
(* One thread calls the pool ("this class is not thread safe to outside"). *)
(* Connection number id is served by the sender and the reader with index  *)
(* id % num_thrs.  Senders pop messages from their pcqueue, an atomic FIFO *)
(* by module PcQueue; readers select over their sockets and a pipe.        *)
(* Messages are whole frames with data, shorter than 2^31 bytes; module    *)
(* TcpFrame covers the others.                                             *)
(*                                                                         *)
(* The kernel is external: a write to a closed descriptor fails, one to a  *)
(* connection whose peer is gone is lost, and the next one fails or raises *)
(* SIGPIPE.  A connection is reset when one end is closed with data unread *)
(* or gets data after its close; the other end may lose the last bytes it  *)
(* has not read, and so be left with a part of a frame.                    *)
(*                                                                         *)
(* Definitions named X_<Bug> are X with a plausible programming error.     *)
(***************************************************************************)
EXTENDS Integers, Sequences, FiniteSets, FiniteSetsExt, SequencesExt

CONSTANTS num_thrs, max_conns,
          Programs    \* programs that use the pool: the calls of the one thread; the
                      \* values num_conns may start with, as no constructor sets it; and
                      \* the messages a worker answers before it closes (1 in worker.cpp)

Op == {"add", "start", "send", "thr_broadcast", "broadcast", "wait", "stop"}

\* asize_t is uint16_t.
asize_max == 65535
asize_t   == 0 .. asize_max

ASSUME PoolAssumption ==
  /\ num_thrs \in asize_t \ {0}
  /\ max_conns \in asize_t
  /\ \A p \in DOMAIN Programs :
       /\ Programs[p].calls \in Seq([op : Op, arg : Nat])
       /\ Programs[p].start \subseteq asize_t /\ Programs[p].start # {}
       /\ Programs[p].rounds \in Nat \ {0}

Thr  == 0 .. num_thrs - 1
Pipe == 0                  \* rdfd of a reader

\* The calls of add_conn of each program.
Adds == [p \in DOMAIN Programs |->
           {k \in DOMAIN Programs[p].calls : Programs[p].calls[k].op = "add"}]

VARIABLES
  prog,        \* the program
  loop,        \* how far the running call has got
  results,     \* what the calls returned
  num_conns, running,
  socks,       \* socks[t]: connections of sender and reader t
  msgq,        \* messages of sender t
  wpc, wmsg, widx,   \* sender: "none", "pop", "write" (at socks[widx]), "done"
  rpc, rset,         \* reader: "none", "select", "read", "done"; descriptors select reported
  pipe,        \* readers whose pipe stop_all has not closed
  opened,      \* connections the pool has not closed
  toPeer, toPool,    \* frames on their way
  cut,         \* the part of a frame behind them, toward the end that is still open
  peer,        \* worker: "read", "write", "gone", "failed" (an assertion)
  rounds, got, \* how often it has answered, and what it has read
  reset,       \* connections the kernel knows to be dead
  sem,         \* the program's semaphore, posted by the callback
  killed       \* what ended the program: "no", the assertion of a function, "memory"
               \* (a write out of bounds) or "sigpipe"

mainVars == <<loop, results>>
poolVars == <<num_conns, running, socks>>
wVars    == <<wpc, wmsg, widx>>
rVars    == <<rpc, rset, pipe, opened>>
netVars  == <<toPeer, toPool, cut, reset>>
peerVars == <<peer, rounds, got>>
vars == <<prog, loop, results, num_conns, running, socks, msgq, wpc, wmsg, widx, rpc, rset, pipe,
          opened, toPeer, toPool, cut, peer, rounds, got, reset, sem, killed>>

Program == Programs[prog].calls
Rounds  == Programs[prog].rounds
Conn    == Adds[prog]      \* the program accepts a connection before each add_conn: it is
                           \* named by the number of that call

Exit == [type |-> "EXIT", sock |-> -1, data |-> 0]
Write(sock, k) == [type |-> "WRITE", sock |-> sock, data |-> k]

Init ==
  /\ prog \in DOMAIN Programs
  /\ loop = 0
  /\ results = <<>>
  /\ num_conns \in Programs[prog].start
  /\ running = FALSE
  /\ socks = [t \in Thr |-> <<>>]
  /\ msgq = [t \in Thr |-> <<>>]
  /\ wpc = [t \in Thr |-> "none"]
  /\ wmsg = [t \in Thr |-> Exit]
  /\ widx = [t \in Thr |-> 0]
  /\ rpc = [t \in Thr |-> "none"]
  /\ rset = [t \in Thr |-> {}]
  /\ pipe = Thr
  /\ opened = {}
  /\ toPeer = [c \in Conn |-> <<>>]
  /\ toPool = [c \in Conn |-> <<>>]
  /\ cut = [c \in Conn |-> "no"]
  /\ peer = [c \in Conn |-> "read"]
  /\ rounds = [c \in Conn |-> 0]
  /\ got = [c \in Conn |-> <<>>]
  /\ reset = {}
  /\ sem = 0
  /\ killed = "no"

-----------------------------------------------------------------------------
(* The calls *)

Index   == Len(results) + 1
Running == killed = "no"

Calls(op) ==
  /\ Running
  /\ Index <= Len(Program)
  /\ Program[Index].op = op

Arg == Program[Index].arg

Return(r) == results' = Append(results, r) /\ loop' = 0

poolRest == <<prog, wVars, rVars, netVars, peerVars, sem>>

\* if(!running) return -1; and the checks on the arguments.
Refused ==
  /\ \/ (\E op \in {"send", "thr_broadcast", "broadcast", "stop"} : Calls(op)) /\ ~running /\ Return(-1)
     \/ Calls("start") /\ running /\ Return(-1)
     \/ Calls("thr_broadcast") /\ running /\ Arg >= num_thrs /\ Return(-2)
     \/ Calls("send") /\ running /\ Arg >= num_conns /\ Return(-2)
  /\ UNCHANGED <<poolVars, msgq, poolRest, killed>>

\* init_socks: the constructor divides max_conns among the threads.
max_socks(t) == (max_conns \div num_thrs) + (IF t < max_conns % num_thrs THEN 1 ELSE 0)

ThrOf_OffByOne(id) == (id + 1) % num_thrs

ThrOf(id) == id % num_thrs

AddRefused ==
  /\ Calls("add")
  /\ running \/ num_conns = max_conns
  /\ opened' = opened \union {Index}
  /\ Return(-1)
  /\ UNCHANGED <<prog, poolVars, msgq, wVars, rpc, rset, pipe, netVars, peerVars, sem, killed>>

\* add_conn: the assertion of tcpthrinfo_t::add_conn comes after its
\* assignments.  sockaddrs has max_conns entries: if num_conns is larger, the
\* memcpy writes behind them, which ends the program or goes unnoticed.
add_conn ==
  LET t == ThrOf(num_conns)
  IN  /\ Calls("add")
      /\ ~running /\ num_conns # max_conns
      /\ opened' = opened \union {Index}
      /\ socks' = [socks EXCEPT ![t] = Append(@, Index)]
      /\ \/ /\ Len(socks[t]) < max_socks(t)
            /\ num_conns' = (num_conns + 1) % (asize_max + 1)
            /\ Return(num_conns)
            /\ UNCHANGED killed
         \/ /\ Len(socks[t]) >= max_socks(t)
            /\ killed' = "add_conn"
            /\ UNCHANGED <<num_conns, mainVars>>
         \/ /\ Len(socks[t]) < max_socks(t) /\ num_conns > max_conns
            /\ killed' = "memory"
            /\ UNCHANGED <<num_conns, mainVars>>
      /\ UNCHANGED <<prog, running, msgq, wVars, rpc, rset, pipe, netVars, peerVars, sem>>

start_all ==
  /\ Calls("start")
  /\ ~running
  /\ running' = TRUE
  /\ wpc' = [t \in Thr |-> "pop"]
  /\ rpc' = [t \in Thr |-> "select"]
  /\ Return(0)
  /\ UNCHANGED <<prog, num_conns, socks, msgq, wmsg, widx, rset, pipe, opened, netVars, peerVars, sem, killed>>

Push(t, m) == msgq' = [msgq EXCEPT ![t] = Append(@, m)]

SockIdx_Shifted(id) == (id \div num_thrs) + 1

SockIdx(id) == id \div num_thrs

send ==
  /\ Calls("send")
  /\ running /\ Arg < num_conns
  /\ Push(ThrOf(Arg), Write(SockIdx(Arg), Index))
  /\ Return(0)
  /\ UNCHANGED <<poolVars, poolRest, killed>>

thr_broadcast ==
  /\ Calls("thr_broadcast")
  /\ running /\ Arg < num_thrs
  /\ Push(Arg, Write(-1, Index))
  /\ Return(0)
  /\ UNCHANGED <<poolVars, poolRest, killed>>

\* One message per sender; the senders run meanwhile.
broadcast ==
  /\ Calls("broadcast")
  /\ running
  /\ \/ /\ loop < num_thrs
        /\ Push(loop, Write(-1, Index))
        /\ loop' = loop + 1
        /\ UNCHANGED results
     \/ /\ loop = num_thrs
        /\ Return(0)
        /\ UNCHANGED msgq
  /\ UNCHANGED <<poolVars, poolRest, killed>>

\* stop_all, first loop: EXIT to each sender, close the pipe of each reader.
StopSignals ==
  /\ Calls("stop")
  /\ running
  /\ loop < num_thrs
  /\ Push(loop, Exit)
  /\ pipe' = pipe \ {loop}
  /\ loop' = loop + 1
  /\ UNCHANGED <<prog, results, poolVars, wVars, rpc, rset, opened, netVars, peerVars, sem, killed>>

\* Second loop: join sender and reader.  A thread that was joined before
\* cannot be joined again, and the assertion on the result fails.
StopJoins ==
  LET t == loop - num_thrs
  IN  /\ Calls("stop")
      /\ running
      /\ loop \in num_thrs .. 2 * num_thrs - 1
      /\ \/ /\ wpc[t] = "done" /\ rpc[t] = "done"
            /\ loop' = loop + 1
            /\ wpc' = [wpc EXCEPT ![t] = "joined"]
            /\ rpc' = [rpc EXCEPT ![t] = "joined"]
            /\ UNCHANGED killed
         \/ /\ wpc[t] = "joined"
            /\ killed' = "stop_all"
            /\ UNCHANGED <<loop, wpc, rpc>>
      /\ UNCHANGED <<prog, results, poolVars, msgq, wmsg, widx, rset, pipe, opened, netVars, peerVars, sem>>

StopReturns ==
  /\ Calls("stop")
  /\ running
  /\ loop = 2 * num_thrs
  /\ Return(0)
  /\ UNCHANGED <<poolVars, msgq, poolRest, killed>>

\* sem_wait in the program.
Wait ==
  /\ Calls("wait")
  /\ sem > 0
  /\ sem' = sem - 1
  /\ Return(0)
  /\ UNCHANGED <<prog, poolVars, msgq, wVars, rVars, netVars, peerVars, killed>>

-----------------------------------------------------------------------------
(* start_send *)

mainRest == <<prog, mainVars, poolVars, peerVars, sem>>

AfterPop_KeepsRunning(m) == IF m.type = "EXIT" THEN "pop" ELSE "write"

AfterPop(m) == IF m.type = "EXIT" THEN "done" ELSE "write"

Pop(t) ==
  /\ Running
  /\ wpc[t] = "pop"
  /\ msgq[t] # <<>>
  /\ LET m == Head(msgq[t])
     IN  /\ wpc' = [wpc EXCEPT ![t] = AfterPop(m)]
         /\ wmsg' = [wmsg EXCEPT ![t] = m]
         /\ widx' = [widx EXCEPT ![t] = IF m.sock < 0 THEN 0 ELSE m.sock]
  /\ msgq' = [msgq EXCEPT ![t] = Tail(@)]
  /\ UNCHANGED <<mainRest, rVars, netVars, killed>>

MoreSocks_OneShort(t) == wmsg[t].sock < 0 /\ widx[t] + 1 < Len(socks[t]) - 1

MoreSocks_PastEnd(t) == wmsg[t].sock < 0 /\ widx[t] < Len(socks[t])

\* Whether the loop over the sockets goes on after this one.
MoreSocks(t) == wmsg[t].sock < 0 /\ widx[t] + 1 < Len(socks[t])

Tails == {"no", "header", "inside"}

\* What losing bytes, last ones first, can leave of frames q and the part of a
\* frame behind them: the first frames and nothing of the next one, exactly its
\* header, or a part that ends inside the header or inside the data.
Cuts(q, part) ==
  {[q |-> q, part |-> part]} \union
  {[q |-> SubSeq(q, 1, k), part |-> x] : k \in 0 .. Len(q) - 1, x \in Tails}

\* writen on one socket; its result is ignored.
WriteSock(t) ==
  LET c == socks[t][widx[t] + 1]
  IN  /\ Running
      /\ wpc[t] = "write"
      /\ widx[t] < Len(socks[t])
      /\ \/ /\ c \notin opened \/ c \in reset
            /\ UNCHANGED <<netVars, killed>>
         \/ /\ c \in opened /\ peer[c] \in {"read", "write"}
            /\ toPeer' = [toPeer EXCEPT ![c] = Append(@, wmsg[t].data)]
            /\ UNCHANGED <<toPool, cut, reset, killed>>
         \/ /\ c \in opened /\ peer[c] \in {"gone", "failed"} /\ c \notin reset
            /\ \E left \in Cuts(toPool[c], cut[c]) :
                 /\ toPool' = [toPool EXCEPT ![c] = left.q]
                 /\ cut' = [cut EXCEPT ![c] = left.part]
            /\ reset' = reset \union {c}
            /\ UNCHANGED <<toPeer, killed>>
         \/ /\ c \in opened /\ c \in reset
            /\ killed' = "sigpipe"
            /\ UNCHANGED netVars
      /\ widx' = [widx EXCEPT ![t] = IF MoreSocks(t) THEN @ + 1 ELSE 0]
      /\ wpc' = [wpc EXCEPT ![t] = IF MoreSocks(t) THEN "write" ELSE "pop"]
      /\ UNCHANGED <<mainRest, rVars, msgq, wmsg>>

\* Nothing to write to: a sender without connections, or an index beyond
\* num_socks, whose entry is no descriptor.
WriteNowhere(t) ==
  /\ Running
  /\ wpc[t] = "write"
  /\ widx[t] >= Len(socks[t])
  /\ wpc' = [wpc EXCEPT ![t] = "pop"]
  /\ UNCHANGED <<mainRest, rVars, msgq, wmsg, widx, netVars, killed>>

-----------------------------------------------------------------------------
(* start_read *)

SocksOf(t) == {socks[t][i] : i \in DOMAIN socks[t]}

\* A socket is readable when there is a frame, or end of file.
Readable(t) ==
  {c \in SocksOf(t) : toPool[c] # <<>> \/ peer[c] \in {"gone", "failed"}}
    \union {p \in {Pipe} : t \notin pipe}

Select(t) ==
  /\ Running
  /\ rpc[t] = "select"
  /\ Readable(t) # {}
  /\ rset' = [rset EXCEPT ![t] = Readable(t)]
  /\ rpc' = [rpc EXCEPT ![t] = "read"]
  /\ UNCHANGED <<mainRest, wVars, msgq, pipe, opened, netVars, killed>>

\* The first reported socket in the order of socks.
Next1(t) == CHOOSE c \in rset[t] \ {Pipe} :
              \E i \in DOMAIN socks[t] :
                /\ socks[t][i] = c
                /\ \A j \in 1 .. i - 1 : socks[t][j] \notin rset[t]

Posts_Twice(c) == IF toPool[c] # <<>> THEN 2 ELSE 0

\* inc_cnt: the callback posts sem.  A client that has exited (tcp_read
\* returns 0) is skipped.
Posts(c) == IF toPool[c] # <<>> THEN 1 ELSE 0

\* tcp_read on one socket: a frame, or 0 at the end, also where the first readn
\* reports a reset, as n is unsigned and the second readn finds the end.  Behind
\* a header alone it is the second readn that reports the reset: tcp_read
\* returns -1 and assert(rsize > 0) fails, or 0 if a write to the connection
\* has already taken the error.  Behind any other part of a frame readn never
\* returns.
ReadSock(t) ==
  LET c == Next1(t)
  IN  /\ Running
      /\ rpc[t] = "read"
      /\ rset[t] \ {Pipe} # {}
      /\ toPool[c] # <<>> \/ cut[c] # "inside"
      /\ rset' = [rset EXCEPT ![t] = @ \ {c}]
      /\ toPool' = [toPool EXCEPT ![c] = IF @ = <<>> THEN @ ELSE Tail(@)]
      /\ sem' = sem + Posts(c)
      /\ \/ UNCHANGED <<cut, killed>> /\ (toPool[c] # <<>> \/ cut[c] = "no")
         \/ /\ toPool[c] = <<>> /\ cut[c] = "header"
            /\ cut' = [cut EXCEPT ![c] = "no"]
            /\ killed' \in {killed, "start_read"}
      /\ UNCHANGED <<prog, mainVars, poolVars, msgq, wVars, rpc, pipe, opened, toPeer, reset, peerVars>>

\* All reported sockets are read and the pipe was not reported.
ReadRound(t) ==
  /\ Running
  /\ rpc[t] = "read"
  /\ rset[t] = {}
  /\ rpc' = [rpc EXCEPT ![t] = "select"]
  /\ UNCHANGED <<mainRest, wVars, msgq, rset, pipe, opened, netVars, killed>>

Unread(t) == {c \in SocksOf(t) : toPool[c] # <<>>}

\* The sender is writing to a worker that is there.
Halfway(t, c) ==
  /\ wpc[t] = "write" /\ widx[t] < Len(socks[t]) /\ socks[t][widx[t] + 1] = c
  /\ peer[c] \in {"read", "write"}

\* What is left on the way to the worker after a close: all of it and possibly
\* a part of the frame the sender is writing; less if answers were unread.
AfterClose(t, c) ==
  UNION {IF c \in Unread(t) THEN Cuts(toPeer[c], x) ELSE {[q |-> toPeer[c], part |-> x]} :
           x \in {y \in Tails : y = "no" \/ Halfway(t, c)}}

\* End of file on the pipe: close every socket of this thread and return.
ReaderExits(t) ==
  /\ Running
  /\ rpc[t] = "read"
  /\ rset[t] = {Pipe}
  /\ opened' = opened \ SocksOf(t)
  /\ \E left \in [SocksOf(t) -> UNION {AfterClose(t, c) : c \in SocksOf(t)}] :
       /\ \A c \in SocksOf(t) : left[c] \in AfterClose(t, c)
       /\ toPeer' = [c \in Conn |-> IF c \in SocksOf(t) THEN left[c].q ELSE toPeer[c]]
       /\ cut' = [c \in Conn |-> IF c \in SocksOf(t) THEN left[c].part ELSE cut[c]]
  /\ toPool' = [c \in Conn |-> IF c \in SocksOf(t) THEN <<>> ELSE toPool[c]]
  /\ rset' = [rset EXCEPT ![t] = {}]
  /\ rpc' = [rpc EXCEPT ![t] = "done"]
  /\ UNCHANGED <<mainRest, wVars, msgq, pipe, reset, killed>>

-----------------------------------------------------------------------------
(* worker.cpp: read a message, send it back, close *)

peerRest == <<prog, mainVars, poolVars, wVars, rVars, msgq, sem, killed>>

PeerReads(c) ==
  /\ c <= Len(results)
  /\ peer[c] = "read"
  /\ toPeer[c] # <<>>
  /\ got' = [got EXCEPT ![c] = Append(@, Head(toPeer[c]))]
  /\ toPeer' = [toPeer EXCEPT ![c] = Tail(@)]
  /\ peer' = [peer EXCEPT ![c] = "write"]
  /\ UNCHANGED <<rounds, toPool, cut, reset, peerRest>>

\* tcp_read returns 0 or, behind a header alone, -1: assert(rsize > 0) fails.
\* Behind any other part of a frame readn never returns.  The end comes earlier
\* if the process has ended with answers unread.
PeerReadsEnd(c) ==
  /\ c <= Len(results)
  /\ peer[c] = "read"
  /\ c \notin opened \/ ~Running
  /\ toPeer[c] = <<>> \/ toPool[c] # <<>>
  /\ cut[c] # "inside"
  /\ peer' = [peer EXCEPT ![c] = "failed"]
  /\ UNCHANGED <<rounds, got, netVars, peerRest>>

\* tcp_write, and close after the last round.  A worker that leaves data unread
\* may take its answers with it.  An answer to a connection the pool has closed is
\* lost, with what the pool had sent and the worker has not read.
PeerWrites(c) ==
  LET last    == rounds[c] + 1 = Rounds
      answers == Append(toPool[c], Last(got[c]))
  IN  /\ peer[c] = "write"
      /\ rounds' = [rounds EXCEPT ![c] = @ + 1]
      /\ peer' = [peer EXCEPT ![c] = IF last THEN "gone" ELSE "read"]
      /\ \/ /\ c \in opened
            /\ toPool' = [toPool EXCEPT ![c] = answers]
            /\ UNCHANGED <<toPeer, cut, reset>>
         \/ /\ c \in opened /\ last /\ toPeer[c] # <<>>
            /\ \E left \in Cuts(answers, cut[c]) :
                 /\ toPool' = [toPool EXCEPT ![c] = left.q]
                 /\ cut' = [cut EXCEPT ![c] = left.part]
            /\ reset' = reset \union {c}
            /\ UNCHANGED toPeer
         \/ /\ c \notin opened
            /\ \E left \in Cuts(toPeer[c], cut[c]) :
                 /\ toPeer' = [toPeer EXCEPT ![c] = left.q]
                 /\ cut' = [cut EXCEPT ![c] = left.part]
            /\ UNCHANGED <<toPool, reset>>
      /\ UNCHANGED <<got, peerRest>>

-----------------------------------------------------------------------------
Main == \/ Refused \/ AddRefused \/ add_conn \/ start_all \/ send \/ thr_broadcast \/ broadcast
        \/ StopSignals \/ StopJoins \/ StopReturns \/ Wait

Sender(t) == Pop(t) \/ WriteSock(t) \/ WriteNowhere(t)
Reader(t) == Select(t) \/ ReadSock(t) \/ ReadRound(t) \/ ReaderExits(t)
Worker(c) == PeerReads(c) \/ PeerReadsEnd(c) \/ PeerWrites(c)

Next == Main \/ (\E t \in Thr : Sender(t) \/ Reader(t)) \/ \E c \in Conn : Worker(c)

Spec == Init /\ [][Next]_vars

\* Every thread and every worker that can run runs.
FairSpec ==
  /\ Spec
  /\ WF_vars(Main)
  /\ \A t \in Thr : WF_vars(Sender(t)) /\ WF_vars(Reader(t))
  /\ \A c \in UNION {Adds[p] : p \in DOMAIN Programs} : WF_vars(c \in Conn /\ Worker(c))

-----------------------------------------------------------------------------
(* Properties *)

Ends == {"no", "add_conn", "stop_all", "start_read", "memory", "sigpipe"}

Frames == Seq(1 .. Len(Program))
Messages == [type : {"EXIT", "WRITE"}, sock : Int, data : 0 .. Len(Program)]

\* Every variable has its type; the loop of start_send over the sockets of a
\* broadcast stays below num_socks.
TypeOK ==
  /\ prog \in DOMAIN Programs
  /\ loop \in 0 .. 2 * num_thrs
  /\ results \in Seq(Int) /\ Len(results) <= Len(Program)
  /\ num_conns \in Nat /\ running \in BOOLEAN
  /\ \A t \in Thr :
       /\ socks[t] \in Seq(Conn) /\ msgq[t] \in Seq(Messages)
       /\ wpc[t] \in {"none", "pop", "write", "done", "joined"}
       /\ wmsg[t] \in Messages
       /\ widx[t] = 0 \/ wmsg[t].sock >= 0 \/ widx[t] < Len(socks[t])
       /\ rpc[t] \in {"none", "select", "read", "done", "joined"}
       /\ rset[t] \subseteq SocksOf(t) \union {Pipe}
  /\ pipe \subseteq Thr /\ opened \subseteq Conn /\ reset \subseteq Conn
  /\ \A c \in Conn :
       /\ {toPeer[c], toPool[c], got[c]} \subseteq Frames
       /\ peer[c] \in {"read", "write", "gone", "failed"}
       /\ rounds[c] \in 0 .. Rounds /\ cut[c] \in Tails
  /\ sem \in Nat
  /\ killed \in Ends

\* add_conn gave connection c an id.
HasId(c) == c <= Len(results) /\ results[c] >= 0

\* Whether call k asks for its message to go to connection c.
Addresses(k, c) ==
  /\ HasId(c)
  /\ k <= Len(results) => results[k] = 0
  /\ \/ Program[k].op = "send" /\ Program[k].arg = results[c]
     \/ Program[k].op = "thr_broadcast" /\ Program[k].arg \in Thr /\ c \in SocksOf(Program[k].arg)
     \/ Program[k].op = "broadcast"

Least(i, j) == IF i < j THEN i ELSE j

\* What the calls up to k have addressed to connection c.
Addressed(c, k) == {j \in 1 .. k : Addresses(j, c)}

\* What num_conns was before the first add_conn.
Start == num_conns - Cardinality({c \in Conn : HasId(c)})

\* add_conn promises "the id of the connection".  It keeps the promise if
\* num_conns happened to be 0, and need not if send uses other ids.
IdsUsable == Start = 0 \/ \A k \in DOMAIN Program : Program[k].op # "send"

\* What a worker receives is what send, thr_broadcast and broadcast addressed
\* to the connection with its id, in the order of the calls and without a gap,
\* whatever the senders, the readers that close the sockets and the exiting
\* workers do.
InOrder ==
  LET k == Least(Index, Len(Program))
  IN  IdsUsable => \A c \in Conn :
        LET s == got[c] \o toPeer[c]
        IN  /\ \A i, j \in DOMAIN s : i < j => s[i] < s[j]
            /\ Range(s) \subseteq Addressed(c, k)
            /\ \A i \in DOMAIN s : \A j \in Addressed(c, k) : j < s[i] => j \in Range(s)

\* Messages of sender t on their way to its connection c: the calls they are of.
ToSock(t, c, m) == m.type = "WRITE" /\ (m.sock < 0 \/ (m.sock < Len(socks[t]) /\ socks[t][m.sock + 1] = c))
Queued(t, c) == {msgq[t][i].data : i \in {j \in DOMAIN msgq[t] : ToSock(t, c, msgq[t][j])}}
Writing(t, c) ==
  /\ wpc[t] = "write" /\ ToSock(t, c, wmsg[t])
  /\ \E i \in DOMAIN socks[t] : i > widx[t] /\ socks[t][i] = c
Pending(t, c) == Queued(t, c) \union {k \in {wmsg[t].data} : Writing(t, c)}

\* The last call that has handed its message to sender t, if it has one: a
\* broadcast may be half way through the senders.
Handed(t) == IF Index <= Len(Program) /\ Program[Index].op = "broadcast" /\ loop > t
             THEN Index ELSE Len(results)

\* Until its reader closes it, a connection whose worker is alive loses
\* nothing and gets nothing twice: what the worker has or will read and what
\* its sender still holds are together what the calls addressed to it, the
\* sender's share of an unfinished broadcast included.
NothingDropped ==
  Running /\ IdsUsable => \A t \in Thr : \A c \in SocksOf(t) \cap opened :
    peer[c] \in {"read", "write"} =>
      LET sent == Range(got[c] \o toPeer[c])
      IN  /\ sent \union Pending(t, c) = Addressed(c, Handed(t))
          /\ sent \cap Pending(t, c) = {}

\* The worker has closed the connection without having read a message that
\* was addressed to it.
LeftEarly(c) ==
  /\ peer[c] = "gone"
  /\ IdsUsable => \E k \in Addressed(c, Least(Index, Len(Program))) : k \notin Range(got[c])

\* The assertion of add_conn (the thread has room for the connection) fails
\* only if num_conns did not start at 0, and add_conn writes behind sockaddrs
\* only if it started above max_conns; the assertion of stop_all (the threads
\* can be joined) fails only in a second stop_all; and the assertion of the
\* readers (tcp_read returns a message) and SIGPIPE need a worker that has left
\* although a message was addressed to it that it has not read.
AssertsHold ==
  /\ killed = "add_conn" => Program[Index].op = "add" /\ Start # 0
  /\ killed = "memory" => Program[Index].op = "add" /\ Start > max_conns
  /\ killed = "stop_all" =>
       Program[Index].op = "stop" /\ \E k \in DOMAIN results : Program[k].op = "stop" /\ results[k] = 0
  /\ killed \in {"start_read", "sigpipe"} => \E c \in reset : LeftEarly(c)

\* Answers the workers owe for the calls before the k-th, one by one, and calls
\* of sem_wait among them.
Pairs(C, f) == UNION {{c} \X (1 .. f[c]) : c \in C}
Owed(k)    == [c \in Conn |-> Least(Rounds, Cardinality(Addressed(c, k - 1)))]
Answers(k) == Cardinality(Pairs(Conn, Owed(k)))
Waits(k)   == Cardinality({j \in 1 .. k - 1 : Program[j].op = "wait"})

\* worker.cpp, assert(rsize > 0): a worker finds its connection closed while it
\* waits for a message only if fewer messages were addressed to it than it
\* answers, if the program was killed, or if it stopped the pool before it had
\* waited for all answers, as scheduler.cpp does.  (If the ids are of no use,
\* what was addressed to it has gone to another worker.)
WorkersServed ==
  Running /\ IdsUsable => \A c \in Conn : peer[c] = "failed" =>
    \E k \in DOMAIN Program :
      /\ Program[k].op = "stop"
      /\ k = Index \/ (k < Index /\ results[k] = 0)
      /\ Cardinality(Addressed(c, k - 1)) < Rounds \/ Waits(k) < Answers(k)

\* The reader of connection c can never leave readn.
Stuck(c) == c \in opened /\ toPool[c] = <<>> /\ cut[c] = "inside"

\* Every call of the program returns, stop_all included: each sender finds its
\* EXIT behind the messages, each reader sees its pipe closed, also while
\* select keeps reporting workers that have exited.  What may wait for ever is
\* sem_wait, for the answer of a worker that left with messages unread, and
\* stop_all, for a reader stuck in an answer that such a worker's leaving cut.
AllCallsReturn ==
  <>[]( \/ ~Running
        \/ Len(results) = Len(Program)
        \/ Calls("wait") /\ reset # {}
        \/ Calls("stop") /\ \E c \in reset : Stuck(c) )
=============================================================================
