--------------------------- MODULE ThreadPool_proofs ---------------------------
(***************************************************************************)
(* Proofs about ThreadPool, for every number of threads, every max_conns   *)
(* and every program that uses the pool: the types, the delivery of        *)
(* messages to the workers, the answers a program waits for, and what can  *)
(* end the program.                                                        *)
(*                                                                         *)
(* Calls that end it.  add_conn gives ids round-robin, while the           *)
(* constructor divides max_conns in one go; Share relates the two.         *)
(* RoomInv says that each thread has exactly its share of the ids given so *)
(* far, so that a thread is full only when the pool is; OverInv, that the  *)
(* ids pass max_conns only if they started above it.  JoinInv says that a  *)
(* thread is joined only by a stop_all: the running one, past that thread, *)
(* or an earlier one.  CallsEnd is what follows for the calls.             *)
(*                                                                         *)
(* Delivery.  An id determines the thread and the place of its             *)
(* connection (PlaceInv, NamesInv), nothing moves before start_all         *)
(* (IdleInv), and the queue of a sender holds its messages in the order    *)
(* of the calls (QueueInv).  For each connection, what it has got is the   *)
(* beginning of what the calls addressed to it, what its sender still      *)
(* holds for it comes later, and nothing is missing while both ends are    *)
(* alive (DelivInv).                                                       *)
(*                                                                         *)
(* Answers.  Each sem_wait that has returned stands for an answer a        *)
(* reader has taken (CountInv); a worker's connection is closed only by    *)
(* a stop_all (RsetInv, OpenInv, PipeInv).  So when a stop_all comes       *)
(* after as many waits as answers are owed, all of them have been given    *)
(* (ServedInv).                                                            *)
(*                                                                         *)
(* Threads that end the program.  A connection dies only when its worker   *)
(* leaves with a message unread or its sender writes to a worker that has  *)
(* left; either way there is a message addressed to the worker that it     *)
(* will never read (EarlyInv).  A reader's connections are open until it   *)
(* returns (ClosedInv), and a part of a frame is left on an open           *)
(* connection only when it is dead (CutInv); so the reader's assertion and *)
(* SIGPIPE need a dead connection (DeadInv).                               *)
(***************************************************************************)
EXTENDS ThreadPool, FiniteSetTheorems, TLAPS

-----------------------------------------------------------------------------
(* Types: the invariant *)

\* The program and its calls.
CallInv ==
  /\ prog \in DOMAIN Programs
  /\ loop \in 0 .. 2 * num_thrs
  /\ results \in Seq(Int) /\ Len(results) <= Len(Program)
  /\ num_conns \in asize_t /\ running \in BOOLEAN
  /\ killed \in Ends

SockInv == socks \in [Thr -> Seq(Conn)]

\* A message to write is about a call.
Msg == {m \in Messages : m.type = "WRITE" => m.data \in 1 .. Len(Program)}

SendInv ==
  /\ msgq \in [Thr -> Seq(Msg)]
  /\ wpc \in [Thr -> {"none", "pop", "write", "done", "joined"}]
  /\ wmsg \in [Thr -> Msg]
  /\ widx \in [Thr -> Nat]
  /\ \A t \in Thr : /\ widx[t] = 0 \/ wmsg[t].sock >= 0 \/ widx[t] < Len(socks[t])
                    /\ wpc[t] = "write" => wmsg[t].type = "WRITE"

RecvInv ==
  /\ rpc \in [Thr -> {"none", "select", "read", "done", "joined"}]
  /\ DOMAIN rset = Thr
  /\ \A t \in Thr : rset[t] \subseteq SocksOf(t) \union {Pipe}
  /\ pipe \subseteq Thr /\ opened \subseteq Conn

\* A worker answers what it has read, and not more often than Rounds.
PeerInv ==
  /\ toPeer \in [Conn -> Frames] /\ toPool \in [Conn -> Frames] /\ got \in [Conn -> Frames]
  /\ cut \in [Conn -> Tails]
  /\ peer \in [Conn -> {"read", "write", "gone", "failed"}]
  /\ rounds \in [Conn -> Nat]
  /\ reset \subseteq Conn
  /\ \A c \in Conn : /\ rounds[c] <= Rounds
                     /\ peer[c] \in {"read", "write"} => rounds[c] < Rounds
                     /\ peer[c] = "write" => got[c] # <<>>

TypeInv == CallInv /\ SockInv /\ SendInv /\ RecvInv /\ PeerInv /\ sem \in Nat

\* What the constants give.
LEMMA ProgramFacts ==
  ASSUME prog \in DOMAIN Programs
  PROVE  /\ Program \in Seq([op : Op, arg : Nat]) /\ Len(Program) \in Nat
         /\ DOMAIN Program = 1 .. Len(Program)
         /\ Conn = {k \in 1 .. Len(Program) : Program[k].op = "add"}
         /\ Rounds \in Nat \ {0} /\ Programs[prog].start \subseteq asize_t
         /\ num_thrs \in Nat \ {0} /\ max_conns \in Nat
<1>1. Program \in Seq([op : Op, arg : Nat]) /\ Rounds \in Nat \ {0} /\ Programs[prog].start \subseteq asize_t
  BY PoolAssumption DEF Program, Rounds
<1>2. PICK A : A = [op : Op, arg : Nat]
  OBVIOUS
<1>3. Len(Program) \in Nat /\ DOMAIN Program = 1 .. Len(Program)
  BY <1>1, <1>2
<1>4. Conn = {k \in DOMAIN Program : Program[k].op = "add"}
  BY DEF Conn, Adds, Program
<1>5. num_thrs \in Nat \ {0} /\ max_conns \in Nat
  <2>1. num_thrs \in asize_t /\ num_thrs # 0 /\ max_conns \in asize_t
    BY PoolAssumption
  <2>2. asize_max \in Nat
    BY DEF asize_max
  <2>3. \A x \in asize_t : x \in Nat
    BY <2>2 DEF asize_t
  <2> QED BY <2>1, <2>3
<1> QED BY <1>1, <1>3, <1>4, <1>5

\* The calls of a program have their types.
LEMMA CallFacts ==
  ASSUME prog \in DOMAIN Programs, NEW k \in 1 .. Len(Program)
  PROVE  Program[k].op \in Op /\ Program[k].arg \in Nat
<1>1. PICK A : A = [op : Op, arg : Nat]
  OBVIOUS
<1>2. Program \in Seq(A)
  BY <1>1, ProgramFacts
<1>3. Program[k] \in A
  BY <1>2
<1> QED BY <1>1, <1>3

\* What is defined by the program stays as long as the program does.
LEMMA ProgSame ==
  ASSUME prog' = prog
  PROVE  Program' = Program /\ Conn' = Conn /\ Rounds' = Rounds /\ Frames' = Frames /\ Messages' = Messages /\ Msg' = Msg
<1>1. Program' = Program /\ Conn' = Conn /\ Rounds' = Rounds
  BY DEF Program, Conn, Rounds
<1>2. Frames' = Frames /\ Messages' = Messages
  BY <1>1 DEF Frames, Messages
<1>3. Msg' = Msg
  BY <1>1, <1>2 DEF Msg
<1> QED BY <1>1, <1>2, <1>3

\* The type invariant follows.
LEMMA TypeInvImplies == TypeInv => TypeOK
<1> SUFFICES ASSUME TypeInv PROVE TypeOK
  OBVIOUS
<1>1. num_conns \in Nat
  BY DEF TypeInv, CallInv, asize_t
<1>2. ASSUME NEW t \in Thr
      PROVE  /\ socks[t] \in Seq(Conn) /\ msgq[t] \in Seq(Messages)
             /\ wpc[t] \in {"none", "pop", "write", "done", "joined"}
             /\ wmsg[t] \in Messages
             /\ widx[t] = 0 \/ wmsg[t].sock >= 0 \/ widx[t] < Len(socks[t])
             /\ rpc[t] \in {"none", "select", "read", "done", "joined"}
             /\ rset[t] \subseteq SocksOf(t) \union {Pipe}
  <2>1. socks[t] \in Seq(Conn)
    BY DEF TypeInv, SockInv
  <2>2. msgq[t] \in Seq(Messages)
    <3>1. msgq[t] \in Seq(Msg) /\ Msg \subseteq Messages
      BY DEF TypeInv, SendInv, Msg
    <3>2. PICK A, B : A = Msg /\ B = Messages
      OBVIOUS
    <3>3. A \subseteq B /\ msgq[t] \in Seq(A)
      BY <3>1, <3>2
    <3>4. msgq[t] \in Seq(B)
      BY <3>3
    <3> QED BY <3>2, <3>4
  <2>3. wmsg[t] \in Messages
    BY DEF TypeInv, SendInv, Msg
  <2>4. wpc[t] \in {"none", "pop", "write", "done", "joined"}
        /\ (widx[t] = 0 \/ wmsg[t].sock >= 0 \/ widx[t] < Len(socks[t]))
    BY DEF TypeInv, SendInv
  <2>5. rpc[t] \in {"none", "select", "read", "done", "joined"} /\ rset[t] \subseteq SocksOf(t) \union {Pipe}
    BY DEF TypeInv, RecvInv
  <2> QED BY <2>1, <2>2, <2>3, <2>4, <2>5
<1>3. ASSUME NEW c \in Conn
      PROVE  /\ {toPeer[c], toPool[c], got[c]} \subseteq Frames
             /\ peer[c] \in {"read", "write", "gone", "failed"}
             /\ rounds[c] \in 0 .. Rounds /\ cut[c] \in Tails
  <2>1. toPeer[c] \in Frames /\ toPool[c] \in Frames /\ got[c] \in Frames
    BY DEF TypeInv, PeerInv
  <2>2. peer[c] \in {"read", "write", "gone", "failed"} /\ rounds[c] \in Nat /\ rounds[c] <= Rounds /\ cut[c] \in Tails
    BY DEF TypeInv, PeerInv
  <2>3. Rounds \in Nat
    BY ProgramFacts DEF TypeInv, CallInv
  <2> QED BY <2>1, <2>2, <2>3
<1>4. /\ prog \in DOMAIN Programs /\ loop \in 0 .. 2 * num_thrs
      /\ results \in Seq(Int) /\ Len(results) <= Len(Program) /\ running \in BOOLEAN
      /\ killed \in Ends /\ sem \in Nat
      /\ pipe \subseteq Thr /\ opened \subseteq Conn /\ reset \subseteq Conn
  BY DEF TypeInv, CallInv, RecvInv, PeerInv
<1> QED BY <1>1, <1>2, <1>3, <1>4 DEF TypeOK

\* The invariant holds before the first call.
LEMMA TypeInit == Init => TypeInv
<1> SUFFICES ASSUME Init PROVE TypeInv
  OBVIOUS
<1>1. prog \in DOMAIN Programs
  BY DEF Init
<1>2. Program \in Seq([op : Op, arg : Nat]) /\ Len(Program) \in Nat /\ Rounds \in Nat \ {0}
      /\ Programs[prog].start \subseteq asize_t /\ num_thrs \in Nat \ {0}
  BY <1>1, ProgramFacts
<1>3. CallInv
  <2>1. results = <<>> /\ loop = 0 /\ running = FALSE /\ killed = "no" /\ num_conns \in Programs[prog].start
    BY DEF Init
  <2>2. results \in Seq(Int) /\ Len(results) = 0 /\ num_conns \in asize_t /\ killed \in Ends
    BY <1>2, <2>1 DEF Ends
  <2>3. 0 \in 0 .. 2 * num_thrs /\ 0 <= Len(Program)
    BY <1>2
  <2> QED BY <1>1, <2>1, <2>2, <2>3 DEF CallInv
<1>4. SockInv
  <2>1. socks = [t \in Thr |-> <<>>]
    BY DEF Init
  <2> QED BY <2>1 DEF SockInv
<1>5. SendInv
  <2>1. /\ msgq = [t \in Thr |-> <<>>] /\ wpc = [t \in Thr |-> "none"] /\ wmsg = [t \in Thr |-> Exit]
        /\ widx = [t \in Thr |-> 0]
    BY DEF Init
  <2>2. Exit \in Msg
    BY <1>2 DEF Exit, Msg, Messages
  <2>3. <<>> \in Seq(Msg)
    OBVIOUS
  <2>4. msgq \in [Thr -> Seq(Msg)] /\ wmsg \in [Thr -> Msg] /\ widx \in [Thr -> Nat]
        /\ wpc \in [Thr -> {"none", "pop", "write", "done", "joined"}]
    BY <2>1, <2>2, <2>3
  <2>5. \A t \in Thr : widx[t] = 0 /\ wpc[t] # "write"
    BY <2>1
  <2> QED BY <2>4, <2>5 DEF SendInv
<1>6. RecvInv
  <2>1. rpc = [t \in Thr |-> "none"] /\ rset = [t \in Thr |-> {}] /\ pipe = Thr /\ opened = {}
    BY DEF Init
  <2> QED BY <2>1 DEF RecvInv
<1>7. PeerInv
  <2>1. /\ toPeer = [c \in Conn |-> <<>>] /\ toPool = [c \in Conn |-> <<>>] /\ got = [c \in Conn |-> <<>>]
        /\ peer = [c \in Conn |-> "read"] /\ rounds = [c \in Conn |-> 0] /\ reset = {} /\ cut = [c \in Conn |-> "no"]
    BY DEF Init
  <2>2. <<>> \in Frames
    BY DEF Frames
  <2>3. toPeer \in [Conn -> Frames] /\ toPool \in [Conn -> Frames] /\ got \in [Conn -> Frames]
    BY <2>1, <2>2
  <2>4. peer \in [Conn -> {"read", "write", "gone", "failed"}] /\ rounds \in [Conn -> Nat] /\ reset \subseteq Conn
        /\ cut \in [Conn -> Tails]
    BY <2>1 DEF Tails
  <2>5. \A c \in Conn : rounds[c] = 0 /\ peer[c] = "read"
    BY <2>1
  <2>6. 0 <= Rounds /\ 0 < Rounds
    BY <1>2
  <2> QED BY <2>3, <2>4, <2>5, <2>6 DEF PeerInv
<1> QED BY <1>3, <1>4, <1>5, <1>6, <1>7 DEF TypeInv, Init

-----------------------------------------------------------------------------
(* Types: the steps *)

\* The parts of the invariant survive steps that leave their variables alone: the sockets of the threads,
LEMMA SockSame == ASSUME SockInv, prog' = prog, socks' = socks PROVE SockInv'
<1> QED BY ProgSame DEF SockInv

\* the senders,
LEMMA SendSame ==
  ASSUME SendInv, prog' = prog, socks' = socks, msgq' = msgq, UNCHANGED wVars PROVE SendInv'
<1> QED BY ProgSame DEF SendInv, wVars

\* the readers,
LEMMA RecvSame ==
  ASSUME RecvInv, prog' = prog, socks' = socks, UNCHANGED rVars PROVE RecvInv'
<1> QED BY ProgSame DEF RecvInv, rVars, SocksOf

\* the workers and the network,
LEMMA PeerSame ==
  ASSUME PeerInv, prog' = prog, UNCHANGED netVars, UNCHANGED peerVars PROVE PeerInv'
<1> QED BY ProgSame DEF PeerInv, netVars, peerVars

\* and the calls.
LEMMA CallSame ==
  ASSUME CallInv, prog' = prog, UNCHANGED mainVars, num_conns' = num_conns, running' = running, killed' = killed
  PROVE  CallInv'
<1> QED BY ProgSame DEF CallInv, mainVars

\* Counting modulo m, from 0 to m.
LEMMA Remainder == ASSUME NEW m \in Nat \ {0}, NEW l \in 0 .. m PROVE l % m = IF l = m THEN 0 ELSE l
<1>1. CASE l = m
  BY <1>1
<1>2. CASE l < m
  BY <1>2
<1> QED BY <1>1, <1>2

\* num_conns++ on an asize_t.
LEMMA SmallNumbers ==
  ASSUME NEW x \in asize_t
  PROVE  /\ x \in Nat /\ asize_max \in Nat /\ x <= asize_max /\ (x + 1) % (asize_max + 1) \in asize_t
         /\ (x + 1) % (asize_max + 1) = IF x = asize_max THEN 0 ELSE x + 1
<1>1. asize_max \in Nat
  BY DEF asize_max
<1>2. x \in Nat /\ x <= asize_max
  BY <1>1 DEF asize_t
<1>3. PICK m \in Nat \ {0} : m = asize_max + 1
  BY <1>1
<1>4. x + 1 \in 0 .. m /\ (x + 1 = m <=> x = asize_max)
  BY <1>1, <1>2, <1>3
<1>5. (x + 1) % m = IF x = asize_max THEN 0 ELSE x + 1
  BY <1>4, Remainder
<1>6. (IF x = asize_max THEN 0 ELSE x + 1) \in asize_t
  BY <1>1, <1>2 DEF asize_t
<1> QED BY <1>1, <1>2, <1>3, <1>5, <1>6

\* A call that returns keeps the calls well-typed,
LEMMA ReturnCall ==
  ASSUME CallInv, prog' = prog, Index <= Len(Program), NEW r \in Int, Return(r),
         num_conns' \in asize_t, running' \in BOOLEAN, killed' \in Ends
  PROVE  CallInv'
<1>1. results \in Seq(Int) /\ Len(results) + 1 <= Len(Program)
  BY DEF CallInv, Index
<1>2. results' = Append(results, r) /\ loop' = 0
  BY DEF Return
<1>3. results' \in Seq(Int) /\ Len(results') = Len(results) + 1
  BY <1>1, <1>2
<1>4. 0 \in 0 .. 2 * num_thrs
  BY ProgramFacts DEF CallInv
<1> QED BY <1>1, <1>2, <1>3, <1>4, ProgSame DEF CallInv

\* and so does a step inside a call.
LEMMA LoopCall ==
  ASSUME CallInv, prog' = prog, results' = results, loop' \in 0 .. 2 * num_thrs, num_conns' = num_conns,
         running' = running, killed' \in Ends
  PROVE  CallInv'
<1> QED BY ProgSame DEF CallInv

\* Every step keeps the calls well-typed.
LEMMA CallStep == TypeInv /\ [Next]_vars => CallInv'
<1> SUFFICES ASSUME TypeInv, [Next]_vars PROVE CallInv'
  OBVIOUS
<1>1. CallInv
  BY DEF TypeInv
<1>2. num_conns \in asize_t /\ running \in BOOLEAN /\ killed \in Ends
      /\ loop \in 0 .. 2 * num_thrs /\ num_thrs \in Nat \ {0}
  BY <1>1, ProgramFacts DEF CallInv
<1>3. CASE Refused
  <2>1. prog' = prog /\ num_conns' = num_conns /\ running' = running /\ killed' = killed
    BY <1>3 DEF Refused, poolVars, poolRest
  <2>2. Index <= Len(Program) /\ (Return(-1) \/ Return(-2))
    BY <1>3 DEF Refused, Calls
  <2>3. -1 \in Int /\ -2 \in Int
    OBVIOUS
  <2>4. ASSUME NEW r \in Int, Return(r) PROVE CallInv'
    BY <1>1, <1>2, <2>1, <2>2, <2>4, ReturnCall
  <2> QED BY <2>2, <2>3, <2>4
<1>4. CASE AddRefused
  <2>1. prog' = prog /\ num_conns' = num_conns /\ running' = running /\ killed' = killed
    BY <1>4 DEF AddRefused, poolVars
  <2>2. Index <= Len(Program) /\ Return(-1) /\ -1 \in Int
    BY <1>4 DEF AddRefused, Calls
  <2> QED BY <1>1, <1>2, <2>1, <2>2, ReturnCall
<1>5. CASE add_conn
  <2>1. prog' = prog /\ running' = running /\ Index <= Len(Program)
    BY <1>5 DEF add_conn, Calls
  <2>2. \/ num_conns' = (num_conns + 1) % (asize_max + 1) /\ Return(num_conns) /\ killed' = killed
        \/ killed' \in {"add_conn", "memory"} /\ num_conns' = num_conns /\ loop' = loop /\ results' = results
    BY <1>5 DEF add_conn, mainVars
  <2>3. num_conns \in Int /\ (num_conns + 1) % (asize_max + 1) \in asize_t
    BY <1>2, SmallNumbers
  <2>4. CASE num_conns' = (num_conns + 1) % (asize_max + 1) /\ Return(num_conns) /\ killed' = killed
    BY <1>1, <1>2, <2>1, <2>3, <2>4, ReturnCall
  <2>5. CASE killed' \in {"add_conn", "memory"} /\ num_conns' = num_conns /\ loop' = loop /\ results' = results
    <3>1. killed' \in Ends
      BY <2>5 DEF Ends
    <3> QED BY <1>1, <1>2, <2>1, <2>5, <3>1, LoopCall
  <2> QED BY <2>2, <2>4, <2>5
<1>6. CASE start_all
  <2>1. prog' = prog /\ num_conns' = num_conns /\ running' = TRUE /\ killed' = killed /\ Index <= Len(Program)
        /\ Return(0) /\ 0 \in Int
    BY <1>6 DEF start_all, Calls
  <2> QED BY <1>1, <1>2, <2>1, ReturnCall
<1>7. CASE send \/ thr_broadcast \/ StopReturns
  <2>1. prog' = prog /\ num_conns' = num_conns /\ running' = running /\ killed' = killed /\ Index <= Len(Program)
        /\ Return(0) /\ 0 \in Int
    BY <1>7 DEF send, thr_broadcast, StopReturns, Calls, poolVars, poolRest
  <2> QED BY <1>1, <1>2, <2>1, ReturnCall
<1>8. CASE Wait
  <2>1. prog' = prog /\ num_conns' = num_conns /\ running' = running /\ killed' = killed /\ Index <= Len(Program)
        /\ Return(0) /\ 0 \in Int
    BY <1>8 DEF Wait, Calls, poolVars
  <2> QED BY <1>1, <1>2, <2>1, ReturnCall
<1>9. CASE broadcast
  <2>1. prog' = prog /\ num_conns' = num_conns /\ running' = running /\ killed' = killed /\ Index <= Len(Program)
    BY <1>9 DEF broadcast, Calls, poolVars, poolRest
  <2>2. CASE loop < num_thrs /\ loop' = loop + 1 /\ results' = results
    <3>1. loop + 1 \in 0 .. 2 * num_thrs
      BY <1>2, <2>2
    <3> QED BY <1>1, <1>2, <2>1, <2>2, <3>1, LoopCall
  <2>3. CASE Return(0)
    <3>1. 0 \in Int
      OBVIOUS
    <3> QED BY <1>1, <1>2, <2>1, <2>3, <3>1, ReturnCall
  <2> QED BY <1>9, <2>2, <2>3 DEF broadcast
<1>10. CASE StopSignals
  <2>1. prog' = prog /\ num_conns' = num_conns /\ running' = running /\ killed' = killed /\ results' = results
        /\ loop < num_thrs /\ loop' = loop + 1
    BY <1>10 DEF StopSignals, poolVars
  <2>2. loop + 1 \in 0 .. 2 * num_thrs
    BY <1>2, <2>1
  <2> QED BY <1>1, <1>2, <2>1, <2>2, LoopCall
<1>11. CASE StopJoins
  <2>1. prog' = prog /\ num_conns' = num_conns /\ running' = running /\ results' = results
        /\ loop \in num_thrs .. 2 * num_thrs - 1
    BY <1>11 DEF StopJoins, poolVars
  <2>3. \/ loop' = loop + 1 /\ killed' = killed
        \/ loop' = loop /\ killed' = "stop_all"
    BY <1>11 DEF StopJoins
  <2>2. loop + 1 \in 0 .. 2 * num_thrs
    BY <1>2, <2>1
  <2>4. loop' \in 0 .. 2 * num_thrs /\ killed' \in Ends
    BY <1>2, <2>2, <2>3 DEF Ends
  <2> QED BY <1>1, <1>2, <2>1, <2>4, LoopCall
<1>12. ASSUME NEW t \in Thr, Sender(t) \/ Reader(t) PROVE CallInv'
  <2>1. prog' = prog /\ loop' = loop /\ results' = results /\ num_conns' = num_conns /\ running' = running
    BY <1>12 DEF Sender, Reader, Pop, WriteSock, WriteNowhere, Select, ReadSock, ReadRound, ReaderExits,
                 mainRest, mainVars, poolVars
  <2>2. killed' \in {killed, "sigpipe", "start_read"}
    <3>1. CASE WriteSock(t)
      BY <3>1 DEF WriteSock
    <3>2. CASE Pop(t) \/ WriteNowhere(t) \/ Reader(t)
      BY <3>2 DEF Reader, Pop, WriteNowhere, Select, ReadSock, ReadRound, ReaderExits
    <3> QED BY <1>12, <3>1, <3>2 DEF Sender
  <2>3. killed' \in Ends
    BY <1>2, <2>2 DEF Ends
  <2> QED BY <1>1, <1>2, <2>1, <2>3, LoopCall
<1>13. ASSUME NEW c \in Conn, Worker(c) PROVE CallInv'
  <2>1. prog' = prog /\ loop' = loop /\ results' = results /\ num_conns' = num_conns /\ running' = running /\ killed' = killed
    BY <1>13 DEF Worker, PeerReads, PeerReadsEnd, PeerWrites, peerRest, mainVars, poolVars
  <2> QED BY <1>1, <1>2, <2>1, LoopCall
<1>14. CASE UNCHANGED vars
  BY <1>1, <1>2, <1>14, LoopCall DEF vars
<1> QED BY <1>3, <1>4, <1>5, <1>6, <1>7, <1>8, <1>9, <1>10, <1>11, <1>12, <1>13, <1>14 DEF Next, Main

\* The programs never change.
LEMMA ProgStep == [Next]_vars => prog' = prog
<1> SUFFICES ASSUME [Next]_vars PROVE prog' = prog
  OBVIOUS
<1>1. CASE Main
  BY <1>1 DEF Main, Refused, AddRefused, add_conn, start_all, send, thr_broadcast, broadcast, StopSignals, StopJoins,
              StopReturns, Wait, poolRest
<1>2. ASSUME NEW t \in Thr, Sender(t) \/ Reader(t) PROVE prog' = prog
  BY <1>2 DEF Sender, Reader, Pop, WriteSock, WriteNowhere, Select, ReadSock, ReadRound, ReaderExits, mainRest
<1>3. ASSUME NEW c \in Conn, Worker(c) PROVE prog' = prog
  BY <1>3 DEF Worker, PeerReads, PeerReadsEnd, PeerWrites, peerRest
<1> QED BY <1>1, <1>2, <1>3 DEF Next, vars

\* Only add_conn changes socks: it adds the new connection to the end of one entry.
LEMMA SocksChange ==
  ASSUME [Next]_vars, ~add_conn
  PROVE  socks' = socks
<1>1. CASE Main
  BY <1>1 DEF Main, Refused, AddRefused, start_all, send, thr_broadcast, broadcast, StopSignals, StopJoins,
              StopReturns, Wait, poolRest, poolVars
<1>2. ASSUME NEW t \in Thr, Sender(t) \/ Reader(t) PROVE socks' = socks
  BY <1>2 DEF Sender, Reader, Pop, WriteSock, WriteNowhere, Select, ReadSock, ReadRound, ReaderExits, mainRest, poolVars
<1>3. ASSUME NEW c \in Conn, Worker(c) PROVE socks' = socks
  BY <1>3 DEF Worker, PeerReads, PeerReadsEnd, PeerWrites, peerRest, poolVars
<1> QED BY <1>1, <1>2, <1>3 DEF Next, vars

\* Connections belong to threads of the pool.
LEMMA ThrFacts ==
  ASSUME TypeInv
  PROVE  /\ ThrOf(num_conns) \in Thr
         /\ \A t \in Thr : t \in Nat
<1>1. num_thrs \in Nat \ {0} /\ num_conns \in Nat
  BY ProgramFacts, SmallNumbers DEF TypeInv, CallInv
<1>2. num_conns % num_thrs \in 0 .. num_thrs - 1
  BY <1>1
<1> QED BY <1>1, <1>2 DEF ThrOf, Thr

\* add_conn adds the new connection behind those its thread has.
LEMMA AddSocks ==
  ASSUME TypeInv, add_conn
  PROVE  /\ Index \in Conn /\ ThrOf(num_conns) \in Thr
         /\ socks' = [socks EXCEPT ![ThrOf(num_conns)] = Append(@, Index)]
         /\ socks' \in [Thr -> Seq(Conn)]
         /\ \A t \in Thr : /\ Len(socks[t]) \in Nat /\ Len(socks'[t]) \in Nat /\ Len(socks[t]) <= Len(socks'[t])
                           /\ DOMAIN socks[t] = 1 .. Len(socks[t]) /\ DOMAIN socks'[t] = 1 .. Len(socks'[t])
                           /\ \A i \in 1 .. Len(socks[t]) : socks'[t][i] = socks[t][i]
<1>1. ThrOf(num_conns) \in Thr
  BY ThrFacts
<1>2. Index \in Conn
  <2>1. Index <= Len(Program) /\ Program[Index].op = "add"
    BY DEF add_conn, Calls
  <2>2. Conn = {k \in 1 .. Len(Program) : Program[k].op = "add"} /\ Len(Program) \in Nat
    BY ProgramFacts DEF TypeInv, CallInv
  <2>3. Index \in 1 .. Len(Program)
    BY <2>1, <2>2 DEF TypeInv, CallInv, Index
  <2> QED BY <2>1, <2>2, <2>3
<1>3. PICK u : u = ThrOf(num_conns)
  OBVIOUS
<1>4. socks' = [socks EXCEPT ![u] = Append(@, Index)]
  BY <1>3 DEF add_conn
<1>5. PICK C : C = Conn
  OBVIOUS
<1>6. socks \in [Thr -> Seq(C)] /\ Index \in C /\ u \in Thr
  BY <1>1, <1>2, <1>3, <1>5 DEF TypeInv, SockInv
<1>7. Append(socks[u], Index) \in Seq(C)
  BY <1>6
<1>8. socks' \in [Thr -> Seq(C)]
  BY <1>4, <1>6, <1>7
<1>9. ASSUME NEW t \in Thr
      PROVE  /\ Len(socks[t]) \in Nat /\ Len(socks'[t]) \in Nat /\ Len(socks[t]) <= Len(socks'[t])
             /\ DOMAIN socks[t] = 1 .. Len(socks[t]) /\ DOMAIN socks'[t] = 1 .. Len(socks'[t])
             /\ \A i \in 1 .. Len(socks[t]) : socks'[t][i] = socks[t][i]
  <2>1. PICK s \in Seq(C) : s = socks[t]
    BY <1>6
  <2>2. socks'[t] = s \/ socks'[t] = Append(s, Index)
    BY <1>4, <1>6, <2>1
  <2>3. Len(Append(s, Index)) = Len(s) + 1 /\ Len(s) \in Nat /\ DOMAIN s = 1 .. Len(s)
        /\ DOMAIN Append(s, Index) = 1 .. Len(s) + 1
        /\ \A i \in 1 .. Len(s) : Append(s, Index)[i] = s[i]
    BY <1>6
  <2> QED BY <2>1, <2>2, <2>3
<1> QED BY <1>1, <1>2, <1>3, <1>4, <1>5, <1>8, <1>9

\* Every step keeps the sockets of the threads well-typed.
LEMMA SockStep == TypeInv /\ [Next]_vars => SockInv'
<1> SUFFICES ASSUME TypeInv, [Next]_vars PROVE SockInv'
  OBVIOUS
<1>1. prog' = prog
  BY ProgStep
<1>2. CASE add_conn
  BY <1>1, <1>2, AddSocks, ProgSame DEF SockInv
<1>3. CASE ~add_conn
  BY <1>1, <1>3, SocksChange, SockSame DEF TypeInv
<1> QED BY <1>2, <1>3

\* A call pushes one message to one sender.
LEMMA PushSend ==
  ASSUME TypeInv, prog' = prog, socks' = socks, UNCHANGED wVars, NEW u \in Thr, NEW m \in Msg, Push(u, m)
  PROVE  SendInv'
<1>1. PICK M : M = Msg
  OBVIOUS
<1>2. msgq \in [Thr -> Seq(M)] /\ m \in M
  BY <1>1 DEF TypeInv, SendInv
<1>3. msgq' = [msgq EXCEPT ![u] = Append(@, m)]
  BY DEF Push
<1>4. Append(msgq[u], m) \in Seq(M)
  BY <1>2
<1>5. msgq' \in [Thr -> Seq(M)]
  BY <1>2, <1>3, <1>4
<1>6. msgq' \in [Thr -> Seq(Msg)]
  BY <1>1, <1>5
<1>7. wpc' = wpc /\ wmsg' = wmsg /\ widx' = widx
  BY DEF wVars
<1> QED BY <1>6, <1>7, ProgSame DEF TypeInv, SendInv

\* What the calls push are messages.
LEMMA MsgFacts ==
  ASSUME TypeInv
  PROVE  /\ Exit \in Msg
         /\ \A k \in 1 .. Len(Program) : \A s \in Int : Write(s, k) \in Msg
<1>1. Len(Program) \in Nat
  BY ProgramFacts DEF TypeInv, CallInv
<1>2. Exit \in Msg
  BY <1>1 DEF Exit, Msg, Messages
<1>3. ASSUME NEW k \in 1 .. Len(Program), NEW s \in Int PROVE Write(s, k) \in Msg
  <2>1. k \in 0 .. Len(Program)
    BY <1>1
  <2>2. Write(s, k) \in Messages
    BY <2>1 DEF Write, Messages
  <2>3. Write(s, k).data = k
    BY DEF Write
  <2> QED BY <2>2, <2>3 DEF Msg
<1> QED BY <1>2, <1>3

\* Every step keeps the senders well-typed, the loop of a broadcast below num_socks.
LEMMA SendStep == TypeInv /\ [Next]_vars => SendInv'
<1> SUFFICES ASSUME TypeInv, [Next]_vars PROVE SendInv'
  OBVIOUS
<1>1. prog' = prog /\ SendInv /\ CallInv
  BY ProgStep DEF TypeInv
<1>2. num_thrs \in Nat \ {0} /\ Len(Program) \in Nat /\ Program \in Seq([op : Op, arg : Nat])
      /\ DOMAIN Program = 1 .. Len(Program)
  BY <1>1, ProgramFacts DEF CallInv
<1>3. Index \in Nat \ {0} /\ loop \in Nat
  BY <1>1, <1>2 DEF CallInv, Index
<1>4. CASE Refused \/ AddRefused \/ StopReturns \/ Wait
  <2>1. msgq' = msgq /\ UNCHANGED wVars
    BY <1>4 DEF Refused, AddRefused, StopReturns, Wait, poolRest
  <2>2. socks' = socks
    BY <1>4 DEF Refused, AddRefused, StopReturns, Wait, poolVars
  <2> QED BY <1>1, <2>1, <2>2, SendSame
<1>5. CASE add_conn
  <2>1. msgq' = msgq /\ wpc' = wpc /\ wmsg' = wmsg /\ widx' = widx
    BY <1>5 DEF add_conn, wVars
  <2>2. \A t \in Thr : Len(socks[t]) \in Nat /\ Len(socks'[t]) \in Nat /\ Len(socks[t]) <= Len(socks'[t])
    BY <1>5, AddSocks
  <2>3. widx \in [Thr -> Nat]
    BY <1>1 DEF SendInv
  <2>4. ASSUME NEW t \in Thr PROVE widx[t] = 0 \/ wmsg[t].sock >= 0 \/ widx[t] < Len(socks'[t])
    <3>1. widx[t] = 0 \/ wmsg[t].sock >= 0 \/ widx[t] < Len(socks[t])
      BY <1>1 DEF SendInv
    <3>2. widx[t] < Len(socks[t]) => widx[t] < Len(socks'[t])
      BY <2>2, <2>3
    <3> QED BY <3>1, <3>2
  <2> QED BY <1>1, <2>1, <2>4, ProgSame DEF SendInv
<1>6. CASE start_all
  <2>1. msgq' = msgq /\ wmsg' = wmsg /\ widx' = widx /\ wpc' = [t \in Thr |-> "pop"] /\ socks' = socks
    BY <1>6 DEF start_all
  <2>2. wpc' \in [Thr -> {"none", "pop", "write", "done", "joined"}] /\ \A t \in Thr : wpc'[t] # "write"
    BY <2>1
  <2> QED BY <1>1, <2>1, <2>2, ProgSame DEF SendInv
<1>7. CASE send
  <2>1. socks' = socks /\ UNCHANGED wVars /\ Push(ThrOf(Arg), Write(SockIdx(Arg), Index)) /\ Index <= Len(Program)
    BY <1>7 DEF send, Calls, poolVars, poolRest
  <2>2. Index \in 1 .. Len(Program)
    BY <1>2, <1>3, <2>1
  <2>3. Arg \in Nat
    BY <1>1, <2>2, CallFacts DEF Arg, CallInv
  <2>4. ThrOf(Arg) \in Thr /\ SockIdx(Arg) \in Int
    BY <1>2, <2>3 DEF ThrOf, Thr, SockIdx
  <2>5. Write(SockIdx(Arg), Index) \in Msg
    BY <2>2, <2>4, MsgFacts
  <2> QED BY <1>1, <2>1, <2>4, <2>5, PushSend
<1>8. CASE thr_broadcast
  <2>1. socks' = socks /\ UNCHANGED wVars /\ Push(Arg, Write(-1, Index)) /\ Index <= Len(Program) /\ Arg < num_thrs
    BY <1>8 DEF thr_broadcast, Calls, poolVars, poolRest
  <2>2. Index \in 1 .. Len(Program)
    BY <1>2, <1>3, <2>1
  <2>3. Arg \in Nat
    BY <1>1, <2>2, CallFacts DEF Arg, CallInv
  <2>4. Arg \in Thr /\ -1 \in Int
    BY <1>2, <2>1, <2>3 DEF Thr
  <2>5. Write(-1, Index) \in Msg
    BY <2>2, <2>4, MsgFacts
  <2> QED BY <1>1, <2>1, <2>4, <2>5, PushSend
<1>9. CASE broadcast
  <2>1. socks' = socks /\ UNCHANGED wVars /\ Index <= Len(Program)
    BY <1>9 DEF broadcast, Calls, poolVars, poolRest
  <2>2. CASE loop < num_thrs /\ Push(loop, Write(-1, Index))
    <3>1. Index \in 1 .. Len(Program) /\ loop \in Thr /\ -1 \in Int
      BY <1>2, <1>3, <2>1, <2>2 DEF Thr
    <3>2. Write(-1, Index) \in Msg
      BY <3>1, MsgFacts
    <3> QED BY <1>1, <2>1, <2>2, <3>1, <3>2, PushSend
  <2>3. CASE msgq' = msgq
    BY <1>1, <2>1, <2>3, SendSame
  <2> QED BY <1>9, <2>2, <2>3 DEF broadcast
<1>10. CASE StopSignals
  <2>1. socks' = socks /\ UNCHANGED wVars /\ loop < num_thrs /\ Push(loop, Exit)
    BY <1>10 DEF StopSignals, poolVars
  <2>2. loop \in Thr /\ Exit \in Msg
    BY <1>2, <1>3, <2>1, MsgFacts DEF Thr
  <2> QED BY <1>1, <2>1, <2>2, PushSend
<1>11. CASE StopJoins
  <2>1. socks' = socks /\ msgq' = msgq /\ wmsg' = wmsg /\ widx' = widx
    BY <1>11 DEF StopJoins, poolVars
  <2>2. wpc' = wpc \/ wpc' = [wpc EXCEPT ![loop - num_thrs] = "joined"]
    BY <1>11 DEF StopJoins
  <2>3. wpc \in [Thr -> {"none", "pop", "write", "done", "joined"}]
    BY <1>1 DEF SendInv
  <2>4. wpc' \in [Thr -> {"none", "pop", "write", "done", "joined"}] /\ \A t \in Thr : wpc'[t] = "write" => wpc[t] = "write"
    BY <2>2, <2>3
  <2> QED BY <1>1, <2>1, <2>4, ProgSame DEF SendInv
<1>12. ASSUME NEW t \in Thr, Pop(t) PROVE SendInv'
  <2>1. PICK m : m = Head(msgq[t])
    OBVIOUS
  <2>2. /\ wpc' = [wpc EXCEPT ![t] = AfterPop(m)] /\ wmsg' = [wmsg EXCEPT ![t] = m]
        /\ widx' = [widx EXCEPT ![t] = IF m.sock < 0 THEN 0 ELSE m.sock]
        /\ msgq' = [msgq EXCEPT ![t] = Tail(@)] /\ msgq[t] # <<>> /\ socks' = socks
    BY <1>12, <2>1 DEF Pop, mainRest, poolVars
  <2>3. PICK M : M = Msg
    OBVIOUS
  <2>4. msgq \in [Thr -> Seq(M)] /\ wmsg \in [Thr -> M] /\ widx \in [Thr -> Nat]
        /\ wpc \in [Thr -> {"none", "pop", "write", "done", "joined"}]
    BY <1>1, <2>3 DEF SendInv
  <2>5. m \in M /\ Tail(msgq[t]) \in Seq(M)
    BY <2>1, <2>2, <2>4
  <2>6. m.type \in {"EXIT", "WRITE"} /\ m.sock \in Int
    BY <2>3, <2>5 DEF Msg, Messages
  <2>7. msgq' \in [Thr -> Seq(M)] /\ wmsg' \in [Thr -> M]
    BY <2>2, <2>4, <2>5
  <2>8. widx' \in [Thr -> Nat]
    <3>1. (IF m.sock < 0 THEN 0 ELSE m.sock) \in Nat
      BY <2>6
    <3> QED BY <2>2, <2>4, <3>1
  <2>9. AfterPop(m) \in {"done", "write"} /\ (AfterPop(m) = "write" => m.type = "WRITE")
    BY <2>6 DEF AfterPop
  <2>10. wpc' \in [Thr -> {"none", "pop", "write", "done", "joined"}]
    BY <2>2, <2>4, <2>9
  <2>11. ASSUME NEW u \in Thr
         PROVE  /\ widx'[u] = 0 \/ wmsg'[u].sock >= 0 \/ widx'[u] < Len(socks'[u])
                /\ wpc'[u] = "write" => wmsg'[u].type = "WRITE"
    <3>1. CASE u = t
      <4>1. widx'[u] = (IF m.sock < 0 THEN 0 ELSE m.sock) /\ wmsg'[u] = m /\ wpc'[u] = AfterPop(m)
        BY <2>2, <2>4, <3>1
      <4> QED BY <2>6, <2>9, <4>1
    <3>2. CASE u # t
      <4>1. widx'[u] = widx[u] /\ wmsg'[u] = wmsg[u] /\ wpc'[u] = wpc[u] /\ socks'[u] = socks[u]
        BY <2>2, <2>4, <3>2
      <4> QED BY <1>1, <4>1 DEF SendInv
    <3> QED BY <3>1, <3>2
  <2> QED BY <1>1, <2>3, <2>7, <2>8, <2>10, <2>11, ProgSame DEF SendInv
<1>13. ASSUME NEW t \in Thr, WriteSock(t) \/ WriteNowhere(t) PROVE SendInv'
  <2>1. socks' = socks /\ msgq' = msgq /\ wmsg' = wmsg
    BY <1>13 DEF WriteSock, WriteNowhere, mainRest, poolVars
  <2>2. \/ /\ widx' = [widx EXCEPT ![t] = IF MoreSocks(t) THEN @ + 1 ELSE 0]
           /\ wpc' = [wpc EXCEPT ![t] = IF MoreSocks(t) THEN "write" ELSE "pop"]
           /\ wpc[t] = "write"
        \/ widx' = widx /\ wpc' = [wpc EXCEPT ![t] = "pop"]
    BY <1>13 DEF WriteSock, WriteNowhere
  <2>3. widx \in [Thr -> Nat] /\ wpc \in [Thr -> {"none", "pop", "write", "done", "joined"}]
    BY <1>1 DEF SendInv
  <2>4. widx' \in [Thr -> Nat] /\ wpc' \in [Thr -> {"none", "pop", "write", "done", "joined"}]
    BY <2>2, <2>3
  <2>5. ASSUME NEW u \in Thr
        PROVE  /\ widx'[u] = 0 \/ wmsg[u].sock >= 0 \/ widx'[u] < Len(socks[u])
               /\ wpc'[u] = "write" => wmsg[u].type = "WRITE"
    <3>1. CASE u = t /\ widx' = [widx EXCEPT ![t] = IF MoreSocks(t) THEN @ + 1 ELSE 0] /\ wpc[t] = "write"
      <4>1. widx'[u] = IF MoreSocks(t) THEN widx[t] + 1 ELSE 0
        BY <2>3, <3>1
      <4>2. wmsg[t].type = "WRITE"
        BY <1>1, <3>1 DEF SendInv
      <4> QED BY <3>1, <4>1, <4>2 DEF MoreSocks
    <3>2. CASE u # t \/ (widx' = widx /\ wpc' = [wpc EXCEPT ![t] = "pop"])
      <4>1. widx'[u] = widx[u] /\ (wpc'[u] = "write" => wpc[u] = "write")
        BY <2>2, <2>3, <3>2
      <4> QED BY <1>1, <4>1 DEF SendInv
    <3> QED BY <2>2, <3>1, <3>2
  <2> QED BY <1>1, <2>1, <2>4, <2>5, ProgSame DEF SendInv
<1>14. ASSUME NEW t \in Thr, Reader(t) PROVE SendInv'
  <2>1. socks' = socks /\ msgq' = msgq /\ UNCHANGED wVars
    BY <1>14 DEF Reader, Select, ReadSock, ReadRound, ReaderExits, mainRest, poolVars
  <2> QED BY <1>1, <2>1, SendSame
<1>15. ASSUME NEW c \in Conn, Worker(c) PROVE SendInv'
  <2>1. socks' = socks /\ msgq' = msgq /\ UNCHANGED wVars
    BY <1>15 DEF Worker, PeerReads, PeerReadsEnd, PeerWrites, peerRest, poolVars
  <2> QED BY <1>1, <2>1, SendSame
<1>16. CASE UNCHANGED vars
  BY <1>1, <1>16, SendSame DEF vars, wVars
<1> QED BY <1>4, <1>5, <1>6, <1>7, <1>8, <1>9, <1>10, <1>11, <1>12, <1>13, <1>14, <1>15, <1>16 DEF Next, Main, Sender

\* Every step keeps the readers well-typed; they read only their own sockets.
LEMMA RecvStep == TypeInv /\ [Next]_vars => RecvInv'
<1> SUFFICES ASSUME TypeInv, [Next]_vars PROVE RecvInv'
  OBVIOUS
<1>1. prog' = prog /\ RecvInv /\ CallInv /\ Conn' = Conn
  BY ProgStep, ProgSame DEF TypeInv
<1>2. /\ rpc \in [Thr -> {"none", "select", "read", "done", "joined"}]
      /\ DOMAIN rset = Thr
      /\ \A t \in Thr : rset[t] \subseteq SocksOf(t) \union {Pipe}
      /\ pipe \subseteq Thr /\ opened \subseteq Conn
  BY <1>1 DEF RecvInv
<1>3. CASE Refused \/ StopReturns \/ Wait \/ send \/ thr_broadcast \/ broadcast
  <2>1. UNCHANGED rVars
    BY <1>3 DEF Refused, StopReturns, Wait, send, thr_broadcast, broadcast, poolRest
  <2>2. socks' = socks
    BY <1>3 DEF Refused, StopReturns, Wait, send, thr_broadcast, broadcast, poolVars
  <2> QED BY <1>1, <2>1, <2>2, RecvSame
<1>4. CASE AddRefused
  <2>1. rpc' = rpc /\ rset' = rset /\ pipe' = pipe /\ socks' = socks /\ opened' = opened \union {Index}
    BY <1>4 DEF AddRefused, poolVars
  <2>2. Index \in Conn
    <3>1. Index <= Len(Program) /\ Program[Index].op = "add"
      BY <1>4 DEF AddRefused, Calls
    <3>2. Conn = {k \in 1 .. Len(Program) : Program[k].op = "add"} /\ Len(Program) \in Nat
      BY <1>1, ProgramFacts DEF CallInv
    <3>3. Index \in 1 .. Len(Program)
      BY <1>1, <3>1, <3>2 DEF CallInv, Index
    <3> QED BY <3>1, <3>2, <3>3
  <2> QED BY <1>1, <1>2, <2>1, <2>2 DEF RecvInv, SocksOf
<1>5. CASE add_conn
  <2>1. rpc' = rpc /\ rset' = rset /\ pipe' = pipe /\ opened' = opened \union {Index}
    BY <1>5 DEF add_conn
  <2>2. Index \in Conn
    BY <1>5, AddSocks
  <2>3. ASSUME NEW t \in Thr PROVE SocksOf(t) \subseteq {socks'[t][i] : i \in DOMAIN socks'[t]}
    <3>1. /\ Len(socks[t]) \in Nat /\ Len(socks'[t]) \in Nat /\ Len(socks[t]) <= Len(socks'[t])
          /\ DOMAIN socks[t] = 1 .. Len(socks[t]) /\ DOMAIN socks'[t] = 1 .. Len(socks'[t])
          /\ \A i \in 1 .. Len(socks[t]) : socks'[t][i] = socks[t][i]
      BY <1>5, AddSocks
    <3>2. ASSUME NEW i \in DOMAIN socks[t] PROVE i \in DOMAIN socks'[t] /\ socks[t][i] = socks'[t][i]
      BY <3>1
    <3> QED BY <3>2 DEF SocksOf
  <2>4. \A t \in Thr : rset'[t] \subseteq SocksOf(t)' \union {Pipe}
    BY <1>2, <2>1, <2>3 DEF SocksOf
  <2> QED BY <1>1, <1>2, <2>1, <2>2, <2>4 DEF RecvInv, SocksOf
<1>6. CASE start_all
  <2>1. rpc' = [t \in Thr |-> "select"] /\ rset' = rset /\ pipe' = pipe /\ opened' = opened /\ socks' = socks
    BY <1>6 DEF start_all
  <2>2. rpc' \in [Thr -> {"none", "select", "read", "done", "joined"}]
    BY <2>1
  <2> QED BY <1>1, <1>2, <2>1, <2>2 DEF RecvInv, SocksOf
<1>7. CASE StopSignals
  <2>1. rpc' = rpc /\ rset' = rset /\ pipe' = pipe \ {loop} /\ opened' = opened /\ socks' = socks
    BY <1>7 DEF StopSignals, poolVars
  <2> QED BY <1>1, <1>2, <2>1 DEF RecvInv, SocksOf
<1>8. CASE StopJoins
  <2>1. rset' = rset /\ pipe' = pipe /\ opened' = opened /\ socks' = socks
    BY <1>8 DEF StopJoins, poolVars
  <2>2. rpc' = rpc \/ rpc' = [rpc EXCEPT ![loop - num_thrs] = "joined"]
    BY <1>8 DEF StopJoins
  <2>3. rpc' \in [Thr -> {"none", "select", "read", "done", "joined"}]
    BY <1>2, <2>2
  <2> QED BY <1>1, <1>2, <2>1, <2>3 DEF RecvInv, SocksOf
<1>9. ASSUME NEW t \in Thr, Sender(t) PROVE RecvInv'
  <2>1. socks' = socks /\ UNCHANGED rVars
    BY <1>9 DEF Sender, Pop, WriteSock, WriteNowhere, mainRest, poolVars
  <2> QED BY <1>1, <2>1, RecvSame
<1>10. ASSUME NEW t \in Thr, Select(t) PROVE RecvInv'
  <2>1. rset' = [rset EXCEPT ![t] = Readable(t)] /\ rpc' = [rpc EXCEPT ![t] = "read"] /\ pipe' = pipe /\ opened' = opened
        /\ socks' = socks
    BY <1>10 DEF Select, mainRest, poolVars
  <2>2. Readable(t) \subseteq SocksOf(t) \union {Pipe}
    BY DEF Readable
  <2>3. rpc' \in [Thr -> {"none", "select", "read", "done", "joined"}]
    BY <1>2, <2>1
  <2>4. DOMAIN rset' = Thr /\ \A u \in Thr : rset'[u] \subseteq SocksOf(u) \union {Pipe}
    BY <1>2, <2>1, <2>2
  <2> QED BY <1>1, <1>2, <2>1, <2>3, <2>4 DEF RecvInv, SocksOf
<1>11. ASSUME NEW t \in Thr, ReadSock(t) PROVE RecvInv'
  <2>1. rset' = [rset EXCEPT ![t] = @ \ {Next1(t)}] /\ rpc' = rpc /\ pipe' = pipe /\ opened' = opened /\ socks' = socks
    BY <1>11 DEF ReadSock, poolVars
  <2>2. DOMAIN rset' = Thr /\ \A u \in Thr : rset'[u] \subseteq SocksOf(u) \union {Pipe}
    BY <1>2, <2>1
  <2> QED BY <1>1, <1>2, <2>1, <2>2 DEF RecvInv, SocksOf
<1>12. ASSUME NEW t \in Thr, ReadRound(t) PROVE RecvInv'
  <2>1. rpc' = [rpc EXCEPT ![t] = "select"] /\ rset' = rset /\ pipe' = pipe /\ opened' = opened /\ socks' = socks
    BY <1>12 DEF ReadRound, mainRest, poolVars
  <2>2. rpc' \in [Thr -> {"none", "select", "read", "done", "joined"}]
    BY <1>2, <2>1
  <2> QED BY <1>1, <1>2, <2>1, <2>2 DEF RecvInv, SocksOf
<1>13. ASSUME NEW t \in Thr, ReaderExits(t) PROVE RecvInv'
  <2>1. rset' = [rset EXCEPT ![t] = {}] /\ rpc' = [rpc EXCEPT ![t] = "done"] /\ pipe' = pipe
        /\ opened' = opened \ SocksOf(t) /\ socks' = socks
    BY <1>13 DEF ReaderExits, mainRest, poolVars
  <2>2. rpc' \in [Thr -> {"none", "select", "read", "done", "joined"}]
    BY <1>2, <2>1
  <2>3. DOMAIN rset' = Thr /\ \A u \in Thr : rset'[u] \subseteq SocksOf(u) \union {Pipe}
    BY <1>2, <2>1
  <2>4. opened' \subseteq Conn
    BY <1>2, <2>1
  <2> QED BY <1>1, <1>2, <2>1, <2>2, <2>3, <2>4 DEF RecvInv, SocksOf
<1>14. ASSUME NEW c \in Conn, Worker(c) PROVE RecvInv'
  <2>1. socks' = socks /\ UNCHANGED rVars
    BY <1>14 DEF Worker, PeerReads, PeerReadsEnd, PeerWrites, peerRest, poolVars
  <2> QED BY <1>1, <2>1, RecvSame
<1>15. CASE UNCHANGED vars
  BY <1>1, <1>15, RecvSame DEF vars, rVars
<1> QED BY <1>3, <1>4, <1>5, <1>6, <1>7, <1>8, <1>9, <1>10, <1>11, <1>12, <1>13, <1>14, <1>15 DEF Next, Main, Reader

\* How the part of the workers is shown for the next state.
LEMMA PeerRule ==
  ASSUME prog' = prog,
         toPeer' \in [Conn -> Frames], toPool' \in [Conn -> Frames], got' \in [Conn -> Frames], cut' \in [Conn -> Tails],
         peer' \in [Conn -> {"read", "write", "gone", "failed"}], rounds' \in [Conn -> Nat], reset' \subseteq Conn,
         \A c \in Conn : /\ rounds'[c] <= Rounds
                         /\ peer'[c] \in {"read", "write"} => rounds'[c] < Rounds
                         /\ peer'[c] = "write" => got'[c] # <<>>
  PROVE  PeerInv'
<1> QED BY ProgSame DEF PeerInv

\* What a connection carries are numbers of calls.
LEMMA FrameFacts ==
  ASSUME NEW f \in Frames
  PROVE  /\ f # <<>> => Head(f) \in 1 .. Len(Program) /\ Tail(f) \in Frames /\ Last(f) \in 1 .. Len(Program)
         /\ \A x \in 1 .. Len(Program) : Append(f, x) \in Frames /\ Append(f, x) # <<>>
<1>1. PICK S : S = 1 .. Len(Program)
  OBVIOUS
<1>2. f \in Seq(S)
  BY <1>1 DEF Frames
<1>3. ASSUME f # <<>> PROVE Head(f) \in S /\ Tail(f) \in Seq(S) /\ Last(f) \in S
  <2>1. Head(f) \in S /\ Tail(f) \in Seq(S)
    BY <1>2, <1>3
  <2>2. Len(f) \in 1 .. Len(f)
    BY <1>2, <1>3
  <2>3. f[Len(f)] \in S
    BY <1>2, <2>2
  <2> QED BY <2>1, <2>3 DEF Last
<1>4. ASSUME NEW x \in S PROVE Append(f, x) \in Seq(S) /\ Append(f, x) # <<>>
  <2>1. Append(f, x) \in Seq(S) /\ Len(Append(f, x)) = Len(f) + 1 /\ Len(f) \in Nat
    BY <1>2
  <2>2. Len(Append(f, x)) # 0
    BY <2>1
  <2> QED BY <2>1, <2>2
<1> QED BY <1>1, <1>3, <1>4 DEF Frames

\* One sequence is the beginning of another.
Begins(p, f) ==
  /\ Len(p) \in Nat /\ DOMAIN p = 1 .. Len(p) /\ Len(p) <= Len(f)
  /\ \A i \in DOMAIN p : i \in DOMAIN f /\ p[i] = f[i]

\* Everything begins with itself.
LEMMA BeginsAll == ASSUME NEW f \in Frames PROVE Begins(f, f)
<1>1. PICK S : S = 1 .. Len(Program)
  OBVIOUS
<1>2. f \in Seq(S)
  BY <1>1 DEF Frames
<1>3. Len(f) \in Nat /\ DOMAIN f = 1 .. Len(f)
  BY <1>2
<1> QED BY <1>3 DEF Begins

\* Nothing begins only with nothing.
LEMMA BeginsNothing ==
  ASSUME NEW p \in Frames, Begins(p, <<>>)
  PROVE  p = <<>>
<1>1. PICK S : S = 1 .. Len(Program)
  OBVIOUS
<1>2. p \in Seq(S)
  BY <1>1 DEF Frames
<1>3. Len(p) = 0
  BY <1>2 DEF Begins
<1> QED BY <1>2, <1>3

\* What a reset leaves is a beginning.
LEMMA CutFacts ==
  ASSUME NEW f \in Frames, NEW x \in Tails, NEW left \in Cuts(f, x)
  PROVE  left.q \in Frames /\ left.part \in Tails /\ Begins(left.q, f)
<1>1. CASE left = [q |-> f, part |-> x]
  <2>1. left.q = f /\ left.part = x
    BY <1>1
  <2> QED BY <2>1, BeginsAll
<1>2. ASSUME NEW k \in 0 .. Len(f) - 1, NEW y \in Tails, left = [q |-> SubSeq(f, 1, k), part |-> y]
      PROVE  left.q \in Frames /\ left.part \in Tails /\ Begins(left.q, f)
  <2>1. PICK S : S = 1 .. Len(Program)
    OBVIOUS
  <2>2. f \in Seq(S)
    BY <2>1 DEF Frames
  <2>3. PICK p : p = SubSeq(f, 1, k)
    OBVIOUS
  <2>4. left.q = p /\ left.part = y
    BY <1>2, <2>3
  <2>5. Len(f) \in Nat /\ k \in Nat /\ k < Len(f) /\ DOMAIN f = 1 .. Len(f)
    BY <2>2
  <2>6. Len(p) = k /\ DOMAIN p = 1 .. k /\ \A i \in 1 .. k : p[i] = f[i]
    BY <2>2, <2>3, <2>5
  <2>7. p \in Seq(S)
    <3>1. \A i \in 1 .. k : f[i] \in S
      BY <2>2, <2>5
    <3> QED BY <2>2, <2>3, <2>5, <3>1
  <2>8. \A i \in 1 .. k : i \in DOMAIN f
    BY <2>5
  <2>9. Begins(p, f)
    BY <2>5, <2>6, <2>8 DEF Begins
  <2> QED BY <2>1, <2>4, <2>7, <2>9 DEF Frames
<1> QED BY <1>1, <1>2 DEF Cuts

\* So is what a close leaves.
LEMMA CloseFacts ==
  ASSUME PeerInv, NEW t \in Thr, NEW c \in Conn, NEW left \in AfterClose(t, c)
  PROVE  left.q \in Frames /\ left.part \in Tails /\ Begins(left.q, toPeer[c])
<1>1. PICK f \in Frames : f = toPeer[c]
  BY DEF PeerInv
<1>2. PICK x \in Tails : left \in (IF c \in Unread(t) THEN Cuts(f, x) ELSE {[q |-> f, part |-> x]})
  BY <1>1 DEF AfterClose
<1>3. CASE left \in Cuts(f, x)
  BY <1>1, <1>3, CutFacts
<1>4. CASE left = [q |-> f, part |-> x]
  <2>1. left.q = f /\ left.part = x
    BY <1>4
  <2> QED BY <1>1, <2>1, BeginsAll
<1> QED BY <1>2, <1>3, <1>4

\* What a step of a sender leaves of the answers,
LEMMA WriteLeaves ==
  ASSUME TypeInv, NEW t \in Thr, WriteSock(t), NEW c \in Conn
  PROVE  /\ Begins(toPool'[c], toPool[c])
         /\ \E w : /\ w = socks[t][widx[t] + 1]
                   /\ toPeer' = toPeer \/ toPeer' = [toPeer EXCEPT ![w] = Append(@, wmsg[t].data)]
<1>1. PICK w : w = socks[t][widx[t] + 1]
  OBVIOUS
<1>2. DOMAIN toPool = Conn /\ toPool[c] \in Frames /\ cut[c] \in Tails
  BY DEF TypeInv, PeerInv
<1>3. Begins(toPool[c], toPool[c])
  BY <1>2, BeginsAll
<1>4. ASSUME NEW left \in Cuts(toPool[w], cut[w]), toPool' = [toPool EXCEPT ![w] = left.q]
      PROVE  Begins(toPool'[c], toPool[c])
  <2>1. CASE c = w
    <3>1. Begins(left.q, toPool[c])
      BY <1>2, <1>4, <2>1, CutFacts
    <3> QED BY <1>2, <1>4, <2>1, <3>1
  <2>2. CASE c # w
    <3>1. toPool'[c] = toPool[c]
      BY <1>2, <1>4, <2>2
    <3> QED BY <1>3, <3>1
  <2> QED BY <2>1, <2>2
<1>5. ASSUME toPool' = toPool
      PROVE  Begins(toPool'[c], toPool[c])
  <2>1. toPool'[c] = toPool[c]
    BY <1>5
  <2> QED BY <1>3, <2>1
<1>6. Begins(toPool'[c], toPool[c])
  BY <1>1, <1>4, <1>5 DEF WriteSock, netVars
<1>7. toPeer' = toPeer \/ toPeer' = [toPeer EXCEPT ![w] = Append(@, wmsg[t].data)]
  BY <1>1 DEF WriteSock, netVars
<1> QED BY <1>1, <1>6, <1>7

\* a reader that ends of the messages,
LEMMA ExitLeaves ==
  ASSUME TypeInv, NEW t \in Thr, ReaderExits(t), NEW c \in Conn
  PROVE  Begins(toPeer'[c], toPeer[c]) /\ (c \notin SocksOf(t) => toPeer'[c] = toPeer[c] /\ cut'[c] = cut[c])
<1>1. PICK left : /\ \A d \in SocksOf(t) : left[d] \in AfterClose(t, d)
                  /\ toPeer' = [d \in Conn |-> IF d \in SocksOf(t) THEN left[d].q ELSE toPeer[d]]
                  /\ cut' = [d \in Conn |-> IF d \in SocksOf(t) THEN left[d].part ELSE cut[d]]
  BY DEF ReaderExits
<1>2. CASE c \in SocksOf(t)
  <2>1. Begins(left[c].q, toPeer[c])
    BY <1>1, <1>2, CloseFacts DEF TypeInv
  <2> QED BY <1>1, <1>2, <2>1
<1>3. CASE c \notin SocksOf(t)
  <2>1. toPeer'[c] = toPeer[c] /\ cut'[c] = cut[c] /\ toPeer[c] \in Frames
    BY <1>1, <1>3 DEF TypeInv, PeerInv
  <2> QED BY <1>3, <2>1, BeginsAll
<1> QED BY <1>2, <1>3

\* and a worker's answer of both.
LEMMA AnswerLeaves ==
  ASSUME TypeInv, NEW d \in Conn, PeerWrites(d), NEW c \in Conn
  PROVE  /\ Begins(toPeer'[c], toPeer[c])
         /\ toPeer'[c] = toPeer[c] \/ (c = d /\ c \notin opened)
         /\ toPool'[c] = toPool[c] \/ (c = d /\ Begins(toPool'[c], Append(toPool[c], Last(got[c]))))
<1>1. DOMAIN toPool = Conn /\ DOMAIN toPeer = Conn /\ toPool[c] \in Frames /\ toPeer[c] \in Frames /\ cut[c] \in Tails
  BY DEF TypeInv, PeerInv
<1>2. Begins(toPeer[c], toPeer[c])
  BY <1>1, BeginsAll
<1>3. CASE c # d
  <2>1. toPeer'[c] = toPeer[c] /\ toPool'[c] = toPool[c]
    BY <1>1, <1>3 DEF PeerWrites
  <2> QED BY <1>2, <2>1
<1>4. CASE c = d
  <2>1. PICK a : a = Append(toPool[c], Last(got[c]))
    OBVIOUS
  <2>2. a \in Frames
    <3>1. got[c] \in Frames /\ got[c] # <<>>
      BY <1>4 DEF PeerWrites, TypeInv, PeerInv
    <3>2. Last(got[c]) \in 1 .. Len(Program)
      BY <3>1, FrameFacts
    <3> QED BY <1>1, <2>1, <3>2, FrameFacts
  <2>3. CASE toPool' = [toPool EXCEPT ![c] = a] /\ toPeer' = toPeer
    BY <1>1, <1>2, <1>4, <2>1, <2>2, <2>3, BeginsAll
  <2>4. ASSUME NEW left \in Cuts(a, cut[c]), toPool' = [toPool EXCEPT ![c] = left.q], toPeer' = toPeer
        PROVE  Begins(toPool'[c], a) /\ toPeer'[c] = toPeer[c]
    <3>1. Begins(left.q, a)
      BY <1>1, <2>2, CutFacts
    <3> QED BY <1>1, <2>4, <3>1
  <2>5. ASSUME NEW left \in Cuts(toPeer[c], cut[c]), toPeer' = [toPeer EXCEPT ![c] = left.q], toPool' = toPool
        PROVE  Begins(toPeer'[c], toPeer[c]) /\ toPool'[c] = toPool[c]
    <3>1. Begins(left.q, toPeer[c])
      BY <1>1, CutFacts
    <3> QED BY <1>1, <2>5, <3>1
  <2> QED BY <1>2, <1>4, <2>1, <2>3, <2>4, <2>5 DEF PeerWrites
<1> QED BY <1>3, <1>4

\* Every step keeps the workers and the network well-typed.
LEMMA PeerStep == TypeInv /\ [Next]_vars => PeerInv'
<1> SUFFICES ASSUME TypeInv, [Next]_vars PROVE PeerInv'
  OBVIOUS
<1>1. prog' = prog /\ PeerInv /\ CallInv /\ Conn' = Conn
  BY ProgStep, ProgSame DEF TypeInv
<1>2. PICK C, F : C = Conn /\ F = Frames
  OBVIOUS
<1>3. /\ toPeer \in [C -> F] /\ toPool \in [C -> F] /\ got \in [C -> F] /\ cut \in [C -> Tails]
      /\ peer \in [C -> {"read", "write", "gone", "failed"}]
      /\ rounds \in [C -> Nat] /\ reset \subseteq C
      /\ \A c \in C : /\ rounds[c] <= Rounds
                      /\ peer[c] \in {"read", "write"} => rounds[c] < Rounds
                      /\ peer[c] = "write" => got[c] # <<>>
  BY <1>1, <1>2 DEF PeerInv
<1>4. Rounds \in Nat \ {0} /\ Len(Program) \in Nat
  BY <1>1, ProgramFacts DEF CallInv
<1>5. CASE Main
  <2>1. UNCHANGED netVars /\ UNCHANGED peerVars
    BY <1>5 DEF Main, Refused, AddRefused, add_conn, start_all, send, thr_broadcast, broadcast, StopSignals, StopJoins,
                StopReturns, Wait, poolRest
  <2> QED BY <1>1, <2>1, PeerSame
<1>6. ASSUME NEW t \in Thr, Pop(t) \/ WriteNowhere(t) \/ Select(t) \/ ReadRound(t) PROVE PeerInv'
  <2>1. UNCHANGED netVars /\ UNCHANGED peerVars
    BY <1>6 DEF Pop, WriteNowhere, Select, ReadRound, mainRest
  <2> QED BY <1>1, <2>1, PeerSame
<1>7. ASSUME NEW t \in Thr, WriteSock(t) PROVE PeerInv'
  <2>1. PICK c : c = socks[t][widx[t] + 1]
    OBVIOUS
  <2>2. peer' = peer /\ rounds' = rounds /\ got' = got
    BY <1>7 DEF WriteSock, mainRest, peerVars
  <2>3. wpc[t] = "write" /\ widx[t] < Len(socks[t])
    BY <1>7 DEF WriteSock
  <2>4. \/ toPeer' = toPeer /\ reset' = reset
        \/ toPeer' = [toPeer EXCEPT ![c] = Append(@, wmsg[t].data)] /\ reset' = reset
        \/ toPeer' = toPeer /\ reset' = reset \union {c}
    BY <1>7, <2>1 DEF WriteSock, netVars
  <2>5. c \in C
    <3>1. socks[t] \in Seq(C) /\ widx[t] \in Nat
      BY <1>2 DEF TypeInv, SockInv, SendInv
    <3>2. widx[t] + 1 \in 1 .. Len(socks[t])
      BY <2>3, <3>1
    <3> QED BY <2>1, <3>1, <3>2
  <2>6. wmsg[t].data \in 1 .. Len(Program)
    BY <2>3 DEF TypeInv, SendInv, Msg
  <2>7. Append(toPeer[c], wmsg[t].data) \in F
    BY <1>2, <1>3, <2>5, <2>6, FrameFacts
  <2>8. toPeer' \in [C -> F]
    BY <1>3, <2>4, <2>7
  <2>9. reset' \subseteq C
    BY <1>3, <2>4, <2>5
  <2>10. toPool' \in [C -> F] /\ cut' \in [C -> Tails]
    <3>1. CASE toPool' = toPool /\ cut' = cut
      BY <1>3, <3>1
    <3>2. ASSUME NEW left \in Cuts(toPool[c], cut[c]), toPool' = [toPool EXCEPT ![c] = left.q],
                 cut' = [cut EXCEPT ![c] = left.part]
          PROVE  toPool' \in [C -> F] /\ cut' \in [C -> Tails]
      <4>1. toPool[c] \in Frames /\ cut[c] \in Tails
        BY <1>2, <1>3, <2>5
      <4>2. left.q \in F /\ left.part \in Tails
        BY <1>2, <4>1, CutFacts
      <4> QED BY <1>3, <3>2, <4>2
    <3> QED BY <1>7, <2>1, <3>1, <3>2 DEF WriteSock, netVars
  <2> QED BY <1>1, <1>2, <1>3, <2>2, <2>8, <2>9, <2>10, PeerRule
<1>8. ASSUME NEW t \in Thr, ReadSock(t) PROVE PeerInv'
  <2>1. peer' = peer /\ rounds' = rounds /\ got' = got /\ toPeer' = toPeer /\ reset' = reset
    BY <1>8 DEF ReadSock, peerVars
  <2>2. PICK c : c = Next1(t)
    OBVIOUS
  <2>3. toPool' = [toPool EXCEPT ![c] = IF @ = <<>> THEN @ ELSE Tail(@)]
    BY <1>8, <2>2 DEF ReadSock
  <2>4. ASSUME c \in C PROVE (IF toPool[c] = <<>> THEN toPool[c] ELSE Tail(toPool[c])) \in F
    <3>1. toPool[c] \in F
      BY <1>3, <2>4
    <3> QED BY <1>2, <3>1, FrameFacts
  <2>5. toPool' \in [C -> F]
    <3>1. CASE c \in C
      BY <1>3, <2>3, <2>4, <3>1
    <3>2. CASE c \notin C
      BY <1>3, <2>3, <3>2
    <3> QED BY <3>1, <3>2
  <2>6. cut' \in [C -> Tails]
    <3>1. cut' = cut \/ cut' = [cut EXCEPT ![c] = "no"]
      BY <1>8, <2>2 DEF ReadSock
    <3>2. "no" \in Tails
      BY DEF Tails
    <3> QED BY <1>3, <3>1, <3>2
  <2> QED BY <1>1, <1>2, <1>3, <2>1, <2>5, <2>6, PeerRule
<1>9. ASSUME NEW t \in Thr, ReaderExits(t) PROVE PeerInv'
  <2>1. peer' = peer /\ rounds' = rounds /\ got' = got /\ reset' = reset
    BY <1>9 DEF ReaderExits, mainRest, peerVars
  <2>2. PICK left : /\ \A c \in SocksOf(t) : left[c] \in AfterClose(t, c)
                    /\ toPeer' = [c \in C |-> IF c \in SocksOf(t) THEN left[c].q ELSE toPeer[c]]
                    /\ cut' = [c \in C |-> IF c \in SocksOf(t) THEN left[c].part ELSE cut[c]]
    BY <1>2, <1>9 DEF ReaderExits
  <2>3. toPool' = [c \in C |-> IF c \in SocksOf(t) THEN <<>> ELSE toPool[c]]
    BY <1>2, <1>9 DEF ReaderExits
  <2>4. <<>> \in F
    BY <1>2 DEF Frames
  <2>6. \A c \in C : c \in SocksOf(t) => left[c].q \in F /\ left[c].part \in Tails
    BY <1>1, <1>2, <2>2, CloseFacts
  <2>5. toPeer' \in [C -> F] /\ toPool' \in [C -> F] /\ cut' \in [C -> Tails]
    BY <1>3, <2>2, <2>3, <2>4, <2>6
  <2> QED BY <1>1, <1>2, <1>3, <2>1, <2>5, PeerRule
<1>10. ASSUME NEW c \in Conn, PeerReads(c) PROVE PeerInv'
  <2>1. /\ rounds' = rounds /\ toPool' = toPool /\ reset' = reset /\ cut' = cut
        /\ got' = [got EXCEPT ![c] = Append(@, Head(toPeer[c]))]
        /\ toPeer' = [toPeer EXCEPT ![c] = Tail(@)]
        /\ peer' = [peer EXCEPT ![c] = "write"]
        /\ toPeer[c] # <<>> /\ peer[c] = "read"
    BY <1>10 DEF PeerReads
  <2>2. Head(toPeer[c]) \in 1 .. Len(Program) /\ Tail(toPeer[c]) \in F
    BY <1>2, <1>3, <2>1, FrameFacts
  <2>3. Append(got[c], Head(toPeer[c])) \in F /\ Append(got[c], Head(toPeer[c])) # <<>>
    BY <1>2, <1>3, <2>2, FrameFacts
  <2>4. got' \in [C -> F] /\ toPeer' \in [C -> F] /\ peer' \in [C -> {"read", "write", "gone", "failed"}]
    BY <1>3, <2>1, <2>2, <2>3
  <2>5. got'[c] # <<>>
    BY <1>2, <1>3, <2>1, <2>3
  <2>6. \A d \in C : d # c => got'[d] = got[d] /\ peer'[d] = peer[d]
    BY <1>3, <2>1
  <2>7. ASSUME NEW d \in C
        PROVE  /\ rounds'[d] <= Rounds
               /\ peer'[d] \in {"read", "write"} => rounds'[d] < Rounds
               /\ peer'[d] = "write" => got'[d] # <<>>
    <3>1. CASE d = c
      BY <1>3, <2>1, <2>5, <3>1
    <3>2. CASE d # c
      BY <1>3, <2>1, <2>6, <3>2
    <3> QED BY <3>1, <3>2
  <2> QED BY <1>1, <1>2, <1>3, <2>1, <2>4, <2>7, PeerRule
<1>11. ASSUME NEW c \in Conn, PeerReadsEnd(c) PROVE PeerInv'
  <2>1. /\ rounds' = rounds /\ got' = got /\ toPeer' = toPeer /\ toPool' = toPool /\ reset' = reset /\ cut' = cut
        /\ peer' = [peer EXCEPT ![c] = "failed"]
    BY <1>11 DEF PeerReadsEnd, netVars
  <2>2. peer' \in [C -> {"read", "write", "gone", "failed"}]
    BY <1>3, <2>1
  <2>3. \A d \in C : peer'[d] = peer[d] \/ peer'[d] = "failed"
    BY <1>3, <2>1
  <2> QED BY <1>1, <1>2, <1>3, <2>1, <2>2, <2>3, PeerRule
<1>12. ASSUME NEW c \in Conn, PeerWrites(c) PROVE PeerInv'
  <2>1. /\ rounds' = [rounds EXCEPT ![c] = @ + 1] /\ got' = got
        /\ peer' = [peer EXCEPT ![c] = IF rounds[c] + 1 = Rounds THEN "gone" ELSE "read"]
        /\ peer[c] = "write"
        /\ reset' \in {reset, reset \union {c}}
    BY <1>12 DEF PeerWrites
  <2>2. PICK a : a = Append(toPool[c], Last(got[c]))
    OBVIOUS
  <2>3. got[c] # <<>> /\ rounds[c] < Rounds /\ rounds[c] \in Nat
    BY <1>2, <1>3, <2>1
  <2>4. Last(got[c]) \in 1 .. Len(Program)
    BY <1>2, <1>3, <2>3, FrameFacts
  <2>5. a \in Frames
    BY <1>2, <1>3, <2>2, <2>4, FrameFacts
  <2>6. toPool' \in [C -> F] /\ toPeer' \in [C -> F] /\ cut' \in [C -> Tails]
    <3>1. CASE toPool' = [toPool EXCEPT ![c] = a] /\ toPeer' = toPeer /\ cut' = cut
      BY <1>2, <1>3, <2>5, <3>1
    <3>2. ASSUME NEW left \in Cuts(a, cut[c]), toPool' = [toPool EXCEPT ![c] = left.q],
                 cut' = [cut EXCEPT ![c] = left.part], toPeer' = toPeer
          PROVE  toPool' \in [C -> F] /\ toPeer' \in [C -> F] /\ cut' \in [C -> Tails]
      <4>1. cut[c] \in Tails
        BY <1>2, <1>3
      <4>2. left.q \in F /\ left.part \in Tails
        BY <1>2, <2>5, <4>1, CutFacts
      <4> QED BY <1>2, <1>3, <3>2, <4>2
    <3>3. ASSUME NEW left \in Cuts(toPeer[c], cut[c]), toPeer' = [toPeer EXCEPT ![c] = left.q],
                 cut' = [cut EXCEPT ![c] = left.part], toPool' = toPool
          PROVE  toPool' \in [C -> F] /\ toPeer' \in [C -> F] /\ cut' \in [C -> Tails]
      <4>1. cut[c] \in Tails /\ toPeer[c] \in Frames
        BY <1>2, <1>3
      <4>2. left.q \in F /\ left.part \in Tails
        BY <1>2, <4>1, CutFacts
      <4> QED BY <1>2, <1>3, <3>3, <4>2
    <3> QED BY <1>12, <2>2, <3>1, <3>2, <3>3 DEF PeerWrites
  <2>7. rounds' \in [C -> Nat] /\ peer' \in [C -> {"read", "write", "gone", "failed"}]
    <3>1. rounds[c] + 1 \in Nat
      BY <2>3
    <3>2. (IF rounds[c] + 1 = Rounds THEN "gone" ELSE "read") \in {"read", "write", "gone", "failed"}
      OBVIOUS
    <3>3. rounds' \in [C -> Nat]
      BY <1>3, <2>1, <3>1
    <3>4. peer' \in [C -> {"read", "write", "gone", "failed"}]
      BY <1>3, <2>1, <3>2
    <3> QED BY <3>3, <3>4
  <2>8. ASSUME NEW d \in C
        PROVE  /\ rounds'[d] <= Rounds
               /\ peer'[d] \in {"read", "write"} => rounds'[d] < Rounds
               /\ peer'[d] = "write" => got'[d] # <<>>
    <3>1. CASE d = c
      <4>1. rounds'[d] = rounds[c] + 1 /\ peer'[d] = (IF rounds[c] + 1 = Rounds THEN "gone" ELSE "read")
        BY <1>2, <1>3, <2>1, <3>1
      <4> QED BY <1>4, <2>3, <4>1
    <3>2. CASE d # c
      <4>1. rounds'[d] = rounds[d] /\ peer'[d] = peer[d] /\ got'[d] = got[d]
        BY <1>2, <1>3, <2>1, <3>2
      <4> QED BY <1>3, <4>1
    <3> QED BY <3>1, <3>2
  <2>9. reset' \subseteq C
    BY <1>2, <1>3, <2>1
  <2> QED BY <1>1, <1>2, <1>3, <2>1, <2>6, <2>7, <2>8, <2>9, PeerRule
<1>13. CASE UNCHANGED vars
  BY <1>1, <1>13, PeerSame DEF vars, netVars, peerVars
<1> QED BY <1>5, <1>6, <1>7, <1>8, <1>9, <1>10, <1>11, <1>12, <1>13 DEF Next, Sender, Reader, Worker

\* The semaphore is never below 0: sem_wait waits.
LEMMA SemStep == TypeInv /\ [Next]_vars => sem' \in Nat
<1> SUFFICES ASSUME TypeInv, [Next]_vars PROVE sem' \in Nat
  OBVIOUS
<1>1. sem \in Nat
  BY DEF TypeInv
<1>2. CASE Wait
  BY <1>1, <1>2 DEF Wait
<1>3. CASE Main /\ ~Wait
  BY <1>1, <1>3 DEF Main, Refused, AddRefused, add_conn, start_all, send, thr_broadcast, broadcast, StopSignals, StopJoins,
                    StopReturns, poolRest
<1>4. ASSUME NEW t \in Thr, Sender(t) \/ Reader(t) PROVE sem' \in Nat
  <2>1. CASE ReadSock(t)
    BY <1>1, <2>1 DEF ReadSock, Posts
  <2>2. CASE ~ReadSock(t)
    BY <1>1, <1>4, <2>2 DEF Sender, Reader, Pop, WriteSock, WriteNowhere, Select, ReadRound, ReaderExits, mainRest
  <2> QED BY <2>1, <2>2
<1>5. ASSUME NEW c \in Conn, Worker(c) PROVE sem' \in Nat
  BY <1>1, <1>5 DEF Worker, PeerReads, PeerReadsEnd, PeerWrites, peerRest
<1> QED BY <1>1, <1>2, <1>3, <1>4, <1>5 DEF Next, vars

\* The parts together.
LEMMA TypeStep == TypeInv /\ [Next]_vars => TypeInv'
<1> QED BY CallStep, SockStep, SendStep, RecvStep, PeerStep, SemStep DEF TypeInv

\* The invariant holds in every state.
LEMMA TypeInvHolds == Spec => []TypeInv
<1> QED BY TypeInit, TypeStep, PTL DEF Spec

\* Every variable of the pool, its threads and its workers has its type, for every
\* number of threads and connections and every program; start_send stays below num_socks.
THEOREM TypeCorrect == Spec => []TypeOK
<1> QED BY TypeInvHolds, TypeInvImplies, PTL

-----------------------------------------------------------------------------
(* The calls that end the program: add_conn and stop_all *)

\* The connections with an id.
Ided == {c \in Conn : HasId(c)}

\* How many of the ids 0 .. n - 1 belong to thread t.
Share(n, t) == (n \div num_thrs) + (IF t < n % num_thrs THEN 1 ELSE 0)

\* Each thread has the connections whose ids are its own.
RoomInv == Start = 0 => num_conns <= max_conns /\ \A t \in Thr : Len(socks[t]) = Share(num_conns, t)

\* A stop_all has returned.
Stopped == \E k \in DOMAIN results : Program[k].op = "stop" /\ results[k] = 0

\* Threads are joined by stop_all: by one that has returned, or by the running one, whose loop has passed them.
JoinInv ==
  \A t \in Thr : wpc[t] = "joined" =>
    Stopped \/ (Index <= Len(Program) /\ Program[Index].op = "stop" /\ running /\ loop > num_thrs + t)

\* There are more ids than the pool has room for only if they were there before the first connection.
OverInv == num_conns > max_conns => Start > max_conns

\* How a call may end the program.
CallsEnd ==
  /\ killed = "add_conn" => Program[Index].op = "add" /\ Start # 0
  /\ killed = "memory" => Program[Index].op = "add" /\ Start > max_conns
  /\ killed = "stop_all" => Program[Index].op = "stop" /\ Stopped

PoolInv == TypeInv /\ RoomInv /\ OverInv /\ JoinInv /\ CallsEnd

\* Multiplication is monotone.
LEMMA MulGrows ==
  ASSUME NEW d \in Nat, NEW x \in Int, NEW y \in Int, x + 1 <= y
  PROVE  d * x + d <= d * y
<1>1. PICK z \in Nat : y = x + 1 + z
  <2>1. y - x - 1 \in Nat /\ y = x + 1 + (y - x - 1)
    OBVIOUS
  <2> QED BY <2>1
<1>2. d * y = d * x + d + d * z
  BY <1>1
<1>3. d * z \in Nat
  BY <1>1
<1> QED BY <1>2, <1>3

\* Quotient and remainder are unique.
LEMMA Quotient ==
  ASSUME NEW l \in Nat, NEW d \in Nat \ {0}, NEW q \in Int, NEW r \in Int,
         l = d * q + r, 0 <= r, r < d
  PROVE  l \div d = q /\ l % d = r
<1>1. PICK p \in Int, s \in Int : p = l \div d /\ s = l % d
  OBVIOUS
<1>2. l = d * p + s /\ 0 <= s /\ s < d
  BY <1>1
<1>3. PICK dp \in Int, dq \in Int : dp = d * p /\ dq = d * q
  OBVIOUS
<1>4. ASSUME p + 1 <= q PROVE FALSE
  <2>1. dp + d <= dq
    BY <1>3, <1>4, MulGrows
  <2> QED BY <1>2, <1>3, <2>1
<1>5. ASSUME q + 1 <= p PROVE FALSE
  <2>1. dq + d <= dp
    BY <1>3, <1>5, MulGrows
  <2> QED BY <1>2, <1>3, <2>1
<1>6. p = q
  BY <1>4, <1>5
<1>7. dp = dq
  BY <1>3, <1>6
<1>8. s = r
  BY <1>2, <1>3, <1>7
<1> QED BY <1>1, <1>6, <1>8

\* The next id goes to the thread that add_conn chooses, and nowhere else.
LEMMA ShareNext ==
  ASSUME NEW n \in Nat, num_thrs \in Nat \ {0}, NEW t \in Thr
  PROVE  Share(n + 1, t) = Share(n, t) + (IF t = n % num_thrs THEN 1 ELSE 0)
<1>1. PICK N \in Nat \ {0} : N = num_thrs
  OBVIOUS
<1>2. PICK q \in Nat, r \in Nat : q = n \div N /\ r = n % N
  OBVIOUS
<1>3. n = N * q + r /\ r < N
  BY <1>2
<1>4. t \in Nat /\ t < N
  BY <1>1 DEF Thr
<1>5. CASE r + 1 < N
  <2>1. n + 1 = N * q + (r + 1)
    BY <1>3
  <2>2. (n + 1) \div N = q /\ (n + 1) % N = r + 1
    BY <1>5, <2>1, Quotient
  <2>3. Share(n + 1, t) = q + (IF t < r + 1 THEN 1 ELSE 0) /\ Share(n, t) = q + (IF t < r THEN 1 ELSE 0)
    BY <1>1, <1>2, <2>2 DEF Share
  <2>4. q + (IF t < r + 1 THEN 1 ELSE 0) = q + (IF t < r THEN 1 ELSE 0) + (IF t = r THEN 1 ELSE 0)
    BY <1>4
  <2> QED BY <1>1, <1>2, <2>3, <2>4
<1>6. CASE r + 1 = N
  <2>1. n + 1 = N * (q + 1) + 0
    <3>1. N * (q + 1) = N * q + N
      OBVIOUS
    <3>2. PICK z \in Nat : z = N * q
      OBVIOUS
    <3> QED BY <1>3, <1>6, <3>1, <3>2
  <2>2. (n + 1) \div N = q + 1 /\ (n + 1) % N = 0
    <3>1. PICK q1 \in Int, l \in Nat, z \in Int : q1 = q + 1 /\ l = n + 1 /\ z = 0
      OBVIOUS
    <3>2. l = N * q1 + z /\ 0 <= z /\ z < N
      BY <2>1, <3>1
    <3>3. l \div N = q1 /\ l % N = z
      BY <3>2, Quotient
    <3> QED BY <3>1, <3>3
  <2>3. Share(n + 1, t) = q + 1 + (IF t < 0 THEN 1 ELSE 0) /\ Share(n, t) = q + (IF t < r THEN 1 ELSE 0)
    BY <1>1, <1>2, <2>2 DEF Share
  <2>4. q + 1 + (IF t < 0 THEN 1 ELSE 0) = q + (IF t < r THEN 1 ELSE 0) + (IF t = r THEN 1 ELSE 0)
    BY <1>4, <1>6
  <2> QED BY <1>1, <1>2, <2>3, <2>4
<1> QED BY <1>3, <1>5, <1>6

\* There is room for an id below max_conns.
LEMMA ShareRoom ==
  ASSUME NEW n \in Nat, NEW m \in Nat, n < m, num_thrs \in Nat \ {0}
  PROVE  Share(n, n % num_thrs) < Share(m, n % num_thrs)
<1>1. PICK N \in Nat \ {0} : N = num_thrs
  OBVIOUS
<1>2. PICK q \in Nat, r \in Nat : q = n \div N /\ r = n % N
  OBVIOUS
<1>3. PICK p \in Nat, s \in Nat : p = m \div N /\ s = m % N
  OBVIOUS
<1>4. n = N * q + r /\ r < N /\ m = N * p + s /\ s < N
  BY <1>2, <1>3
<1>5. Share(n, r) = q
  BY <1>1, <1>2 DEF Share
<1>6. Share(m, r) = p + (IF r < s THEN 1 ELSE 0)
  BY <1>1, <1>3 DEF Share
<1>7. PICK x \in Nat, y \in Nat : x = N * q /\ y = N * p
  OBVIOUS
<1>8. ~(p < q)
  <2>1. SUFFICES ASSUME p + 1 <= q PROVE FALSE
    OBVIOUS
  <2>2. y + N <= x
    BY <1>7, <2>1, MulGrows
  <2> QED BY <1>4, <1>7, <2>2
<1>9. p = q => r < s
  BY <1>4, <1>7
<1>10. q < p + (IF r < s THEN 1 ELSE 0)
  BY <1>8, <1>9
<1> QED BY <1>1, <1>2, <1>5, <1>6, <1>10

\* The connections with an id can be counted.
LEMMA IdedFinite ==
  ASSUME TypeInv
  PROVE  /\ IsFiniteSet(Ided) /\ Cardinality(Ided) \in Nat
         /\ Start = num_conns - Cardinality(Ided)
         /\ \A c \in Ided : c \in Nat /\ c <= Len(results)
<1>1. Conn = {k \in 1 .. Len(Program) : Program[k].op = "add"} /\ Len(Program) \in Nat
  BY ProgramFacts DEF TypeInv, CallInv
<1>2. IsFiniteSet(1 .. Len(Program))
  BY <1>1, FS_Interval
<1>3. Ided \subseteq 1 .. Len(Program)
  BY <1>1 DEF Ided
<1>4. IsFiniteSet(Ided)
  BY <1>2, <1>3, FS_Subset
<1>5. Cardinality(Ided) \in Nat
  BY <1>4, FS_CardinalityType
<1>6. \A c \in Ided : c \in Nat /\ c <= Len(results)
  BY <1>1 DEF Ided, HasId
<1> QED BY <1>4, <1>5, <1>6 DEF Start, Ided

\* How the results change the set.
LEMMA IdedReturn ==
  ASSUME TypeInv, prog' = prog, NEW r \in Int, Return(r), Index <= Len(Program)
  PROVE  Ided' = Ided \union (IF Program[Index].op = "add" /\ r >= 0 THEN {Index} ELSE {})
<1>1. results \in Seq(Int) /\ results' = Append(results, r) /\ Conn' = Conn
  BY ProgSame DEF TypeInv, CallInv, Return
<1>2. Conn = {k \in 1 .. Len(Program) : Program[k].op = "add"} /\ Len(Program) \in Nat
  BY ProgramFacts DEF TypeInv, CallInv
<1>3. Len(results') = Len(results) + 1 /\ Len(results) \in Nat /\ results'[Len(results) + 1] = r
      /\ \A i \in 1 .. Len(results) : results'[i] = results[i]
  BY <1>1
<1>4. Index = Len(results) + 1 /\ Index \in 1 .. Len(Program)
  BY <1>2, <1>3 DEF Index
<1>5. Ided' = {c \in Conn : c <= Len(results') /\ results'[c] >= 0}
  BY <1>1 DEF Ided, HasId
<1>6. ASSUME NEW c \in Conn
      PROVE  c <= Len(results') /\ results'[c] >= 0 <=> HasId(c) \/ (c = Index /\ r >= 0)
  <2>1. c \in Nat /\ c >= 1
    BY <1>2
  <2>2. CASE c <= Len(results)
    <3>1. results'[c] = results[c] /\ c <= Len(results') /\ c # Index
      BY <1>3, <1>4, <2>1, <2>2
    <3> QED BY <2>2, <3>1 DEF HasId
  <2>3. CASE c = Index
    <3>1. results'[c] = r /\ c <= Len(results') /\ ~(c <= Len(results))
      BY <1>3, <1>4, <2>3
    <3> QED BY <2>3, <3>1 DEF HasId
  <2>4. CASE c > Index
    <3>1. ~(c <= Len(results')) /\ ~(c <= Len(results)) /\ c # Index
      BY <1>3, <1>4, <2>1, <2>4
    <3> QED BY <3>1 DEF HasId
  <2> QED BY <1>3, <1>4, <2>1, <2>2, <2>3, <2>4
<1>7. Index \in Conn <=> Program[Index].op = "add"
  BY <1>2, <1>4
<1> QED BY <1>5, <1>6, <1>7 DEF Ided

\* The strengthened invariant holds before the first call.
LEMMA PoolInit == Init => PoolInv
<1> SUFFICES ASSUME Init PROVE PoolInv
  OBVIOUS
<1>1. TypeInv
  BY TypeInit
<1>2. RoomInv
  <2>1. results = <<>> /\ socks = [t \in Thr |-> <<>>]
    BY DEF Init
  <2>2. Ided = {}
    <3>1. \A c \in Ided : c \in Nat /\ c <= Len(results)
      BY <1>1, IdedFinite
    <3>2. \A c \in Conn : c >= 1
      BY <1>1, ProgramFacts DEF TypeInv, CallInv
    <3> QED BY <2>1, <3>1, <3>2 DEF Ided
  <2>3. Cardinality(Ided) = 0
    BY <2>2, FS_EmptySet
  <2>4. num_conns \in Nat /\ max_conns \in Nat /\ num_thrs \in Nat \ {0}
    BY <1>1, ProgramFacts, SmallNumbers DEF TypeInv, CallInv
  <2>5. SUFFICES ASSUME Start = 0 PROVE num_conns <= max_conns /\ \A t \in Thr : Len(socks[t]) = Share(num_conns, t)
    BY DEF RoomInv
  <2>6. num_conns = 0
    BY <1>1, <2>3, <2>4, <2>5, IdedFinite
  <2>7. ASSUME NEW t \in Thr PROVE Share(0, t) = 0
    <3>1. PICK N \in Nat \ {0} : N = num_thrs
      BY <2>4
    <3>2. 0 \div N = 0 /\ 0 % N = 0
      <4>1. PICK z \in Nat : z = 0
        OBVIOUS
      <4>2. z = N * z + z /\ 0 <= z /\ z < N
        BY <4>1
      <4>3. z \div N = z /\ z % N = z
        BY <4>2, Quotient
      <4> QED BY <4>1, <4>3
    <3>3. t \in Nat
      BY <2>4 DEF Thr
    <3>4. ~(t < 0)
      BY <3>3
    <3> QED BY <3>1, <3>2, <3>4 DEF Share
  <2>8. \A t \in Thr : Len(socks[t]) = 0
    BY <2>1
  <2> QED BY <2>4, <2>6, <2>7, <2>8
<1>3. JoinInv
  BY DEF Init, JoinInv
<1>4. CallsEnd
  BY DEF Init, CallsEnd
<1>5. OverInv
  <2>1. results = <<>>
    BY DEF Init
  <2>2. Ided = {}
    <3>1. \A c \in Ided : c \in Nat /\ c <= Len(results)
      BY <1>1, IdedFinite
    <3>2. \A c \in Conn : c >= 1
      BY <1>1, ProgramFacts DEF TypeInv, CallInv
    <3> QED BY <2>1, <3>1, <3>2 DEF Ided
  <2>3. Cardinality(Ided) = 0
    BY <2>2, FS_EmptySet
  <2>4. num_conns \in Nat
    BY <1>1, SmallNumbers DEF TypeInv, CallInv
  <2>5. Start = num_conns
    BY <2>3, <2>4 DEF Start, Ided
  <2> QED BY <2>5 DEF OverInv
<1> QED BY <1>1, <1>2, <1>3, <1>4, <1>5 DEF PoolInv

\* What a step does to what the calls return.
LEMMA ResultsStep ==
  ASSUME TypeInv, [Next]_vars
  PROVE  \/ results' = results
         \/ Running /\ Index <= Len(Program) /\ \E r \in Int : Return(r)
<1>1. CASE Main
  <2>1. CASE Refused
    <3>1. -1 \in Int /\ -2 \in Int
      OBVIOUS
    <3> QED BY <2>1, <3>1 DEF Refused, Calls
  <2>2. CASE AddRefused
    <3>1. -1 \in Int
      OBVIOUS
    <3> QED BY <2>2, <3>1 DEF AddRefused, Calls
  <2>3. CASE add_conn
    <3>1. num_conns \in Int
      BY SmallNumbers DEF TypeInv, CallInv
    <3> QED BY <2>3, <3>1 DEF add_conn, Calls, mainVars
  <2>4. CASE start_all \/ send \/ thr_broadcast \/ broadcast \/ StopReturns \/ Wait
    <3>1. 0 \in Int
      OBVIOUS
    <3> QED BY <2>4, <3>1 DEF start_all, send, thr_broadcast, broadcast, StopReturns, Wait, Calls
  <2>5. CASE StopSignals \/ StopJoins
    BY <2>5 DEF StopSignals, StopJoins
  <2> QED BY <1>1, <2>1, <2>2, <2>3, <2>4, <2>5 DEF Main
<1>2. ASSUME NEW t \in Thr, Sender(t) \/ Reader(t) PROVE results' = results
  BY <1>2 DEF Sender, Reader, Pop, WriteSock, WriteNowhere, Select, ReadSock, ReadRound, ReaderExits, mainRest, mainVars
<1>3. ASSUME NEW c \in Conn, Worker(c) PROVE results' = results
  BY <1>3 DEF Worker, PeerReads, PeerReadsEnd, PeerWrites, peerRest, mainVars
<1> QED BY <1>1, <1>2, <1>3 DEF Next, vars

\* Only add_conn gives ids, and only it changes num_conns and the sockets.
LEMMA IdedSame ==
  ASSUME TypeInv, [Next]_vars, ~add_conn
  PROVE  Ided' = Ided /\ num_conns' = num_conns /\ socks' = socks
<1>1. prog' = prog /\ socks' = socks
  BY ProgStep, SocksChange
<1>2. num_conns' = num_conns
  BY DEF Next, vars, Main, Refused, AddRefused, start_all, send, thr_broadcast, broadcast, StopSignals, StopJoins,
         StopReturns, Wait, Sender, Reader, Pop, WriteSock, WriteNowhere, Select, ReadSock, ReadRound, ReaderExits,
         Worker, PeerReads, PeerReadsEnd, PeerWrites, poolVars, mainRest, peerRest
<1>3. CASE results' = results
  BY <1>1, <1>2, <1>3, ProgSame DEF Ided, HasId
<1>4. CASE results' # results
  <2>1. PICK r \in Int : Return(r)
    BY <1>4, ResultsStep
  <2>2. Index <= Len(Program)
    BY <1>4, ResultsStep
  <2>3. ASSUME Program[Index].op = "add" PROVE AddRefused
    <3>1. ~(\E t \in Thr : Sender(t) \/ Reader(t)) /\ ~(\E c \in Conn : Worker(c)) /\ ~(UNCHANGED vars)
      BY <1>4 DEF vars, Sender, Reader, Pop, WriteSock, WriteNowhere, Select, ReadSock, ReadRound, ReaderExits,
         Worker, PeerReads, PeerReadsEnd, PeerWrites, mainRest, peerRest, mainVars
    <3>2. Main
      BY <3>1 DEF Next
    <3> QED BY <2>3, <3>2 DEF Main, Refused, start_all, send, thr_broadcast, broadcast, StopSignals, StopJoins,
                StopReturns, Wait, Calls
  <2>4. ASSUME Program[Index].op = "add" PROVE r = -1
    <3>1. Return(-1)
      BY <2>3, <2>4 DEF AddRefused
    <3>2. results \in Seq(Int) /\ -1 \in Int
      BY DEF TypeInv, CallInv
    <3>3. Append(results, r)[Len(results) + 1] = r /\ Append(results, -1)[Len(results) + 1] = -1
      BY <3>2
    <3> QED BY <2>1, <3>1, <3>3 DEF Return
  <2>5. Ided' = Ided \union (IF Program[Index].op = "add" /\ r >= 0 THEN {Index} ELSE {})
    BY <1>1, <2>1, <2>2, IdedReturn
  <2>6. ~(Program[Index].op = "add" /\ r >= 0)
    BY <2>4
  <2> QED BY <1>1, <1>2, <2>5, <2>6
<1> QED BY <1>1, <1>2, <1>3, <1>4

\* Start is the number num_conns had before the first add_conn.
LEMMA StartSame ==
  ASSUME TypeInv, [Next]_vars, ~add_conn
  PROVE  Start' = Start
<1>1. TypeInv'
  BY TypeStep
<1>2. Start' = num_conns' - Cardinality(Ided')
  BY DEF Start, Ided
<1>3. Start = num_conns - Cardinality(Ided)
  BY DEF Start, Ided
<1> QED BY <1>2, <1>3, IdedSame

\* What add_conn does to the ids.
LEMMA AddStart ==
  ASSUME TypeInv, add_conn
  PROVE  \/ /\ killed' = "add_conn" /\ Start' = Start /\ num_conns' = num_conns /\ results' = results
            /\ Len(socks[ThrOf(num_conns)]) >= max_socks(ThrOf(num_conns))
         \/ /\ killed' = "memory" /\ Start' = Start /\ num_conns' = num_conns /\ results' = results
            /\ num_conns > max_conns
         \/ /\ num_conns = asize_max /\ Start' # 0 /\ killed' = killed
         \/ /\ num_conns < asize_max /\ num_conns' = num_conns + 1 /\ Start' = Start /\ killed' = killed
<1>1. prog' = prog /\ Index <= Len(Program) /\ Program[Index].op = "add"
  BY DEF add_conn, Calls
<1>2. Start' = num_conns' - Cardinality(Ided') /\ Start = num_conns - Cardinality(Ided)
  BY DEF Start, Ided
<1>3. CASE /\ \/ Len(socks[ThrOf(num_conns)]) >= max_socks(ThrOf(num_conns)) /\ killed' = "add_conn"
              \/ num_conns > max_conns /\ killed' = "memory"
           /\ num_conns' = num_conns /\ results' = results
  <2>1. Ided' = Ided
    BY <1>1, <1>3, ProgSame DEF Ided, HasId
  <2> QED BY <1>2, <1>3, <2>1
<1>4. CASE num_conns' = (num_conns + 1) % (asize_max + 1) /\ Return(num_conns) /\ killed' = killed
  <2>1. num_conns \in Nat /\ asize_max \in Nat /\ num_conns <= asize_max
        /\ num_conns' = IF num_conns = asize_max THEN 0 ELSE num_conns + 1
    BY <1>4, SmallNumbers DEF TypeInv, CallInv
  <2>2. num_conns \in Int /\ num_conns >= 0
    BY <2>1
  <2>3. Ided' = Ided \union {Index}
    BY <1>1, <1>4, <2>2, IdedReturn
  <2>4. Index \notin Ided
    <3>1. \A c \in Ided : c <= Len(results)
      BY IdedFinite
    <3>2. Len(results) \in Nat
      BY DEF TypeInv, CallInv
    <3> QED BY <3>1, <3>2 DEF Index
  <2>5. Cardinality(Ided') = Cardinality(Ided) + 1 /\ Cardinality(Ided) \in Nat
    BY <2>3, <2>4, IdedFinite, FS_AddElement
  <2>6. PICK n \in Nat : n = Cardinality(Ided)
    BY <2>5
  <2>7. Start' = num_conns' - (n + 1) /\ Start = num_conns - n
    BY <1>2, <2>5, <2>6
  <2>8. CASE num_conns = asize_max
    <3>1. num_conns' = 0
      BY <2>1, <2>8
    <3> QED BY <1>4, <2>7, <2>8, <3>1
  <2>9. CASE num_conns < asize_max
    <3>1. num_conns' = num_conns + 1
      BY <2>1, <2>9
    <3> QED BY <1>4, <2>1, <2>7, <2>9, <3>1
  <2> QED BY <2>1, <2>8, <2>9
<1> QED BY <1>3, <1>4 DEF add_conn, mainVars

\* Numbers of connections are numbers.
LEMMA RoomNumbers ==
  ASSUME TypeInv
  PROVE  /\ num_conns \in Nat /\ asize_max \in Nat /\ max_conns \in Nat /\ num_thrs \in Nat \ {0}
         /\ max_conns <= asize_max /\ ThrOf(num_conns) \in Thr
         /\ Len(socks[ThrOf(num_conns)]) \in Nat /\ max_socks(ThrOf(num_conns)) \in Nat
<1>1. num_conns \in Nat /\ asize_max \in Nat /\ max_conns \in Nat /\ num_thrs \in Nat \ {0} /\ max_conns <= asize_max
  <2>1. max_conns \in asize_t
    BY PoolAssumption
  <2> QED BY <2>1, SmallNumbers, ProgramFacts DEF TypeInv, CallInv
<1>2. ThrOf(num_conns) \in Thr
  BY <1>1 DEF ThrOf, Thr
<1>3. socks[ThrOf(num_conns)] \in Seq(Conn)
  BY <1>2 DEF TypeInv, SockInv
<1>4. max_conns \div num_thrs \in Nat
  BY <1>1
<1>5. max_socks(ThrOf(num_conns)) \in Nat
  BY <1>4 DEF max_socks
<1> QED BY <1>1, <1>2, <1>3, <1>5

\* As long as the ids count from 0, the thread of the next connection has room for it.
LEMMA RoomForAll ==
  ASSUME TypeInv, RoomInv, Start = 0, num_conns # max_conns
  PROVE  /\ num_conns < max_conns /\ num_conns < asize_max
         /\ ~(Len(socks[ThrOf(num_conns)]) >= max_socks(ThrOf(num_conns)))
<1>1. PICK n \in Nat, m \in Nat, u \in Thr : n = num_conns /\ m = max_conns /\ u = ThrOf(num_conns)
  BY RoomNumbers
<1>2. n < m /\ n < asize_max
  BY <1>1, RoomNumbers DEF RoomInv
<1>3. Len(socks[u]) = Share(n, u)
  BY <1>1 DEF RoomInv
<1>4. u = n % num_thrs
  BY <1>1 DEF ThrOf
<1>5. Share(n, u) < Share(m, u)
  BY <1>1, <1>2, <1>4, RoomNumbers, ShareRoom
<1>6. Share(m, u) = max_socks(u)
  BY <1>1 DEF Share, max_socks
<1> QED BY <1>1, <1>2, <1>3, <1>5, <1>6, RoomNumbers

\* Every step keeps each thread's connections those with its ids.
LEMMA RoomStep == TypeInv /\ RoomInv /\ [Next]_vars => RoomInv'
<1> SUFFICES ASSUME TypeInv, RoomInv, [Next]_vars PROVE RoomInv'
  OBVIOUS
<1>1. CASE ~add_conn
  <2>1. num_conns' = num_conns /\ socks' = socks /\ Start' = Start
    BY <1>1, IdedSame, StartSame
  <2> QED BY <2>1 DEF RoomInv, Share
<1>2. CASE add_conn
  <2>1. SUFFICES ASSUME Start' = 0
                 PROVE  num_conns' <= max_conns /\ \A t \in Thr : Len(socks'[t]) = Share(num_conns', t)
    BY DEF RoomInv, Share
  <2>2. PICK n \in Nat, u \in Thr : n = num_conns /\ u = ThrOf(num_conns)
    BY RoomNumbers
  <2>3. n # max_conns /\ u = n % num_thrs
    BY <1>2, <2>2 DEF add_conn, ThrOf
  <2>4. Start = 0 => /\ n < max_conns /\ n < asize_max
                     /\ ~(Len(socks[ThrOf(num_conns)]) >= max_socks(ThrOf(num_conns)))
    BY <2>2, <2>3, RoomForAll
  <2>5. num_conns' = n + 1 /\ Start = 0
    <3>1. n = asize_max => ~(n < asize_max)
      BY RoomNumbers
    <3>2. CASE num_conns' = n /\ killed' = "memory"
      <4>1. Start = 0 /\ n > max_conns
        BY <1>2, <2>1, <2>2, <3>2, AddStart
      <4>2. n < max_conns
        BY <2>4, <4>1
      <4> QED BY <4>1, <4>2, RoomNumbers
    <3> QED BY <1>2, <2>1, <2>2, <2>4, <3>1, <3>2, AddStart
  <2>6. n < max_conns /\ (\A t \in Thr : Len(socks[t]) = Share(n, t))
    BY <2>2, <2>4, <2>5 DEF RoomInv
  <2>7. num_conns' <= max_conns
    BY <2>5, <2>6, RoomNumbers
  <2>8. ASSUME NEW t \in Thr PROVE Len(socks'[t]) = Share(num_conns', t)
    <3>1. PICK C : C = Conn
      OBVIOUS
    <3>2. socks \in [Thr -> Seq(C)] /\ socks' = [socks EXCEPT ![u] = Append(@, Index)]
      BY <1>2, <2>2, <3>1 DEF add_conn, TypeInv, SockInv
    <3>3. Share(n + 1, t) = Share(n, t) + (IF t = u THEN 1 ELSE 0)
      BY <2>3, RoomNumbers, ShareNext
    <3>4. Len(socks[t]) = Share(n, t) /\ socks[t] \in Seq(C)
      BY <2>6, <3>2
    <3>5. CASE t = u
      <4>1. socks'[t] = Append(socks[t], Index)
        BY <3>2, <3>5
      <4>2. Len(socks'[t]) = Len(socks[t]) + 1
        BY <3>4, <4>1
      <4> QED BY <2>5, <3>3, <3>4, <3>5, <4>2
    <3>6. CASE t # u
      <4>1. socks'[t] = socks[t] /\ Len(socks[t]) \in Nat
        BY <3>2, <3>4, <3>6
      <4> QED BY <2>5, <3>3, <3>4, <3>6, <4>1
    <3> QED BY <3>5, <3>6
  <2> QED BY <2>7, <2>8
<1> QED BY <1>1, <1>2

\* A stop_all that has returned has returned for good.
LEMMA StoppedStays ==
  ASSUME TypeInv, [Next]_vars, Stopped
  PROVE  Stopped'
<1>1. prog' = prog /\ Program' = Program
  BY ProgStep, ProgSame
<1>2. results \in Seq(Int)
  BY DEF TypeInv, CallInv
<1>3. CASE results' = results
  BY <1>1, <1>3 DEF Stopped
<1>4. ASSUME NEW r \in Int, Return(r) PROVE Stopped'
  <2>1. PICK k \in DOMAIN results : Program[k].op = "stop" /\ results[k] = 0
    BY DEF Stopped
  <2>2. results' = Append(results, r)
    BY <1>4 DEF Return
  <2>3. k \in DOMAIN results' /\ results'[k] = results[k]
    BY <1>2, <2>1, <2>2
  <2> QED BY <1>1, <2>1, <2>3 DEF Stopped
<1> QED BY <1>3, <1>4, ResultsStep

\* The stop_all that returns now has.
LEMMA StopsNow ==
  ASSUME TypeInv, StopReturns
  PROVE  Stopped'
<1>1. prog' = prog /\ results' = Append(results, 0) /\ Program[Index].op = "stop"
  BY DEF StopReturns, Return, Calls, poolRest
<1>2. results \in Seq(Int) /\ 0 \in Int /\ Program' = Program
  BY <1>1, ProgSame DEF TypeInv, CallInv
<1>3. Index \in DOMAIN results' /\ results'[Index] = 0
  BY <1>1, <1>2 DEF Index
<1> QED BY <1>1, <1>2, <1>3 DEF Stopped

\* What a step other than the joins does to joined threads.
LEMMA JoinedBefore ==
  ASSUME TypeInv, [Next]_vars, ~StopJoins, NEW t \in Thr, wpc'[t] = "joined"
  PROVE  wpc[t] = "joined"
<1>1. DOMAIN wpc = Thr
  BY DEF TypeInv, SendInv
<1>2. CASE start_all
  BY <1>2 DEF start_all
<1>3. ASSUME NEW u \in Thr, Pop(u) PROVE wpc[t] = "joined"
  <2>1. wpc' = [wpc EXCEPT ![u] = AfterPop(Head(msgq[u]))]
    BY <1>3 DEF Pop
  <2>2. AfterPop(Head(msgq[u])) # "joined"
    BY DEF AfterPop
  <2> QED BY <1>1, <2>1, <2>2
<1>4. ASSUME NEW u \in Thr, WriteSock(u) PROVE wpc[t] = "joined"
  <2>1. wpc' = [wpc EXCEPT ![u] = IF MoreSocks(u) THEN "write" ELSE "pop"]
    BY <1>4 DEF WriteSock
  <2> QED BY <1>1, <2>1
<1>5. ASSUME NEW u \in Thr, WriteNowhere(u) PROVE wpc[t] = "joined"
  <2>1. wpc' = [wpc EXCEPT ![u] = "pop"]
    BY <1>5 DEF WriteNowhere
  <2> QED BY <1>1, <2>1
<1>6. CASE Main /\ ~start_all
  BY <1>6 DEF Main, Refused, AddRefused, add_conn, send, thr_broadcast, broadcast, StopSignals, StopReturns, Wait,
              poolRest, wVars
<1>7. ASSUME NEW u \in Thr, Reader(u) PROVE wpc[t] = "joined"
  BY <1>7 DEF Reader, Select, ReadSock, ReadRound, ReaderExits, wVars
<1>8. ASSUME NEW c \in Conn, Worker(c) PROVE wpc[t] = "joined"
  BY <1>8 DEF Worker, PeerReads, PeerReadsEnd, PeerWrites, peerRest, wVars
<1> QED BY <1>2, <1>3, <1>4, <1>5, <1>6, <1>7, <1>8 DEF Next, vars, Sender

\* While stop_all runs, its loop only goes up.
LEMMA StopGoesOn ==
  ASSUME TypeInv, [Next]_vars, Index <= Len(Program), Program[Index].op = "stop", running, ~StopReturns
  PROVE  Index' = Index /\ Program' = Program /\ running' /\ (loop' = loop \/ loop' = loop + 1)
<1>1. prog' = prog /\ Program' = Program
  BY ProgStep, ProgSame
<1>2. CASE StopSignals \/ StopJoins
  BY <1>1, <1>2 DEF StopSignals, StopJoins, poolVars, Index
<1>3. CASE Main /\ ~StopSignals /\ ~StopJoins
  BY <1>3 DEF Main, Refused, AddRefused, add_conn, start_all, send, thr_broadcast, broadcast, StopReturns, Wait, Calls
<1>4. ASSUME NEW u \in Thr, Sender(u) \/ Reader(u) PROVE results' = results /\ running' = running /\ loop' = loop
  BY <1>4 DEF Sender, Reader, Pop, WriteSock, WriteNowhere, Select, ReadSock, ReadRound, ReaderExits, mainRest,
              mainVars, poolVars
<1>5. ASSUME NEW c \in Conn, Worker(c) PROVE results' = results /\ running' = running /\ loop' = loop
  BY <1>5 DEF Worker, PeerReads, PeerReadsEnd, PeerWrites, peerRest, mainVars, poolVars
<1>6. CASE UNCHANGED vars
  BY <1>1, <1>6 DEF vars, Index
<1> QED BY <1>1, <1>2, <1>3, <1>4, <1>5, <1>6 DEF Next, Index

\* Every step keeps joined threads the work of stop_all.
LEMMA JoinStep == TypeInv /\ JoinInv /\ [Next]_vars => JoinInv'
<1> SUFFICES ASSUME TypeInv, JoinInv, [Next]_vars, NEW t \in Thr, wpc'[t] = "joined"
             PROVE  (Stopped \/ (Index <= Len(Program) /\ Program[Index].op = "stop" /\ running /\ loop > num_thrs + t))'
  BY DEF JoinInv
<1>1. num_thrs \in Nat \ {0} /\ loop \in Nat /\ t \in Nat
  <2>1. num_thrs \in Nat \ {0} /\ loop \in 0 .. 2 * num_thrs
    BY ProgramFacts DEF TypeInv, CallInv
  <2> QED BY <2>1 DEF Thr
<1>2. CASE StopJoins
  <2>1. Index <= Len(Program) /\ Program[Index].op = "stop" /\ running /\ ~StopReturns
    BY <1>1, <1>2 DEF StopJoins, StopReturns, Calls
  <2>2. Index' = Index /\ Program' = Program /\ running' /\ (loop' = loop \/ loop' = loop + 1)
    BY <2>1, StopGoesOn
  <2>3. CASE wpc[t] = "joined"
    <3>1. Stopped \/ loop > num_thrs + t
      BY <2>3 DEF JoinInv
    <3>2. Stopped => Stopped'
      BY StoppedStays
    <3>3. loop > num_thrs + t => loop' > num_thrs + t
      BY <1>1, <2>2
    <3> QED BY <2>1, <2>2, <3>1, <3>2, <3>3
  <2>4. CASE wpc[t] # "joined"
    <3>1. wpc' = [wpc EXCEPT ![loop - num_thrs] = "joined"] /\ loop' = loop + 1
      BY <1>2, <2>4 DEF StopJoins
    <3>2. t = loop - num_thrs
      BY <2>4, <3>1 DEF TypeInv, SendInv
    <3>3. loop' > num_thrs + t
      BY <1>1, <3>1, <3>2
    <3> QED BY <2>1, <2>2, <3>3
  <2> QED BY <2>3, <2>4
<1>3. CASE ~StopJoins
  <2>1. wpc[t] = "joined"
    BY <1>3, JoinedBefore
  <2>2. CASE Stopped
    BY <2>2, StoppedStays
  <2>3. CASE StopReturns
    BY <2>3, StopsNow
  <2>4. CASE ~Stopped /\ ~StopReturns
    <3>1. Index <= Len(Program) /\ Program[Index].op = "stop" /\ running /\ loop > num_thrs + t
      BY <2>1, <2>4 DEF JoinInv
    <3>2. Index' = Index /\ Program' = Program /\ running' /\ (loop' = loop \/ loop' = loop + 1)
      BY <2>4, <3>1, StopGoesOn
    <3>3. loop' > num_thrs + t
      BY <1>1, <3>1, <3>2
    <3> QED BY <3>1, <3>2, <3>3
  <2> QED BY <2>2, <2>3, <2>4
<1> QED BY <1>2, <1>3

\* Every step keeps the ids within the pool, or they never were.
LEMMA OverStep == TypeInv /\ OverInv /\ [Next]_vars => OverInv'
<1> SUFFICES ASSUME TypeInv, OverInv, [Next]_vars, num_conns' > max_conns PROVE Start' > max_conns
  BY DEF OverInv
<1>1. CASE ~add_conn
  BY <1>1, IdedSame, StartSame DEF OverInv
<1>2. CASE add_conn
  <2>1. num_conns # max_conns /\ num_conns \in Nat /\ max_conns \in Nat
    BY <1>2, RoomNumbers DEF add_conn
  <2>2. CASE num_conns' = num_conns /\ Start' = Start
    BY <2>2 DEF OverInv
  <2>3. CASE num_conns' = num_conns + 1 /\ Start' = Start
    <3>1. num_conns > max_conns
      BY <2>1, <2>3
    <3> QED BY <2>3, <3>1 DEF OverInv
  <2>4. num_conns = asize_max => num_conns' = 0 \/ num_conns' = num_conns
    BY <1>2, SmallNumbers DEF TypeInv, CallInv, add_conn
  <2>5. ~(num_conns' = 0)
    BY <2>1
  <2>6. CASE num_conns = asize_max
    <3>1. num_conns' = num_conns
      BY <2>4, <2>5, <2>6
    <3>2. num_conns + 1 # num_conns /\ asize_max \in Nat
      BY <2>1, RoomNumbers
    <3>3. ~(Return(num_conns) /\ num_conns' = (num_conns + 1) % (asize_max + 1))
      BY <2>1, <2>6, <3>1, SmallNumbers DEF TypeInv, CallInv
    <3>4. killed' \in {"add_conn", "memory"} /\ results' = results
      BY <1>2, <3>3 DEF add_conn, mainVars
    <3>5. Start' = Start
      <4>1. prog' = prog
        BY <1>2 DEF add_conn
      <4>2. Ided' = Ided
        BY <3>4, <4>1, ProgSame DEF Ided, HasId
      <4> QED BY <3>1, <4>2 DEF Start, Ided
    <3> QED BY <2>2, <3>1, <3>5
  <2> QED BY <1>2, <2>2, <2>3, <2>6, AddStart
<1> QED BY <1>1, <1>2

\* The dead program makes no calls.
LEMMA DeadStays ==
  ASSUME TypeInv, [Next]_vars, ~Running
  PROVE  results' = results /\ ~add_conn /\ killed' = killed
<1>1. ~Main
  BY DEF Main, Refused, AddRefused, add_conn, start_all, send, thr_broadcast, broadcast, StopSignals, StopJoins,
         StopReturns, Wait, Calls
<1>2. ~add_conn
  BY <1>1 DEF Main
<1>3. ASSUME NEW t \in Thr, Sender(t) \/ Reader(t) PROVE FALSE
  BY <1>3 DEF Sender, Reader, Pop, WriteSock, WriteNowhere, Select, ReadSock, ReadRound, ReaderExits
<1>4. ASSUME NEW c \in Conn, Worker(c) PROVE killed' = killed
  BY <1>4 DEF Worker, PeerReads, PeerReadsEnd, PeerWrites, peerRest
<1>5. killed' = killed
  BY <1>1, <1>3, <1>4 DEF Next, vars
<1> QED BY <1>2, <1>5, ResultsStep

\* Only the assertions and add_conn's write end it this way.
LEMMA WhoEnds ==
  ASSUME TypeInv, [Next]_vars, killed' \in {"add_conn", "memory", "stop_all"}, killed' # killed
  PROVE  add_conn \/ StopJoins
<1>1. CASE Main
  BY <1>1 DEF Main, Refused, AddRefused, start_all, send, thr_broadcast, broadcast, StopSignals, StopReturns, Wait
<1>2. ASSUME NEW t \in Thr, Sender(t) \/ Reader(t) PROVE FALSE
  <2>1. CASE WriteSock(t)
    BY <2>1 DEF WriteSock
  <2>2. CASE Pop(t) \/ WriteNowhere(t) \/ Reader(t)
    BY <2>2 DEF Reader, Pop, WriteNowhere, Select, ReadSock, ReadRound, ReaderExits
  <2> QED BY <1>2, <2>1, <2>2 DEF Sender
<1>3. ASSUME NEW c \in Conn, Worker(c) PROVE FALSE
  BY <1>3 DEF Worker, PeerReads, PeerReadsEnd, PeerWrites, peerRest
<1> QED BY <1>1, <1>2, <1>3 DEF Next, vars

\* Every step keeps how the calls may end the program.
LEMMA EndsStep == PoolInv /\ [Next]_vars => CallsEnd'
<1> SUFFICES ASSUME PoolInv, [Next]_vars, killed' \in {"add_conn", "memory", "stop_all"}
             PROVE  CallsEnd'
  BY DEF CallsEnd
<1>1. TypeInv /\ RoomInv /\ OverInv /\ JoinInv /\ CallsEnd
  BY DEF PoolInv
<1>2. prog' = prog /\ Program' = Program
  BY <1>1, ProgStep, ProgSame
<1>3. CASE killed' = killed
  <2>1. results' = results /\ ~add_conn
    BY <1>1, <1>3, DeadStays DEF Running
  <2>2. Start' = Start
    BY <1>1, <2>1, StartSame
  <2>3. Index' = Index /\ Stopped' = Stopped
    BY <1>2, <2>1 DEF Index, Stopped
  <2> QED BY <1>1, <1>2, <1>3, <2>2, <2>3 DEF CallsEnd
<1>4. CASE killed' # killed /\ add_conn
  <2>1. Program[Index].op = "add" /\ num_conns # max_conns
    BY <1>4 DEF add_conn, Calls
  <2>2. /\ Start' = Start /\ results' = results
        /\ \/ killed' = "add_conn" /\ Len(socks[ThrOf(num_conns)]) >= max_socks(ThrOf(num_conns))
           \/ killed' = "memory" /\ num_conns > max_conns
    BY <1>1, <1>4, AddStart
  <2>3. Program'[Index'].op = "add"
    BY <1>2, <2>1, <2>2 DEF Index
  <2>4. CASE killed' = "add_conn" /\ Len(socks[ThrOf(num_conns)]) >= max_socks(ThrOf(num_conns))
    <3>1. Start # 0
      BY <1>1, <2>1, <2>4, RoomForAll
    <3> QED BY <2>2, <2>3, <2>4, <3>1 DEF CallsEnd
  <2>5. CASE killed' = "memory" /\ num_conns > max_conns
    <3>1. Start > max_conns
      BY <1>1, <2>5 DEF OverInv
    <3> QED BY <2>2, <2>3, <2>5, <3>1 DEF CallsEnd
  <2> QED BY <2>2, <2>4, <2>5
<1>5. CASE killed' # killed /\ StopJoins
  <2>1. wpc[loop - num_thrs] = "joined" /\ loop \in num_thrs .. 2 * num_thrs - 1 /\ Program[Index].op = "stop"
        /\ results' = results /\ killed' = "stop_all"
    BY <1>5 DEF StopJoins, Calls
  <2>2. num_thrs \in Nat \ {0}
    BY <1>1, ProgramFacts DEF TypeInv, CallInv
  <2>3. loop - num_thrs \in Thr /\ ~(loop > num_thrs + (loop - num_thrs))
    BY <2>1, <2>2 DEF Thr
  <2>4. Stopped
    BY <1>1, <2>1, <2>3 DEF JoinInv
  <2>5. Program'[Index'].op = "stop" /\ Stopped'
    BY <1>2, <2>1, <2>4 DEF Index, Stopped
  <2> QED BY <2>1, <2>5 DEF CallsEnd
<1> QED BY <1>1, <1>3, <1>4, <1>5, WhoEnds

\* Every step keeps the strengthened invariant.
LEMMA PoolStep == PoolInv /\ [Next]_vars => PoolInv'
<1> QED BY TypeStep, RoomStep, OverStep, JoinStep, EndsStep DEF PoolInv

-----------------------------------------------------------------------------
(* Delivery: connections, their places and their ids *)

\* The calls whose messages the senders write.
Casts == {"send", "thr_broadcast", "broadcast"}

\* A connection has one place among the sockets of the threads, and an id (but for the
\* one whose add_conn has failed its assertion).
PlaceInv ==
  /\ \A t, u \in Thr : \A i \in DOMAIN socks[t], j \in DOMAIN socks[u] :
       socks[t][i] = socks[u][j] => t = u /\ i = j
  /\ running \/ Running => \A t \in Thr : \A i \in DOMAIN socks[t] : HasId(socks[t][i])

\* If the ids count from 0, an id is the place.
NamesInv == Start = 0 =>
  \A t \in Thr : \A i \in DOMAIN socks[t] :
    HasId(socks[t][i]) => results[socks[t][i]] = num_thrs * (i - 1) + t

\* An id is given for good.
LEMMA HasIdStays ==
  ASSUME TypeInv, [Next]_vars, NEW c \in Conn, HasId(c)
  PROVE  HasId(c)' /\ results'[c] = results[c]
<1>1. results \in Seq(Int) /\ Len(results) \in Nat
  BY DEF TypeInv, CallInv
<1>2. c \in Nat /\ c >= 1 /\ c <= Len(results)
  BY ProgramFacts DEF TypeInv, CallInv, HasId
<1>3. CASE results' = results
  BY <1>3 DEF HasId
<1>4. ASSUME NEW r \in Int, Return(r) PROVE HasId(c)' /\ results'[c] = results[c]
  <2>1. results' = Append(results, r)
    BY <1>4 DEF Return
  <2>2. Len(results') = Len(results) + 1 /\ results'[c] = results[c]
    BY <1>1, <1>2, <2>1
  <2> QED BY <1>1, <1>2, <2>2 DEF HasId
<1> QED BY <1>3, <1>4, ResultsStep

\* Once the pool runs, or if the call is another one, nothing gets an id.
LEMMA HasIdSame ==
  ASSUME TypeInv, [Next]_vars, ~add_conn, NEW c \in Conn
  PROVE  HasId(c)' <=> HasId(c)
<1>1. Ided' = Ided /\ Conn' = Conn
  BY IdedSame, ProgStep, ProgSame
<1> QED BY <1>1 DEF Ided

\* What the sockets of a thread are.
LEMMA SockFacts ==
  ASSUME TypeInv, NEW t \in Thr
  PROVE  /\ t \in Nat /\ Len(socks[t]) \in Nat /\ DOMAIN socks[t] = 1 .. Len(socks[t])
         /\ \A i \in DOMAIN socks[t] : socks[t][i] \in Conn
         /\ SocksOf(t) \subseteq Conn
         /\ \A c \in SocksOf(t) : \E i \in DOMAIN socks[t] : socks[t][i] = c
<1>1. t \in Nat
  BY ThrFacts
<1>2. PICK C : C = Conn
  OBVIOUS
<1>3. socks[t] \in Seq(C)
  BY <1>2 DEF TypeInv, SockInv
<1>4. \A i \in DOMAIN socks[t] : socks[t][i] \in C
  BY <1>3
<1> QED BY <1>1, <1>2, <1>3, <1>4 DEF SocksOf

\* What add_conn does to the sockets and the ids.
LEMMA AddPlace ==
  ASSUME TypeInv, PlaceInv, add_conn, NEW t \in Thr, NEW i \in DOMAIN socks'[t]
  PROVE  \/ i \in DOMAIN socks[t] /\ socks'[t][i] = socks[t][i] /\ socks[t][i] # Index /\ HasId(socks[t][i])
         \/ t = ThrOf(num_conns) /\ i = Len(socks[t]) + 1 /\ socks'[t][i] = Index
<1>1. PICK u \in Thr, C \in {Conn} : u = ThrOf(num_conns) /\ C = Conn
  BY ThrFacts
<1>2. socks \in [Thr -> Seq(C)] /\ socks' = [socks EXCEPT ![u] = Append(@, Index)]
  BY <1>1 DEF add_conn, TypeInv, SockInv
<1>3. socks[t] \in Seq(C)
  BY <1>2
<1>4. CASE i \in DOMAIN socks[t]
  <2>1. HasId(socks[t][i]) /\ socks[t][i] \in Conn
    BY <1>4, SockFacts DEF PlaceInv, add_conn, Calls
  <2>2. socks[t][i] # Index
    <3>1. socks[t][i] <= Len(results) /\ Len(results) \in Nat
      BY <2>1 DEF HasId, TypeInv, CallInv
    <3> QED BY <3>1 DEF Index
  <2>3. socks'[t][i] = socks[t][i]
    <3>1. CASE t = u
      <4>1. socks'[t] = Append(socks[t], Index)
        BY <1>2, <3>1
      <4> QED BY <1>3, <1>4, <4>1
    <3>2. CASE t # u
      BY <1>2, <3>2
    <3> QED BY <3>1, <3>2
  <2> QED BY <1>4, <2>1, <2>2, <2>3
<1>5. CASE i \notin DOMAIN socks[t]
  <2>1. t = u
    <3>1. t # u => socks'[t] = socks[t]
      BY <1>2
    <3> QED BY <1>5, <3>1
  <2>2. socks'[t] = Append(socks[t], Index)
    BY <1>2, <2>1
  <2>3. i = Len(socks[t]) + 1 /\ socks'[t][i] = Index
    BY <1>3, <1>5, <2>2
  <2> QED BY <1>1, <2>1, <2>3
<1> QED BY <1>4, <1>5

\* Only start_all starts the pool, and nothing stops it.
LEMMA RunningStep ==
  ASSUME TypeInv, [Next]_vars
  PROVE  running' = running \/ (start_all /\ ~running /\ running')
<1>1. CASE Main
  BY <1>1 DEF Main, Refused, AddRefused, add_conn, start_all, send, thr_broadcast, broadcast, StopSignals, StopJoins,
              StopReturns, Wait, poolRest, poolVars
<1>2. ASSUME NEW t \in Thr, Sender(t) \/ Reader(t) PROVE running' = running
  BY <1>2 DEF Sender, Reader, Pop, WriteSock, WriteNowhere, Select, ReadSock, ReadRound, ReaderExits, mainRest, poolVars
<1>3. ASSUME NEW c \in Conn, Worker(c) PROVE running' = running
  BY <1>3 DEF Worker, PeerReads, PeerReadsEnd, PeerWrites, peerRest, poolVars
<1> QED BY <1>1, <1>2, <1>3 DEF Next, vars

\* The dead program stays dead.
LEMMA KilledStays ==
  ASSUME [Next]_vars, ~Running
  PROVE  ~Running'
<1>1. CASE Main
  BY <1>1 DEF Main, Refused, AddRefused, add_conn, start_all, send, thr_broadcast, broadcast, StopSignals, StopJoins,
              StopReturns, Wait, Calls
<1>2. ASSUME NEW t \in Thr, Sender(t) \/ Reader(t) PROVE FALSE
  BY <1>2 DEF Sender, Reader, Pop, WriteSock, WriteNowhere, Select, ReadSock, ReadRound, ReaderExits
<1>3. ASSUME NEW c \in Conn, Worker(c) PROVE killed' = killed
  BY <1>3 DEF Worker, PeerReads, PeerReadsEnd, PeerWrites, peerRest
<1> QED BY <1>1, <1>2, <1>3 DEF Next, vars, Running

\* Every step keeps each connection at its one place.
LEMMA PlaceStep == TypeInv /\ PlaceInv /\ [Next]_vars => PlaceInv'
<1> SUFFICES ASSUME TypeInv, PlaceInv, [Next]_vars PROVE PlaceInv'
  OBVIOUS
<1>1. CASE ~add_conn
  <2>1. socks' = socks
    BY <1>1, IdedSame
  <2>2. ASSUME running' \/ Running', NEW t \in Thr, NEW i \in DOMAIN socks[t] PROVE HasId(socks[t][i])'
    <3>1. running \/ Running
      BY <2>2, RunningStep, KilledStays DEF start_all, Calls
    <3>2. HasId(socks[t][i]) /\ socks[t][i] \in Conn
      BY <3>1, SockFacts DEF PlaceInv
    <3>3. PICK c \in Conn : c = socks[t][i]
      BY <3>2
    <3>4. HasId(c)'
      BY <3>2, <3>3, HasIdStays
    <3> QED BY <2>1, <3>3, <3>4
  <2> QED BY <2>1, <2>2 DEF PlaceInv
<1>2. CASE add_conn
  <2>1. ASSUME NEW t \in Thr, NEW u \in Thr, NEW i \in DOMAIN socks'[t], NEW j \in DOMAIN socks'[u],
               socks'[t][i] = socks'[u][j]
        PROVE  t = u /\ i = j
    <3>1. \/ i \in DOMAIN socks[t] /\ socks'[t][i] = socks[t][i] /\ socks[t][i] # Index
          \/ t = ThrOf(num_conns) /\ i = Len(socks[t]) + 1 /\ socks'[t][i] = Index
      BY <1>2, AddPlace
    <3>2. \/ j \in DOMAIN socks[u] /\ socks'[u][j] = socks[u][j] /\ socks[u][j] # Index
          \/ u = ThrOf(num_conns) /\ j = Len(socks[u]) + 1 /\ socks'[u][j] = Index
      BY <1>2, AddPlace
    <3> QED BY <2>1, <3>1, <3>2 DEF PlaceInv
  <2>2. ASSUME running' \/ Running', NEW t \in Thr, NEW i \in DOMAIN socks'[t] PROVE HasId(socks[t][i])'
    <3>1. ~running' /\ Running'
      BY <1>2, <2>2 DEF add_conn
    <3>2. Return(num_conns) /\ Index <= Len(Program) /\ Program[Index].op = "add"
      BY <1>2, <3>1 DEF add_conn, Running, Calls
    <3>3. num_conns \in Int /\ num_conns >= 0
      BY RoomNumbers
    <3>4. CASE socks'[t][i] = Index
      <4>1. Index \in Ided'
        BY <3>2, <3>3, ProgStep, IdedReturn
      <4> QED BY <3>4, <4>1 DEF Ided
    <3>5. CASE i \in DOMAIN socks[t] /\ socks'[t][i] = socks[t][i] /\ HasId(socks[t][i])
      <4>1. PICK c \in Conn : c = socks[t][i] /\ HasId(c)
        BY <3>5, SockFacts
      <4>2. HasId(c)'
        BY <4>1, HasIdStays
      <4> QED BY <3>5, <4>1, <4>2
    <3> QED BY <1>2, <3>4, <3>5, AddPlace
  <2> QED BY <2>1, <2>2 DEF PlaceInv
<1> QED BY <1>1, <1>2

\* add_conn names the connection by its place.
LEMMA NamesStep == PoolInv /\ PlaceInv /\ NamesInv /\ [Next]_vars => NamesInv'
<1> SUFFICES ASSUME PoolInv, PlaceInv, NamesInv, [Next]_vars, Start' = 0,
                    NEW t \in Thr, NEW i \in DOMAIN socks'[t], HasId(socks[t][i])'
             PROVE  results'[socks'[t][i]] = num_thrs * (i - 1) + t
  BY DEF NamesInv
<1>1. TypeInv /\ RoomInv
  BY DEF PoolInv
<1>2. ASSUME Start = 0, i \in DOMAIN socks[t], socks'[t][i] = socks[t][i], HasId(socks[t][i])
      PROVE  results'[socks'[t][i]] = num_thrs * (i - 1) + t
  <2>1. PICK c \in Conn : c = socks[t][i]
    BY <1>1, <1>2, SockFacts
  <2>2. results[c] = num_thrs * (i - 1) + t /\ HasId(c)
    BY <1>2, <2>1 DEF NamesInv
  <2>3. results'[c] = results[c]
    BY <1>1, <2>2, HasIdStays
  <2> QED BY <1>2, <2>1, <2>2, <2>3
<1>3. CASE ~add_conn
  <2>1. socks' = socks /\ Start' = Start
    BY <1>1, <1>3, IdedSame, StartSame
  <2>2. PICK c \in Conn : c = socks[t][i]
    BY <1>1, <2>1, SockFacts
  <2>3. HasId(c)'
    BY <2>1, <2>2
  <2>4. HasId(c)
    BY <1>1, <1>3, <2>3, HasIdSame
  <2> QED BY <1>2, <2>1, <2>2, <2>4
<1>4. CASE add_conn
  <2>1. PICK n \in Nat, u \in Thr : n = num_conns /\ u = ThrOf(num_conns)
    BY <1>1, RoomNumbers
  <2>2. n # max_conns /\ u = n % num_thrs
    BY <1>4, <2>1 DEF add_conn, ThrOf
  <2>3. Start = 0 => /\ n < max_conns /\ n < asize_max
                     /\ ~(Len(socks[ThrOf(num_conns)]) >= max_socks(ThrOf(num_conns)))
    BY <1>1, <2>1, <2>2, RoomForAll
  <2>4. Start = 0 /\ ~(Len(socks[ThrOf(num_conns)]) >= max_socks(ThrOf(num_conns)))
    <3>1. n = asize_max => ~(n < asize_max)
      BY <1>1, RoomNumbers
    <3> QED BY <1>1, <1>4, <2>1, <2>3, <3>1, AddStart
  <2>5. CASE i \in DOMAIN socks[t] /\ socks'[t][i] = socks[t][i] /\ HasId(socks[t][i])
    BY <1>2, <2>4, <2>5
  <2>6. CASE t = u /\ i = Len(socks[t]) + 1 /\ socks'[t][i] = Index
    <3>1. Len(socks[t]) = Share(n, u)
      BY <1>1, <2>1, <2>4, <2>6 DEF RoomInv
    <3>2. PICK N \in Nat \ {0}, q \in Nat : N = num_thrs /\ q = n \div N
      <4>1. num_thrs \in Nat \ {0}
        BY <1>1, RoomNumbers
      <4> QED BY <4>1
    <3>3. Share(n, u) = q
      <4>1. u \in Nat /\ ~(u < u)
        BY <1>1, ThrFacts
      <4> QED BY <2>2, <3>2, <4>1 DEF Share
    <3>4. n = N * q + u
      BY <2>2, <3>2
    <3>5. results' = Append(results, n)
      <4>1. n < max_conns
        BY <1>1, <1>4, <2>1, <2>4, RoomForAll DEF add_conn
      <4>2. ~(n > max_conns)
        BY <1>1, <2>1, <4>1, RoomNumbers
      <4> QED BY <1>4, <2>1, <2>4, <4>2 DEF add_conn, Return
    <3>6. results'[Index] = n
      BY <1>1, <3>5 DEF Index, TypeInv, CallInv
    <3>7. i - 1 = q
      BY <2>6, <3>1, <3>3
    <3> QED BY <2>6, <3>2, <3>4, <3>6, <3>7
  <2> QED BY <1>1, <1>4, <2>1, <2>5, <2>6, AddPlace
<1> QED BY <1>3, <1>4

-----------------------------------------------------------------------------
(* Delivery: before start_all *)

\* Nothing has been asked for and nothing is on its way.
Quiet ==
  /\ loop = 0
  /\ \A t \in Thr : msgq[t] = <<>> /\ wpc[t] # "write"
  /\ \A c \in Conn : got[c] = <<>> /\ toPeer[c] = <<>>
  /\ \A k \in DOMAIN results : Program[k].op \in Casts => results[k] # 0

IdleInv == ~running => Quiet

\* What a call that returns before start_all does to the results.
LEMMA QuietReturn ==
  ASSUME TypeInv, Quiet, prog' = prog, NEW r \in Int, Return(r), Program[Index].op \in Casts => r # 0
  PROVE  loop' = 0 /\ \A k \in DOMAIN results' : Program'[k].op \in Casts => results'[k] # 0
<1>1. results \in Seq(Int) /\ results' = Append(results, r) /\ loop' = 0 /\ Program' = Program
  BY ProgSame DEF TypeInv, CallInv, Return
<1>2. SUFFICES ASSUME NEW k \in DOMAIN results', Program[k].op \in Casts PROVE results'[k] # 0
  BY <1>1
<1>3. (k \in DOMAIN results /\ results'[k] = results[k]) \/ (k = Index /\ results'[k] = r)
  BY <1>1 DEF Index
<1> QED BY <1>2, <1>3 DEF Quiet

\* A step before start_all, or that step, leaves it so.
LEMMA QuietStep ==
  ASSUME TypeInv, Quiet, ~running, [Next]_vars
  PROVE  Quiet'
<1>1. prog' = prog /\ Conn' = Conn /\ Program' = Program
  BY ProgStep, ProgSame
<1>2. ASSUME loop' = 0, \A k \in DOMAIN results' : Program'[k].op \in Casts => results'[k] # 0,
             msgq' = msgq, \A t \in Thr : wpc'[t] = wpc[t] \/ wpc'[t] = "pop", got' = got, toPeer' = toPeer
      PROVE  Quiet'
  BY <1>1, <1>2 DEF Quiet
<1>3. CASE Refused \/ AddRefused \/ Wait
  <2>1. msgq' = msgq /\ wpc' = wpc /\ got' = got /\ toPeer' = toPeer
    BY <1>3 DEF Refused, AddRefused, Wait, poolRest, wVars, peerVars, netVars
  <2>2. PICK r \in {-1, -2, 0} : Return(r) /\ (Program[Index].op \in Casts => r # 0)
    BY <1>3 DEF Refused, AddRefused, Wait, Calls, Casts
  <2>3. r \in Int
    OBVIOUS
  <2> QED BY <1>1, <1>2, <2>1, <2>2, <2>3, QuietReturn
<1>4. CASE add_conn
  <2>1. msgq' = msgq /\ wpc' = wpc /\ got' = got /\ toPeer' = toPeer /\ Program[Index].op \notin Casts
    BY <1>4 DEF add_conn, wVars, peerVars, netVars, Calls, Casts
  <2>2. CASE Return(num_conns)
    <3>1. num_conns \in Int
      BY RoomNumbers
    <3> QED BY <1>1, <1>2, <2>1, <2>2, <3>1, QuietReturn
  <2>3. CASE results' = results /\ loop' = loop
    BY <1>1, <1>2, <2>1, <2>3 DEF Quiet
  <2> QED BY <1>4, <2>2, <2>3 DEF add_conn, mainVars
<1>5. CASE start_all
  <2>1. msgq' = msgq /\ wpc' = [t \in Thr |-> "pop"] /\ got' = got /\ toPeer' = toPeer /\ Program[Index].op \notin Casts
        /\ Return(0)
    BY <1>5 DEF start_all, wVars, peerVars, netVars, Calls, Casts
  <2>2. 0 \in Int
    OBVIOUS
  <2> QED BY <1>1, <1>2, <2>1, <2>2, QuietReturn
<1>6. CASE send \/ thr_broadcast \/ broadcast \/ StopSignals \/ StopJoins \/ StopReturns
  BY <1>6 DEF send, thr_broadcast, broadcast, StopSignals, StopJoins, StopReturns
<1>7. ASSUME NEW t \in Thr, Sender(t) PROVE Quiet'
  BY <1>7 DEF Quiet, Sender, Pop, WriteSock, WriteNowhere
<1>8. ASSUME NEW t \in Thr, Reader(t) PROVE Quiet'
  <2>1. msgq' = msgq /\ wpc' = wpc /\ got' = got /\ results' = results /\ loop' = loop
    BY <1>8 DEF Reader, Select, ReadSock, ReadRound, ReaderExits, mainRest, mainVars, wVars, peerVars
  <2>3. \A c \in Conn : toPeer'[c] \in Frames
    BY <1>1, TypeStep, ProgSame DEF TypeInv, PeerInv
  <2>2. \A c \in Conn : toPeer'[c] = <<>>
    <3>1. CASE ReaderExits(t)
      <4>1. ASSUME NEW c \in Conn PROVE toPeer'[c] = <<>>
        <5>1. toPeer[c] = <<>> /\ Begins(toPeer'[c], toPeer[c])
          BY <3>1, ExitLeaves DEF Quiet
        <5> QED BY <5>1, <2>3, BeginsNothing
      <4> QED BY <4>1
    <3>2. CASE ~ReaderExits(t)
      <4>1. toPeer' = toPeer
        BY <1>8, <3>2 DEF Reader, Select, ReadSock, ReadRound, netVars
      <4> QED BY <4>1 DEF Quiet
    <3> QED BY <3>1, <3>2
  <2> QED BY <1>1, <2>1, <2>2 DEF Quiet
<1>9. ASSUME NEW c \in Conn, Worker(c) PROVE Quiet'
  <2>1. ~PeerReads(c)
    BY DEF Quiet, PeerReads
  <2>2. msgq' = msgq /\ wpc' = wpc /\ got' = got /\ results' = results /\ loop' = loop
    BY <1>9, <2>1 DEF Worker, PeerReadsEnd, PeerWrites, peerRest, mainVars, wVars
  <2>3. peer[c] # "write"
    BY DEF Quiet, TypeInv, PeerInv
  <2>4. toPeer' = toPeer
    BY <1>9, <2>1, <2>3 DEF Worker, PeerReadsEnd, PeerWrites, netVars
  <2> QED BY <1>1, <2>2, <2>4 DEF Quiet
<1>10. CASE UNCHANGED vars
  BY <1>1, <1>10 DEF Quiet, vars
<1> QED BY <1>3, <1>4, <1>5, <1>6, <1>7, <1>8, <1>9, <1>10 DEF Next, Main

\* Until start_all has returned, nothing is on its way.
LEMMA IdleStep == TypeInv /\ IdleInv /\ [Next]_vars => IdleInv'
<1> SUFFICES ASSUME TypeInv, IdleInv, [Next]_vars, ~running' PROVE Quiet'
  BY DEF IdleInv
<1>1. ~running
  BY RunningStep
<1> QED BY <1>1, QuietStep DEF IdleInv

-----------------------------------------------------------------------------
(* Delivery: what the senders hold *)

\* A message of sender t is what its call asked of that sender,
Form(t, m) ==
  \/ /\ Program[m.data].op = "send" /\ ThrOf(Program[m.data].arg) = t
     /\ m.sock = SockIdx(Program[m.data].arg)
  \/ Program[m.data].op = "thr_broadcast" /\ Program[m.data].arg = t /\ m.sock = -1
  \/ Program[m.data].op = "broadcast" /\ m.sock = -1

\* of a call that has handed it over, and has not failed.
MsgOf(t, m) == m.type = "WRITE" =>
  /\ m.data <= Handed(t)
  /\ m.data <= Len(results) => results[m.data] = 0
  /\ Form(t, m)

Before(m, n) == m.type = "WRITE" /\ n.type = "WRITE" => m.data < n.data

\* The messages of a sender are in the order of their calls, the one it writes first.
QueueOf(t) ==
  /\ \A i \in DOMAIN msgq[t] : MsgOf(t, msgq[t][i])
  /\ \A i, j \in DOMAIN msgq[t] : i < j => Before(msgq[t][i], msgq[t][j])
  /\ wpc[t] = "write" =>
       /\ MsgOf(t, wmsg[t])
       /\ wmsg[t].sock >= 0 => widx[t] = wmsg[t].sock
       /\ \A i \in DOMAIN msgq[t] : Before(wmsg[t], msgq[t][i])

QueueInv == \A t \in Thr : QueueOf(t)

\* The last call handed to a sender is the last one, or the one that is running.
LEMMA HandedFacts ==
  ASSUME TypeInv, NEW t \in Thr
  PROVE  /\ Len(results) \in Nat /\ Handed(t) \in Nat /\ Handed(t) <= Len(Program) /\ Len(Program) \in Nat
         /\ \/ Handed(t) = Len(results)
            \/ Handed(t) = Len(results) + 1 /\ Index <= Len(Program) /\ Program[Index].op = "broadcast" /\ loop > t
<1>1. Len(results) \in Nat /\ Len(results) <= Len(Program) /\ Len(Program) \in Nat
  BY ProgramFacts DEF TypeInv, CallInv
<1> QED BY <1>1 DEF Handed, Index

\* A message that is there stays what its call asked, when the call returns or another one is made.
LEMMA MsgStays ==
  ASSUME TypeInv, [Next]_vars, running, NEW t \in Thr, NEW m \in Msg, MsgOf(t, m)
  PROVE  MsgOf(t, m)' /\ Handed(t) <= Handed(t)'
<1>1. prog' = prog /\ Program' = Program
  BY ProgStep, ProgSame
<1>2. PICK n \in Nat, L \in Nat, h \in Nat : n = Len(results) /\ L = Len(Program) /\ h = Handed(t)
  BY HandedFacts
<1>3. /\ h <= L /\ t \in Nat
      /\ h = n \/ (h = n + 1 /\ Index <= L /\ Program[Index].op = "broadcast" /\ loop > t)
  BY <1>2, HandedFacts, ThrFacts
<1>4. results \in Seq(Int) /\ Index = n + 1
  BY <1>2 DEF TypeInv, CallInv, Index
<1>5. CASE results' = results
  <2>1. Index' = Index
    BY <1>5 DEF Index
  <2>2. Program[Index].op = "broadcast" => loop' = loop \/ loop' = loop + 1
    <3>1. CASE Main
      BY <1>5, <3>1, <1>4 DEF Main, Refused, AddRefused, add_conn, start_all, send, thr_broadcast, broadcast,
        StopSignals, StopJoins, StopReturns, Wait, Calls, Return
    <3>2. ASSUME NEW u \in Thr, Sender(u) \/ Reader(u) PROVE loop' = loop
      BY <3>2 DEF Sender, Reader, Pop, WriteSock, WriteNowhere, Select, ReadSock, ReadRound, ReaderExits, mainRest,
                  mainVars
    <3>3. ASSUME NEW c \in Conn, Worker(c) PROVE loop' = loop
      BY <3>3 DEF Worker, PeerReads, PeerReadsEnd, PeerWrites, peerRest, mainVars
    <3> QED BY <3>1, <3>2, <3>3 DEF Next, vars
  <2>3. loop \in Nat
    BY ProgramFacts DEF TypeInv, CallInv
  <2>4. h = n + 1 => Handed(t)' = n + 1
    BY <1>1, <1>2, <1>3, <1>4, <2>1, <2>2, <2>3 DEF Handed
  <2>5. Handed(t)' = n \/ Handed(t)' = n + 1
    BY <1>1, <1>2, <1>4, <1>5, <2>1 DEF Handed
  <2>6. h <= Handed(t)' /\ Handed(t)' \in Nat
    BY <1>3, <2>4, <2>5
  <2>7. m.type = "WRITE" => m.data \in Nat
    BY <1>2 DEF Msg, Messages
  <2> QED BY <1>1, <1>2, <1>5, <2>6, <2>7 DEF MsgOf, Form, ThrOf, SockIdx
<1>6. ASSUME NEW r \in Int, Return(r), Running /\ Index <= Len(Program) PROVE MsgOf(t, m)' /\ Handed(t) <= Handed(t)'
  <2>1. results' = Append(results, r) /\ loop' = 0
    BY <1>6 DEF Return
  <2>2. Len(results') = n + 1 /\ results'[n + 1] = r /\ \A k \in 1 .. n : results'[k] = results[k]
    BY <1>2, <1>4, <2>1
  <2>3. Handed(t)' = n + 1
    <3>1. ~(loop' > t)
      BY <1>3, <2>1
    <3> QED BY <2>2, <3>1 DEF Handed
  <2>4. h <= Handed(t)'
    BY <1>3, <2>3
  <2>5. SUFFICES ASSUME m.type = "WRITE"
                 PROVE  m.data <= Handed(t)' /\ (m.data <= Len(results') => results'[m.data] = 0)
    BY <1>1, <1>2, <2>4 DEF MsgOf, Form, ThrOf, SockIdx
  <2>6. PICK d \in 1 .. L : d = m.data /\ d <= h /\ (d <= n => results[d] = 0)
    BY <1>2, <2>5 DEF Msg, MsgOf
  <2>7. CASE d <= n
    <3>1. results'[d] = 0 /\ d <= n + 1
      BY <2>2, <2>6, <2>7
    <3> QED BY <2>3, <2>6, <3>1
  <2>8. CASE d = n + 1
    <3>1. Program[Index].op = "broadcast"
      BY <1>3, <2>6, <2>8
    <3>2. Return(0)
      <4>1. CASE Main
        BY <2>1, <2>2, <3>1, <4>1, <1>2 DEF Main, Refused, AddRefused, add_conn, start_all, send, thr_broadcast, broadcast,
          StopSignals, StopJoins, StopReturns, Wait, Calls
      <4>2. ASSUME NEW u \in Thr, Sender(u) \/ Reader(u) PROVE results' = results
        BY <4>2 DEF Sender, Reader, Pop, WriteSock, WriteNowhere, Select, ReadSock, ReadRound, ReaderExits, mainRest,
                    mainVars
      <4>3. ASSUME NEW c \in Conn, Worker(c) PROVE results' = results
        BY <4>3 DEF Worker, PeerReads, PeerReadsEnd, PeerWrites, peerRest, mainVars
      <4>4. results' # results
        BY <1>2, <2>2
      <4> QED BY <4>1, <4>2, <4>3, <4>4 DEF Next, vars
    <3>3. results'[n + 1] = 0
      BY <1>2, <1>4, <3>2 DEF Return
    <3> QED BY <2>3, <2>6, <2>8, <3>3
  <2> QED BY <1>3, <2>6, <2>7, <2>8
<1> QED BY <1>5, <1>6, ResultsStep

\* The messages of a sender have their types.
LEMMA SenderFacts ==
  ASSUME TypeInv, NEW t \in Thr
  PROVE  /\ \E M : M = Msg /\ msgq[t] \in Seq(M)
         /\ Len(msgq[t]) \in Nat /\ DOMAIN msgq[t] = 1 .. Len(msgq[t])
         /\ \A i \in DOMAIN msgq[t] : msgq[t][i] \in Msg
         /\ wmsg[t] \in Msg /\ widx[t] \in Nat
         /\ \A m \in Msg : /\ m.type \in {"EXIT", "WRITE"} /\ m.sock \in Int /\ m.data \in Nat
                           /\ m.type = "WRITE" => m.data \in 1 .. Len(Program)
<1>1. PICK M : M = Msg
  OBVIOUS
<1>2. msgq[t] \in Seq(M) /\ wmsg[t] \in Msg /\ widx[t] \in Nat
  BY <1>1 DEF TypeInv, SendInv
<1>3. \A i \in DOMAIN msgq[t] : msgq[t][i] \in M
  BY <1>2
<1>4. Len(msgq[t]) \in Nat /\ DOMAIN msgq[t] = 1 .. Len(msgq[t])
  BY <1>2
<1>5. Len(Program) \in Nat
  BY ProgramFacts DEF TypeInv, CallInv
<1>6. \A m \in Msg : /\ m.type \in {"EXIT", "WRITE"} /\ m.sock \in Int /\ m.data \in Nat
                     /\ m.type = "WRITE" => m.data \in 1 .. Len(Program)
  BY <1>5 DEF Msg, Messages
<1> QED BY <1>1, <1>2, <1>3, <1>4, <1>6

\* A sender that is left alone keeps its messages in order,
LEMMA QueueSame ==
  ASSUME TypeInv, running, [Next]_vars, NEW t \in Thr, QueueOf(t),
         msgq'[t] = msgq[t], wmsg'[t] = wmsg[t], wpc'[t] = "write" => wpc[t] = "write" /\ widx'[t] = widx[t]
  PROVE  QueueOf(t)'
<1>1. ASSUME NEW i \in DOMAIN msgq[t] PROVE MsgOf(t, msgq[t][i])'
  <2>1. PICK m \in Msg : m = msgq[t][i]
    BY SenderFacts
  <2>2. MsgOf(t, m)'
    BY <2>1, MsgStays DEF QueueOf
  <2> QED BY <2>1, <2>2
<1>2. ASSUME wpc[t] = "write" PROVE MsgOf(t, wmsg[t])'
  <2>1. PICK m \in Msg : m = wmsg[t]
    BY SenderFacts
  <2>2. MsgOf(t, m)'
    BY <1>2, <2>1, MsgStays DEF QueueOf
  <2> QED BY <2>1, <2>2
<1> QED BY <1>1, <1>2 DEF QueueOf, Before

\* and so does one that is handed the message of the running call.
LEMMA QueuePush ==
  ASSUME TypeInv, running, [Next]_vars, NEW t \in Thr, QueueOf(t), NEW m \in Msg,
         msgq'[t] = Append(msgq[t], m), wmsg'[t] = wmsg[t], wpc'[t] = wpc[t], widx'[t] = widx[t],
         MsgOf(t, m)', m.type = "WRITE" => m.data > Handed(t)
  PROVE  QueueOf(t)'
<1>1. PICK M : M = Msg /\ msgq[t] \in Seq(M)
  BY SenderFacts
<1>2. PICK q \in Seq(M) : q = msgq[t]
  BY <1>1
<1>3. PICK p : p = Append(q, m)
  OBVIOUS
<1>4. /\ Len(q) \in Nat /\ DOMAIN p = 1 .. Len(q) + 1 /\ DOMAIN q = 1 .. Len(q) /\ p[Len(q) + 1] = m
      /\ \A i \in DOMAIN q : p[i] = q[i] /\ q[i] \in Msg
  BY <1>1, <1>2, <1>3
<1>5. msgq'[t] = p
  BY <1>2, <1>3
<1>6. ASSUME NEW x \in Msg, MsgOf(t, x) PROVE MsgOf(t, x)' /\ Before(x, m)
  <2>1. MsgOf(t, x)'
    BY <1>6, MsgStays
  <2>2. ASSUME x.type = "WRITE", m.type = "WRITE" PROVE x.data < m.data
    <3>1. x.data \in Nat /\ m.data \in Nat /\ Handed(t) \in Nat
      BY SenderFacts, HandedFacts
    <3>2. x.data <= Handed(t) /\ m.data > Handed(t)
      BY <1>6, <2>2 DEF MsgOf
    <3> QED BY <3>1, <3>2
  <2> QED BY <2>1, <2>2 DEF Before
<1>7. ASSUME NEW i \in DOMAIN q PROVE MsgOf(t, p[i])' /\ Before(q[i], m)
  <2>1. PICK x \in Msg : x = q[i] /\ MsgOf(t, x)
    BY <1>2, <1>4 DEF QueueOf
  <2>2. MsgOf(t, x)' /\ Before(x, m) /\ p[i] = x
    BY <1>4, <1>6, <2>1
  <2> QED BY <2>1, <2>2
<1>8. ASSUME NEW i \in DOMAIN p PROVE MsgOf(t, p[i])'
  <2>1. CASE i \in DOMAIN q
    BY <1>7, <2>1
  <2>2. CASE i = Len(q) + 1
    BY <1>4, <2>2
  <2> QED BY <1>4, <2>1, <2>2
<1>9. ASSUME NEW i \in DOMAIN p, NEW j \in DOMAIN p, i < j PROVE Before(p[i], p[j])
  <2>1. i \in DOMAIN q
    BY <1>4, <1>9
  <2>2. CASE j \in DOMAIN q
    BY <1>2, <1>4, <1>9, <2>1, <2>2 DEF QueueOf
  <2>3. CASE j = Len(q) + 1
    BY <1>4, <1>7, <2>1, <2>3
  <2> QED BY <1>4, <2>2, <2>3
<1>10. ASSUME wpc[t] = "write" PROVE MsgOf(t, wmsg[t])' /\ \A i \in DOMAIN p : Before(wmsg[t], p[i])
  <2>1. PICK x \in Msg : x = wmsg[t] /\ MsgOf(t, x)
    BY <1>10, SenderFacts DEF QueueOf
  <2>2. MsgOf(t, x)' /\ Before(x, m)
    BY <1>6, <2>1
  <2>3. ASSUME NEW i \in DOMAIN p PROVE Before(wmsg[t], p[i])
    <3>1. CASE i \in DOMAIN q
      BY <1>2, <1>4, <1>10, <3>1 DEF QueueOf
    <3>2. CASE i = Len(q) + 1
      BY <1>4, <2>1, <2>2, <3>2
    <3> QED BY <1>4, <3>1, <3>2
  <2> QED BY <2>1, <2>2, <2>3
<1> QED BY <1>5, <1>8, <1>9, <1>10 DEF QueueOf, Before

\* What is left behind the head of a sequence.
LEMMA TailOf ==
  ASSUME NEW M, NEW q \in Seq(M), q # <<>>
  PROVE  /\ Head(q) = q[1] /\ 1 \in DOMAIN q /\ Head(q) \in M /\ Tail(q) \in Seq(M) /\ Len(Tail(q)) = Len(q) - 1
         /\ \A i \in DOMAIN Tail(q) : i \in Nat /\ i >= 1 /\ i + 1 \in DOMAIN q /\ Tail(q)[i] = q[i + 1] /\ 1 < i + 1
         /\ \A i \in DOMAIN q : i = 1 \/ (i - 1 \in DOMAIN Tail(q) /\ Tail(q)[i - 1] = q[i])
<1>1. Len(q) \in Nat /\ DOMAIN q = 1 .. Len(q) /\ Len(q) # 0
  BY SMT
<1>2. Head(q) = q[1] /\ 1 \in DOMAIN q /\ Head(q) \in M
  BY <1>1
<1>3. Tail(q) \in Seq(M) /\ Len(Tail(q)) = Len(q) - 1 /\ DOMAIN Tail(q) = 1 .. Len(q) - 1
  BY <1>1
<1>4. \A i \in 1 .. Len(q) - 1 : Tail(q)[i] = q[i + 1]
  BY <1>1
<1> QED BY <1>1, <1>2, <1>3, <1>4

\* A sender that takes its next message,
LEMMA QueuePop ==
  ASSUME TypeInv, running, [Next]_vars, NEW t \in Thr, QueueOf(t), Pop(t)
  PROVE  QueueOf(t)'
<1>1. PICK M : M = Msg /\ msgq[t] \in Seq(M)
  BY SenderFacts
<1>2. PICK q \in Seq(M), m \in {Head(msgq[t])} : q = msgq[t] /\ m = Head(q)
  BY <1>1
<1>3. q # <<>> /\ DOMAIN msgq = Thr /\ DOMAIN wmsg = Thr /\ DOMAIN widx = Thr /\ DOMAIN wpc = Thr
  BY <1>2 DEF Pop, TypeInv, SendInv
<1>4. PICK p : p = Tail(q)
  OBVIOUS
<1>5. msgq'[t] = p /\ wmsg'[t] = m /\ widx'[t] = IF m.sock < 0 THEN 0 ELSE m.sock
  BY <1>2, <1>3, <1>4 DEF Pop
<1>6. m = q[1] /\ 1 \in DOMAIN q /\ m \in Msg
  BY <1>1, <1>2, <1>3, TailOf
<1>7. \A i \in DOMAIN p : i \in Nat /\ i + 1 \in DOMAIN q /\ p[i] = q[i + 1] /\ 1 < i + 1
  BY <1>1, <1>3, <1>4, TailOf
<1>8. ASSUME NEW i \in DOMAIN q PROVE MsgOf(t, q[i])'
  <2>1. PICK x \in Msg : x = q[i] /\ MsgOf(t, x)
    BY <1>2, SenderFacts DEF QueueOf
  <2>2. MsgOf(t, x)'
    BY <2>1, MsgStays
  <2> QED BY <2>1, <2>2
<1>9. \A i, j \in DOMAIN q : i < j => Before(q[i], q[j])
  BY <1>2 DEF QueueOf
<1>10. \A i \in DOMAIN p : MsgOf(t, p[i])'
  BY <1>7, <1>8
<1>11. ASSUME NEW i \in DOMAIN p, NEW j \in DOMAIN p, i < j PROVE Before(p[i], p[j])
  <2>1. i + 1 \in DOMAIN q /\ j + 1 \in DOMAIN q /\ i + 1 < j + 1
    BY <1>7, <1>11
  <2> QED BY <1>7, <1>9, <2>1
<1>12. \A i \in DOMAIN p : Before(m, p[i])
  BY <1>6, <1>7, <1>9
<1>13. MsgOf(t, m)'
  BY <1>6, <1>8
<1>14. m.sock >= 0 => widx'[t] = m.sock
  <2>1. m.sock \in Int
    BY <1>6, SenderFacts
  <2> QED BY <1>5, <2>1
<1> QED BY <1>5, <1>10, <1>11, <1>12, <1>13, <1>14 DEF QueueOf, Before

\* and one that writes it.
LEMMA QueueWrite ==
  ASSUME TypeInv, running, [Next]_vars, NEW t \in Thr, QueueOf(t), WriteSock(t)
  PROVE  QueueOf(t)'
<1>1. msgq' = msgq /\ wmsg' = wmsg /\ wpc[t] = "write" /\ DOMAIN wpc = Thr
  BY DEF WriteSock, TypeInv, SendInv
<1>2. wpc'[t] = IF MoreSocks(t) THEN "write" ELSE "pop"
  BY <1>1 DEF WriteSock
<1>3. CASE ~MoreSocks(t)
  BY <1>1, <1>2, <1>3, QueueSame
<1>4. CASE MoreSocks(t)
  <2>1. ~(wmsg[t].sock >= 0)
    <3>1. wmsg[t].sock \in Int
      BY SenderFacts
    <3> QED BY <1>4, <3>1 DEF MoreSocks
  <2>2. ASSUME NEW i \in DOMAIN msgq[t] PROVE MsgOf(t, msgq[t][i])'
    <3>1. PICK x \in Msg : x = msgq[t][i] /\ MsgOf(t, x)
      BY SenderFacts DEF QueueOf
    <3>2. MsgOf(t, x)'
      BY <3>1, MsgStays
    <3> QED BY <1>1, <3>1, <3>2
  <2>3. MsgOf(t, wmsg[t])'
    <3>1. PICK x \in Msg : x = wmsg[t] /\ MsgOf(t, x)
      BY <1>1, SenderFacts DEF QueueOf
    <3>2. MsgOf(t, x)'
      BY <3>1, MsgStays
    <3> QED BY <1>1, <3>1, <3>2
  <2> QED BY <1>1, <2>1, <2>2, <2>3 DEF QueueOf, Before
<1> QED BY <1>3, <1>4

\* The calls that hand a message to a sender: what the message is, and that it is a new one.
Hands(u, m) ==
  /\ Push(u, m)
  /\ UNCHANGED <<wVars, socks, got, toPeer, opened, peer>>
  /\ \/ /\ send /\ u = ThrOf(Program[Index].arg) /\ m = Write(SockIdx(Program[Index].arg), Index)
     \/ /\ thr_broadcast /\ u = Program[Index].arg /\ m = Write(-1, Index)
     \/ /\ broadcast /\ u = loop /\ loop < num_thrs /\ m = Write(-1, Index)
     \/ /\ StopSignals /\ u = loop /\ m = Exit

\* What these calls hand on is one message to one thread.
LEMMA HandsOne ==
  ASSUME TypeInv, send \/ thr_broadcast \/ (broadcast /\ loop < num_thrs) \/ StopSignals
  PROVE  /\ running /\ Running /\ Index \in 1 .. Len(Program)
         /\ \E u \in Thr, m \in Msg : Hands(u, m)
<1>1. running /\ Running /\ Index <= Len(Program)
  BY DEF send, thr_broadcast, broadcast, StopSignals, Calls
<1>2. Index \in 1 .. Len(Program) /\ num_thrs \in Nat \ {0} /\ loop \in Nat
  <2>1. Len(results) \in Nat /\ Len(Program) \in Nat /\ num_thrs \in Nat \ {0} /\ loop \in 0 .. 2 * num_thrs
    BY ProgramFacts DEF TypeInv, CallInv
  <2> QED BY <1>1, <2>1 DEF Index
<1>3. Program[Index].arg \in Nat
  BY <1>2, CallFacts DEF TypeInv, CallInv
<1>4. PICK a \in Nat, N \in Nat \ {0} : a = Program[Index].arg /\ N = num_thrs
  BY <1>2, <1>3
<1>5. a % N \in 0 .. N - 1 /\ a \div N \in Int /\ -1 \in Int
  BY <1>4
<1>6. ThrOf(a) \in Thr /\ SockIdx(a) \in Int
  BY <1>4, <1>5 DEF ThrOf, SockIdx, Thr
<1>7. CASE send
  <2>1. Push(ThrOf(a), Write(SockIdx(a), Index)) /\ UNCHANGED <<wVars, socks, got, toPeer, opened, peer>>
    BY <1>4, <1>7 DEF send, Arg, poolVars, poolRest, netVars, peerVars, rVars
  <2>2. Write(SockIdx(a), Index) \in Msg
    BY <1>2, <1>6, MsgFacts
  <2> QED BY <1>1, <1>2, <1>4, <1>6, <1>7, <2>1, <2>2 DEF Hands
<1>8. CASE thr_broadcast
  <2>1. Push(a, Write(-1, Index)) /\ a < N /\ UNCHANGED <<wVars, socks, got, toPeer, opened, peer>>
    BY <1>4, <1>8 DEF thr_broadcast, Arg, poolVars, poolRest, netVars, peerVars, rVars
  <2>2. Write(-1, Index) \in Msg /\ a \in Thr
    BY <1>2, <1>4, <1>5, <2>1, MsgFacts DEF Thr
  <2> QED BY <1>1, <1>2, <1>4, <1>8, <2>1, <2>2 DEF Hands
<1>9. CASE broadcast /\ loop < num_thrs
  <2>1. Push(loop, Write(-1, Index)) /\ UNCHANGED <<wVars, socks, got, toPeer, opened, peer>>
    <3>1. loop # num_thrs
      BY <1>2, <1>9
    <3> QED BY <1>9, <3>1 DEF broadcast, poolVars, poolRest, netVars, peerVars, rVars
  <2>2. Write(-1, Index) \in Msg /\ loop \in Thr
    BY <1>2, <1>5, <1>9, MsgFacts DEF Thr
  <2> QED BY <1>1, <1>2, <1>9, <2>1, <2>2 DEF Hands
<1>10. CASE StopSignals
  <2>1. Push(loop, Exit) /\ loop < num_thrs /\ UNCHANGED <<wVars, socks, got, toPeer, opened, peer>>
    BY <1>10 DEF StopSignals, poolVars, netVars, peerVars
  <2>2. Exit \in Msg /\ loop \in Thr
    BY <1>2, <2>1, MsgFacts DEF Thr
  <2> QED BY <1>1, <1>2, <1>10, <2>1, <2>2 DEF Hands
<1> QED BY <1>7, <1>8, <1>9, <1>10

\* The message is what its call asked, and later than those the sender has.
LEMMA HandsFacts ==
  ASSUME TypeInv, [Next]_vars, NEW u \in Thr, NEW m \in Msg, Hands(u, m)
  PROVE  /\ MsgOf(u, m)' /\ Handed(u) = Len(results)
         /\ m.type = "WRITE" => m.data = Index /\ m.data > Handed(u) /\ Handed(u)' = Index
<1>1. prog' = prog /\ Program' = Program
  BY ProgStep, ProgSame
<1>2. PICK n \in Nat : n = Len(results) /\ Index = n + 1
  BY DEF TypeInv, CallInv, Index
<1>3. results \in Seq(Int) /\ loop \in Nat /\ u \in Nat /\ Len(Program) \in Nat
  BY ProgramFacts, ThrFacts DEF TypeInv, CallInv
<1>4. Handed(u) = n
  <2>1. CASE Program[Index].op # "broadcast"
    BY <1>2, <2>1 DEF Handed
  <2>2. CASE u = loop
    <3>1. ~(loop > u)
      BY <1>3, <2>2
    <3> QED BY <1>2, <3>1 DEF Handed
  <2> QED BY <2>1, <2>2 DEF Hands, send, thr_broadcast, Calls
<1>5. CASE StopSignals /\ m = Exit
  BY <1>2, <1>4, <1>5 DEF Exit, MsgOf
<1>6. ASSUME results' = Append(results, 0), loop' = 0 PROVE Handed(u)' = Index /\ (Index <= Len(results') => results'[Index] = 0)
  <2>1. Len(results') = n + 1 /\ results'[n + 1] = 0 /\ ~(loop' > u)
    BY <1>2, <1>3, <1>6
  <2> QED BY <1>2, <2>1 DEF Handed
<1>7. CASE send /\ u = ThrOf(Program[Index].arg) /\ m = Write(SockIdx(Program[Index].arg), Index)
  <2>1. m.type = "WRITE" /\ m.data = Index /\ m.sock = SockIdx(Program[Index].arg)
    BY <1>7 DEF Write
  <2>2. Handed(u)' = Index /\ (Index <= Len(results') => results'[Index] = 0) /\ Program[Index].op = "send"
    BY <1>6, <1>7 DEF send, Return, Calls
  <2>3. Index <= Index /\ Index > n
    BY <1>2
  <2> QED BY <1>1, <1>2, <1>4, <1>7, <2>1, <2>2, <2>3 DEF MsgOf, Form, ThrOf, SockIdx
<1>8. CASE thr_broadcast /\ u = Program[Index].arg /\ m = Write(-1, Index)
  <2>1. m.type = "WRITE" /\ m.data = Index /\ m.sock = -1
    BY <1>8 DEF Write
  <2>2. Handed(u)' = Index /\ (Index <= Len(results') => results'[Index] = 0) /\ Program[Index].op = "thr_broadcast"
    BY <1>6, <1>8 DEF thr_broadcast, Return, Calls
  <2>3. Index <= Index /\ Index > n
    BY <1>2
  <2> QED BY <1>1, <1>2, <1>4, <1>8, <2>1, <2>2, <2>3 DEF MsgOf, Form
<1>9. CASE broadcast /\ u = loop /\ loop < num_thrs /\ m = Write(-1, Index)
  <2>1. m.type = "WRITE" /\ m.data = Index /\ m.sock = -1
    BY <1>9 DEF Write
  <2>2. loop # num_thrs
    BY <1>9, ProgramFacts DEF TypeInv, CallInv
  <2>3. results' = results /\ loop' = loop + 1 /\ Program[Index].op = "broadcast" /\ Index <= Len(Program)
    BY <1>9, <2>2 DEF broadcast, Calls
  <2>4. Index' = Index /\ ~(Index <= Len(results')) /\ loop' > u
    BY <1>2, <1>3, <1>9, <2>3 DEF Index
  <2>5. Handed(u)' = Index
    BY <1>1, <2>3, <2>4 DEF Handed
  <2>6. Index <= Index /\ Index > n
    BY <1>2
  <2> QED BY <1>1, <1>2, <1>4, <1>9, <2>1, <2>3, <2>4, <2>5, <2>6 DEF MsgOf, Form
<1> QED BY <1>5, <1>7, <1>8, <1>9 DEF Hands

\* Every step keeps the senders' messages in order.
LEMMA QueueStep == TypeInv /\ IdleInv /\ QueueInv /\ [Next]_vars => QueueInv'
<1> SUFFICES ASSUME TypeInv, IdleInv, QueueInv, [Next]_vars, NEW t \in Thr PROVE QueueOf(t)'
  BY DEF QueueInv
<1>1. QueueOf(t)
  BY DEF QueueInv
<1>2. CASE ~running
  <2>1. Quiet'
    BY <1>2, QuietStep DEF IdleInv
  <2> QED BY <2>1 DEF Quiet, QueueOf
<1>3. ASSUME running, msgq' = msgq, wmsg' = wmsg, widx' = widx, wpc'[t] = "write" => wpc[t] = "write"
      PROVE  QueueOf(t)'
  BY <1>1, <1>3, QueueSame
<1>4. CASE running /\ (Refused \/ AddRefused \/ add_conn \/ start_all \/ (broadcast /\ ~(loop < num_thrs)) \/ StopReturns \/ Wait)
  <2>1. msgq' = msgq /\ UNCHANGED wVars
    BY <1>4 DEF Refused, AddRefused, add_conn, start_all, broadcast, StopReturns, Wait, poolRest
  <2> QED BY <1>3, <1>4, <2>1 DEF wVars
<1>5. CASE running /\ StopJoins
  <2>1. msgq' = msgq /\ wmsg' = wmsg /\ widx' = widx /\ (wpc' = [wpc EXCEPT ![loop - num_thrs] = "joined"] \/ wpc' = wpc)
    BY <1>5 DEF StopJoins
  <2>2. wpc'[t] = "write" => wpc[t] = "write"
    BY <2>1 DEF TypeInv, SendInv
  <2> QED BY <1>3, <1>5, <2>1, <2>2
<1>6. CASE send \/ thr_broadcast \/ (broadcast /\ loop < num_thrs) \/ StopSignals
  <2>1. PICK u \in Thr, m \in Msg : Hands(u, m)
    BY <1>6, HandsOne
  <2>2. running /\ UNCHANGED wVars /\ msgq' = [msgq EXCEPT ![u] = Append(@, m)] /\ DOMAIN msgq = Thr
    BY <1>6, <2>1, HandsOne DEF Hands, Push, TypeInv, SendInv
  <2>3. CASE t = u
    <3>1. msgq'[t] = Append(msgq[t], m)
      BY <2>2, <2>3
    <3>2. MsgOf(t, m)' /\ (m.type = "WRITE" => m.data > Handed(t))
      BY <2>1, <2>3, HandsFacts
    <3> QED BY <1>1, <2>2, <3>1, <3>2, QueuePush DEF wVars
  <2>4. CASE t # u
    <3>1. msgq'[t] = msgq[t]
      BY <2>2, <2>4
    <3> QED BY <1>1, <2>2, <3>1, QueueSame DEF wVars
  <2> QED BY <2>3, <2>4
<1>7. ASSUME running, NEW u \in Thr, Sender(u) PROVE QueueOf(t)'
  <2>1. DOMAIN msgq = Thr /\ DOMAIN wmsg = Thr /\ DOMAIN widx = Thr /\ DOMAIN wpc = Thr
    BY DEF TypeInv, SendInv
  <2>2. CASE t # u
    <3>1. msgq'[t] = msgq[t] /\ wmsg'[t] = wmsg[t] /\ widx'[t] = widx[t] /\ wpc'[t] = wpc[t]
      BY <1>7, <2>1, <2>2 DEF Sender, Pop, WriteSock, WriteNowhere
    <3> QED BY <1>1, <1>7, <3>1, QueueSame
  <2>3. CASE t = u /\ WriteNowhere(t)
    <3>1. msgq' = msgq /\ wmsg' = wmsg /\ widx' = widx /\ wpc'[t] = "pop"
      BY <2>1, <2>3 DEF WriteNowhere
    <3> QED BY <1>3, <1>7, <3>1
  <2> QED BY <1>1, <1>7, <2>2, <2>3, QueuePop, QueueWrite DEF Sender
<1>8. ASSUME running, NEW u \in Thr, Reader(u) PROVE QueueOf(t)'
  <2>1. msgq' = msgq /\ UNCHANGED wVars
    BY <1>8 DEF Reader, Select, ReadSock, ReadRound, ReaderExits
  <2> QED BY <1>3, <1>8, <2>1 DEF wVars
<1>9. ASSUME running, NEW c \in Conn, Worker(c) PROVE QueueOf(t)'
  <2>1. msgq' = msgq /\ UNCHANGED wVars
    BY <1>9 DEF Worker, PeerReads, PeerReadsEnd, PeerWrites, peerRest
  <2> QED BY <1>3, <1>9, <2>1 DEF wVars
<1>10. CASE running /\ UNCHANGED vars
  BY <1>3, <1>10 DEF vars
<1> QED BY <1>2, <1>4, <1>5, <1>6, <1>7, <1>8, <1>9, <1>10 DEF Next, Main

-----------------------------------------------------------------------------
(* Delivery: what the calls address to a connection *)

\* Call k, if it does not fail, is for connection c of thread t.
Asks(k, t, c) ==
  \/ Program[k].op = "send" /\ Program[k].arg = results[c]
  \/ Program[k].op = "thr_broadcast" /\ Program[k].arg = t
  \/ Program[k].op = "broadcast"

\* A connection of the running pool has an id and one thread.
LEMMA OneThread ==
  ASSUME TypeInv, PlaceInv, running, NEW t \in Thr, NEW c \in SocksOf(t)
  PROVE  /\ c \in Conn /\ HasId(c) /\ c \in Nat /\ c <= Len(results)
         /\ \A u \in Thr : c \in SocksOf(u) <=> u = t
<1>1. PICK i \in DOMAIN socks[t] : socks[t][i] = c
  BY SockFacts
<1>2. c \in Conn /\ HasId(c)
  BY <1>1, SockFacts DEF PlaceInv
<1>3. c \in Nat /\ c <= Len(results)
  BY <1>2, ProgramFacts DEF TypeInv, CallInv, HasId
<1>4. ASSUME NEW u \in Thr, c \in SocksOf(u) PROVE u = t
  <2>1. PICK j \in DOMAIN socks[u] : socks[u][j] = c
    BY <1>4, SockFacts
  <2> QED BY <1>1, <2>1 DEF PlaceInv
<1> QED BY <1>2, <1>3, <1>4

\* If the ids count from 0, SockIdx and ThrOf find the connection.
LEMMA PlaceOf ==
  ASSUME TypeInv, PlaceInv, NamesInv, running, Start = 0, NEW t \in Thr, NEW c \in SocksOf(t), NEW a \in Nat
  PROVE  /\ results[c] = a => ThrOf(a) = t
         /\ ThrOf(a) = t => (results[c] = a <=> SockIdx(a) < Len(socks[t]) /\ socks[t][SockIdx(a) + 1] = c)
         /\ SockIdx(a) \in Nat
<1>1. PICK i \in DOMAIN socks[t] : socks[t][i] = c
  BY SockFacts
<1>2. PICK N \in Nat \ {0} : N = num_thrs
  BY RoomNumbers
<1>3. PICK q \in Nat, r \in Nat : q = a \div N /\ r = a % N
  BY <1>2
<1>4. a = N * q + r /\ r < N /\ SockIdx(a) = q /\ ThrOf(a) = r
  BY <1>2, <1>3 DEF SockIdx, ThrOf
<1>5. Len(socks[t]) \in Nat /\ i \in 1 .. Len(socks[t]) /\ t \in Nat /\ t < N /\ DOMAIN socks[t] = 1 .. Len(socks[t])
  BY <1>2, SockFacts DEF Thr
<1>6. \A j \in DOMAIN socks[t] : results[socks[t][j]] = N * (j - 1) + t
  BY <1>2 DEF NamesInv, PlaceInv
<1>7. PICK p \in Nat : p = i - 1
  BY <1>5
<1>8. results[c] = N * p + t
  BY <1>1, <1>6, <1>7
<1>9. ASSUME results[c] = a PROVE q = p /\ r = t
  <2>1. a = N * p + t /\ 0 <= t
    BY <1>5, <1>8, <1>9
  <2>2. a \in Nat /\ N \in Nat \ {0} /\ p \in Int /\ t \in Int /\ t < N
    BY <1>5
  <2>3. \A l \in Nat, d \in Nat \ {0}, x, y \in Int : l = d * x + y /\ 0 <= y /\ y < d => l \div d = x /\ l % d = y
    BY Quotient
  <2>4. a \div N = p /\ a % N = t
    BY <2>1, <2>2, <2>3, Zenon
  <2> QED BY <1>3, <2>4
<1>10. ASSUME results[c] = a PROVE SockIdx(a) < Len(socks[t]) /\ socks[t][SockIdx(a) + 1] = c
  <2>1. q + 1 = i /\ q < Len(socks[t])
    BY <1>5, <1>7, <1>9, <1>10
  <2> QED BY <1>1, <1>4, <2>1
<1>11. ASSUME ThrOf(a) = t, SockIdx(a) < Len(socks[t]), socks[t][SockIdx(a) + 1] = c PROVE results[c] = a
  <2>1. PICK j \in DOMAIN socks[t] : j = q + 1
    BY <1>4, <1>5, <1>11
  <2>2. results[c] = N * (j - 1) + t /\ j - 1 = q
    <3>1. socks[t][j] = c
      BY <1>4, <1>11, <2>1
    <3>2. results[socks[t][j]] = N * (j - 1) + t
      BY <1>6
    <3> QED BY <1>4, <2>1, <3>1, <3>2
  <2>3. results[c] = N * q + r
    BY <1>4, <1>11, <2>2
  <2> QED BY <1>4, <2>3
<1> QED BY <1>4, <1>9, <1>10, <1>11

\* The messages of a sender go where their calls ask.
LEMMA ToSockIs ==
  ASSUME TypeInv, PlaceInv, NamesInv, running, IdsUsable, NEW t \in Thr, NEW c \in SocksOf(t),
         NEW m \in Msg, m.type = "WRITE", Form(t, m)
  PROVE  ToSock(t, c, m) <=> Asks(m.data, t, c)
<1>1. PICK k \in 1 .. Len(Program) : k = m.data
  BY DEF Msg
<1>2. CASE Program[k].op = "send"
  <2>1. Start = 0
    BY <1>2, ProgramFacts DEF IdsUsable, TypeInv, CallInv
  <2>2. PICK a \in Nat : a = Program[k].arg
    BY CallFacts DEF TypeInv, CallInv
  <2>3. ThrOf(a) = t /\ m.sock = SockIdx(a)
    BY <1>1, <1>2, <2>2 DEF Form
  <2>4. /\ results[c] = a <=> SockIdx(a) < Len(socks[t]) /\ socks[t][SockIdx(a) + 1] = c
        /\ SockIdx(a) \in Nat
    BY <2>1, <2>3, PlaceOf
  <2>5. ToSock(t, c, m) <=> SockIdx(a) < Len(socks[t]) /\ socks[t][SockIdx(a) + 1] = c
    <3>1. ~(m.sock < 0)
      BY <2>3, <2>4
    <3> QED BY <2>3, <3>1 DEF ToSock
  <2> QED BY <1>1, <1>2, <2>2, <2>4, <2>5 DEF Asks
<1>3. CASE Program[k].op # "send"
  <2>1. m.sock = -1 /\ Asks(k, t, c)
    BY <1>1, <1>3 DEF Form, Asks
  <2>2. m.sock < 0
    BY <2>1
  <2> QED BY <1>1, <2>1, <2>2 DEF ToSock
<1> QED BY <1>2, <1>3

\* What Addresses says of a connection of the running pool.
LEMMA AddressedIs ==
  ASSUME TypeInv, PlaceInv, running, NEW t \in Thr, NEW c \in SocksOf(t), NEW h
  PROVE  Addressed(c, h) = {j \in 1 .. h : (j <= Len(results) => results[j] = 0) /\ Asks(j, t, c)}
<1>1. HasId(c) /\ \A u \in Thr : c \in SocksOf(u) <=> u = t
  BY OneThread
<1>2. \A j \in 1 .. h : Addresses(j, c) <=> (j <= Len(results) => results[j] = 0) /\ Asks(j, t, c)
  BY <1>1 DEF Addresses, Asks
<1> QED BY <1>2 DEF Addressed

\* The same in the next state, in terms of this one.
LEMMA AddressedNext ==
  ASSUME TypeInv, PlaceInv, running, [Next]_vars, NEW t \in Thr, NEW c \in SocksOf(t), NEW h
  PROVE  Addressed(c, h)' = {j \in 1 .. h : (j <= Len(results') => results'[j] = 0) /\ Asks(j, t, c)}
<1>1. ~add_conn
  BY DEF add_conn
<1>2. socks' = socks /\ Program' = Program
  BY <1>1, IdedSame, ProgStep, ProgSame
<1>3. HasId(c) /\ c \in Conn /\ \A u \in Thr : c \in SocksOf(u) <=> u = t
  BY OneThread
<1>4. HasId(c)' /\ results'[c] = results[c]
  BY <1>3, HasIdStays
<1>5. \A u \in Thr : c \in SocksOf(u)' <=> u = t
  BY <1>2, <1>3 DEF SocksOf
<1>6. \A j \in 1 .. h : Addresses(j, c)' <=> (j <= Len(results') => results'[j] = 0) /\ Asks(j, t, c)
  BY <1>2, <1>4, <1>5 DEF Addresses, Asks
<1> QED BY <1>6 DEF Addressed

\* Nothing is addressed to a connection while no call returns and no broadcast goes on,
LEMMA AddressedSame ==
  ASSUME TypeInv, PlaceInv, running, [Next]_vars, NEW t \in Thr, NEW c \in SocksOf(t), results' = results,
         loop' = loop \/ Program[Index].op # "broadcast"
  PROVE  Handed(t)' = Handed(t) /\ Addressed(c, Handed(t))' = Addressed(c, Handed(t))
<1>1. Program' = Program
  BY ProgStep, ProgSame
<1>2. Index' = Index
  BY DEF Index
<1>3. Handed(t)' = Handed(t)
  BY <1>1, <1>2 DEF Handed
<1>4. PICK h : h = Handed(t)
  OBVIOUS
<1>5. Addressed(c, h)' = Addressed(c, h)
  <2>1. Addressed(c, h) = {j \in 1 .. h : (j <= Len(results) => results[j] = 0) /\ Asks(j, t, c)}
    BY AddressedIs
  <2>2. Addressed(c, h)' = {j \in 1 .. h : (j <= Len(results') => results'[j] = 0) /\ Asks(j, t, c)}
    BY AddressedNext
  <2> QED BY <2>1, <2>2
<1> QED BY <1>3, <1>4, <1>5 DEF Addressed

\* or when one returns that has not handed anything to the sender now.
LEMMA AddressedReturn ==
  ASSUME TypeInv, PlaceInv, running, [Next]_vars, NEW t \in Thr, NEW c \in SocksOf(t), NEW r \in Int, Return(r)
  PROVE  /\ Handed(t)' = Index
         /\ Handed(t) = Len(results) =>
              Addressed(c, Handed(t))' = Addressed(c, Handed(t)) \union {k \in {Index} : r = 0 /\ Asks(k, t, c)}
         /\ Handed(t) = Index /\ r = 0 => Addressed(c, Handed(t))' = Addressed(c, Handed(t))
<1>1. PICK n \in Nat : n = Len(results) /\ Index = n + 1
  BY DEF TypeInv, CallInv, Index
<1>2. results \in Seq(Int) /\ results' = Append(results, r) /\ loop' = 0 /\ t \in Nat
  BY ThrFacts DEF TypeInv, CallInv, Return
<1>3. Len(results') = n + 1 /\ results'[n + 1] = r /\ \A k \in 1 .. n : results'[k] = results[k]
  BY <1>1, <1>2
<1>4. Handed(t)' = n + 1
  <2>1. ~(loop' > t)
    BY <1>2
  <2> QED BY <1>3, <2>1 DEF Handed
<1>5. PICK h, B, D : h = n + 1 /\ B = Addressed(c, n) /\ D = Addressed(c, h)
  OBVIOUS
<1>6. Addressed(c, Handed(t))' = Addressed(c, h)'
  BY <1>4, <1>5 DEF Addressed
<1>7. Addressed(c, h)' = {j \in 1 .. h : (j <= Len(results') => results'[j] = 0) /\ Asks(j, t, c)}
  BY AddressedNext
<1>8. B = {j \in 1 .. n : (j <= n => results[j] = 0) /\ Asks(j, t, c)}
  BY <1>1, <1>5, AddressedIs
<1>9. D = {j \in 1 .. h : (j <= n => results[j] = 0) /\ Asks(j, t, c)}
  BY <1>1, <1>5, AddressedIs
<1>10. Addressed(c, h)' = B \union {k \in {n + 1} : r = 0 /\ Asks(k, t, c)}
  <2>1. ASSUME NEW j \in 1 .. n + 1
        PROVE  (j <= n + 1 => results'[j] = 0) <=> IF j <= n THEN results[j] = 0 ELSE r = 0
    BY <1>3
  <2>2. \A j \in 1 .. n + 1 : j \in 1 .. n \/ (j = n + 1 /\ ~(j <= n))
    OBVIOUS
  <2>3. 1 .. n \subseteq 1 .. n + 1 /\ n + 1 \in 1 .. n + 1 /\ (\A j \in 1 .. n : j <= n) /\ ~(n + 1 <= n) /\ n + 1 \notin 1 .. n
    OBVIOUS
  <2> QED BY <1>3, <1>5, <1>7, <1>8, <2>1, <2>2, <2>3
<1>11. r = 0 => Addressed(c, h)' = D
  <2>1. ASSUME r = 0, NEW j \in 1 .. n + 1
        PROVE  (j <= n + 1 => results'[j] = 0) <=> (j <= n => results[j] = 0)
    BY <1>3, <2>1
  <2> QED BY <1>3, <1>5, <1>7, <1>9, <2>1
<1> QED BY <1>1, <1>4, <1>5, <1>6, <1>10, <1>11

-----------------------------------------------------------------------------
(* Delivery: what a connection has got *)

Sent(c) == Range(got[c]) \union Range(toPeer[c])
Live(c) == c \in opened /\ peer[c] \in {"read", "write"}

\* What the worker has read is before what it will read, each in the order of the calls.
Rising(c) ==
  /\ \A i, j \in DOMAIN got[c] : i < j => got[c][i] < got[c][j]
  /\ \A i, j \in DOMAIN toPeer[c] : i < j => toPeer[c][i] < toPeer[c][j]
  /\ \A i \in DOMAIN got[c], j \in DOMAIN toPeer[c] : got[c][i] < toPeer[c][j]

\* Of what is addressed to a connection, A, the sent part S is the beginning; the pending
\* part P is later; and together they are all of A as long as the connection is alive.
Deliv(S, P, A, live) ==
  /\ S \subseteq A
  /\ \A d \in S : \A q \in P : d < q
  /\ \A d \in S : \A j \in A : j < d => j \in S
  /\ live => A \subseteq S \union P

DelivOf(t, c) == Rising(c) /\ Deliv(Sent(c), Pending(t, c), Addressed(c, Handed(t)), Live(c))

DelivInv == IdsUsable => \A t \in Thr : \A c \in SocksOf(t) : DelivOf(t, c)

\* Deliv survives a new call, whose message is pending;
LEMMA DelivCall ==
  ASSUME NEW S, NEW P, NEW A, NEW k \in Int, NEW live, Deliv(S, P, A, live), A \subseteq Int, \A j \in A : j < k
  PROVE  Deliv(S, P \union {k}, A \union {k}, live)
<1>1. \A d \in S : d \in Int /\ d < k
  BY DEF Deliv
<1>2. \A d \in S : ~(k < d)
  BY <1>1
<1> QED BY <1>1, <1>2 DEF Deliv

\* the write of the first pending one to a living connection,
LEMMA DelivWrite ==
  ASSUME NEW S, NEW P, NEW A, Deliv(S, P, A, TRUE), A \subseteq Int, NEW w \in A, NEW Q,
         P = Q \union {w}, \A q \in Q : w < q, Q \subseteq A
  PROVE  Deliv(S \union {w}, Q, A, TRUE)
<1>1. \A j \in A : j < w => j \notin Q /\ j # w
  BY SMT
<1> QED BY <1>1 DEF Deliv

\* or not, to another one;
LEMMA DelivSkip ==
  ASSUME NEW S, NEW P, NEW A, NEW live, Deliv(S, P, A, live), NEW Q \in SUBSET P
  PROVE  Deliv(S, Q, A, FALSE)
<1> QED BY DEF Deliv

\* and the loss of the last sent ones.
LEMMA DelivLose ==
  ASSUME NEW S, NEW P, NEW A, NEW live, Deliv(S, P, A, live), A \subseteq Int, NEW R \in SUBSET S,
         \A d \in R : \A j \in S \ R : d < j
  PROVE  Deliv(R, P, A, FALSE)
<1>1. S \subseteq Int
  BY DEF Deliv
<1>2. ASSUME NEW d \in R, NEW j \in A, j < d PROVE j \in R
  <2>1. j \in S
    BY <1>2 DEF Deliv
  <2>2. ~(d < j)
    BY <1>1, <1>2
  <2> QED BY <2>1, <2>2
<1> QED BY <1>2 DEF Deliv

\* What a worker has read and will read are numbers of calls.
LEMMA SentFacts ==
  ASSUME TypeInv, NEW c \in Conn
  PROVE  /\ got[c] \in Seq(Int) /\ toPeer[c] \in Seq(Int) /\ toPool[c] \in Seq(Int)
         /\ \A i \in DOMAIN got[c] : got[c][i] \in 1 .. Len(Program)
         /\ \A i \in DOMAIN toPeer[c] : toPeer[c][i] \in 1 .. Len(Program)
<1>1. PICK D : D = 1 .. Len(Program)
  OBVIOUS
<1>2. got[c] \in Seq(D) /\ toPeer[c] \in Seq(D) /\ toPool[c] \in Seq(D)
  BY <1>1 DEF TypeInv, PeerInv, Frames
<1>3. D \subseteq Int
  BY <1>1, ProgramFacts DEF TypeInv, CallInv
<1>4. got[c] \in Seq(Int) /\ toPeer[c] \in Seq(Int) /\ toPool[c] \in Seq(Int)
  <2>1. PICK I : I = Int
    OBVIOUS
  <2>2. ASSUME NEW s \in Seq(D) PROVE s \in Seq(I)
    <3>1. D \subseteq I
      BY <1>3, <2>1
    <3> QED BY <3>1
  <2> QED BY <1>2, <2>1, <2>2
<1>5. (\A i \in DOMAIN got[c] : got[c][i] \in D) /\ (\A i \in DOMAIN toPeer[c] : toPeer[c][i] \in D)
  BY <1>2
<1> QED BY <1>1, <1>4, <1>5

\* What the calls address are calls.
LEMMA AddressedFacts ==
  ASSUME TypeInv, NEW t \in Thr, NEW c
  PROVE  Addressed(c, Handed(t)) \subseteq Int /\ \A j \in Addressed(c, Handed(t)) : j <= Handed(t)
<1>1. Handed(t) \in Nat
  BY HandedFacts
<1> QED BY <1>1 DEF Addressed

\* What a sender holds for a connection is addressed to it.
LEMMA PendingIn ==
  ASSUME TypeInv, PlaceInv, NamesInv, QueueInv, running, IdsUsable, NEW t \in Thr, NEW c \in SocksOf(t)
  PROVE  /\ Queued(t, c) \subseteq Addressed(c, Handed(t))
         /\ Writing(t, c) => wmsg[t].data \in Addressed(c, Handed(t)) /\ \A q \in Queued(t, c) : wmsg[t].data < q
<1>1. Addressed(c, Handed(t)) = {j \in 1 .. Handed(t) : (j <= Len(results) => results[j] = 0) /\ Asks(j, t, c)}
  BY AddressedIs
<1>2. ASSUME NEW m \in Msg, MsgOf(t, m), ToSock(t, c, m) PROVE m.data \in Addressed(c, Handed(t))
  <2>1. m.type = "WRITE" /\ m.data <= Handed(t) /\ (m.data <= Len(results) => results[m.data] = 0) /\ Form(t, m)
    BY <1>2 DEF ToSock, MsgOf
  <2>2. Asks(m.data, t, c)
    BY <1>2, <2>1, ToSockIs
  <2>3. m.data \in 1 .. Handed(t)
    <3>1. m.data \in 1 .. Len(Program) /\ Len(Program) \in Nat /\ Handed(t) \in Nat
      BY <2>1, SenderFacts, HandedFacts
    <3> QED BY <2>1, <3>1
  <2> QED BY <1>1, <2>1, <2>2, <2>3
<1>3. QueueOf(t)
  BY DEF QueueInv
<1>4. ASSUME NEW q \in Queued(t, c)
      PROVE  \E i \in DOMAIN msgq[t] : q = msgq[t][i].data /\ ToSock(t, c, msgq[t][i])
  BY DEF Queued
<1>5. Queued(t, c) \subseteq Addressed(c, Handed(t))
  <2>1. SUFFICES ASSUME NEW q \in Queued(t, c) PROVE q \in Addressed(c, Handed(t))
    OBVIOUS
  <2>2. PICK i \in DOMAIN msgq[t] : q = msgq[t][i].data /\ ToSock(t, c, msgq[t][i])
    BY <1>4
  <2>3. msgq[t][i] \in Msg /\ MsgOf(t, msgq[t][i])
    BY <1>3, SenderFacts DEF QueueOf
  <2> QED BY <1>2, <2>2, <2>3
<1>6. ASSUME Writing(t, c) PROVE wmsg[t].data \in Addressed(c, Handed(t)) /\ \A q \in Queued(t, c) : wmsg[t].data < q
  <2>1. wpc[t] = "write" /\ ToSock(t, c, wmsg[t]) /\ wmsg[t].type = "WRITE"
    BY <1>6 DEF Writing, ToSock
  <2>2. wmsg[t] \in Msg /\ MsgOf(t, wmsg[t])
    BY <1>3, <2>1, SenderFacts DEF QueueOf
  <2>3. ASSUME NEW q \in Queued(t, c) PROVE wmsg[t].data < q
    <3>1. PICK i \in DOMAIN msgq[t] : q = msgq[t][i].data /\ ToSock(t, c, msgq[t][i])
      BY <1>4
    <3>2. Before(wmsg[t], msgq[t][i]) /\ msgq[t][i].type = "WRITE"
      BY <1>3, <2>1, <3>1 DEF QueueOf, ToSock
    <3> QED BY <2>1, <3>1, <3>2 DEF Before
  <2> QED BY <1>2, <2>1, <2>2, <2>3
<1> QED BY <1>5, <1>6

\* What a sender holds changes with its queue: it grows at the end,
LEMMA QueuedAppend ==
  ASSUME TypeInv, NEW t \in Thr, NEW c, NEW m \in Msg, socks' = socks, msgq'[t] = Append(msgq[t], m)
  PROVE  Queued(t, c)' = Queued(t, c) \union {k \in {m.data} : ToSock(t, c, m)}
<1>1. PICK M : M = Msg /\ msgq[t] \in Seq(M)
  BY SenderFacts
<1>2. PICK q \in Seq(M), p \in {Append(msgq[t], m)} : q = msgq[t] /\ p = Append(q, m)
  BY <1>1
<1>3. /\ DOMAIN p = DOMAIN q \union {Len(q) + 1} /\ p[Len(q) + 1] = m
      /\ \A i \in DOMAIN q : p[i] = q[i]
  BY <1>1, <1>2
<1>4. \A x : ToSock(t, c, x)' <=> ToSock(t, c, x)
  BY DEF ToSock
<1>5. Queued(t, c)' = {p[i].data : i \in {j \in DOMAIN p : ToSock(t, c, p[j])}}
  BY <1>2, <1>4 DEF Queued, ToSock
<1>6. Queued(t, c) = {q[i].data : i \in {j \in DOMAIN q : ToSock(t, c, q[j])}}
  BY <1>2 DEF Queued
<1> QED BY <1>3, <1>5, <1>6

\* and shrinks at the front.
LEMMA QueuedTail ==
  ASSUME TypeInv, NEW t \in Thr, NEW c, socks' = socks, msgq[t] # <<>>, msgq'[t] = Tail(msgq[t])
  PROVE  Queued(t, c) = Queued(t, c)' \union {k \in {Head(msgq[t]).data} : ToSock(t, c, Head(msgq[t]))}
<1>1. PICK M : M = Msg /\ msgq[t] \in Seq(M)
  BY SenderFacts
<1>2. PICK q \in Seq(M), p \in {Tail(msgq[t])}, m \in {Head(msgq[t])} : q = msgq[t] /\ p = Tail(q) /\ m = Head(q) /\ q # <<>>
  BY <1>1
<1>3. /\ m = q[1] /\ 1 \in DOMAIN q
      /\ \A i \in DOMAIN p : i + 1 \in DOMAIN q /\ p[i] = q[i + 1]
      /\ \A i \in DOMAIN q : i = 1 \/ (i - 1 \in DOMAIN p /\ p[i - 1] = q[i])
  BY <1>2, TailOf
<1>5. Queued(t, c)' = {p[i].data : i \in {j \in DOMAIN p : ToSock(t, c, p[j])}}
  BY <1>2 DEF Queued, ToSock
<1>6. Queued(t, c) = {q[i].data : i \in {j \in DOMAIN q : ToSock(t, c, q[j])}}
  BY <1>2 DEF Queued
<1>7. ASSUME NEW x \in Queued(t, c) PROVE x \in Queued(t, c)' \/ (x = m.data /\ ToSock(t, c, m))
  <2>1. PICK i \in DOMAIN q : x = q[i].data /\ ToSock(t, c, q[i])
    BY <1>6
  <2>2. CASE i = 1
    BY <1>3, <2>1, <2>2
  <2>3. CASE i - 1 \in DOMAIN p /\ p[i - 1] = q[i]
    BY <1>5, <2>1, <2>3
  <2> QED BY <1>3, <2>2, <2>3
<1>8. ASSUME NEW x \in Queued(t, c)' PROVE x \in Queued(t, c)
  <2>1. PICK i \in DOMAIN p : x = p[i].data /\ ToSock(t, c, p[i])
    BY <1>5
  <2>2. i + 1 \in DOMAIN q /\ p[i] = q[i + 1]
    BY <1>3
  <2> QED BY <1>6, <2>1, <2>2
<1>9. ToSock(t, c, m) => m.data \in Queued(t, c)
  BY <1>3, <1>6
<1> QED BY <1>2, <1>7, <1>8, <1>9

\* How a connection that is left alone keeps what it has got, whether it stays alive or not.
LEMMA DelivSame ==
  ASSUME NEW t, NEW c, DelivOf(t, c), got'[c] = got[c], toPeer'[c] = toPeer[c], Pending(t, c)' = Pending(t, c),
         Addressed(c, Handed(t))' = Addressed(c, Handed(t)), Live(c)' => Live(c)
  PROVE  DelivOf(t, c)'
<1>1. Rising(c)' /\ Sent(c)' = Sent(c)
  BY DEF Rising, Sent, DelivOf
<1>2. PICK S, P, A : S = Sent(c) /\ P = Pending(t, c) /\ A = Addressed(c, Handed(t))
  OBVIOUS
<1>3. Deliv(S, P, A, Live(c))
  BY <1>2 DEF DelivOf
<1>4. PICK live : live = Live(c)'
  OBVIOUS
<1>5. Deliv(S, P, A, live)
  BY <1>3, <1>4 DEF Deliv
<1> QED BY <1>1, <1>2, <1>4, <1>5 DEF DelivOf, Deliv

\* How the property of the next state is shown.
LEMMA DelivRule ==
  ASSUME NEW t, NEW c, NEW S, NEW P, NEW A, NEW live, Deliv(S, P, A, live), Rising(c)',
         Sent(c)' = S, Pending(t, c)' = P, Addressed(c, Handed(t))' = A, Live(c)' => live
  PROVE  DelivOf(t, c)'
<1> QED BY DEF DelivOf, Deliv

\* A sender that is left alone holds what it held.
LEMMA PendingSame ==
  ASSUME NEW t, NEW c, socks' = socks, msgq'[t] = msgq[t], wmsg'[t] = wmsg[t],
         wpc'[t] = "write" <=> wpc[t] = "write", wpc[t] = "write" => widx'[t] = widx[t]
  PROVE  Pending(t, c)' = Pending(t, c)
<1>1. \A x : ToSock(t, c, x)' <=> ToSock(t, c, x)
  BY DEF ToSock
<1>2. Queued(t, c)' = Queued(t, c)
  BY DEF Queued, ToSock
<1>3. Writing(t, c)' <=> Writing(t, c)
  BY DEF Writing, ToSock
<1> QED BY <1>2, <1>3 DEF Pending

\* A sender that takes a message to write holds what it held.
LEMMA PendingPop ==
  ASSUME TypeInv, PlaceInv, NEW t \in Thr, Pop(t), NEW c \in SocksOf(t)
  PROVE  Pending(t, c)' = Pending(t, c)
<1>1. DOMAIN msgq = Thr /\ DOMAIN wmsg = Thr /\ DOMAIN widx = Thr /\ DOMAIN wpc = Thr
  BY DEF TypeInv, SendInv
<1>2. PICK m : m = Head(msgq[t])
  OBVIOUS
<1>3. /\ msgq'[t] = Tail(msgq[t]) /\ msgq[t] # <<>> /\ wmsg'[t] = m /\ wpc[t] = "pop" /\ wpc'[t] = AfterPop(m)
      /\ widx'[t] = (IF m.sock < 0 THEN 0 ELSE m.sock) /\ socks' = socks
  BY <1>1, <1>2 DEF Pop, mainRest, poolVars
<1>4. m \in Msg
  <2>1. PICK M : M = Msg /\ msgq[t] \in Seq(M)
    BY SenderFacts
  <2> QED BY <1>2, <1>3, <2>1, TailOf
<1>5. m.sock \in Int
  BY <1>4, SenderFacts
<1>6. Queued(t, c) = Queued(t, c)' \union {k \in {m.data} : ToSock(t, c, m)}
  BY <1>2, <1>3, QueuedTail
<1>7. ~Writing(t, c)
  BY <1>3 DEF Writing
<1>8. Writing(t, c)' <=> ToSock(t, c, m)
  <2>1. ToSock(t, c, m)' <=> ToSock(t, c, m)
    BY <1>3 DEF ToSock
  <2>2. ASSUME ToSock(t, c, m) PROVE wpc'[t] = "write" /\ \E i \in DOMAIN socks[t] : i > widx'[t] /\ socks[t][i] = c
    <3>1. wpc'[t] = "write"
      BY <1>3, <2>2 DEF ToSock, AfterPop
    <3>2. Len(socks[t]) \in Nat /\ DOMAIN socks[t] = 1 .. Len(socks[t])
      BY SockFacts
    <3>3. CASE m.sock < 0
      <4>1. PICK i \in DOMAIN socks[t] : socks[t][i] = c
        BY SockFacts
      <4>2. i > 0 /\ widx'[t] = 0
        BY <1>3, <3>2, <3>3
      <4> QED BY <3>1, <4>1, <4>2
    <3>4. CASE ~(m.sock < 0)
      <4>1. m.sock < Len(socks[t]) /\ socks[t][m.sock + 1] = c /\ widx'[t] = m.sock
        BY <1>3, <2>2, <3>4 DEF ToSock
      <4>2. m.sock + 1 \in DOMAIN socks[t] /\ m.sock + 1 > m.sock
        BY <1>5, <3>2, <3>4, <4>1
      <4> QED BY <3>1, <4>1, <4>2
    <3> QED BY <3>3, <3>4
  <2> QED BY <1>3, <2>1, <2>2 DEF Writing, ToSock
<1> QED BY <1>3, <1>6, <1>7, <1>8 DEF Pending

\* A sender at a socket writes for the connection there, and is done with it.
LEMMA PendingWrite ==
  ASSUME TypeInv, PlaceInv, NEW t \in Thr, QueueOf(t), WriteSock(t), NEW c \in SocksOf(t)
  PROVE  LET w == socks[t][widx[t] + 1]
         IN  /\ w \in SocksOf(t)
             /\ c # w => Pending(t, c)' = Pending(t, c)
             /\ c = w => Writing(t, c) /\ Pending(t, c)' = Queued(t, c)
<1>1. DOMAIN msgq = Thr /\ DOMAIN wmsg = Thr /\ DOMAIN widx = Thr /\ DOMAIN wpc = Thr
  BY DEF TypeInv, SendInv
<1>2. PICK x \in Nat, L \in Nat, s \in Int, w \in {socks[t][widx[t] + 1]} : x = widx[t] /\ L = Len(socks[t]) /\ s = wmsg[t].sock /\ w = socks[t][x + 1]
  BY SenderFacts, SockFacts
<1>3. /\ msgq' = msgq /\ wmsg' = wmsg /\ socks' = socks /\ wpc[t] = "write" /\ x < L
      /\ widx'[t] = (IF MoreSocks(t) THEN x + 1 ELSE 0)
      /\ wpc'[t] = (IF MoreSocks(t) THEN "write" ELSE "pop")
  BY <1>1, <1>2 DEF WriteSock, mainRest, poolVars
<1>4. MoreSocks(t) <=> s < 0 /\ x + 1 < L
  BY <1>2 DEF MoreSocks
<1>5. DOMAIN socks[t] = 1 .. L /\ x + 1 \in 1 .. L
  BY <1>2, <1>3, SockFacts
<1>6. w \in SocksOf(t)
  BY <1>2, <1>5 DEF SocksOf
<1>7. wmsg[t].type = "WRITE" /\ (s >= 0 => x = s)
  BY <1>2, <1>3 DEF TypeInv, SendInv, QueueOf
<1>8. ToSock(t, c, wmsg[t]) <=> s < 0 \/ (s < L /\ socks[t][s + 1] = c)
  BY <1>2, <1>7 DEF ToSock
<1>9. Writing(t, c) <=> ToSock(t, c, wmsg[t]) /\ \E i \in 1 .. L : i > x /\ socks[t][i] = c
  BY <1>2, <1>3, <1>5 DEF Writing
<1>10. Writing(t, c)' <=> MoreSocks(t) /\ ToSock(t, c, wmsg[t]) /\ \E i \in 1 .. L : i > x + 1 /\ socks[t][i] = c
  BY <1>3, <1>5 DEF Writing, ToSock
<1>11. Queued(t, c)' = Queued(t, c)
  BY <1>3 DEF Queued, ToSock
<1>12. \A i, j \in 1 .. L : socks[t][i] = socks[t][j] => i = j
  BY <1>5 DEF PlaceInv
<1>13. ASSUME c # w PROVE Writing(t, c)' <=> Writing(t, c)
  <2>1. ASSUME Writing(t, c) PROVE Writing(t, c)'
    <3>1. PICK i \in 1 .. L : i > x /\ socks[t][i] = c /\ ToSock(t, c, wmsg[t])
      BY <1>9, <2>1
    <3>2. i # x + 1
      BY <1>2, <1>13, <3>1
    <3>3. i > x + 1 /\ x + 1 < L
      BY <3>1, <3>2
    <3>4. s < 0
      <4>1. ASSUME s >= 0 PROVE FALSE
        <5>1. s = x /\ ~(s < 0)
          BY <1>7, <4>1
        <5>2. socks[t][x + 1] = c
          BY <1>8, <3>1, <5>1
        <5> QED BY <1>2, <1>13, <5>2
      <4> QED BY <4>1
    <3> QED BY <1>4, <1>10, <3>1, <3>3, <3>4
  <2>2. ASSUME Writing(t, c)' PROVE Writing(t, c)
    <3>1. PICK i \in 1 .. L : i > x + 1 /\ socks[t][i] = c /\ ToSock(t, c, wmsg[t])
      BY <1>10, <2>2
    <3>2. i > x
      BY <3>1
    <3> QED BY <1>9, <3>1, <3>2
  <2> QED BY <2>1, <2>2
<1>14. ASSUME c = w PROVE Writing(t, c) /\ ~Writing(t, c)'
  <2>1. ToSock(t, c, wmsg[t])
    <3>1. CASE s < 0
      BY <1>8, <3>1
    <3>2. CASE s >= 0
      BY <1>2, <1>3, <1>7, <1>8, <1>14, <3>2
    <3> QED BY <3>1, <3>2
  <2>2. x + 1 > x /\ socks[t][x + 1] = c
    BY <1>2, <1>14
  <2>3. ASSUME NEW i \in 1 .. L, i > x + 1, socks[t][i] = c PROVE FALSE
    BY <1>5, <1>12, <2>2, <2>3
  <2> QED BY <1>5, <1>9, <1>10, <2>1, <2>2, <2>3
<1>15. Pending(t, c)' = Queued(t, c) \union {k \in {wmsg[t].data} : Writing(t, c)'}
  BY <1>3, <1>11 DEF Pending
<1>16. c # w => Pending(t, c)' = Pending(t, c)
  BY <1>13, <1>15 DEF Pending
<1>17. c = w => Writing(t, c) /\ Pending(t, c)' = Queued(t, c)
  BY <1>14, <1>15
<1> QED BY <1>2, <1>6, <1>16, <1>17

\* A sender without a socket to write to has nothing to write.
LEMMA PendingNowhere ==
  ASSUME TypeInv, NEW t \in Thr, WriteNowhere(t), NEW c
  PROVE  Pending(t, c)' = Pending(t, c)
<1>1. DOMAIN wpc = Thr /\ widx[t] \in Nat /\ Len(socks[t]) \in Nat /\ DOMAIN socks[t] = 1 .. Len(socks[t])
  BY SenderFacts, SockFacts DEF TypeInv, SendInv
<1>2. msgq' = msgq /\ wpc'[t] = "pop" /\ widx[t] >= Len(socks[t]) /\ socks' = socks
  BY <1>1 DEF WriteNowhere, mainRest, poolVars
<1>3. ~Writing(t, c) /\ ~Writing(t, c)'
  <2>1. \A i \in DOMAIN socks[t] : ~(i > widx[t])
    BY <1>1, <1>2
  <2> QED BY <1>2, <2>1 DEF Writing
<1>4. Queued(t, c)' = Queued(t, c)
  BY <1>2 DEF Queued, ToSock
<1> QED BY <1>3, <1>4 DEF Pending

\* The write itself: one more for the connection, if it is alive.
LEMMA DelivWrites ==
  ASSUME TypeInv, PlaceInv, NamesInv, QueueInv, running, IdsUsable, [Next]_vars,
         \A c \in reset : peer[c] \in {"gone", "failed"},
         NEW t \in Thr, WriteSock(t), NEW c \in SocksOf(t), c = socks[t][widx[t] + 1], DelivOf(t, c)
  PROVE  DelivOf(t, c)'
<1>1. c \in Conn
  BY SockFacts
<1>2. Writing(t, c) /\ Pending(t, c)' = Queued(t, c) /\ wpc[t] = "write"
  BY PendingWrite DEF QueueInv, WriteSock
<1>3. results' = results /\ loop' = loop /\ got' = got /\ opened' = opened /\ peer' = peer
  BY DEF WriteSock, mainRest, mainVars, peerVars, rVars
<1>4. PICK S, A, Q, w : S = Sent(c) /\ A = Addressed(c, Handed(t)) /\ Q = Queued(t, c) /\ w = wmsg[t].data
  OBVIOUS
<1>5. Addressed(c, Handed(t))' = A /\ A \subseteq Int
  BY <1>3, <1>4, AddressedSame, AddressedFacts
<1>6. Q \subseteq A /\ w \in A /\ \A q \in Q : w < q
  BY <1>2, <1>4, PendingIn
<1>7. Pending(t, c) = Q \union {w}
  BY <1>2, <1>4 DEF Pending
<1>8. Rising(c) /\ Deliv(S, Q \union {w}, A, Live(c))
  BY <1>4, <1>7 DEF DelivOf
<1>9. CASE ~Live(c)
  <2>1. toPeer' = toPeer
    BY <1>9 DEF WriteSock, Live, netVars
  <2>2. Rising(c)' /\ Sent(c)' = S /\ ~Live(c)'
    BY <1>3, <1>4, <1>8, <1>9, <2>1 DEF Rising, Sent, Live
  <2>3. Deliv(S, Q, A, FALSE)
    BY <1>8 DEF Deliv
  <2> QED BY <1>2, <1>4, <1>5, <2>2, <2>3, DelivRule
<1>10. CASE Live(c)
  <2>1. toPeer' = [toPeer EXCEPT ![c] = Append(@, w)]
    BY <1>4, <1>10 DEF WriteSock, Live
  <2>2. PICK g, p, q : g \in Seq(Int) /\ p \in Seq(Int) /\ g = got[c] /\ p = toPeer[c] /\ q = Append(p, w)
    BY <1>1, SentFacts
  <2>3. toPeer'[c] = q /\ got'[c] = g
    BY <1>1, <1>3, <2>1, <2>2 DEF TypeInv, PeerInv
  <2>4. DOMAIN p = 1 .. Len(p) /\ Len(p) \in Nat /\ DOMAIN q = 1 .. Len(p) + 1 /\ q[Len(p) + 1] = w
        /\ \A i \in 1 .. Len(p) : q[i] = p[i]
    BY <1>5, <1>6, <2>2
  <2>5. Range(q) = Range(p) \union {w}
    <3>1. \A i \in DOMAIN q : i \in DOMAIN p \/ i = Len(p) + 1
      BY <2>4
    <3> QED BY <2>4, <3>1 DEF Range
  <2>6. Sent(c)' = S \union {w}
    BY <1>4, <2>2, <2>3, <2>5 DEF Sent
  <2>7. Deliv(S \union {w}, Q, A, TRUE)
    <3>1. Deliv(S, Q \union {w}, A, TRUE)
      BY <1>8, <1>10 DEF Deliv
    <3> QED BY <1>5, <1>6, <3>1, DelivWrite
  <2>8. (\A i \in DOMAIN g : g[i] < w) /\ (\A i \in DOMAIN p : p[i] < w)
    <3>1. \A d \in S : d < w
      BY <1>8 DEF Deliv
    <3> QED BY <1>4, <2>2, <3>1 DEF Sent, Range
  <2>9. Rising(c)'
    <3>1. ASSUME NEW i \in DOMAIN q, NEW j \in DOMAIN q, i < j PROVE q[i] < q[j]
      <4>1. i \in DOMAIN p /\ q[i] = p[i]
        BY <2>4, <3>1
      <4>2. CASE j \in DOMAIN p
        BY <1>8, <2>2, <2>4, <3>1, <4>1, <4>2 DEF Rising
      <4>3. CASE j = Len(p) + 1
        BY <2>4, <2>8, <4>1, <4>3
      <4> QED BY <2>4, <4>2, <4>3
    <3>2. ASSUME NEW i \in DOMAIN g, NEW j \in DOMAIN q PROVE g[i] < q[j]
      <4>2. CASE j \in DOMAIN p
        BY <1>8, <2>2, <2>4, <4>2 DEF Rising
      <4>3. CASE j = Len(p) + 1
        BY <2>4, <2>8, <4>3
      <4> QED BY <2>4, <4>2, <4>3
    <3>3. \A i, j \in DOMAIN g : i < j => g[i] < g[j]
      BY <1>8, <2>2 DEF Rising
    <3> QED BY <2>3, <3>1, <3>2, <3>3 DEF Rising
  <2> QED BY <1>2, <1>4, <1>5, <2>6, <2>7, <2>9, DelivRule
<1> QED BY <1>9, <1>10

\* A call that hands a message to a sender addresses it to the connections of that sender
\* it is for, and to no other.
LEMMA DelivHands ==
  ASSUME TypeInv, PlaceInv, NamesInv, IdsUsable, running, [Next]_vars, NEW u \in Thr, NEW m \in Msg, Hands(u, m),
         NEW t \in Thr, NEW c \in SocksOf(t), DelivOf(t, c)
  PROVE  DelivOf(t, c)'
<1>1. /\ socks' = socks /\ got' = got /\ toPeer' = toPeer /\ wpc' = wpc /\ wmsg' = wmsg /\ widx' = widx
      /\ opened' = opened /\ peer' = peer
      /\ msgq' = [msgq EXCEPT ![u] = Append(@, m)] /\ DOMAIN msgq = Thr
  BY DEF Hands, Push, wVars, TypeInv, SendInv
<1>2. Rising(c)' /\ Sent(c)' = Sent(c) /\ (Live(c)' <=> Live(c))
  BY <1>1 DEF DelivOf, Rising, Sent, Live
<1>3. PICK S, P, A, D : S = Sent(c) /\ P = Pending(t, c) /\ A = Addressed(c, Handed(t))
                        /\ D = {k \in {Index} : t = u /\ m.type = "WRITE" /\ Asks(Index, t, c)}
  OBVIOUS
<1>4. Deliv(S, P, A, Live(c)) /\ A \subseteq Int /\ (\A j \in A : j <= Handed(t))
  BY <1>3, AddressedFacts DEF DelivOf
<1>5. PICK n \in Nat : n = Len(results) /\ Index = n + 1
  BY DEF TypeInv, CallInv, Index
<1>6. Handed(u) = n /\ (m.type = "WRITE" => m.data = Index /\ Form(u, m) /\ Handed(u)' = Index)
  <2>1. MsgOf(u, m)' /\ Handed(u) = Len(results) /\ (m.type = "WRITE" => m.data = Index /\ Handed(u)' = Index)
    BY HandsFacts
  <2>2. MsgOf(u, m)' => (m.type = "WRITE" => Form(u, m))
    BY ProgStep, ProgSame DEF MsgOf, Form, ThrOf, SockIdx
  <2> QED BY <1>5, <2>1, <2>2
<1>7. Pending(t, c)' = P \union D
  <2>1. Writing(t, c)' <=> Writing(t, c)
    BY <1>1 DEF Writing, ToSock
  <2>2. CASE t # u
    <3>1. msgq'[t] = msgq[t]
      BY <1>1, <2>2
    <3>2. Pending(t, c)' = P
      BY <1>1, <1>3, <3>1, PendingSame
    <3> QED BY <1>3, <2>2, <3>2
  <2>3. CASE t = u
    <3>1. msgq'[t] = Append(msgq[t], m)
      BY <1>1, <2>3
    <3>2. Queued(t, c)' = Queued(t, c) \union {k \in {m.data} : ToSock(t, c, m)}
      <4>1. socks' = socks
        BY <1>1
      <4> QED BY <3>1, <4>1, QueuedAppend
    <3>3. m.type = "WRITE" => (ToSock(t, c, m) <=> Asks(Index, t, c))
      BY <1>6, <2>3, ToSockIs
    <3>4. {k \in {m.data} : ToSock(t, c, m)} = D
      BY <1>3, <1>6, <2>3, <3>3 DEF ToSock
    <3> QED BY <1>1, <1>3, <2>1, <3>2, <3>4 DEF Pending
  <2> QED BY <2>2, <2>3
<1>8. Addressed(c, Handed(t))' = A \union D
  <2>1. Handed(t) = n \/ (Handed(t) = n + 1 /\ Program[Index].op = "broadcast" /\ loop > t)
    BY <1>5, HandedFacts
  <2>2. CASE StopSignals /\ m = Exit
    <3>1. D = {}
      BY <1>3, <2>2 DEF Exit
    <3>2. results' = results /\ Program[Index].op # "broadcast"
      BY <2>2 DEF StopSignals, Calls
    <3> QED BY <1>3, <3>1, <3>2, AddressedSame
  <2>3. CASE send /\ u = ThrOf(Program[Index].arg) /\ m = Write(SockIdx(Program[Index].arg), Index)
    <3>1. Return(0) /\ 0 \in Int /\ Handed(t) = Len(results) /\ Program[Index].op = "send" /\ m.type = "WRITE"
      BY <1>5, <2>1, <2>3 DEF send, Calls, Write
    <3>2. Addressed(c, Handed(t))' = A \union {k \in {Index} : Asks(k, t, c)}
      BY <1>3, <3>1, AddressedReturn
    <3>3. Asks(Index, t, c) => t = u
      <4>1. Index \in 1 .. Len(Program)
        BY <2>3, HandsOne
      <4>2. PICK a \in Nat : a = Program[Index].arg
        BY <4>1, CallFacts DEF TypeInv, CallInv
      <4>3. Start = 0
        BY <3>1, <4>1, ProgramFacts DEF IdsUsable, TypeInv, CallInv
      <4>4. results[c] = a => ThrOf(a) = t
        BY <4>3, PlaceOf
      <4> QED BY <2>3, <3>1, <4>2, <4>4 DEF Asks
    <3> QED BY <1>3, <3>1, <3>2, <3>3
  <2>4. CASE thr_broadcast /\ u = Program[Index].arg /\ m = Write(-1, Index)
    <3>1. Return(0) /\ 0 \in Int /\ Handed(t) = Len(results) /\ Program[Index].op = "thr_broadcast" /\ m.type = "WRITE"
      BY <1>5, <2>1, <2>4 DEF thr_broadcast, Calls, Write
    <3>2. Addressed(c, Handed(t))' = A \union {k \in {Index} : Asks(k, t, c)}
      BY <1>3, <3>1, AddressedReturn
    <3>3. Asks(Index, t, c) => t = u
      BY <2>4, <3>1 DEF Asks
    <3> QED BY <1>3, <3>1, <3>2, <3>3
  <2>5. CASE broadcast /\ u = loop /\ loop < num_thrs /\ m = Write(-1, Index)
    <3>1. m.type = "WRITE" /\ Program[Index].op = "broadcast" /\ Asks(Index, t, c)
      BY <2>5 DEF broadcast, Calls, Write, Asks
    <3>2. results' = results /\ loop' = loop + 1 /\ loop \in Nat /\ t \in Nat /\ u \in Nat
      <4>1. loop # num_thrs /\ loop \in Nat
        BY <2>5, ProgramFacts DEF TypeInv, CallInv
      <4> QED BY <2>5, <4>1, ThrFacts DEF broadcast
    <3>3. PICK h : h = Handed(t)'
      OBVIOUS
    <3>4. Addressed(c, Handed(t))' = {j \in 1 .. h : (j <= n => results[j] = 0) /\ Asks(j, t, c)}
      <4>1. Addressed(c, h)' = {j \in 1 .. h : (j <= Len(results') => results'[j] = 0) /\ Asks(j, t, c)}
        BY AddressedNext
      <4>2. Addressed(c, Handed(t))' = Addressed(c, h)'
        BY <3>3 DEF Addressed
      <4> QED BY <1>5, <3>2, <4>1, <4>2
    <3>5. A = {j \in 1 .. Handed(t) : (j <= n => results[j] = 0) /\ Asks(j, t, c)}
      BY <1>3, <1>5, AddressedIs
    <3>6. CASE t = u
      <4>1. h = n + 1 /\ Handed(t) = n
        BY <1>5, <1>6, <3>1, <3>3, <3>6
      <4>2. 1 .. n + 1 = 1 .. n \union {n + 1} /\ ~(n + 1 <= n)
        OBVIOUS
      <4>3. D = {n + 1}
        BY <1>3, <1>5, <3>1, <3>6
      <4>4. Asks(n + 1, t, c)
        BY <1>5, <3>1
      <4> QED BY <3>4, <3>5, <4>1, <4>2, <4>3, <4>4
    <3>7. CASE t # u
      <4>1. loop' > t <=> loop > t
        BY <2>5, <3>2, <3>7
      <4>2. h = Handed(t)
        BY <3>2, <3>3, <4>1, ProgStep, ProgSame DEF Handed, Index
      <4>3. D = {}
        BY <1>3, <3>7
      <4> QED BY <3>4, <3>5, <4>2, <4>3
    <3> QED BY <3>6, <3>7
  <2> QED BY <2>2, <2>3, <2>4, <2>5 DEF Hands
<1>9. Deliv(S, P \union D, A \union D, Live(c))
  <2>1. CASE D = {}
    BY <1>4, <2>1 DEF Deliv
  <2>2. CASE D # {}
    <3>1. t = u /\ D = {Index}
      BY <1>3, <2>2
    <3>2. Index \in Int /\ \A j \in A : j < Index
      BY <1>4, <1>5, <1>6, <3>1
    <3>3. PICK live : live = Live(c)
      OBVIOUS
    <3>4. Deliv(S, P \union {Index}, A \union {Index}, live)
      BY <1>4, <3>2, <3>3, DelivCall
    <3> QED BY <3>1, <3>3, <3>4
  <2> QED BY <2>1, <2>2
<1>10. PICK live : live = Live(c)
  OBVIOUS
<1> QED BY <1>2, <1>3, <1>7, <1>8, <1>9, <1>10, DelivRule

\* A worker that reads has what was on its way.
LEMMA DelivReads ==
  ASSUME TypeInv, PlaceInv, running, [Next]_vars, NEW d \in Conn, PeerReads(d),
         NEW t \in Thr, NEW c \in SocksOf(t), DelivOf(t, c)
  PROVE  DelivOf(t, c)'
<1>1. /\ socks' = socks /\ msgq' = msgq /\ wpc' = wpc /\ wmsg' = wmsg /\ widx' = widx /\ results' = results
      /\ loop' = loop /\ opened' = opened
  BY DEF PeerReads, peerRest, mainVars, poolVars, wVars, rVars
<1>2. Pending(t, c)' = Pending(t, c)
  BY <1>1, PendingSame
<1>3. Addressed(c, Handed(t))' = Addressed(c, Handed(t))
  BY <1>1, AddressedSame
<1>4. DOMAIN got = Conn /\ DOMAIN toPeer = Conn /\ DOMAIN peer = Conn
  BY DEF TypeInv, PeerInv
<1>5. Live(c)' => Live(c)
  BY <1>1, <1>4 DEF PeerReads, Live
<1>6. CASE c # d
  <2>1. got'[c] = got[c] /\ toPeer'[c] = toPeer[c]
    BY <1>4, <1>6 DEF PeerReads
  <2> QED BY <1>2, <1>3, <1>5, <2>1, DelivSame
<1>7. CASE c = d
  <2>1. PICK g, p, h, q : g \in Seq(Int) /\ p \in Seq(Int) /\ g = got[c] /\ p = toPeer[c] /\ h = Append(g, Head(p)) /\ q = Tail(p)
    BY <1>7, SentFacts
  <2>2. got'[c] = h /\ toPeer'[c] = q /\ p # <<>>
    BY <1>4, <1>7, <2>1 DEF PeerReads
  <2>3. /\ Head(p) = p[1] /\ 1 \in DOMAIN p /\ Head(p) \in Int
        /\ \A i \in DOMAIN q : i \in Nat /\ i >= 1 /\ i + 1 \in DOMAIN p /\ q[i] = p[i + 1] /\ 1 < i + 1
        /\ \A i \in DOMAIN p : i = 1 \/ (i - 1 \in DOMAIN q /\ q[i - 1] = p[i])
    BY <2>1, <2>2, TailOf
  <2>4. Len(g) \in Nat /\ DOMAIN g = 1 .. Len(g) /\ DOMAIN h = 1 .. Len(g) + 1 /\ h[Len(g) + 1] = p[1]
        /\ \A i \in 1 .. Len(g) : h[i] = g[i]
    BY <2>1, <2>3
  <2>5. /\ \A i, j \in DOMAIN g : i < j => g[i] < g[j]
        /\ \A i, j \in DOMAIN p : i < j => p[i] < p[j]
        /\ \A i \in DOMAIN g, j \in DOMAIN p : g[i] < p[j]
    BY <2>1 DEF DelivOf, Rising
  <2>6. ASSUME NEW i \in DOMAIN h, NEW j \in DOMAIN h, i < j PROVE h[i] < h[j]
    <3>1. i \in DOMAIN g /\ h[i] = g[i]
      BY <2>4, <2>6
    <3>2. CASE j \in DOMAIN g
      BY <2>4, <2>5, <2>6, <3>1, <3>2
    <3>3. CASE j = Len(g) + 1
      BY <2>3, <2>4, <2>5, <3>1, <3>3
    <3> QED BY <2>4, <3>2, <3>3
  <2>7. ASSUME NEW i \in DOMAIN q, NEW j \in DOMAIN q, i < j PROVE q[i] < q[j]
    <3>1. i + 1 \in DOMAIN p /\ j + 1 \in DOMAIN p /\ i + 1 < j + 1
      BY <2>3, <2>7
    <3> QED BY <2>3, <2>5, <3>1
  <2>8. ASSUME NEW i \in DOMAIN h, NEW j \in DOMAIN q PROVE h[i] < q[j]
    <3>1. j + 1 \in DOMAIN p /\ 1 < j + 1 /\ q[j] = p[j + 1]
      BY <2>3
    <3>2. CASE i \in DOMAIN g
      BY <2>4, <2>5, <3>1, <3>2
    <3>3. CASE i = Len(g) + 1
      BY <2>3, <2>4, <2>5, <3>1, <3>3
    <3> QED BY <2>4, <3>2, <3>3
  <2>9. Rising(c)'
    BY <2>2, <2>6, <2>7, <2>8 DEF Rising
  <2>10. Sent(c)' = Sent(c)
    <3>1. Range(h) = Range(g) \union {p[1]}
      <4>1. \A i \in DOMAIN h : i \in DOMAIN g \/ i = Len(g) + 1
        BY <2>4
      <4>2. Len(g) + 1 \in DOMAIN h /\ \A i \in DOMAIN g : i \in DOMAIN h /\ h[i] = g[i]
        BY <2>4
      <4> QED BY <2>4, <4>1, <4>2 DEF Range
    <3>2. Range(p) = Range(q) \union {p[1]}
      <4>1. ASSUME NEW x \in Range(p) PROVE x \in Range(q) \/ x = p[1]
        <5>1. PICK i \in DOMAIN p : x = p[i]
          BY DEF Range
        <5> QED BY <2>3, <5>1 DEF Range
      <4>2. ASSUME NEW x \in Range(q) PROVE x \in Range(p)
        <5>1. PICK i \in DOMAIN q : x = q[i]
          BY DEF Range
        <5> QED BY <2>3, <5>1 DEF Range
      <4>3. p[1] \in Range(p)
        BY <2>3 DEF Range
      <4> QED BY <4>1, <4>2, <4>3
    <3>3. Sent(c)' = Range(h) \union Range(q) /\ Sent(c) = Range(g) \union Range(p)
      BY <2>1, <2>2 DEF Sent
    <3> QED BY <3>1, <3>2, <3>3
  <2>11. PICK S, P, A, live : S = Sent(c) /\ P = Pending(t, c) /\ A = Addressed(c, Handed(t)) /\ live = Live(c)
    OBVIOUS
  <2>12. Deliv(S, P, A, live)
    BY <2>11 DEF DelivOf
  <2> QED BY <1>2, <1>3, <1>5, <2>9, <2>10, <2>11, <2>12, DelivRule
<1> QED BY <1>6, <1>7

\* The kernel calls dead only connections whose worker has closed.
ResetInv == \A c \in reset : peer[c] \in {"gone", "failed"}

\* A connection without a thread gets nothing.
StrayInv == \A c \in Conn : (\A t \in Thr : c \notin SocksOf(t)) => got[c] = <<>> /\ toPeer[c] = <<>>

\* What is in order stays in order when the last messages on the way to a closed connection are lost.
LEMMA DelivLess ==
  ASSUME TypeInv, NEW t \in Thr, NEW c \in Conn, DelivOf(t, c), got'[c] = got[c], Begins(toPeer'[c], toPeer[c]),
         Pending(t, c)' = Pending(t, c), Addressed(c, Handed(t))' = Addressed(c, Handed(t)), ~Live(c)'
  PROVE  DelivOf(t, c)'
<1>1. PICK g, f, p : g = got[c] /\ f = toPeer[c] /\ p = toPeer'[c]
  OBVIOUS
<1>2. /\ g \in Seq(Int) /\ f \in Seq(Int) /\ Len(p) \in Nat /\ DOMAIN p = 1 .. Len(p)
      /\ \A i \in DOMAIN p : i \in DOMAIN f /\ p[i] = f[i]
  BY <1>1, SentFacts DEF Begins
<1>3. /\ \A i, j \in DOMAIN g : i < j => g[i] < g[j]
      /\ \A i, j \in DOMAIN f : i < j => f[i] < f[j]
      /\ \A i \in DOMAIN g, j \in DOMAIN f : g[i] < f[j]
  BY <1>1 DEF DelivOf, Rising
<1>4. Rising(c)'
  <2>1. /\ \A i, j \in DOMAIN p : i < j => p[i] < p[j]
        /\ \A i \in DOMAIN g, j \in DOMAIN p : g[i] < p[j]
    BY <1>2, <1>3
  <2> QED BY <1>1, <1>3, <2>1 DEF Rising
<1>5. PICK S, P, A, R, live : /\ S = Range(g) \union Range(f) /\ P = Pending(t, c) /\ A = Addressed(c, Handed(t))
                              /\ R = Range(g) \union Range(p) /\ live = Live(c)
  OBVIOUS
<1>6. Sent(c) = S /\ Sent(c)' = R
  BY <1>1, <1>5 DEF Sent
<1>7. R \in SUBSET S
  BY <1>2, <1>5 DEF Range
<1>8. ASSUME NEW d \in R, NEW j \in S \ R PROVE d < j
  <2>1. PICK y \in DOMAIN f : j = f[y]
    BY <1>5, <1>8 DEF Range
  <2>2. y \notin DOMAIN p
    BY <1>2, <1>5, <1>8, <2>1 DEF Range
  <2>3. CASE d \in Range(g)
    BY <1>3, <2>1, <2>3 DEF Range
  <2>4. CASE d \in Range(p)
    <3>1. PICK x \in DOMAIN p : d = p[x]
      BY <2>4 DEF Range
    <3>2. DOMAIN f = 1 .. Len(f) /\ Len(f) \in Nat
      BY <1>2
    <3>3. x < y /\ x \in DOMAIN f /\ d = f[x]
      BY <1>2, <2>2, <3>1, <3>2
    <3> QED BY <1>3, <2>1, <3>3
  <2> QED BY <1>5, <2>3, <2>4
<1>9. Deliv(R, P, A, FALSE)
  <2>1. Deliv(S, P, A, live) /\ A \subseteq Int
    BY <1>5, <1>6, AddressedFacts DEF DelivOf
  <2> QED BY <1>7, <1>8, <2>1, DelivLose
<1> QED BY <1>4, <1>5, <1>6, <1>9, DelivRule

\* A reader that ends takes the last frames of a connection, or none, and closes it.
LEMMA DelivCloses ==
  ASSUME TypeInv, PlaceInv, running, [Next]_vars, NEW u \in Thr, ReaderExits(u),
         NEW t \in Thr, NEW c \in SocksOf(t), DelivOf(t, c)
  PROVE  DelivOf(t, c)'
<1>1. /\ socks' = socks /\ msgq' = msgq /\ wpc' = wpc /\ wmsg' = wmsg /\ widx' = widx /\ results' = results
      /\ loop' = loop /\ opened' = opened \ SocksOf(u) /\ peer' = peer /\ got' = got
  BY DEF ReaderExits, mainRest, mainVars, poolVars, wVars, peerVars
<1>2. Pending(t, c)' = Pending(t, c)
  BY <1>1, PendingSame
<1>3. Addressed(c, Handed(t))' = Addressed(c, Handed(t))
  BY <1>1, AddressedSame
<1>4. Live(c)' => Live(c) /\ c \notin SocksOf(u)
  BY <1>1 DEF Live
<1>5. c \in Conn
  BY SockFacts
<1>6. Begins(toPeer'[c], toPeer[c]) /\ (c \notin SocksOf(u) => toPeer'[c] = toPeer[c])
  BY <1>5, ExitLeaves
<1>7. CASE c \notin SocksOf(u)
  BY <1>1, <1>2, <1>3, <1>4, <1>6, <1>7, DelivSame
<1>8. CASE c \in SocksOf(u)
  BY <1>1, <1>2, <1>3, <1>4, <1>5, <1>6, <1>8, DelivLess
<1> QED BY <1>7, <1>8

\* Whether the ids can be used does not change once the pool runs.
LEMMA UsableSame ==
  ASSUME TypeInv, running, [Next]_vars
  PROVE  IdsUsable' <=> IdsUsable
<1>1. ~add_conn
  BY DEF add_conn
<1> QED BY <1>1, StartSame, ProgStep, ProgSame DEF IdsUsable

\* A call that hands nothing to a sender addresses nothing to its connections.
LEMMA DelivReturn ==
  ASSUME TypeInv, PlaceInv, running, [Next]_vars,
         Refused \/ AddRefused \/ StopReturns \/ Wait \/ (broadcast /\ ~(loop < num_thrs)),
         NEW t \in Thr, NEW c \in SocksOf(t), DelivOf(t, c)
  PROVE  DelivOf(t, c)'
<1>1. /\ socks' = socks /\ msgq' = msgq /\ wpc' = wpc /\ wmsg' = wmsg /\ widx' = widx
      /\ peer' = peer /\ got' = got /\ toPeer' = toPeer /\ (opened' = opened \/ opened' = opened \union {Index})
  BY DEF Refused, AddRefused, StopReturns, Wait, broadcast, poolVars, poolRest, wVars, rVars, netVars, peerVars
<1>2. Pending(t, c)' = Pending(t, c)
  BY <1>1, PendingSame
<1>3. Live(c)' => Live(c)
  <2>1. c # Index
    <3>1. c \in Nat /\ c <= Len(results) /\ Len(results) \in Nat
      BY OneThread, HandedFacts
    <3> QED BY <3>1 DEF Index
  <2> QED BY <1>1, <2>1 DEF Live
<1>4. Addressed(c, Handed(t))' = Addressed(c, Handed(t))
  <2>1. CASE broadcast /\ ~(loop < num_thrs)
    <3>1. Return(0) /\ 0 \in Int /\ Program[Index].op = "broadcast" /\ Index <= Len(Program) /\ loop = num_thrs
      BY <2>1 DEF broadcast, Calls
    <3>2. loop > t
      BY <3>1, ThrFacts, RoomNumbers DEF Thr
    <3>3. Handed(t) = Index
      BY <3>1, <3>2 DEF Handed
    <3> QED BY <3>1, <3>3, AddressedReturn
  <2>2. CASE Refused \/ AddRefused \/ StopReturns \/ Wait
    <3>1. PICK r \in {-1, -2, 0} : Return(r) /\ (r = 0 => Program[Index].op \notin Casts) /\ Program[Index].op # "broadcast"
      BY <2>2 DEF Refused, AddRefused, StopReturns, Wait, Calls, Casts
    <3>2. r \in Int /\ Handed(t) = Len(results)
      BY <3>1 DEF Handed
    <3>3. ~(r = 0 /\ Asks(Index, t, c))
      BY <3>1 DEF Asks, Casts
    <3>4. Addressed(c, Handed(t))' = Addressed(c, Handed(t)) \union {k \in {Index} : r = 0 /\ Asks(k, t, c)}
      BY <3>1, <3>2, AddressedReturn
    <3> QED BY <3>3, <3>4
  <2> QED BY <2>1, <2>2
<1> QED BY <1>1, <1>2, <1>3, <1>4, DelivSame

\* A sender does its part for the connections of its own.
LEMMA DelivSends ==
  ASSUME TypeInv, PlaceInv, NamesInv, QueueInv, ResetInv, running, IdsUsable, [Next]_vars, NEW u \in Thr, Sender(u),
         NEW t \in Thr, NEW c \in SocksOf(t), DelivOf(t, c)
  PROVE  DelivOf(t, c)'
<1>1. /\ socks' = socks /\ results' = results /\ loop' = loop /\ opened' = opened /\ peer' = peer /\ got' = got
  BY DEF Sender, Pop, WriteSock, WriteNowhere, mainRest, mainVars, poolVars, rVars, peerVars
<1>2. Addressed(c, Handed(t))' = Addressed(c, Handed(t)) /\ (Live(c)' => Live(c)) /\ got'[c] = got[c]
  BY <1>1, AddressedSame DEF Live
<1>3. DOMAIN msgq = Thr /\ DOMAIN wmsg = Thr /\ DOMAIN widx = Thr /\ DOMAIN wpc = Thr /\ DOMAIN toPeer = Conn
  BY DEF TypeInv, SendInv, PeerInv
<1>4. CASE t # u
  <2>1. msgq'[t] = msgq[t] /\ wmsg'[t] = wmsg[t] /\ widx'[t] = widx[t] /\ wpc'[t] = wpc[t]
    BY <1>3, <1>4 DEF Sender, Pop, WriteSock, WriteNowhere
  <2>2. Pending(t, c)' = Pending(t, c)
    BY <1>1, <2>1, PendingSame
  <2>3. toPeer'[c] = toPeer[c]
    <3>1. CASE WriteSock(u)
      <4>1. PICK w : w = socks[u][widx[u] + 1]
        OBVIOUS
      <4>2. w \in SocksOf(u)
        <5>1. widx[u] \in Nat /\ Len(socks[u]) \in Nat /\ DOMAIN socks[u] = 1 .. Len(socks[u]) /\ widx[u] < Len(socks[u])
          BY <3>1, SenderFacts, SockFacts DEF WriteSock
        <5>2. widx[u] + 1 \in DOMAIN socks[u]
          BY <5>1
        <5> QED BY <4>1, <5>2 DEF SocksOf
      <4>3. w # c
        BY <1>4, <4>2, OneThread
      <4>4. toPeer' = toPeer \/ toPeer' = [toPeer EXCEPT ![w] = Append(@, wmsg[u].data)]
        BY <3>1, <4>1, SockFacts, WriteLeaves
      <4> QED BY <1>3, <4>3, <4>4, SockFacts
    <3>2. CASE Pop(u) \/ WriteNowhere(u)
      BY <3>2 DEF Pop, WriteNowhere, netVars
    <3> QED BY <3>1, <3>2 DEF Sender
  <2> QED BY <1>2, <2>2, <2>3, DelivSame
<1>5. CASE t = u /\ WriteSock(t)
  <2>1. CASE c = socks[t][widx[t] + 1]
    BY <1>5, <2>1, DelivWrites DEF ResetInv
  <2>2. CASE c # socks[t][widx[t] + 1]
    <3>1. Pending(t, c)' = Pending(t, c)
      BY <1>5, <2>2, PendingWrite DEF QueueInv
    <3>2. PICK w : w = socks[t][widx[t] + 1]
      OBVIOUS
    <3>3. toPeer' = toPeer \/ toPeer' = [toPeer EXCEPT ![w] = Append(@, wmsg[t].data)]
      BY <1>5, <3>2, SockFacts, WriteLeaves
    <3>4. toPeer'[c] = toPeer[c]
      BY <1>3, <2>2, <3>2, <3>3, SockFacts
    <3> QED BY <1>2, <3>1, <3>4, DelivSame
  <2> QED BY <2>1, <2>2
<1>6. CASE t = u /\ (Pop(t) \/ WriteNowhere(t))
  <2>1. Pending(t, c)' = Pending(t, c)
    BY <1>6, PendingPop, PendingNowhere
  <2>2. toPeer'[c] = toPeer[c]
    BY <1>6 DEF Pop, WriteNowhere, netVars
  <2> QED BY <1>2, <2>1, <2>2, DelivSame
<1> QED BY <1>4, <1>5, <1>6 DEF Sender

\* Every step keeps what the workers get in order and complete.
LEMMA DelivStep ==
  TypeInv /\ PlaceInv /\ NamesInv /\ IdleInv /\ QueueInv /\ ResetInv /\ DelivInv /\ [Next]_vars => DelivInv'
<1> SUFFICES ASSUME TypeInv, PlaceInv, NamesInv, IdleInv, QueueInv, ResetInv, DelivInv, [Next]_vars, IdsUsable',
                    NEW t \in Thr, NEW c \in SocksOf(t)'
             PROVE  DelivOf(t, c)'
  BY DEF DelivInv
<1>1. CASE ~running
  <2>1. Quiet'
    BY <1>1, QuietStep DEF IdleInv
  <2>2. TypeInv'
    BY TypeStep
  <2>3. c \in Conn'
    <3>1. PICK i \in DOMAIN socks'[t] : c = socks'[t][i]
      BY DEF SocksOf
    <3>2. PICK C : C = Conn'
      OBVIOUS
    <3>3. socks'[t] \in Seq(C)
      BY <2>2, <3>2 DEF TypeInv, SockInv
    <3> QED BY <3>1, <3>2, <3>3
  <2>4. got'[c] = <<>> /\ toPeer'[c] = <<>> /\ Queued(t, c)' = {} /\ ~Writing(t, c)'
    BY <2>1, <2>3 DEF Quiet, Queued, Writing
  <2>5. Rising(c)' /\ Sent(c)' = {} /\ Pending(t, c)' = {}
    BY <2>4 DEF Rising, Sent, Range, Pending
  <2>6. Addressed(c, Handed(t))' = {}
    <3>1. results' \in Seq(Int) /\ Len(results') \in Nat
      BY <2>2 DEF TypeInv, CallInv
    <3>2. Handed(t)' = Len(results')
      <4>1. t \in Nat /\ loop' = 0
        BY <2>1, ThrFacts DEF Quiet
      <4>2. ~(loop' > t)
        BY <4>1
      <4> QED BY <4>2 DEF Handed
    <3>3. ASSUME NEW j \in 1 .. Len(results') PROVE ~Addresses(j, c)'
      <4>1. j <= Len(results') /\ j \in DOMAIN results'
        BY <3>1
      <4>2. Program'[j].op \in Casts => results'[j] # 0
        BY <2>1, <4>1 DEF Quiet
      <4> QED BY <4>1, <4>2 DEF Addresses, Casts
    <3> QED BY <3>2, <3>3 DEF Addressed
  <2> QED BY <2>5, <2>6 DEF DelivOf, Deliv
<1>2. CASE running
  <2>1. socks' = socks /\ IdsUsable
    BY <1>2, IdedSame, UsableSame DEF add_conn
  <2>2. c \in SocksOf(t)
    BY <2>1 DEF SocksOf
  <2>3. DelivOf(t, c)
    BY <2>1, <2>2 DEF DelivInv
  <2>4. CASE Refused \/ AddRefused \/ StopReturns \/ Wait \/ (broadcast /\ ~(loop < num_thrs))
    BY <1>2, <2>2, <2>3, <2>4, DelivReturn
  <2>5. CASE add_conn \/ start_all
    BY <1>2, <2>5 DEF add_conn, start_all
  <2>6. CASE send \/ thr_broadcast \/ (broadcast /\ loop < num_thrs) \/ StopSignals
    <3>1. PICK u \in Thr, m \in Msg : Hands(u, m)
      BY <2>6, HandsOne
    <3> QED BY <1>2, <2>1, <2>2, <2>3, <3>1, DelivHands
  <2>7. ASSUME msgq' = msgq, wmsg' = wmsg, widx' = widx, wpc'[t] = "write" <=> wpc[t] = "write", got' = got, toPeer' = toPeer,
               results' = results, loop' = loop \/ Program[Index].op # "broadcast", Live(c)' => Live(c)
        PROVE  DelivOf(t, c)'
    <3>1. Pending(t, c)' = Pending(t, c)
      BY <2>1, <2>7, PendingSame
    <3>2. Addressed(c, Handed(t))' = Addressed(c, Handed(t))
      BY <1>2, <2>2, <2>7, AddressedSame
    <3> QED BY <2>3, <2>7, <3>1, <3>2, DelivSame
  <2>8. CASE StopJoins
    <3>1. /\ msgq' = msgq /\ wmsg' = wmsg /\ widx' = widx /\ got' = got /\ toPeer' = toPeer /\ results' = results
          /\ Program[Index].op = "stop" /\ opened' = opened /\ peer' = peer
      BY <2>8 DEF StopJoins, Calls, netVars, peerVars
    <3>2. wpc' = wpc \/ (wpc[loop - num_thrs] = "done" /\ wpc' = [wpc EXCEPT ![loop - num_thrs] = "joined"])
      BY <2>8 DEF StopJoins
    <3>3. wpc'[t] = "write" <=> wpc[t] = "write"
      BY <3>2 DEF TypeInv, SendInv
    <3> QED BY <2>7, <3>1, <3>3 DEF Live
  <2>9. ASSUME NEW u \in Thr, Sender(u) PROVE DelivOf(t, c)'
    BY <1>2, <2>1, <2>2, <2>3, <2>9, DelivSends
  <2>10. ASSUME NEW u \in Thr, Reader(u) PROVE DelivOf(t, c)'
    <3>1. CASE ReaderExits(u)
      BY <1>2, <2>2, <2>3, <3>1, DelivCloses
    <3>2. CASE ~ReaderExits(u)
      <4>1. /\ msgq' = msgq /\ wmsg' = wmsg /\ widx' = widx /\ wpc' = wpc /\ got' = got /\ toPeer' = toPeer
            /\ results' = results /\ loop' = loop /\ opened' = opened /\ peer' = peer
        BY <2>10, <3>2 DEF Reader, Select, ReadSock, ReadRound, mainRest, mainVars, wVars, netVars, peerVars
      <4> QED BY <2>7, <4>1 DEF Live
    <3> QED BY <3>1, <3>2
  <2>11. ASSUME NEW d \in Conn, Worker(d) PROVE DelivOf(t, c)'
    <3>1. CASE PeerReads(d)
      BY <1>2, <2>2, <2>3, <3>1, DelivReads
    <3>2. CASE PeerReadsEnd(d) \/ PeerWrites(d)
      <4>1. /\ msgq' = msgq /\ wmsg' = wmsg /\ widx' = widx /\ wpc' = wpc /\ got' = got
            /\ results' = results /\ loop' = loop /\ opened' = opened
        BY <3>2 DEF PeerReadsEnd, PeerWrites, peerRest, mainVars, wVars, rVars
      <4>2. peer'[c] \in {"read", "write"} => peer[c] \in {"read", "write"}
        <5>1. DOMAIN peer = Conn /\ peer[d] \in {"read", "write"}
          BY <3>2 DEF TypeInv, PeerInv, PeerReadsEnd, PeerWrites
        <5>2. PICK v : peer' = [peer EXCEPT ![d] = v]
          BY <3>2 DEF PeerReadsEnd, PeerWrites
        <5> QED BY <5>1, <5>2
      <4>3. c \in Conn
        BY <2>2, SockFacts
      <4>4. Pending(t, c)' = Pending(t, c)
        BY <2>1, <4>1, PendingSame
      <4>5. Addressed(c, Handed(t))' = Addressed(c, Handed(t))
        BY <1>2, <2>2, <4>1, AddressedSame
      <4>6. /\ toPeer'[c] = toPeer[c] \/ c \notin opened
            /\ Begins(toPeer'[c], toPeer[c])
        <5>1. CASE PeerWrites(d)
          BY <4>3, <5>1, AnswerLeaves
        <5>2. CASE PeerReadsEnd(d)
          <6>1. toPeer' = toPeer /\ toPeer[c] \in Frames
            BY <4>3, <5>2 DEF PeerReadsEnd, netVars, TypeInv, PeerInv
          <6> QED BY <6>1, BeginsAll
        <5> QED BY <3>2, <5>1, <5>2
      <4>7. CASE toPeer'[c] = toPeer[c]
        BY <2>3, <4>1, <4>2, <4>4, <4>5, <4>7, DelivSame DEF Live
      <4>8. CASE c \notin opened
        <5>1. ~Live(c)'
          BY <4>1, <4>8 DEF Live
        <5> QED BY <2>3, <4>1, <4>3, <4>4, <4>5, <4>6, <5>1, DelivLess
      <4> QED BY <4>6, <4>7, <4>8
    <3> QED BY <2>11, <3>1, <3>2 DEF Worker
  <2>12. CASE UNCHANGED vars
    BY <2>7, <2>12 DEF vars, Live
  <2> QED BY <2>4, <2>5, <2>6, <2>8, <2>9, <2>10, <2>11, <2>12 DEF Next, Main
<1> QED BY <1>1, <1>2

\* Every step keeps dead connections dead.
LEMMA ResetStep == TypeInv /\ ResetInv /\ [Next]_vars => ResetInv'
<1> SUFFICES ASSUME TypeInv, ResetInv, [Next]_vars PROVE ResetInv'
  OBVIOUS
<1>1. CASE Main
  BY <1>1 DEF Main, Refused, AddRefused, add_conn, start_all, send, thr_broadcast, broadcast, StopSignals, StopJoins,
              StopReturns, Wait, poolRest, netVars, peerVars, ResetInv
<1>2. ASSUME NEW t \in Thr, Sender(t) PROVE ResetInv'
  BY <1>2 DEF Sender, Pop, WriteSock, WriteNowhere, mainRest, netVars, peerVars, ResetInv
<1>3. ASSUME NEW t \in Thr, Reader(t) PROVE ResetInv'
  BY <1>3 DEF Reader, Select, ReadSock, ReadRound, ReaderExits, mainRest, netVars, peerVars, ResetInv
<1>4. ASSUME NEW c \in Conn, Worker(c) PROVE ResetInv'
  <2>1. DOMAIN peer = Conn
    BY DEF TypeInv, PeerInv
  <2>2. reset' = reset \/ (reset' = reset \union {c} /\ peer'[c] = "gone")
    BY <1>4, <2>1 DEF Worker, PeerReads, PeerReadsEnd, PeerWrites, netVars
  <2>3. peer[c] \in {"read", "write"} /\ \A d \in Conn \ {c} : peer'[d] = peer[d]
    BY <1>4, <2>1 DEF Worker, PeerReads, PeerReadsEnd, PeerWrites
  <2>4. c \notin reset /\ reset \subseteq Conn
    BY <2>3 DEF ResetInv, TypeInv, PeerInv
  <2>5. ASSUME NEW d \in reset' PROVE peer'[d] \in {"gone", "failed"}
    BY <2>2, <2>3, <2>4, <2>5 DEF ResetInv
  <2> QED BY <2>5 DEF ResetInv
<1> QED BY <1>1, <1>2, <1>3, <1>4 DEF Next, vars, ResetInv

\* Every step leaves connections without a thread alone.
LEMMA StrayStep == TypeInv /\ IdleInv /\ StrayInv /\ [Next]_vars => StrayInv'
<1> SUFFICES ASSUME TypeInv, IdleInv, StrayInv, [Next]_vars, NEW c \in Conn, \A t \in Thr : c \notin SocksOf(t)'
             PROVE  got'[c] = <<>> /\ toPeer'[c] = <<>>
  BY ProgStep, ProgSame DEF StrayInv
<1>1. CASE ~running
  BY <1>1, QuietStep, ProgStep, ProgSame DEF IdleInv, Quiet
<1>2. CASE running
  <2>1. socks' = socks
    BY <1>2, IdedSame DEF add_conn
  <2>2. got[c] = <<>> /\ toPeer[c] = <<>> /\ \A t \in Thr : c \notin SocksOf(t)
    BY <2>1 DEF StrayInv, SocksOf
  <2>3. DOMAIN got = Conn /\ DOMAIN toPeer = Conn
    BY DEF TypeInv, PeerInv
  <2>4. CASE Main
    BY <2>2, <2>4 DEF Main, Refused, AddRefused, add_conn, start_all, send, thr_broadcast, broadcast, StopSignals, StopJoins,
              StopReturns, Wait, poolRest, netVars, peerVars
  <2>5. ASSUME NEW t \in Thr, Sender(t) PROVE got'[c] = <<>> /\ toPeer'[c] = <<>>
    <3>1. got' = got
      BY <2>5 DEF Sender, Pop, WriteSock, WriteNowhere, mainRest, peerVars
    <3>2. CASE WriteSock(t)
      <4>1. PICK w : w = socks[t][widx[t] + 1]
        OBVIOUS
      <4>2. widx[t] \in Nat /\ Len(socks[t]) \in Nat /\ DOMAIN socks[t] = 1 .. Len(socks[t]) /\ widx[t] < Len(socks[t])
        BY <3>2, SenderFacts, SockFacts DEF WriteSock
      <4>3. widx[t] + 1 \in DOMAIN socks[t]
        BY <4>2
      <4>4. w \in SocksOf(t)
        BY <4>1, <4>3 DEF SocksOf
      <4>5. w # c
        BY <2>2, <4>4
      <4>6. toPeer' = toPeer \/ toPeer' = [toPeer EXCEPT ![w] = Append(@, wmsg[t].data)]
        BY <3>2, <4>1, WriteLeaves
      <4> QED BY <2>2, <2>3, <3>1, <4>5, <4>6
    <3>3. CASE Pop(t) \/ WriteNowhere(t)
      BY <2>2, <3>1, <3>3 DEF Pop, WriteNowhere, netVars
    <3> QED BY <2>5, <3>2, <3>3 DEF Sender
  <2>6. ASSUME NEW t \in Thr, Reader(t) PROVE got'[c] = <<>> /\ toPeer'[c] = <<>>
    <3>1. got' = got
      BY <2>6 DEF Reader, Select, ReadSock, ReadRound, ReaderExits, mainRest, peerVars
    <3>2. CASE ReaderExits(t)
      <4>1. toPeer'[c] = toPeer[c]
        BY <2>2, <3>2, ExitLeaves
      <4> QED BY <2>2, <3>1, <4>1
    <3>3. CASE ~ReaderExits(t)
      BY <2>2, <2>6, <3>1, <3>3 DEF Reader, Select, ReadSock, ReadRound, netVars
    <3> QED BY <3>2, <3>3
  <2>7. ASSUME NEW d \in Conn, Worker(d) PROVE got'[c] = <<>> /\ toPeer'[c] = <<>>
    <3>1. CASE PeerReads(d)
      <4>1. c # d
        BY <2>2, <3>1 DEF PeerReads
      <4> QED BY <2>2, <2>3, <3>1, <4>1 DEF PeerReads
    <3>2. CASE PeerReadsEnd(d)
      BY <2>2, <3>2 DEF PeerReadsEnd, netVars
    <3>3. CASE PeerWrites(d)
      <4>1. got' = got /\ c # d
        BY <2>2, <3>3 DEF PeerWrites, TypeInv, PeerInv
      <4> QED BY <2>2, <3>3, <4>1, AnswerLeaves
    <3> QED BY <2>7, <3>1, <3>2, <3>3 DEF Worker
  <2> QED BY <2>2, <2>4, <2>5, <2>6, <2>7 DEF Next, vars
<1> QED BY <1>1, <1>2

\* The invariant of delivery.
CastInv ==
  /\ PoolInv /\ PlaceInv /\ NamesInv /\ IdleInv /\ QueueInv /\ ResetInv /\ DelivInv /\ StrayInv

\* It holds before the first call,
LEMMA CastInit == Init => CastInv
<1> SUFFICES ASSUME Init PROVE CastInv
  OBVIOUS
<1>1. PoolInv /\ TypeInv
  BY PoolInit DEF PoolInv
<1>2. socks = [t \in Thr |-> <<>>] /\ results = <<>> /\ running = FALSE
  BY DEF Init
<1>3. \A t \in Thr : DOMAIN socks[t] = {} /\ SocksOf(t) = {}
  <2>1. \A t \in Thr : socks[t] = <<>>
    BY <1>2
  <2> QED BY <2>1 DEF SocksOf
<1>4. PlaceInv /\ NamesInv /\ DelivInv
  BY <1>3 DEF PlaceInv, NamesInv, DelivInv
<1>5. Quiet
  BY DEF Init, Quiet
<1>6. QueueInv
  BY <1>5 DEF Quiet, QueueInv, QueueOf
<1>7. ResetInv /\ StrayInv
  BY DEF Init, ResetInv, StrayInv
<1> QED BY <1>1, <1>4, <1>5, <1>6, <1>7 DEF CastInv, IdleInv

\* and in every state.
LEMMA CastInvHolds == Spec => []CastInv
<1>2. CastInv /\ [Next]_vars => CastInv'
  BY PoolStep, PlaceStep, NamesStep, IdleStep, QueueStep, ResetStep, DelivStep, StrayStep DEF CastInv, PoolInv
<1> QED BY <1>2, CastInit, PTL DEF Spec

\* The two halves of what a worker gets.
LEMMA ConcatFacts ==
  ASSUME NEW g \in Seq(Int), NEW p \in Seq(Int), NEW s, s = g \o p
  PROVE  /\ Range(s) = Range(g) \union Range(p)
         /\ \A i \in DOMAIN s : \/ i \in DOMAIN g /\ s[i] = g[i]
                                \/ i > Len(g) /\ i - Len(g) \in DOMAIN p /\ s[i] = p[i - Len(g)]
<1>2. /\ Len(g) \in Nat /\ Len(p) \in Nat /\ DOMAIN g = 1 .. Len(g) /\ DOMAIN p = 1 .. Len(p)
      /\ DOMAIN s = 1 .. Len(g) + Len(p)
      /\ \A i \in 1 .. Len(g) : s[i] = g[i]
      /\ \A i \in 1 .. Len(p) : s[Len(g) + i] = p[i]
  OBVIOUS
<1>3. ASSUME NEW i \in DOMAIN s
      PROVE  (i \in DOMAIN g /\ s[i] = g[i]) \/ (i > Len(g) /\ i - Len(g) \in DOMAIN p /\ s[i] = p[i - Len(g)])
  <2>1. CASE i <= Len(g)
    BY <1>2, <2>1
  <2>2. CASE i > Len(g)
    <3>1. PICK a \in Nat, b \in Nat : a = Len(g) /\ b = Len(p)
      BY <1>2
    <3>2. i \in 1 .. a + b /\ i > a
      BY <1>2, <2>2, <3>1
    <3>3. i - a \in 1 .. b /\ i = a + (i - a)
      BY <3>2
    <3>4. s[a + (i - a)] = p[i - a]
      BY <1>2, <3>1, <3>3
    <3> QED BY <1>2, <2>2, <3>1, <3>3, <3>4
  <2> QED BY <1>2, <2>1, <2>2
<1>4. ASSUME NEW x \in Range(g) PROVE x \in Range(s)
  <2>1. PICK i \in DOMAIN g : x = g[i]
    BY DEF Range
  <2>2. i \in DOMAIN s /\ s[i] = x
    BY <1>2, <2>1
  <2> QED BY <2>2 DEF Range
<1>5. ASSUME NEW x \in Range(p) PROVE x \in Range(s)
  <2>1. PICK i \in DOMAIN p : x = p[i]
    BY DEF Range
  <2>2. Len(g) + i \in DOMAIN s /\ s[Len(g) + i] = x
    BY <1>2, <2>1
  <2> QED BY <2>2 DEF Range
<1>6. Range(s) = Range(g) \union Range(p)
  <2>1. ASSUME NEW x \in Range(s) PROVE x \in Range(g) \union Range(p)
    <3>1. PICK i \in DOMAIN s : x = s[i]
      BY DEF Range
    <3> QED BY <1>3, <3>1 DEF Range
  <2> QED BY <1>4, <1>5, <2>1
<1> QED BY <1>3, <1>6

\* The invariant implies that delivery is in order,
LEMMA CastInOrder == CastInv => InOrder
<1> SUFFICES ASSUME CastInv, IdsUsable, NEW c \in Conn, NEW k, NEW s,
                    k = Least(Index, Len(Program)), s = got[c] \o toPeer[c]
             PROVE  /\ \A i, j \in DOMAIN s : i < j => s[i] < s[j]
                    /\ Range(s) \subseteq Addressed(c, k)
                    /\ \A i \in DOMAIN s : \A j \in Addressed(c, k) : j < s[i] => j \in Range(s)
  BY DEF InOrder
<1>1. TypeInv /\ PlaceInv /\ StrayInv /\ DelivInv
  BY DEF CastInv, PoolInv
<1>2. PICK g \in Seq(Int), p \in Seq(Int) : g = got[c] /\ p = toPeer[c] /\ s = g \o p
  BY <1>1, SentFacts
<1>3. /\ Range(s) = Range(g) \union Range(p)
      /\ \A i \in DOMAIN s : \/ i \in DOMAIN g /\ s[i] = g[i]
                             \/ i > Len(g) /\ i - Len(g) \in DOMAIN p /\ s[i] = p[i - Len(g)]
  <2>1. s = g \o p
    BY <1>2
  <2>2. Range(s) = Range(g) \union Range(p)
    BY <2>1, ConcatFacts
  <2>3. ASSUME NEW i \in DOMAIN s
        PROVE  \/ i \in DOMAIN g /\ s[i] = g[i]
               \/ i > Len(g) /\ i - Len(g) \in DOMAIN p /\ s[i] = p[i - Len(g)]
    BY <2>1, ConcatFacts
  <2> QED BY <2>2, <2>3
<1>4. CASE \A t \in Thr : c \notin SocksOf(t)
  <2>1. g = <<>> /\ p = <<>>
    BY <1>1, <1>2, <1>4 DEF StrayInv
  <2>2. DOMAIN s = {} /\ Range(s) = {}
    BY <1>2, <1>3, <2>1 DEF Range
  <2> QED BY <2>2
<1>5. ASSUME NEW t \in Thr, c \in SocksOf(t)
      PROVE  /\ \A i, j \in DOMAIN s : i < j => s[i] < s[j]
             /\ Range(s) \subseteq Addressed(c, k)
             /\ \A i \in DOMAIN s : \A j \in Addressed(c, k) : j < s[i] => j \in Range(s)
  <2>1. Rising(c) /\ Deliv(Sent(c), Pending(t, c), Addressed(c, Handed(t)), Live(c))
    BY <1>1, <1>5 DEF DelivInv, DelivOf
  <2>2. Sent(c) = Range(s)
    BY <1>2, <1>3 DEF Sent
  <2>3. ASSUME NEW i \in DOMAIN s, NEW j \in DOMAIN s, i < j PROVE s[i] < s[j]
    <3>1. Len(g) \in Nat /\ DOMAIN g = 1 .. Len(g) /\ i \in Int /\ j \in Int
      BY <1>2
    <3>2. /\ \A x, y \in DOMAIN g : x < y => g[x] < g[y]
          /\ \A x, y \in DOMAIN p : x < y => p[x] < p[y]
          /\ \A x \in DOMAIN g, y \in DOMAIN p : g[x] < p[y]
      BY <1>2, <2>1 DEF Rising
    <3>3. CASE i \in DOMAIN g /\ j \in DOMAIN g /\ s[i] = g[i] /\ s[j] = g[j]
      BY <2>3, <3>2, <3>3
    <3>4. CASE i \in DOMAIN g /\ j - Len(g) \in DOMAIN p /\ s[i] = g[i] /\ s[j] = p[j - Len(g)]
      BY <3>2, <3>4
    <3>5. CASE i - Len(g) \in DOMAIN p /\ j - Len(g) \in DOMAIN p /\ s[i] = p[i - Len(g)] /\ s[j] = p[j - Len(g)]
      <4>1. i - Len(g) < j - Len(g)
        BY <2>3, <3>1
      <4> QED BY <3>2, <3>5, <4>1
    <3>6. ~(i > Len(g) /\ j \in DOMAIN g)
      BY <2>3, <3>1
    <3> QED BY <1>3, <3>3, <3>4, <3>5, <3>6
  <2>4. PICK h \in Nat, n \in Nat : h = Handed(t) /\ n = Len(results) /\ Index = n + 1
    BY <1>1, HandedFacts DEF Index
  <2>5. k \in Nat /\ h <= k /\ (k = h \/ k = h + 1)
    BY <1>1, <2>4, HandedFacts DEF Least
  <2>6. Addressed(c, h) \subseteq Addressed(c, k) /\ \A j \in Addressed(c, k) : j \in Addressed(c, h) \/ j = h + 1
    BY <2>4, <2>5 DEF Addressed
  <2>7. \A d \in Range(s) : d \in Addressed(c, h) /\ d \in Int /\ d <= h
    BY <1>1, <2>1, <2>2, <2>4, AddressedFacts DEF Deliv
  <2>8. ASSUME NEW i \in DOMAIN s, NEW j \in Addressed(c, k), j < s[i] PROVE j \in Range(s)
    <3>1. s[i] \in Range(s)
      BY DEF Range
    <3>2. j # h + 1
      BY <2>4, <2>7, <2>8, <3>1
    <3> QED BY <2>1, <2>2, <2>4, <2>6, <2>8, <3>1, <3>2 DEF Deliv
  <2> QED BY <2>3, <2>6, <2>7, <2>8
<1> QED BY <1>4, <1>5

\* and that nothing is dropped.
LEMMA CastNothingDropped == CastInv => NothingDropped
<1> SUFFICES ASSUME CastInv, Running, IdsUsable, NEW t \in Thr, NEW c \in SocksOf(t), c \in opened,
                    peer[c] \in {"read", "write"}, NEW s, s = got[c] \o toPeer[c]
             PROVE  /\ Range(s) \union Pending(t, c) = Addressed(c, Handed(t))
                    /\ Range(s) \cap Pending(t, c) = {}
  BY DEF NothingDropped
<1>1. TypeInv /\ PlaceInv /\ NamesInv /\ QueueInv /\ DelivInv /\ IdleInv
  BY DEF CastInv, PoolInv
<1>2. c \in Conn
  BY <1>1, SockFacts
<1>3. Range(s) = Sent(c)
  <2>1. PICK g \in Seq(Int), p \in Seq(Int) : g = got[c] /\ p = toPeer[c] /\ s = g \o p
    BY <1>1, <1>2, SentFacts
  <2>2. Range(s) = Range(g) \union Range(p)
    BY <2>1, ConcatFacts
  <2> QED BY <2>1, <2>2 DEF Sent
<1>4. PICK S, P, A : S = Sent(c) /\ P = Pending(t, c) /\ A = Addressed(c, Handed(t))
  OBVIOUS
<1>5. S \subseteq A /\ A \subseteq S \union P /\ (\A d \in S : \A q \in P : d < q) /\ A \subseteq Int
  BY <1>1, <1>4, AddressedFacts DEF DelivInv, DelivOf, Deliv, Live
<1>6. P \subseteq A
  <2>1. CASE running
    BY <1>1, <1>4, <2>1, PendingIn DEF Pending
  <2>2. CASE ~running
    <3>1. Quiet
      BY <1>1, <2>2 DEF IdleInv
    <3> QED BY <1>4, <3>1 DEF Quiet, Pending, Queued, Writing
  <2> QED BY <1>1, <2>1, <2>2 DEF TypeInv, CallInv
<1>7. S \cap P = {}
  <2>1. ASSUME NEW x \in S, x \in P PROVE FALSE
    <3>1. x < x /\ x \in Int
      BY <1>5, <2>1
    <3> QED BY <3>1
  <2> QED BY <2>1
<1> QED BY <1>3, <1>4, <1>5, <1>6, <1>7

\* What the workers of a pool receive is what send, thr_broadcast and broadcast addressed to
\* them, in the order of the calls and without a gap.
THEOREM DeliveryInOrder == Spec => []InOrder
<1> QED BY CastInvHolds, CastInOrder, PTL

\* Nothing addressed to a worker is dropped or duplicated while the connection is open and the worker alive.
THEOREM NothingIsDropped == Spec => []NothingDropped
<1> QED BY CastInvHolds, CastNothingDropped, PTL

-----------------------------------------------------------------------------
(* Answers: counting them *)

\* More answers are more pairs.
LEMMA PairsFacts ==
  ASSUME NEW C, IsFiniteSet(C), NEW B \in Nat, NEW f \in [C -> 0 .. B], NEW g \in [C -> 0 .. B],
         \A c \in C : f[c] <= g[c]
  PROVE  /\ Cardinality(Pairs(C, f)) \in Nat /\ Cardinality(Pairs(C, g)) \in Nat
         /\ Cardinality(Pairs(C, f)) <= Cardinality(Pairs(C, g))
         /\ \A c \in C : f[c] < g[c] => Cardinality(Pairs(C, f)) < Cardinality(Pairs(C, g))
<1>1. IsFiniteSet(C \X (1 .. B))
  <2>1. IsFiniteSet(1 .. B)
    BY FS_Interval
  <2> QED BY <2>1, FS_Product, Zenon
<1>2. \A x : x \in Pairs(C, f) <=> \E c \in C : \E i \in 1 .. f[c] : x = <<c, i>>
  BY DEF Pairs
<1>3. \A x : x \in Pairs(C, g) <=> \E c \in C : \E i \in 1 .. g[c] : x = <<c, i>>
  BY DEF Pairs
<1>4. \A c \in C : f[c] \in Nat /\ g[c] \in Nat /\ f[c] <= B /\ g[c] <= B
  OBVIOUS
<1>5. \A c \in C : \A i \in 1 .. f[c] : i \in 1 .. g[c]
  BY <1>4
<1>6. \A c \in C : \A i \in 1 .. g[c] : <<c, i>> \in C \X (1 .. B)
  <2> SUFFICES ASSUME NEW c \in C, NEW i \in 1 .. g[c] PROVE <<c, i>> \in C \X (1 .. B)
    OBVIOUS
  <2>1. i \in 1 .. B
    BY <1>4
  <2> QED BY <2>1
<1>7. Pairs(C, g) \subseteq C \X (1 .. B) /\ Pairs(C, f) \subseteq Pairs(C, g)
  <2>1. ASSUME NEW x \in Pairs(C, g) PROVE x \in C \X (1 .. B)
    <3>1. PICK c \in C : \E i \in 1 .. g[c] : x = <<c, i>>
      BY <1>3, <2>1, Zenon
    <3>2. PICK i \in 1 .. g[c] : x = <<c, i>>
      BY <3>1, Zenon
    <3> QED BY <1>6, <3>2
  <2>2. ASSUME NEW x \in Pairs(C, f) PROVE x \in Pairs(C, g)
    <3>1. PICK c \in C : \E i \in 1 .. f[c] : x = <<c, i>>
      BY <1>2, <2>2, Zenon
    <3>2. PICK i \in 1 .. f[c] : x = <<c, i>>
      BY <3>1, Zenon
    <3>3. i \in 1 .. g[c]
      BY <1>5
    <3> QED BY <1>3, <3>2, <3>3, Zenon
  <2> QED BY <2>1, <2>2, Zenon
<1>8. IsFiniteSet(Pairs(C, g)) /\ IsFiniteSet(Pairs(C, f))
  BY <1>1, <1>7, FS_Subset
<1>9. Cardinality(Pairs(C, f)) \in Nat /\ Cardinality(Pairs(C, g)) \in Nat
      /\ Cardinality(Pairs(C, f)) <= Cardinality(Pairs(C, g))
      /\ (Cardinality(Pairs(C, g)) = Cardinality(Pairs(C, f)) => Pairs(C, g) = Pairs(C, f))
  BY <1>7, <1>8, FS_Subset, FS_CardinalityType
<1>10. ASSUME NEW c \in C, f[c] < g[c] PROVE Cardinality(Pairs(C, f)) < Cardinality(Pairs(C, g))
  <2>1. PICK i : i = g[c] /\ i \in 1 .. g[c] /\ i \notin 1 .. f[c]
    BY <1>4, <1>10
  <2>2. <<c, i>> \in Pairs(C, g)
    BY <1>3, <2>1, Zenon
  <2>3. <<c, i>> \notin Pairs(C, f)
    <3>1. \A d, j : <<c, i>> = <<d, j>> => c = d /\ i = j
      OBVIOUS
    <3> QED BY <1>2, <2>1, <3>1, Zenon
  <2> QED BY <1>9, <2>2, <2>3
<1> QED BY <1>9, <1>10

\* A subset of the numbers has a least one.
LEMMA LeastOf ==
  ASSUME NEW S \in SUBSET Nat, S # {}
  PROVE  \E n \in S : \A m \in S : n <= m
<1>1. PICK R : R = OpToRel(<, Nat)
  OBVIOUS
<1>2. PICK n \in S : \A m \in S : ~(<<m, n>> \in R)
  BY <1>1, NatLessThanWellFounded, WFMin
<1>3. \A m \in S : ~(m < n)
  BY <1>1, <1>2 DEF OpToRel
<1> QED BY <1>2, <1>3

\* The reader reads a socket of its own.
LEMMA ReadsOwn ==
  ASSUME TypeInv, NEW t \in Thr, rset[t] \ {Pipe} # {}
  PROVE  Next1(t) \in SocksOf(t) /\ Next1(t) \in Conn
<1>1. rset[t] \subseteq SocksOf(t) \union {Pipe}
  BY DEF TypeInv, RecvInv
<1>2. Len(socks[t]) \in Nat /\ DOMAIN socks[t] = 1 .. Len(socks[t]) /\ SocksOf(t) \subseteq Conn
  BY SockFacts
<1>3. PICK I : I = {i \in DOMAIN socks[t] : socks[t][i] \in rset[t] \ {Pipe}}
  OBVIOUS
<1>4. I \subseteq Nat /\ I # {}
  <2>1. PICK c \in rset[t] : c # Pipe
    OBVIOUS
  <2>2. c \in SocksOf(t)
    BY <1>1, <2>1
  <2> QED BY <1>2, <1>3, <2>1, <2>2 DEF SocksOf
<1>5. PICK i \in I : \A j \in I : i <= j
  BY <1>4, LeastOf
<1>6. \A j \in 1 .. i - 1 : socks[t][j] \notin rset[t]
  <2> SUFFICES ASSUME NEW j \in 1 .. i - 1, socks[t][j] \in rset[t] PROVE FALSE
    OBVIOUS
  <2>1. i \in 1 .. Len(socks[t])
    BY <1>2, <1>3, <1>5
  <2>2. j \in DOMAIN socks[t] /\ j < i
    BY <1>2, <2>1
  <2>3. socks[t][j] \in Conn
    BY <2>2, SockFacts
  <2>4. socks[t][j] # Pipe
    BY <2>3, ProgramFacts DEF Pipe, TypeInv, CallInv
  <2>5. j \in I
    BY <1>3, <2>2, <2>4
  <2> QED BY <1>4, <1>5, <2>2, <2>5
<1>7. \E c \in rset[t] \ {Pipe} : \E k \in DOMAIN socks[t] :
        socks[t][k] = c /\ \A j \in 1 .. k - 1 : socks[t][j] \notin rset[t]
  BY <1>3, <1>5, <1>6
<1>8. Next1(t) \in rset[t] \ {Pipe}
  BY <1>7 DEF Next1
<1> QED BY <1>1, <1>2, <1>8

\* One call more is one call of sem_wait more, or none.
LEMMA WaitsNext ==
  ASSUME NEW n \in Nat
  PROVE  /\ Waits(n + 1) \in Nat
         /\ Waits(n + 2) = Waits(n + 1) + (IF Program[n + 1].op = "wait" THEN 1 ELSE 0)
         /\ Waits(1) = 0
<1>1. PICK A : A = {j \in 1 .. n : Program[j].op = "wait"}
  OBVIOUS
<1>2. IsFiniteSet(A) /\ n + 1 \notin A
  <2>1. A \subseteq 1 .. n /\ IsFiniteSet(1 .. n)
    BY <1>1, FS_Interval
  <2> QED BY <1>1, <2>1, FS_Subset
<1>3. Waits(n + 1) = Cardinality(A)
  <2>1. n + 1 - 1 = n
    OBVIOUS
  <2> QED BY <1>1, <2>1 DEF Waits
<1>4. Waits(n + 2) = Cardinality(A \union {k \in {n + 1} : Program[k].op = "wait"})
  <2>1. PICK m : m = n + 2
    OBVIOUS
  <2>3. m - 1 = n + 1
    BY <2>1
  <2>2. {j \in 1 .. n + 1 : Program[j].op = "wait"} = A \union {k \in {n + 1} : Program[k].op = "wait"}
    BY <1>1
  <2>4. Waits(m) = Cardinality({j \in 1 .. n + 1 : Program[j].op = "wait"})
    BY <2>3 DEF Waits
  <2> QED BY <2>1, <2>2, <2>4
<1>5. Cardinality(A) \in Nat /\ Cardinality(A \union {n + 1}) = Cardinality(A) + 1
  BY <1>2, FS_CardinalityType, FS_AddElement
<1>6. CASE Program[n + 1].op = "wait"
  <2>1. {k \in {n + 1} : Program[k].op = "wait"} = {n + 1}
    BY <1>6
  <2>2. Waits(n + 2) = Waits(n + 1) + 1
    BY <1>3, <1>4, <1>5, <2>1
  <2> QED BY <1>3, <1>5, <1>6, <2>2, FS_EmptySet DEF Waits
<1>7. CASE Program[n + 1].op # "wait"
  <2>1. A \union {k \in {n + 1} : Program[k].op = "wait"} = A
    BY <1>7
  <2>2. Waits(n + 2) = Waits(n + 1)
    BY <1>3, <1>4, <1>5, <2>1
  <2> QED BY <1>3, <1>5, <1>7, <2>2, FS_EmptySet DEF Waits
<1> QED BY <1>6, <1>7

\* Answers of a connection that its reader has taken.
Handled == [c \in Conn |-> rounds[c] - Len(toPool[c])]

\* A worker answers what it has read; its answers are on their way, taken or lost.
CountOf(c) ==
  /\ Len(toPool[c]) <= rounds[c] /\ rounds[c] <= Len(got[c])
  /\ peer[c] = "write" => rounds[c] < Len(got[c])

\* The callback has not posted sem more often than answers were taken.
CountInv ==
  /\ \A c \in Conn : CountOf(c)
  /\ sem + Waits(Index) <= Cardinality(Pairs(Conn, Handled))

\* The numbers in this.
LEMMA CountNumbers ==
  ASSUME TypeInv, NEW c \in Conn
  PROVE  /\ Len(got[c]) \in Nat /\ Len(toPool[c]) \in Nat /\ rounds[c] \in Nat /\ Rounds \in Nat
         /\ rounds[c] <= Rounds
         /\ \E S : S = 1 .. Len(Program) /\ got[c] \in Seq(S) /\ toPool[c] \in Seq(S)
<1>1. PICK S : S = 1 .. Len(Program)
  OBVIOUS
<1>2. got[c] \in Seq(S) /\ toPool[c] \in Seq(S) /\ rounds[c] \in Nat /\ rounds[c] <= Rounds
  BY <1>1 DEF TypeInv, PeerInv, Frames
<1>3. Rounds \in Nat
  BY PoolAssumption DEF TypeInv, CallInv, Rounds
<1> QED BY <1>1, <1>2, <1>3

\* There are finitely many connections.
LEMMA ConnFinite ==
  ASSUME TypeInv
  PROVE  IsFiniteSet(Conn)
<1>1. Conn \subseteq 1 .. Len(Program) /\ Len(Program) \in Nat
  BY ProgramFacts DEF TypeInv, CallInv
<1>2. IsFiniteSet(1 .. Len(Program))
  BY <1>1, FS_Interval
<1> QED BY <1>1, <1>2, FS_Subset

\* The answers the readers have taken, of each worker at most Rounds.
LEMMA HandledFacts ==
  ASSUME TypeInv, \A c \in Conn : CountOf(c)
  PROVE  Handled \in [Conn -> 0 .. Rounds] /\ Rounds \in Nat
<1>1. ASSUME NEW c \in Conn PROVE rounds[c] - Len(toPool[c]) \in 0 .. Rounds
  BY CountNumbers DEF CountOf
<1>2. Rounds \in Nat
  BY PoolAssumption DEF TypeInv, CallInv, Rounds
<1> QED BY <1>1, <1>2 DEF Handled

\* No step takes an answer back.
Grows(c) ==
  /\ CountOf(c)'
  /\ rounds[c] <= rounds'[c]
  /\ rounds[c] - Len(toPool[c]) <= rounds'[c] - Len(toPool'[c])

\* The steps that do not concern the answers,
LEMMA AnswerSteps ==
  ASSUME [Next]_vars
  PROVE  \/ UNCHANGED <<toPool, rounds, got, peer>>
         \/ \E t \in Thr : ReadSock(t) \/ ReaderExits(t) \/ WriteSock(t)
         \/ \E c \in Conn : Worker(c)
<1>1. CASE Main
  BY <1>1 DEF Main, Refused, AddRefused, add_conn, start_all, send, thr_broadcast, broadcast, StopSignals, StopJoins,
              StopReturns, Wait, poolRest, netVars, peerVars
<1>2. ASSUME NEW t \in Thr, Pop(t) \/ WriteNowhere(t) PROVE UNCHANGED <<toPool, rounds, got, peer>>
  BY <1>2 DEF Pop, WriteNowhere, mainRest, netVars, peerVars
<1>3. ASSUME NEW t \in Thr, Select(t) \/ ReadRound(t) PROVE UNCHANGED <<toPool, rounds, got, peer>>
  BY <1>3 DEF Select, ReadRound, mainRest, netVars, peerVars
<1>4. CASE UNCHANGED vars
  BY <1>4 DEF vars
<1> QED BY <1>1, <1>2, <1>3, <1>4 DEF Next, Sender, Reader

\* keep them;
LEMMA GrowsSame ==
  ASSUME TypeInv, NEW c \in Conn, CountOf(c), toPool'[c] = toPool[c], rounds'[c] = rounds[c], got'[c] = got[c],
         peer'[c] = "write" => peer[c] = "write"
  PROVE  Grows(c)
<1> QED BY CountNumbers DEF Grows, CountOf

\* the reader takes one;
LEMMA GrowsRead ==
  ASSUME TypeInv, NEW t \in Thr, ReadSock(t), NEW c \in Conn, CountOf(c)
  PROVE  /\ Grows(c)
         /\ c = Next1(t) /\ toPool[c] # <<>> =>
              rounds[c] - Len(toPool[c]) < rounds'[c] - Len(toPool'[c])
<1>1. rounds' = rounds /\ got' = got /\ peer' = peer /\ DOMAIN toPool = Conn
      /\ toPool' = [toPool EXCEPT ![Next1(t)] = IF @ = <<>> THEN @ ELSE Tail(@)]
  BY DEF ReadSock, peerVars, TypeInv, PeerInv
<1>2. PICK S : toPool[c] \in Seq(S)
  BY CountNumbers
<1>3. CASE c = Next1(t) /\ toPool[c] # <<>>
  <2>1. toPool'[c] = Tail(toPool[c])
    BY <1>1, <1>3
  <2>2. Len(toPool'[c]) = Len(toPool[c]) - 1
    BY <1>2, <1>3, <2>1
  <2>3. Len(toPool[c]) \in Nat /\ Len(toPool[c]) # 0
    BY <1>2, <1>3
  <2> QED BY <1>1, <2>2, <2>3, CountNumbers DEF Grows, CountOf
<1>4. CASE ~(c = Next1(t) /\ toPool[c] # <<>>)
  <2>1. toPool'[c] = toPool[c]
    BY <1>1, <1>4
  <2> QED BY <1>1, <1>4, <2>1, GrowsSame
<1> QED BY <1>3, <1>4

\* or drops them all;
LEMMA GrowsExit ==
  ASSUME TypeInv, NEW t \in Thr, ReaderExits(t), NEW c \in Conn, CountOf(c)
  PROVE  Grows(c)
<1>1. rounds' = rounds /\ got' = got /\ peer' = peer
      /\ toPool' = [d \in Conn |-> IF d \in SocksOf(t) THEN <<>> ELSE toPool[d]]
  BY DEF ReaderExits, peerVars, mainRest
<1>2. CASE c \in SocksOf(t)
  <2>1. toPool'[c] = <<>>
    BY <1>1, <1>2
  <2>2. Len(toPool'[c]) = 0
    BY <2>1
  <2> QED BY <1>1, <2>2, CountNumbers DEF Grows, CountOf
<1>3. CASE c \notin SocksOf(t)
  <2>1. toPool'[c] = toPool[c]
    BY <1>1, <1>3
  <2> QED BY <1>1, <2>1, GrowsSame
<1> QED BY <1>2, <1>3

\* a sender makes the kernel reset the connection;
LEMMA GrowsReset ==
  ASSUME TypeInv, NEW t \in Thr, WriteSock(t), NEW c \in Conn, CountOf(c)
  PROVE  Grows(c)
<1>1. rounds' = rounds /\ got' = got /\ peer' = peer
  BY DEF WriteSock, peerVars, mainRest
<1>2. Len(toPool'[c]) \in Nat /\ Len(toPool'[c]) <= Len(toPool[c])
  BY WriteLeaves DEF Begins
<1> QED BY <1>1, <1>2, CountNumbers DEF Grows, CountOf

\* and a worker reads and answers.
LEMMA GrowsWork ==
  ASSUME TypeInv, NEW d \in Conn, Worker(d), NEW c \in Conn, CountOf(c)
  PROVE  Grows(c)
<1>1. DOMAIN toPool = Conn /\ DOMAIN got = Conn /\ DOMAIN peer = Conn /\ DOMAIN rounds = Conn
  BY DEF TypeInv, PeerInv
<1>2. PICK S : got[c] \in Seq(S) /\ toPool[c] \in Seq(S) /\ S = 1 .. Len(Program)
  BY CountNumbers
<1>3. CASE c # d
  <2>1. toPool'[c] = toPool[c] /\ rounds'[c] = rounds[c] /\ got'[c] = got[c] /\ peer'[c] = peer[c]
    <3>1. CASE PeerReads(d)
      BY <1>1, <1>3, <3>1 DEF PeerReads
    <3>2. CASE PeerReadsEnd(d)
      BY <1>1, <1>3, <3>2 DEF PeerReadsEnd, netVars
    <3>3. CASE PeerWrites(d)
      <4>1. toPool'[c] = toPool[c]
        BY <1>3, <3>3, AnswerLeaves
      <4> QED BY <1>1, <1>3, <3>3, <4>1 DEF PeerWrites
    <3> QED BY <3>1, <3>2, <3>3 DEF Worker
  <2> QED BY <2>1, GrowsSame
<1>4. CASE c = d /\ PeerReads(d)
  <2>1. got'[c] = Append(got[c], Head(toPeer[c])) /\ rounds' = rounds /\ toPool' = toPool
    BY <1>1, <1>4 DEF PeerReads
  <2>2. toPeer[c] \in Seq(S) /\ toPeer[c] # <<>>
    BY <1>2, <1>4 DEF PeerReads, TypeInv, PeerInv, Frames
  <2>3. Head(toPeer[c]) \in S
    BY <2>2
  <2>4. Len(got'[c]) = Len(got[c]) + 1
    BY <1>2, <2>1, <2>3
  <2> QED BY <2>1, <2>4, CountNumbers DEF Grows, CountOf
<1>5. CASE c = d /\ PeerReadsEnd(d)
  <2>1. toPool'[c] = toPool[c] /\ rounds'[c] = rounds[c] /\ got'[c] = got[c] /\ peer'[c] = "failed"
    BY <1>1, <1>5 DEF PeerReadsEnd, netVars
  <2> QED BY <2>1, GrowsSame
<1>6. CASE c = d /\ PeerWrites(d)
  <2>1. got' = got /\ rounds'[c] = rounds[c] + 1 /\ peer'[c] # "write" /\ peer[c] = "write"
    BY <1>1, <1>6 DEF PeerWrites
  <2>3. got[c] # <<>>
    BY <2>1 DEF TypeInv, PeerInv
  <2>4. Last(got[c]) \in S
    BY <1>2, <2>3, FrameFacts DEF Frames
  <2>5. Len(toPool'[c]) \in Nat /\ Len(toPool'[c]) <= Len(toPool[c]) + 1
    <3>1. CASE toPool'[c] = toPool[c]
      BY <3>1, CountNumbers
    <3>2. CASE Begins(toPool'[c], Append(toPool[c], Last(got[c])))
      <4>1. Len(Append(toPool[c], Last(got[c]))) = Len(toPool[c]) + 1
        BY <1>2, <2>4
      <4> QED BY <3>2, <4>1 DEF Begins
    <3> QED BY <1>6, <3>1, <3>2, AnswerLeaves
  <2> QED BY <2>1, <2>5, CountNumbers DEF Grows, CountOf
<1> QED BY <1>3, <1>4, <1>5, <1>6 DEF Worker

\* Answers taken are not given back.
LEMMA GrowsStep ==
  ASSUME TypeInv, [Next]_vars, NEW c \in Conn, CountOf(c)
  PROVE  Grows(c)
<1>1. CASE UNCHANGED <<toPool, rounds, got, peer>>
  BY <1>1, GrowsSame
<1> QED BY <1>1, AnswerSteps, GrowsRead, GrowsExit, GrowsReset, GrowsWork

\* Only sem_wait takes from sem, and only the callback posts it.
LEMMA SemSteps ==
  ASSUME TypeInv, [Next]_vars
  PROVE  \/ sem' = sem /\ results' = results
         \/ sem' = sem /\ Len(results') = Len(results) + 1 /\ Program[Index].op # "wait"
         \/ sem' = sem - 1 /\ Len(results') = Len(results) + 1 /\ Program[Index].op = "wait"
         \/ results' = results /\ \E t \in Thr : ReadSock(t)
<1>1. results \in Seq(Int) /\ num_conns \in Int
  BY DEF TypeInv, CallInv, asize_t
<1>2. \A r \in Int : Return(r) => Len(results') = Len(results) + 1
  BY <1>1 DEF Return
<1>3. CASE Wait
  BY <1>2, <1>3 DEF Wait, Calls
<1>4. CASE Main /\ ~Wait
  <2>1. sem' = sem
    BY <1>4 DEF Main, Refused, AddRefused, add_conn, start_all, send, thr_broadcast, broadcast, StopSignals, StopJoins,
                StopReturns, poolRest
  <2>2. Program[Index].op # "wait"
    BY <1>4 DEF Main, Refused, AddRefused, add_conn, start_all, send, thr_broadcast, broadcast, StopSignals, StopJoins,
                StopReturns, Calls
  <2> QED BY <1>2, <2>1, <2>2, ResultsStep
<1>5. ASSUME NEW t \in Thr, Sender(t) PROVE sem' = sem /\ results' = results
  BY <1>5 DEF Sender, Pop, WriteSock, WriteNowhere, mainRest, mainVars
<1>6. ASSUME NEW t \in Thr, Select(t) \/ ReadRound(t) \/ ReaderExits(t) PROVE sem' = sem /\ results' = results
  BY <1>6 DEF Select, ReadRound, ReaderExits, mainRest, mainVars
<1>7. ASSUME NEW t \in Thr, ReadSock(t) PROVE results' = results
  BY <1>7 DEF ReadSock, mainVars
<1>8. ASSUME NEW c \in Conn, Worker(c) PROVE sem' = sem /\ results' = results
  BY <1>8 DEF Worker, PeerReads, PeerReadsEnd, PeerWrites, peerRest, mainVars
<1>9. CASE UNCHANGED vars
  BY <1>9 DEF vars
<1> QED BY <1>3, <1>4, <1>5, <1>6, <1>7, <1>8, <1>9 DEF Next, Reader

\* The calls of sem_wait are those of the program.
LEMMA WaitsSame ==
  ASSUME prog' = prog, NEW k
  PROVE  Waits(k)' = Waits(k)
<1> QED BY ProgSame DEF Waits

\* The counts of a connection: kept by every step.
LEMMA CountStep == TypeInv /\ CountInv /\ [Next]_vars => CountInv'
<1> SUFFICES ASSUME TypeInv, CountInv, [Next]_vars PROVE CountInv'
  OBVIOUS
<1>1. prog' = prog /\ Conn' = Conn /\ Rounds' = Rounds /\ Program' = Program
  BY ProgStep, ProgSame
<1>2. TypeInv'
  BY TypeStep
<1>3. ASSUME NEW c \in Conn PROVE Grows(c)
  BY GrowsStep DEF CountInv
<1>4. (\A c \in Conn : CountOf(c))'
  BY <1>1, <1>3 DEF Grows
<1>5. PICK C, B, f, g : B \in Nat /\ C = Conn /\ B = Rounds /\ f = Handled /\ g = Handled'
  BY HandledFacts DEF CountInv
<1>6. f \in [C -> 0 .. B]
  BY <1>5, HandledFacts DEF CountInv
<1>7. g \in [C -> 0 .. B]
  <2>1. ASSUME NEW c \in Conn PROVE rounds'[c] - Len(toPool'[c]) \in 0 .. Rounds
    <3>1. Len(toPool'[c]) <= rounds'[c]
      BY <1>3 DEF Grows, CountOf
    <3>2. rounds'[c] \in Nat /\ rounds'[c] <= Rounds /\ Rounds \in Nat
      BY <1>1, <1>2, <1>5 DEF TypeInv, PeerInv
    <3>3. Len(toPool'[c]) \in Nat
      <4>1. PICK S : S = 1 .. Len(Program)
        OBVIOUS
      <4>2. toPool'[c] \in Seq(S)
        BY <1>1, <1>2, <4>1 DEF TypeInv, PeerInv, Frames
      <4> QED BY <4>2
    <3> QED BY <3>1, <3>2, <3>3
  <2> QED BY <1>1, <1>5, <2>1 DEF Handled
<1>8. IsFiniteSet(C) /\ \A c \in C : f[c] <= g[c]
  <2>1. ASSUME NEW c \in Conn PROVE f[c] <= g[c]
    <3>1. f[c] = rounds[c] - Len(toPool[c]) /\ g[c] = rounds'[c] - Len(toPool'[c])
      BY <1>1, <1>5 DEF Handled
    <3> QED BY <1>3, <3>1 DEF Grows
  <2> QED BY <1>5, <2>1, ConnFinite
<1>9. PICK x, y : x = Cardinality(Pairs(C, f)) /\ y = Cardinality(Pairs(C, g))
  OBVIOUS
<1>10. x \in Nat /\ y \in Nat /\ x <= y /\ \A c \in C : f[c] < g[c] => x < y
  <2>1. /\ Cardinality(Pairs(C, f)) \in Nat /\ Cardinality(Pairs(C, g)) \in Nat
        /\ Cardinality(Pairs(C, f)) <= Cardinality(Pairs(C, g))
        /\ \A c \in C : f[c] < g[c] => Cardinality(Pairs(C, f)) < Cardinality(Pairs(C, g))
    BY <1>5, <1>6, <1>7, <1>8, PairsFacts
  <2> QED BY <1>9, <2>1
<1>11. sem + Waits(Index) <= x
  BY <1>5, <1>9 DEF CountInv
<1>12. PICK n \in Nat : n = Len(results)
  BY DEF TypeInv, CallInv
<1>13. Index = n + 1 /\ Waits(n + 1) \in Nat /\ sem \in Nat
       /\ Waits(n + 2) = Waits(n + 1) + (IF Program[n + 1].op = "wait" THEN 1 ELSE 0)
  BY <1>12, WaitsNext DEF Index, TypeInv
<1>14. Index' = Len(results') + 1 /\ \A k : Waits(k)' = Waits(k)
  BY <1>1, WaitsSame DEF Index
<1>15. sem' + Waits(Index)' <= y
  <2>1. CASE sem' = sem /\ results' = results
    <3>1. Index' = n + 1
      BY <1>12, <1>14, <2>1
    <3>2. Waits(Index)' = Waits(n + 1)
      BY <1>1, <3>1, ProgSame DEF Waits
    <3> QED BY <1>10, <1>11, <1>13, <2>1, <3>2
  <2>2. CASE sem' = sem /\ Len(results') = Len(results) + 1 /\ Program[Index].op # "wait"
    <3>1. Index' = n + 2
      BY <1>12, <1>14, <2>2
    <3>2. Waits(Index)' = Waits(n + 2)
      BY <1>1, <3>1, ProgSame DEF Waits
    <3> QED BY <1>10, <1>11, <1>13, <2>2, <3>2
  <2>3. CASE sem' = sem - 1 /\ Len(results') = Len(results) + 1 /\ Program[Index].op = "wait"
    <3>1. Index' = n + 2
      BY <1>12, <1>14, <2>3
    <3>2. Waits(Index)' = Waits(n + 2)
      BY <1>1, <3>1, ProgSame DEF Waits
    <3> QED BY <1>10, <1>11, <1>13, <2>3, <3>2
  <2>4. ASSUME NEW t \in Thr, ReadSock(t), results' = results PROVE sem' + Waits(Index)' <= y
    <3>1. Index' = n + 1
      BY <1>12, <1>14, <2>4
    <3>2. Waits(Index)' = Waits(n + 1)
      BY <1>1, <3>1, ProgSame DEF Waits
    <3>3. PICK c \in Conn : c = Next1(t)
      BY <2>4, ReadsOwn DEF ReadSock
    <3>4. sem' = sem + Posts(c)
      BY <2>4, <3>3 DEF ReadSock
    <3>5. CASE toPool[c] = <<>>
      BY <1>10, <1>11, <1>13, <3>2, <3>4, <3>5 DEF Posts
    <3>6. CASE toPool[c] # <<>>
      <4>1. rounds[c] - Len(toPool[c]) < rounds'[c] - Len(toPool'[c])
        BY <2>4, <3>3, <3>6, GrowsRead DEF CountInv
      <4>2. f[c] < g[c]
        BY <1>1, <1>5, <4>1 DEF Handled
      <4>3. x < y
        BY <1>5, <1>10, <4>2
      <4> QED BY <1>10, <1>11, <1>13, <3>2, <3>4, <3>6, <4>3 DEF Posts
    <3> QED BY <3>5, <3>6
  <2> QED BY <2>1, <2>2, <2>3, <2>4, SemSteps
<1>16. Cardinality(Pairs(Conn, Handled))' = y
  <2>1. Pairs(Conn, Handled)' = Pairs(C, g)
    BY <1>1, <1>5 DEF Pairs
  <2> QED BY <1>9, <2>1
<1> QED BY <1>4, <1>15, <1>16 DEF CountInv

-----------------------------------------------------------------------------
(* Answers: when a connection is closed *)

\* A reader closes its connections when its pipe is closed,
RsetInv == \A t \in Thr : Pipe \in rset[t] => t \notin pipe

\* so that a closed connection is the work of stop_all,
OpenInv == \A c \in Conn : c <= Len(results) /\ c \notin opened => pipe # Thr

\* of one that has returned or the one that is running.
PipeInv == pipe # Thr => running /\ (Stopped \/ (Index <= Len(Program) /\ Program[Index].op = "stop"))

\* A worker fails its assertion before its last answer, at a closed connection.
FailInv == \A c \in Conn : peer[c] = "failed" =>
  rounds[c] < Rounds /\ (Running => c <= Len(results) /\ c \notin opened)

\* Pipes are closed one by one and stay closed.
LEMMA PipeSteps ==
  ASSUME [Next]_vars
  PROVE  pipe' = pipe \/ (StopSignals /\ pipe' = pipe \ {loop})
<1>1. CASE Main
  BY <1>1 DEF Main, Refused, AddRefused, add_conn, start_all, send, thr_broadcast, broadcast, StopSignals, StopJoins,
              StopReturns, Wait, poolRest, rVars
<1>2. ASSUME NEW t \in Thr, Sender(t) PROVE pipe' = pipe
  BY <1>2 DEF Sender, Pop, WriteSock, WriteNowhere, rVars
<1>3. ASSUME NEW t \in Thr, Reader(t) PROVE pipe' = pipe
  BY <1>3 DEF Reader, Select, ReadSock, ReadRound, ReaderExits
<1>4. ASSUME NEW c \in Conn, Worker(c) PROVE pipe' = pipe
  BY <1>4 DEF Worker, PeerReads, PeerReadsEnd, PeerWrites, peerRest, rVars
<1>5. CASE UNCHANGED vars
  BY <1>5 DEF vars
<1> QED BY <1>1, <1>2, <1>3, <1>4, <1>5 DEF Next

\* A reader finds its pipe ready only when it is closed: kept by every step.
LEMMA RsetStep == TypeInv /\ RsetInv /\ [Next]_vars => RsetInv'
<1> SUFFICES ASSUME TypeInv, RsetInv, [Next]_vars, NEW t \in Thr, Pipe \in rset'[t] PROVE t \notin pipe'
  BY DEF RsetInv
<1>1. pipe' \subseteq pipe /\ DOMAIN rset = Thr
  BY PipeSteps DEF TypeInv, RecvInv
<1>2. Pipe \in rset[t] => t \notin pipe'
  BY <1>1 DEF RsetInv
<1>3. CASE Main
  <2>1. rset' = rset
    BY <1>3 DEF Main, Refused, AddRefused, add_conn, start_all, send, thr_broadcast, broadcast, StopSignals, StopJoins,
                StopReturns, Wait, poolRest, rVars
  <2> QED BY <1>2, <2>1
<1>4. ASSUME NEW u \in Thr, Sender(u) PROVE t \notin pipe'
  <2>1. rset' = rset
    BY <1>4 DEF Sender, Pop, WriteSock, WriteNowhere, rVars
  <2> QED BY <1>2, <2>1
<1>5. ASSUME NEW u \in Thr, Reader(u) PROVE t \notin pipe'
  <2>1. CASE Select(u) /\ u = t
    <3>1. rset'[t] = Readable(t)
      BY <1>1, <2>1 DEF Select
    <3>2. Pipe \notin SocksOf(t)
      BY SockFacts, ProgramFacts DEF Pipe, TypeInv, CallInv
    <3> QED BY <1>1, <3>1, <3>2 DEF Readable
  <2>2. CASE ~(Select(u) /\ u = t)
    <3>1. rset'[t] \subseteq rset[t]
      <4>1. CASE Select(u)
        BY <1>1, <2>2, <4>1 DEF Select
      <4>2. CASE ReadSock(u)
        BY <1>1, <4>2 DEF ReadSock
      <4>3. CASE ReadRound(u)
        BY <4>3 DEF ReadRound
      <4>4. CASE ReaderExits(u)
        BY <1>1, <4>4 DEF ReaderExits
      <4> QED BY <1>5, <4>1, <4>2, <4>3, <4>4 DEF Reader
    <3> QED BY <1>2, <3>1
  <2> QED BY <2>1, <2>2
<1>6. ASSUME NEW c \in Conn, Worker(c) PROVE t \notin pipe'
  <2>1. rset' = rset
    BY <1>6 DEF Worker, PeerReads, PeerReadsEnd, PeerWrites, peerRest, rVars
  <2> QED BY <1>2, <2>1
<1>7. CASE UNCHANGED vars
  BY <1>2, <1>7 DEF vars
<1> QED BY <1>3, <1>4, <1>5, <1>6, <1>7 DEF Next

\* The calls open connections and the readers close them.
LEMMA OpenedSteps ==
  ASSUME TypeInv, [Next]_vars
  PROVE  \/ opened' = opened /\ (results' = results \/ Program[Index].op # "add")
         \/ Running /\ Program[Index].op = "add" /\ opened' = opened \union {Index}
         \/ results' = results /\ \E t \in Thr : ReaderExits(t)
<1>1. CASE AddRefused \/ add_conn
  BY <1>1 DEF AddRefused, add_conn, Calls
<1>2. CASE Main /\ ~AddRefused /\ ~add_conn
  BY <1>2 DEF Main, Refused, start_all, send, thr_broadcast, broadcast, StopSignals, StopJoins,
              StopReturns, Wait, poolRest, rVars, Calls
<1>3. ASSUME NEW t \in Thr, Sender(t) PROVE opened' = opened /\ results' = results
  BY <1>3 DEF Sender, Pop, WriteSock, WriteNowhere, rVars, mainRest, mainVars
<1>4. ASSUME NEW t \in Thr, Select(t) \/ ReadSock(t) \/ ReadRound(t) PROVE opened' = opened /\ results' = results
  BY <1>4 DEF Select, ReadSock, ReadRound, mainRest, mainVars
<1>5. ASSUME NEW t \in Thr, ReaderExits(t) PROVE results' = results
  BY <1>5 DEF ReaderExits, mainRest, mainVars
<1>6. ASSUME NEW c \in Conn, Worker(c) PROVE opened' = opened /\ results' = results
  BY <1>6 DEF Worker, PeerReads, PeerReadsEnd, PeerWrites, peerRest, rVars, mainVars
<1>7. CASE UNCHANGED vars
  BY <1>7 DEF vars
<1> QED BY <1>1, <1>2, <1>3, <1>4, <1>5, <1>6, <1>7 DEF Next, Reader

\* Results are added one by one.
LEMMA ResultsGrow ==
  ASSUME TypeInv, [Next]_vars
  PROVE  /\ Len(results) \in Nat /\ Len(results') \in Nat
         /\ Len(results') = Len(results) \/ (Len(results') = Len(results) + 1 /\ Index <= Len(Program) /\ Running)
         /\ \A j \in 1 .. Len(results) : results'[j] = results[j]
<1>1. results \in Seq(Int)
  BY DEF TypeInv, CallInv
<1>2. CASE results' = results
  BY <1>1, <1>2
<1>3. ASSUME NEW r \in Int, Return(r), Index <= Len(Program), Running
      PROVE  Len(results') = Len(results) + 1 /\ \A j \in 1 .. Len(results) : results'[j] = results[j]
  BY <1>1, <1>3 DEF Return
<1>4. Len(results) \in Nat
  BY <1>1
<1> QED BY <1>2, <1>3, <1>4, ResultsStep

\* No connection is closed while every pipe is open: kept by every step.
LEMMA OpenStep == TypeInv /\ RsetInv /\ OpenInv /\ [Next]_vars => OpenInv'
<1> SUFFICES ASSUME TypeInv, RsetInv, OpenInv, [Next]_vars, NEW c \in Conn, c <= Len(results'), c \notin opened'
             PROVE  pipe' # Thr
  BY ProgStep, ProgSame DEF OpenInv
<1>1. pipe' \subseteq pipe /\ pipe \subseteq Thr
  BY PipeSteps DEF TypeInv, RecvInv
<1>2. c \in Nat /\ Program[c].op = "add"
  BY ProgramFacts DEF TypeInv, CallInv
<1>3. Len(results) \in Nat /\ (results' = results \/ Len(results') = Len(results) + 1) /\ Index = Len(results) + 1
  BY ResultsGrow, ResultsStep DEF Index, Return, TypeInv, CallInv
<1>4. CASE c <= Len(results) /\ c \notin opened
  <2>1. pipe # Thr
    BY <1>4 DEF OpenInv
  <2> QED BY <1>1, <2>1, Zenon
<1>5. CASE results' = results /\ \E t \in Thr : ReaderExits(t)
  BY <1>1, <1>5 DEF ReaderExits, RsetInv
<1>6. CASE opened' = opened /\ (results' = results \/ Program[Index].op # "add")
  <2>1. c # Index \/ results' = results
    BY <1>2, <1>6
  <2> QED BY <1>2, <1>3, <1>4, <1>6, <2>1
<1>7. CASE opened' = opened \union {Index}
  BY <1>2, <1>3, <1>4, <1>7
<1> QED BY <1>5, <1>6, <1>7, OpenedSteps

\* A pipe is closed only by a stop_all: kept by every step.
LEMMA PipeStep == TypeInv /\ PipeInv /\ [Next]_vars => PipeInv'
<1> SUFFICES ASSUME TypeInv, PipeInv, [Next]_vars, pipe' # Thr
             PROVE  (running /\ (Stopped \/ (Index <= Len(Program) /\ Program[Index].op = "stop")))'
  BY DEF PipeInv
<1>1. running /\ (Stopped \/ (Index <= Len(Program) /\ Program[Index].op = "stop"))
  BY PipeSteps DEF PipeInv, StopSignals, Calls
<1>2. running'
  BY <1>1, RunningStep
<1>3. CASE Stopped
  BY <1>2, <1>3, StoppedStays
<1>4. CASE StopReturns
  BY <1>2, <1>4, StopsNow
<1>5. CASE Index <= Len(Program) /\ Program[Index].op = "stop" /\ ~StopReturns
  BY <1>1, <1>2, <1>5, StopGoesOn
<1> QED BY <1>1, <1>3, <1>4, <1>5

\* A worker that has failed gives no more answers.
LEMMA FailSteps ==
  ASSUME TypeInv, [Next]_vars, NEW c \in Conn, peer'[c] = "failed"
  PROVE  /\ rounds'[c] = rounds[c]
         /\ peer[c] = "failed" \/ (PeerReadsEnd(c) /\ opened' = opened /\ killed' = killed /\ results' = results)
<1>1. DOMAIN peer = Conn /\ DOMAIN rounds = Conn
  BY DEF TypeInv, PeerInv
<1>2. CASE UNCHANGED <<toPool, rounds, got, peer>>
  BY <1>2
<1>3. ASSUME NEW t \in Thr, ReadSock(t) \/ ReaderExits(t) \/ WriteSock(t) PROVE peer' = peer /\ rounds' = rounds
  BY <1>3 DEF ReadSock, ReaderExits, WriteSock, mainRest, peerVars
<1>4. ASSUME NEW d \in Conn, PeerReads(d) PROVE peer[c] = "failed" /\ rounds' = rounds
  BY <1>1, <1>4 DEF PeerReads
<1>5. ASSUME NEW d \in Conn, PeerReadsEnd(d) PROVE /\ d # c => peer[c] = "failed"
                                                   /\ rounds' = rounds /\ opened' = opened /\ killed' = killed /\ results' = results
  BY <1>1, <1>5 DEF PeerReadsEnd, peerRest, rVars, mainVars
<1>6. ASSUME NEW d \in Conn, PeerWrites(d) PROVE peer[c] = "failed" /\ rounds'[c] = rounds[c]
  BY <1>1, <1>6 DEF PeerWrites
<1> QED BY <1>2, <1>3, <1>4, <1>5, <1>6, AnswerSteps DEF Worker

\* A worker fails only before its last answer: kept by every step.
LEMMA FailStep == TypeInv /\ FailInv /\ [Next]_vars => FailInv'
<1> SUFFICES ASSUME TypeInv, FailInv, [Next]_vars, NEW c \in Conn, peer'[c] = "failed"
             PROVE  rounds'[c] < Rounds /\ (Running' => c <= Len(results') /\ c \notin opened')
  BY ProgStep, ProgSame DEF FailInv
<1>1. rounds'[c] = rounds[c]
  BY FailSteps
<1>2. c \in Nat /\ Len(results) \in Nat /\ Len(results') \in Nat /\ Len(results) <= Len(results') /\ Index = Len(results) + 1
  BY ProgramFacts, ResultsGrow DEF TypeInv, CallInv, Index
<1>3. CASE peer[c] = "failed"
  <2>1. rounds[c] < Rounds /\ (Running => c <= Len(results) /\ c \notin opened)
    BY <1>3 DEF FailInv
  <2>2. Running' => Running
    BY KilledStays
  <2>3. opened' \subseteq opened \union {Index}
    BY OpenedSteps DEF ReaderExits
  <2> QED BY <1>1, <1>2, <2>1, <2>2, <2>3
<1>4. CASE PeerReadsEnd(c) /\ opened' = opened /\ killed' = killed /\ results' = results
  <2>1. peer[c] = "read" /\ c <= Len(results) /\ (c \notin opened \/ ~Running)
    BY <1>4 DEF PeerReadsEnd
  <2>2. rounds[c] < Rounds
    BY <2>1 DEF TypeInv, PeerInv
  <2>3. Running' = Running
    BY <1>4 DEF Running
  <2> QED BY <1>1, <1>4, <2>1, <2>2, <2>3
<1> QED BY <1>3, <1>4, FailSteps

-----------------------------------------------------------------------------
(* Answers: a program that waits for them *)

\* If stop_all is called after as many calls of sem_wait as answers are owed, a worker
\* that was asked often enough has given its last answer.
ServedAt(k) == \A c \in Conn :
  Cardinality(Addressed(c, k - 1)) >= Rounds /\ Waits(k) >= Answers(k) => rounds[c] = Rounds

ServedInv == running /\ IdsUsable =>
  \A k \in DOMAIN results : Program[k].op = "stop" => ServedAt(k)

\* What is addressed to a connection can be counted.
LEMMA AddressedFinite ==
  ASSUME TypeInv, NEW c \in Conn, NEW n \in Nat
  PROVE  IsFiniteSet(Addressed(c, n)) /\ Cardinality(Addressed(c, n)) \in Nat
<1>1. IsFiniteSet(1 .. n)
  BY FS_Interval
<1>2. Addressed(c, n) \subseteq 1 .. n
  BY DEF Addressed
<1> QED BY <1>1, <1>2, FS_Subset, FS_CardinalityType

\* A worker has not read more messages than were addressed to it.
LEMMA GotCount ==
  ASSUME CastInv, running, IdsUsable, Index <= Len(Program), Program[Index].op = "stop", NEW c \in Conn
  PROVE  Len(got[c]) <= Cardinality(Addressed(c, Len(results)))
<1>1. TypeInv
  BY DEF CastInv, PoolInv
<1>2. PICK n, A : n \in Nat /\ n = Len(results) /\ A = Addressed(c, Len(results))
  BY <1>1 DEF TypeInv, CallInv
<1>3. IsFiniteSet(A) /\ Cardinality(A) \in Nat
  BY <1>1, <1>2, AddressedFinite
<1>4. PICK g : g = got[c]
  OBVIOUS
<1>5. g \in Seq(Int)
  BY <1>1, <1>4, SentFacts
<1>6. CASE \A t \in Thr : c \notin SocksOf(t)
  <2>1. g = <<>>
    BY <1>4, <1>6 DEF CastInv, StrayInv
  <2> QED BY <1>2, <1>3, <1>4, <2>1
<1>7. ASSUME NEW t \in Thr, c \in SocksOf(t) PROVE Len(g) <= Cardinality(A)
  <2>1. DelivOf(t, c)
    BY <1>7 DEF CastInv, DelivInv
  <2>2. Handed(t) = Len(results)
    BY DEF Handed
  <2>3. \A i \in DOMAIN g : g[i] \in A
    BY <1>2, <1>4, <2>1, <2>2 DEF DelivOf, Deliv, Sent, Range
  <2>4. \A i, j \in DOMAIN g : i < j => g[i] < g[j]
    BY <1>4, <2>1 DEF DelivOf, Rising
  <2>5. DOMAIN g = 1 .. Len(g) /\ Len(g) \in Nat /\ \A i \in DOMAIN g : g[i] \in Int
    BY <1>5
  <2>6. \A i, j \in 1 .. Len(g) : g[i] = g[j] => i = j
    BY <2>4, <2>5
  <2>7. g \in [1 .. Len(g) -> A]
    BY <1>5, <2>3, <2>5
  <2>8. g \in Injection(1 .. Len(g), A)
    BY <2>6, <2>7 DEF Injection, IsInjective
  <2>9. Cardinality(1 .. Len(g)) <= Cardinality(A)
    BY <1>3, <2>8, FS_Injection
  <2>10. Cardinality(1 .. Len(g)) = Len(g)
    <3>1. PICK m \in Nat : m = Len(g)
      BY <2>5
    <3>2. Cardinality(1 .. m) = IF 1 > m THEN 0 ELSE m - 1 + 1
      BY FS_Interval
    <3> QED BY <3>1, <3>2
  <2> QED BY <2>9, <2>10
<1> QED BY <1>2, <1>4, <1>6, <1>7

\* The stop_all that is about to run.
LEMMA ServedNow ==
  ASSUME CastInv, CountInv, running, IdsUsable, Index <= Len(Program), Program[Index].op = "stop"
  PROVE  ServedAt(Index)
<1> SUFFICES ASSUME NEW c \in Conn, Cardinality(Addressed(c, Index - 1)) >= Rounds, Waits(Index) >= Answers(Index)
             PROVE  rounds[c] = Rounds
  BY DEF ServedAt
<1>1. TypeInv
  BY DEF CastInv, PoolInv
<1>2. PICK n \in Nat : n = Len(results) /\ Index = n + 1 /\ Index - 1 = n
  BY <1>1 DEF TypeInv, CallInv, Index
<1>3. PICK C, B, f, g : B \in Nat /\ C = Conn /\ B = Rounds /\ f = Handled /\ g = Owed(Index)
  BY <1>1, HandledFacts DEF CountInv
<1>4. f \in [C -> 0 .. B]
  BY <1>1, <1>3, HandledFacts DEF CountInv
<1>5. \A d \in C : g[d] = Least(B, Cardinality(Addressed(d, n)))
  BY <1>2, <1>3 DEF Owed
<1>6. ASSUME NEW d \in C PROVE g[d] \in 0 .. B /\ f[d] <= g[d]
  <2>1. Cardinality(Addressed(d, n)) \in Nat
    BY <1>1, <1>3, AddressedFinite
  <2>2. Len(got[d]) <= Cardinality(Addressed(d, n))
    BY <1>2, <1>3, GotCount
  <2>3. f[d] = rounds[d] - Len(toPool[d])
    BY <1>3 DEF Handled
  <2>4. rounds[d] <= Len(got[d])
    BY <1>3 DEF CountInv, CountOf
  <2>5. Len(toPool[d]) \in Nat /\ rounds[d] \in Nat /\ Len(got[d]) \in Nat /\ rounds[d] <= B
    BY <1>1, <1>3, CountNumbers
  <2> QED BY <1>3, <1>5, <2>1, <2>2, <2>3, <2>4, <2>5 DEF Least
<1>7. g \in [C -> 0 .. B]
  <2>1. DOMAIN g = C /\ g = [d \in C |-> g[d]]
    BY <1>3 DEF Owed
  <2> QED BY <1>6, <2>1
<1>8. \A d \in C : f[d] < g[d] => Cardinality(Pairs(C, f)) < Cardinality(Pairs(C, g))
  <2>1. IsFiniteSet(C)
    BY <1>1, <1>3, ConnFinite
  <2> QED BY <1>3, <1>4, <1>6, <1>7, <2>1, PairsFacts
<1>9. Cardinality(Pairs(C, f)) \in Nat /\ Cardinality(Pairs(C, g)) \in Nat
  <2>1. IsFiniteSet(C)
    BY <1>1, <1>3, ConnFinite
  <2> QED BY <1>3, <1>4, <1>6, <1>7, <2>1, PairsFacts
<1>10. Cardinality(Pairs(C, g)) <= Cardinality(Pairs(C, f))
  <2>1. PICK x \in Nat, y \in Nat, w \in Nat : x = Cardinality(Pairs(C, f)) /\ y = Cardinality(Pairs(C, g)) /\ w = Waits(Index)
    BY <1>2, <1>9, WaitsNext
  <2>2. sem + w <= x /\ sem \in Nat
    BY <1>1, <1>3, <2>1 DEF CountInv, TypeInv
  <2>3. y <= w
    BY <1>3, <2>1 DEF Answers
  <2> QED BY <2>1, <2>2, <2>3
<1>11. f[c] = B
  <2>1. g[c] = B
    <3>1. Cardinality(Addressed(c, n)) \in Nat /\ Cardinality(Addressed(c, n)) >= B
      BY <1>1, <1>2, <1>3, AddressedFinite
    <3> QED BY <1>3, <1>5, <3>1 DEF Least
  <2>2. ~(f[c] < g[c])
    BY <1>3, <1>8, <1>9, <1>10
  <2>3. f[c] \in 0 .. B
    BY <1>3, <1>4
  <2> QED BY <1>3, <2>1, <2>2, <2>3
<1>12. rounds[c] - Len(toPool[c]) = Rounds
  BY <1>3, <1>11 DEF Handled
<1> QED BY <1>1, <1>12, CountNumbers

\* What past calls have addressed does not change.
LEMMA AddressedPast ==
  ASSUME TypeInv, [Next]_vars, running, NEW c \in Conn, NEW n \in Nat, n <= Len(results)
  PROVE  Addressed(c, n)' = Addressed(c, n)
<1>1. ~add_conn /\ prog' = prog /\ Program' = Program
  BY ProgStep, ProgSame DEF add_conn
<1>2. socks' = socks /\ (HasId(c)' <=> HasId(c))
  BY <1>1, SocksChange, HasIdSame
<1>3. HasId(c) => results'[c] = results[c]
  BY HasIdStays
<1>4. Len(results) \in Nat /\ Len(results') \in Nat /\ Len(results) <= Len(results')
      /\ \A j \in 1 .. Len(results) : results'[j] = results[j]
  BY ResultsGrow
<1>5. \A u : SocksOf(u)' = SocksOf(u)
  BY <1>2 DEF SocksOf
<1>6. ASSUME NEW j \in 1 .. n PROVE Addresses(j, c)' <=> Addresses(j, c)
  <2>1. j \in Nat /\ j <= Len(results) /\ j <= Len(results') /\ results'[j] = results[j]
    BY <1>4
  <2>2. SocksOf(Program[j].arg)' = SocksOf(Program[j].arg)
    BY <1>1, <1>2 DEF SocksOf
  <2> QED BY <1>1, <1>2, <1>3, <2>1, <2>2 DEF Addresses
<1> QED BY <1>6 DEF Addressed

\* Nothing is addressed before start_all.
LEMMA AddressedQuiet ==
  ASSUME TypeInv, Quiet, ~running, [Next]_vars, NEW c, NEW n \in Nat, n <= Len(results')
  PROVE  Addressed(c, n)' = {}
<1>1. TypeInv' /\ Quiet'
  BY TypeStep, QuietStep
<1> SUFFICES ASSUME NEW j \in 1 .. n, Addresses(j, c)' PROVE FALSE
  BY DEF Addressed
<1>2. results' \in Seq(Int)
  BY <1>1 DEF TypeInv, CallInv
<1>3. j \in DOMAIN results' /\ j <= Len(results')
  BY <1>2
<1> QED BY <1>1, <1>3 DEF Addresses, Quiet, Casts

\* What is owed for past calls does not change.
LEMMA OwedPast ==
  ASSUME TypeInv, [Next]_vars, running, NEW k \in Nat, k >= 1, k - 1 <= Len(results)
  PROVE  Answers(k)' = Answers(k) /\ Waits(k)' = Waits(k)
<1>1. prog' = prog /\ Conn' = Conn /\ Rounds' = Rounds
  BY ProgStep, ProgSame
<1>2. PICK n \in Nat : n = k - 1
  OBVIOUS
<1>3. ASSUME NEW c \in Conn PROVE Addressed(c, k - 1)' = Addressed(c, k - 1)
  <2>1. Addressed(c, n)' = Addressed(c, n)
    BY <1>2, AddressedPast
  <2> QED BY <1>2, <2>1
<1>4. Owed(k)' = Owed(k)
  BY <1>1, <1>3 DEF Owed
<1>5. Answers(k)' = Answers(k)
  BY <1>1, <1>4 DEF Answers, Pairs
<1> QED BY <1>1, <1>5, WaitsSame

\* A worker that has given its last answer has given it.
LEMMA ServedStays ==
  ASSUME TypeInv, CountInv, [Next]_vars, running, NEW k \in Nat, k >= 1, k - 1 <= Len(results), ServedAt(k)
  PROVE  ServedAt(k)'
<1>1. prog' = prog /\ Conn' = Conn /\ Rounds' = Rounds /\ TypeInv'
  BY ProgStep, ProgSame, TypeStep
<1> SUFFICES ASSUME NEW c \in Conn, Cardinality(Addressed(c, k - 1)') >= Rounds, Waits(k)' >= Answers(k)'
             PROVE  rounds'[c] = Rounds
  BY <1>1 DEF ServedAt
<1>2. PICK n \in Nat : n = k - 1
  OBVIOUS
<1>3. Addressed(c, n)' = Addressed(c, n)
  BY <1>2, AddressedPast
<1>4. Cardinality(Addressed(c, k - 1)) >= Rounds /\ Waits(k) >= Answers(k)
  BY <1>2, <1>3, OwedPast
<1>5. rounds[c] = Rounds
  BY <1>4 DEF ServedAt
<1>6. rounds[c] <= rounds'[c]
  BY GrowsStep DEF CountInv, Grows
<1>7. rounds'[c] \in Nat /\ rounds'[c] <= Rounds /\ Rounds \in Nat
  BY <1>1, CountNumbers DEF TypeInv, PeerInv
<1> QED BY <1>5, <1>6, <1>7

\* What a stop_all that has returned says of the workers: kept by every step.
LEMMA ServedStep == CastInv /\ CountInv /\ ServedInv /\ [Next]_vars => ServedInv'
<1> SUFFICES ASSUME CastInv, CountInv, ServedInv, [Next]_vars, running', IdsUsable',
                    NEW k \in DOMAIN results', Program'[k].op = "stop"
             PROVE  ServedAt(k)'
  BY DEF ServedInv
<1>1. TypeInv /\ TypeInv'
  BY TypeStep DEF CastInv, PoolInv
<1>2. prog' = prog /\ Program' = Program /\ Conn' = Conn /\ Rounds' = Rounds
  BY ProgStep, ProgSame
<1>3. results \in Seq(Int) /\ results' \in Seq(Int)
  BY <1>1 DEF TypeInv, CallInv
<1>4. k \in Nat /\ k >= 1 /\ k <= Len(results') /\ Len(results') \in Nat
  BY <1>3
<1>5. /\ Len(results) \in Nat
      /\ Len(results') = Len(results) \/ (Len(results') = Len(results) + 1 /\ Index <= Len(Program) /\ Running)
  BY <1>1, ResultsGrow
<1>6. CASE ~running
  <2>1. PICK n \in Nat : n = k - 1 /\ n <= Len(results')
    BY <1>4
  <2>2. Quiet
    BY <1>6 DEF CastInv, IdleInv
  <2>3. ASSUME NEW c \in Conn PROVE ~(Cardinality(Addressed(c, k - 1)') >= Rounds)
    <3>1. Addressed(c, n)' = {}
      BY <1>1, <1>6, <2>1, <2>2, AddressedQuiet
    <3>2. Cardinality(Addressed(c, k - 1)') = 0
      BY <2>1, <3>1, FS_EmptySet
    <3>3. Rounds \in Nat \ {0}
      BY <1>1, PoolAssumption DEF TypeInv, CallInv, Rounds
    <3> QED BY <3>2, <3>3
  <2> QED BY <1>2, <2>3 DEF ServedAt
<1>7. CASE running
  <2>1. IdsUsable
    BY <1>1, <1>7, UsableSame
  <2>2. ServedAt(k)
    <3>1. CASE k <= Len(results)
      <4>1. k \in DOMAIN results
        BY <1>3, <1>4, <3>1
      <4> QED BY <1>2, <1>7, <2>1, <4>1 DEF ServedInv
    <3>2. CASE ~(k <= Len(results))
      <4>1. k = Index /\ Index <= Len(Program)
        BY <1>4, <1>5, <3>2 DEF Index
      <4> QED BY <1>2, <1>7, <2>1, <4>1, ServedNow
    <3> QED BY <3>1, <3>2
  <2>3. k - 1 <= Len(results)
    BY <1>4, <1>5
  <2> QED BY <1>1, <1>4, <1>7, <2>2, <2>3, ServedStays
<1> QED BY <1>6, <1>7

\* All of this together.
ServeInv == CastInv /\ CountInv /\ RsetInv /\ OpenInv /\ PipeInv /\ FailInv /\ ServedInv

\* The invariant holds initially,
LEMMA ServeInit == Init => ServeInv
<1> SUFFICES ASSUME Init PROVE ServeInv
  OBVIOUS
<1>1. CastInv /\ TypeInv
  BY CastInit, TypeInit
<1>2. results = <<>> /\ Len(results) = 0 /\ Index = 1 /\ sem = 0
  BY DEF Init, Index
<1>3. RsetInv /\ PipeInv /\ FailInv /\ ServedInv
  <2>1. RsetInv
    BY DEF Init, RsetInv
  <2>2. PipeInv /\ FailInv
    BY DEF Init, PipeInv, FailInv
  <2>3. ServedInv
    BY DEF Init, ServedInv
  <2> QED BY <2>1, <2>2, <2>3
<1>4. OpenInv
  BY <1>1, <1>2, ProgramFacts DEF OpenInv, TypeInv, CallInv
<1>5. \A c \in Conn : CountOf(c)
  <2>1. ASSUME NEW c \in Conn PROVE CountOf(c)
    <3>1. toPool[c] = <<>> /\ got[c] = <<>> /\ rounds[c] = 0 /\ peer[c] = "read"
      BY DEF Init
    <3>2. Len(toPool[c]) = 0 /\ Len(got[c]) = 0
      BY <3>1
    <3> QED BY <3>1, <3>2 DEF CountOf
  <2> QED BY <2>1
<1>6. Waits(1) = 0
  BY WaitsNext
<1>7. PICK C, B, f : B \in Nat /\ C = Conn /\ B = Rounds /\ f = Handled /\ f \in [C -> 0 .. B] /\ IsFiniteSet(C)
  BY <1>1, <1>5, HandledFacts, ConnFinite
<1>8. \A c \in C : f[c] <= f[c]
  BY <1>7
<1>9. Cardinality(Pairs(C, f)) \in Nat
  BY <1>7, <1>8, PairsFacts
<1>10. CountInv
  BY <1>2, <1>5, <1>6, <1>7, <1>9 DEF CountInv
<1> QED BY <1>1, <1>3, <1>4, <1>10 DEF ServeInv

\* and always,
LEMMA ServeInvHolds == Spec => []ServeInv
<1>1. ServeInv /\ [Next]_vars /\ CastInv' => ServeInv'
  <2>1. CastInv => TypeInv
    BY DEF CastInv, PoolInv
  <2> QED BY <2>1, CountStep, RsetStep, OpenStep, PipeStep, FailStep, ServedStep DEF ServeInv
<1> QED BY <1>1, ServeInit, CastInvHolds, PTL DEF Spec

\* and implies that the workers are served.
LEMMA ServeServed == ServeInv => WorkersServed
<1> SUFFICES ASSUME ServeInv, Running, IdsUsable, NEW c \in Conn, peer[c] = "failed"
             PROVE  \E k \in DOMAIN Program :
                      /\ Program[k].op = "stop"
                      /\ k = Index \/ (k < Index /\ results[k] = 0)
                      /\ Cardinality(Addressed(c, k - 1)) < Rounds \/ Waits(k) < Answers(k)
  BY DEF WorkersServed
<1>1. TypeInv /\ CastInv /\ CountInv
  BY DEF ServeInv, CastInv, PoolInv
<1>2. rounds[c] < Rounds /\ c <= Len(results) /\ c \notin opened
  BY DEF ServeInv, FailInv
<1>3. running /\ (Stopped \/ (Index <= Len(Program) /\ Program[Index].op = "stop"))
  BY <1>2 DEF ServeInv, OpenInv, PipeInv
<1>4. results \in Seq(Int) /\ Len(results) <= Len(Program) /\ Len(Program) \in Nat /\ DOMAIN Program = 1 .. Len(Program)
  BY <1>1, ProgramFacts DEF TypeInv, CallInv
<1>5. PICK k \in DOMAIN Program : Program[k].op = "stop" /\ (k = Index \/ (k < Index /\ results[k] = 0)) /\ ServedAt(k)
  <2>1. CASE Stopped
    <3>1. PICK k \in DOMAIN results : Program[k].op = "stop" /\ results[k] = 0
      BY <2>1 DEF Stopped
    <3>2. k \in DOMAIN Program /\ k < Index
      BY <1>4, <3>1 DEF Index
    <3>3. ServedAt(k)
      BY <1>3, <3>1 DEF ServeInv, ServedInv
    <3> QED BY <3>1, <3>2, <3>3
  <2>2. CASE Index <= Len(Program) /\ Program[Index].op = "stop"
    <3>1. Index \in DOMAIN Program
      BY <1>4, <2>2 DEF Index
    <3>2. ServedAt(Index)
      BY <1>1, <1>3, <2>2, ServedNow
    <3> QED BY <2>2, <3>1, <3>2
  <2> QED BY <1>3, <2>1, <2>2
<1>6. PICK n \in Nat, m \in Nat : k = n + 1 /\ k - 1 = n /\ m = Rounds
  BY <1>1, <1>4, CountNumbers
<1>7. Cardinality(Addressed(c, k - 1)) \in Nat /\ Waits(k) \in Nat
  <2>1. Cardinality(Addressed(c, n)) \in Nat
    BY <1>1, AddressedFinite
  <2>2. Waits(n + 1) \in Nat
    BY WaitsNext
  <2> QED BY <1>6, <2>1, <2>2
<1>8. Answers(k) \in Nat
  <2>1. IsFiniteSet(Conn)
    BY <1>1, ConnFinite
  <2>2. PICK f : f = Owed(k)
    OBVIOUS
  <2>3. ASSUME NEW d \in Conn PROVE Least(m, Cardinality(Addressed(d, n))) \in 0 .. m
    <3>1. Cardinality(Addressed(d, n)) \in Nat
      BY <1>1, AddressedFinite
    <3> QED BY <3>1 DEF Least
  <2>4. f \in [Conn -> 0 .. m]
    BY <1>6, <2>2, <2>3 DEF Owed
  <2>5. \A d \in Conn : f[d] <= f[d]
    BY <2>4
  <2>6. Cardinality(Pairs(Conn, f)) \in Nat
    BY <2>1, <2>4, <2>5, PairsFacts
  <2> QED BY <2>2, <2>6 DEF Answers
<1>9. ~(Cardinality(Addressed(c, k - 1)) >= Rounds /\ Waits(k) >= Answers(k))
  <2>1. rounds[c] # Rounds
    BY <1>1, <1>2, CountNumbers
  <2> QED BY <1>5, <2>1 DEF ServedAt
<1>10. Cardinality(Addressed(c, k - 1)) < Rounds \/ Waits(k) < Answers(k)
  <2>1. PICK x \in Nat, y \in Nat, z \in Nat : x = Cardinality(Addressed(c, k - 1)) /\ y = Waits(k) /\ z = Answers(k)
    BY <1>7, <1>8
  <2> QED BY <1>6, <1>9, <2>1
<1> QED BY <1>5, <1>10

\* A worker finds its connection closed while it waits for a message only if the program
\* stopped the pool before it had waited for all answers, or never addressed enough
\* messages to it, whatever the threads of the pool and the workers do.
THEOREM WorkersAreServed == Spec => []WorkersServed
<1> QED BY ServeInvHolds, ServeServed, PTL

-----------------------------------------------------------------------------
(* The ends of the program: readers and their sockets, dead connections *)

\* A reader has its connections open until it returns.
ClosedInv == \A t \in Thr :
  /\ ~running => rpc[t] = "none"
  /\ rpc[t] \notin {"done", "joined"} => SocksOf(t) \subseteq opened

\* A frame is cut on a dead connection, or on one the pool has closed.
CutInv == \A c \in Conn : cut[c] # "no" => c \in reset \/ (c \notin opened /\ c <= Len(results))

\* The worker of a dead connection has left a message unread that was handed to its sender.
EarlyInv == \A c \in reset :
  /\ running /\ peer[c] = "gone"
  /\ IdsUsable => \E t \in Thr : c \in SocksOf(t) /\ \E k \in Addressed(c, Handed(t)) : k \notin Range(got[c])

\* What ends the program outside the calls has to do with a dead connection.
DeadInv == killed \in {"start_read", "sigpipe"} => reset # {}

\* A reader's connections are open: kept by every step.
LEMMA ClosedStep == TypeInv /\ PlaceInv /\ ClosedInv /\ [Next]_vars => ClosedInv'
<1> SUFFICES ASSUME TypeInv, PlaceInv, ClosedInv, [Next]_vars, NEW t \in Thr
             PROVE  /\ ~running' => rpc'[t] = "none"
                    /\ rpc'[t] \notin {"done", "joined"} => SocksOf(t)' \subseteq opened'
  BY DEF ClosedInv
<1>2. /\ ~running => rpc[t] = "none"
      /\ rpc[t] \notin {"done", "joined"} => SocksOf(t) \subseteq opened
  BY DEF ClosedInv
<1>3. ~add_conn => SocksOf(t)' = SocksOf(t)
  BY SocksChange DEF SocksOf
<1>4. DOMAIN rpc = Thr
  BY DEF TypeInv, RecvInv
<1>5. running => running'
  BY RunningStep
<1>6. CASE add_conn
  <2>1. rpc' = rpc /\ opened' = opened \union {Index} /\ running' = running
    BY <1>6 DEF add_conn
  <2>2. SocksOf(t)' \subseteq SocksOf(t) \union {Index}
    <3>1. ASSUME NEW i \in DOMAIN socks'[t] PROVE socks'[t][i] \in SocksOf(t) \union {Index}
      BY <1>6, AddPlace DEF SocksOf
    <3> QED BY <3>1 DEF SocksOf
  <2> QED BY <1>2, <2>1, <2>2
<1>7. CASE AddRefused
  BY <1>2, <1>3, <1>7 DEF AddRefused, add_conn, poolVars
<1>8. CASE start_all
  <2>1. rpc'[t] = "select" /\ opened' = opened /\ running' /\ ~running /\ ~add_conn
    BY <1>8 DEF start_all, add_conn, Calls
  <2> QED BY <1>2, <1>3, <2>1
<1>9. CASE StopJoins
  <2>1. (rpc'[t] = rpc[t] \/ rpc'[t] = "joined") /\ opened' = opened /\ running /\ ~add_conn
    BY <1>4, <1>9 DEF StopJoins, add_conn
  <2> QED BY <1>2, <1>3, <1>5, <2>1
<1>10. CASE Main /\ ~add_conn /\ ~AddRefused /\ ~start_all /\ ~StopJoins
  <2>1. rpc' = rpc /\ opened' = opened
    BY <1>10 DEF Main, Refused, send, thr_broadcast, broadcast, StopSignals, StopReturns, Wait, poolRest, rVars
  <2> QED BY <1>2, <1>3, <1>5, <1>10, <2>1
<1>11. ASSUME ~Main, rpc' = rpc, opened' = opened
       PROVE  /\ ~running' => rpc'[t] = "none"
              /\ rpc'[t] \notin {"done", "joined"} => SocksOf(t)' \subseteq opened'
  BY <1>2, <1>3, <1>5, <1>11 DEF Main
<1>12. ASSUME NEW u \in Thr, Sender(u) PROVE rpc' = rpc /\ opened' = opened
  BY <1>12 DEF Sender, Pop, WriteSock, WriteNowhere, rVars
<1>13. ASSUME NEW c \in Conn, Worker(c) PROVE rpc' = rpc /\ opened' = opened
  BY <1>13 DEF Worker, PeerReads, PeerReadsEnd, PeerWrites, peerRest, rVars
<1>14. ASSUME ~Main, NEW u \in Thr, Select(u) \/ ReadSock(u) \/ ReadRound(u)
       PROVE  /\ ~running' => rpc'[t] = "none"
              /\ rpc'[t] \notin {"done", "joined"} => SocksOf(t)' \subseteq opened'
  <2>1. opened' = opened /\ rpc[u] \in {"select", "read"}
    BY <1>14 DEF Select, ReadSock, ReadRound
  <2>2. rpc'[t] = rpc[t] \/ rpc[t] \in {"select", "read"}
    BY <1>4, <1>14 DEF Select, ReadSock, ReadRound
  <2>3. running
    BY <2>1 DEF ClosedInv
  <2> QED BY <1>2, <1>3, <1>5, <1>14, <2>1, <2>2, <2>3 DEF Main
<1>15. ASSUME ~Main, NEW u \in Thr, ReaderExits(u)
       PROVE  /\ ~running' => rpc'[t] = "none"
              /\ rpc'[t] \notin {"done", "joined"} => SocksOf(t)' \subseteq opened'
  <2>1. opened' = opened \ SocksOf(u) /\ rpc[u] = "read" /\ rpc' = [rpc EXCEPT ![u] = "done"]
    BY <1>15 DEF ReaderExits
  <2>2. running
    BY <2>1 DEF ClosedInv
  <2>3. CASE t = u
    BY <1>4, <1>5, <2>1, <2>2, <2>3
  <2>4. CASE t # u
    <3>1. SocksOf(t) \cap SocksOf(u) = {}
      BY <2>2, <2>4, OneThread
    <3> QED BY <1>2, <1>3, <1>4, <1>5, <1>15, <2>1, <2>2, <2>4, <3>1 DEF Main
  <2> QED BY <2>3, <2>4
<1>16. CASE UNCHANGED vars
  <2>1. rpc' = rpc /\ opened' = opened /\ socks' = socks
    BY <1>16 DEF vars
  <2> QED BY <1>2, <1>5, <2>1 DEF SocksOf
<1> QED BY <1>6, <1>7, <1>8, <1>9, <1>10, <1>11, <1>12, <1>13, <1>14, <1>15, <1>16 DEF Next, Reader

\* What a step does to the parts of frames.
LEMMA CutSteps ==
  ASSUME TypeInv, [Next]_vars, NEW c \in Conn
  PROVE  \/ cut'[c] = cut[c] \/ cut'[c] = "no" \/ c \in reset'
         \/ \E t \in Thr : ReaderExits(t) /\ c \in SocksOf(t)
         \/ PeerWrites(c) /\ c \notin opened
<1>1. DOMAIN cut = Conn
  BY DEF TypeInv, PeerInv
<1>2. CASE Main
  BY <1>2 DEF Main, Refused, AddRefused, add_conn, start_all, send, thr_broadcast, broadcast, StopSignals, StopJoins,
              StopReturns, Wait, poolRest, netVars
<1>3. ASSUME NEW t \in Thr, Pop(t) \/ WriteNowhere(t) \/ Select(t) \/ ReadRound(t) PROVE cut' = cut
  BY <1>3 DEF Pop, WriteNowhere, Select, ReadRound, netVars
<1>4. ASSUME NEW t \in Thr, WriteSock(t) PROVE cut'[c] = cut[c] \/ c \in reset'
  <2>1. PICK w : w = socks[t][widx[t] + 1]
    OBVIOUS
  <2>2. cut' = cut \/ (w \in reset' /\ \E x : cut' = [cut EXCEPT ![w] = x])
    BY <1>4, <2>1 DEF WriteSock, netVars
  <2> QED BY <1>1, <2>2
<1>5. ASSUME NEW t \in Thr, ReadSock(t) PROVE cut'[c] = cut[c] \/ cut'[c] = "no"
  <2>1. PICK d : d = Next1(t)
    OBVIOUS
  <2>2. cut' = cut \/ cut' = [cut EXCEPT ![d] = "no"]
    BY <1>5, <2>1 DEF ReadSock
  <2> QED BY <1>1, <2>2
<1>6. ASSUME NEW t \in Thr, ReaderExits(t), c \notin SocksOf(t) PROVE cut'[c] = cut[c]
  BY <1>6, ExitLeaves
<1>7. ASSUME NEW d \in Conn, PeerReads(d) \/ PeerReadsEnd(d) PROVE cut' = cut
  BY <1>7 DEF PeerReads, PeerReadsEnd, netVars
<1>8. ASSUME NEW d \in Conn, PeerWrites(d) PROVE cut'[c] = cut[c] \/ c \in reset' \/ (d = c /\ c \notin opened)
  <2>1. cut' = cut \/ (\E x : cut' = [cut EXCEPT ![d] = x] /\ (d \in reset' \/ d \notin opened))
    BY <1>8 DEF PeerWrites
  <2> QED BY <1>1, <2>1
<1>9. CASE UNCHANGED vars
  BY <1>9 DEF vars
<1> QED BY <1>2, <1>3, <1>4, <1>5, <1>6, <1>7, <1>8, <1>9 DEF Next, Sender, Reader, Worker

\* What is dead stays dead; a connection dies when its worker leaves with messages unread, or when
\* its sender writes to a worker that has left.
LEMMA ResetSteps ==
  ASSUME TypeInv, [Next]_vars
  PROVE  /\ reset \subseteq reset'
         /\ \A c \in reset' \ reset :
              \/ \E t \in Thr : WriteSock(t) /\ c = socks[t][widx[t] + 1] /\ c \in opened /\ peer[c] \in {"gone", "failed"}
              \/ PeerWrites(c) /\ c \in opened /\ rounds[c] + 1 = Rounds /\ toPeer[c] # <<>> /\ toPeer' = toPeer
<1>2. CASE Main
  BY <1>2 DEF Main, Refused, AddRefused, add_conn, start_all, send, thr_broadcast, broadcast, StopSignals, StopJoins,
              StopReturns, Wait, poolRest, netVars
<1>3. ASSUME NEW t \in Thr, Pop(t) \/ WriteNowhere(t) \/ Reader(t) PROVE reset' = reset
  BY <1>3 DEF Reader, Pop, WriteNowhere, Select, ReadSock, ReadRound, ReaderExits, netVars
<1>4. ASSUME NEW t \in Thr, WriteSock(t), NEW w, w = socks[t][widx[t] + 1]
      PROVE  reset' = reset \/ (reset' = reset \union {w} /\ w \in opened /\ peer[w] \in {"gone", "failed"})
  BY <1>4 DEF WriteSock, netVars
<1>5. ASSUME NEW d \in Conn, PeerReads(d) \/ PeerReadsEnd(d) PROVE reset' = reset
  BY <1>5 DEF PeerReads, PeerReadsEnd, netVars
<1>6. ASSUME NEW d \in Conn, PeerWrites(d)
      PROVE  reset' = reset \/ (/\ reset' = reset \union {d} /\ d \in opened /\ rounds[d] + 1 = Rounds
                               /\ toPeer[d] # <<>> /\ toPeer' = toPeer)
  BY <1>6 DEF PeerWrites
<1>7. CASE UNCHANGED vars
  BY <1>7 DEF vars
<1>8. ASSUME NEW t \in Thr, WriteSock(t)
      PROVE  /\ reset \subseteq reset'
             /\ \A c \in reset' \ reset : c = socks[t][widx[t] + 1] /\ c \in opened /\ peer[c] \in {"gone", "failed"}
  BY <1>4, <1>8
<1> QED BY <1>2, <1>3, <1>5, <1>6, <1>7, <1>8 DEF Next, Sender, Worker

\* A worker that has left reads nothing more.
LEMMA GoneStays ==
  ASSUME TypeInv, [Next]_vars, NEW c \in Conn, peer[c] = "gone"
  PROVE  peer'[c] = "gone" /\ got'[c] = got[c]
<1>1. DOMAIN peer = Conn /\ DOMAIN got = Conn
  BY DEF TypeInv, PeerInv
<1>2. ASSUME NEW t \in Thr, ReadSock(t) \/ ReaderExits(t) \/ WriteSock(t) PROVE peer' = peer /\ got' = got
  BY <1>2 DEF ReadSock, ReaderExits, WriteSock, mainRest, peerVars
<1>3. ASSUME NEW d \in Conn, Worker(d) PROVE d # c /\ peer'[c] = peer[c] /\ got'[c] = got[c]
  BY <1>1, <1>3 DEF Worker, PeerReads, PeerReadsEnd, PeerWrites
<1> QED BY <1>2, <1>3, AnswerSteps

\* Only the calls give results.
LEMMA ReturnsMain ==
  ASSUME [Next]_vars, results' # results
  PROVE  Main
<1>1. ASSUME NEW u \in Thr, Sender(u) \/ Reader(u) PROVE results' = results
  BY <1>1 DEF Sender, Reader, Pop, WriteSock, WriteNowhere, Select, ReadSock, ReadRound, ReaderExits, mainRest, mainVars
<1>2. ASSUME NEW c \in Conn, Worker(c) PROVE results' = results
  BY <1>2 DEF Worker, PeerReads, PeerReadsEnd, PeerWrites, peerRest, mainVars
<1> QED BY <1>1, <1>2 DEF Next, vars

\* What was handed to a sender for a connection stays addressed to it.
LEMMA AddressedGrows ==
  ASSUME TypeInv, PlaceInv, running, [Next]_vars, NEW t \in Thr, NEW c \in SocksOf(t)
  PROVE  Addressed(c, Handed(t)) \subseteq Addressed(c, Handed(t))'
<1>1. PICK h \in Nat : h = Handed(t)
  BY HandedFacts
<1>2. CASE results' = results
  <2>1. Exit \in Msg /\ MsgOf(t, Exit)
    BY ProgramFacts DEF Exit, Msg, Messages, MsgOf, TypeInv, CallInv
  <2>2. h <= Handed(t)'
    BY <1>1, <2>1, MsgStays
  <2>3. Len(results) \in Nat
    BY HandedFacts
  <2>4. PICK g \in Nat : g = Handed(t)'
    BY <1>2, <2>3 DEF Handed, Index
  <2>5. Addressed(c, h) = {j \in 1 .. h : (j <= Len(results) => results[j] = 0) /\ Asks(j, t, c)}
    BY AddressedIs
  <2>6. Addressed(c, g)' = {j \in 1 .. g : (j <= Len(results') => results'[j] = 0) /\ Asks(j, t, c)}
    BY AddressedNext
  <2>7. Addressed(c, h) \subseteq Addressed(c, g)'
    BY <1>2, <2>2, <2>4, <2>5, <2>6
  <2>8. Addressed(c, g)' = Addressed(c, Handed(t))'
    BY <2>4 DEF Addressed
  <2> QED BY <1>1, <2>7, <2>8
<1>3. ASSUME NEW r \in Int, Return(r), Running /\ Index <= Len(Program)
      PROVE  Addressed(c, Handed(t)) \subseteq Addressed(c, Handed(t))'
  <2>1. CASE Handed(t) = Len(results)
    BY <1>3, <2>1, AddressedReturn
  <2>2. CASE Handed(t) = Index /\ Program[Index].op = "broadcast"
    <3>1. results' # results
      BY <1>3 DEF Return, TypeInv, CallInv
    <3>2. Main
      BY <3>1, ReturnsMain
    <3>3. Return(0)
      BY <2>2, <3>1, <3>2 DEF Main, Refused, AddRefused, add_conn, start_all, send, thr_broadcast, broadcast,
          StopSignals, StopJoins, StopReturns, Wait, Calls, mainVars
    <3> QED BY <2>2, <3>3, AddressedReturn
  <2> QED BY <2>1, <2>2, HandedFacts DEF Index
<1> QED BY <1>2, <1>3, ResultsStep

\* Where frames are cut: kept by every step.
LEMMA CutStep ==
  TypeInv /\ PlaceInv /\ IdleInv /\ StrayInv /\ ClosedInv /\ CutInv /\ [Next]_vars => CutInv'
<1> SUFFICES ASSUME TypeInv, PlaceInv, IdleInv, StrayInv, ClosedInv, CutInv, [Next]_vars, NEW c \in Conn, cut'[c] # "no"
             PROVE  c \in reset' \/ (c \notin opened' /\ c <= Len(results'))
  BY ProgStep, ProgSame DEF CutInv
<1>1. reset \subseteq reset'
  BY ResetSteps
<1>2. c \in Nat /\ Len(results) \in Nat /\ Len(results') \in Nat /\ Len(results) <= Len(results') /\ Index = Len(results) + 1
  BY ProgramFacts, ResultsGrow DEF TypeInv, CallInv, Index
<1>3. opened' \subseteq opened \union {Index}
  BY OpenedSteps DEF ReaderExits
<1>4. CASE c \notin opened /\ c <= Len(results)
  BY <1>2, <1>3, <1>4
<1>5. CASE cut'[c] = cut[c]
  BY <1>1, <1>4, <1>5 DEF CutInv
<1>6. ASSUME NEW t \in Thr, ReaderExits(t), c \in SocksOf(t) PROVE c \notin opened' /\ c <= Len(results')
  <2>1. opened' = opened \ SocksOf(t) /\ rpc[t] = "read"
    BY <1>6 DEF ReaderExits
  <2>2. running
    BY <2>1 DEF ClosedInv
  <2>3. c <= Len(results)
    BY <1>6, <2>2, OneThread
  <2> QED BY <1>2, <1>6, <2>1, <2>3
<1>7. CASE PeerWrites(c) /\ c \notin opened
  <2>1. got[c] # <<>>
    BY <1>7 DEF PeerWrites, TypeInv, PeerInv
  <2>2. running
    BY <2>1 DEF IdleInv, Quiet
  <2>3. PICK t \in Thr : c \in SocksOf(t)
    BY <2>1 DEF StrayInv
  <2>4. c <= Len(results)
    BY <2>2, <2>3, OneThread
  <2> QED BY <1>4, <1>7, <2>4
<1> QED BY <1>5, <1>6, <1>7, CutSteps

\* A worker that leaves a message unread leaves one that was handed to its sender;
LEMMA EarlyLeave ==
  ASSUME CastInv, [Next]_vars, NEW c \in Conn, PeerWrites(c), rounds[c] + 1 = Rounds, toPeer[c] # <<>>, toPeer' = toPeer
  PROVE  /\ running /\ running' /\ peer'[c] = "gone"
         /\ IdsUsable' => \E t \in Thr : c \in SocksOf(t)' /\ \E k \in Addressed(c, Handed(t))' : k \notin Range(got'[c])
<1>1. TypeInv /\ PlaceInv /\ IdleInv /\ StrayInv /\ DelivInv
  BY DEF CastInv, PoolInv
<1>2. peer'[c] = "gone" /\ got' = got /\ results' = results /\ loop' = loop /\ socks' = socks
  BY <1>1 DEF PeerWrites, peerRest, mainVars, poolVars, TypeInv, PeerInv
<1>3. running /\ running'
  BY <1>1, RunningStep DEF IdleInv, Quiet
<1>4. PICK t \in Thr : c \in SocksOf(t)
  BY <1>1 DEF StrayInv
<1>5. ASSUME IdsUsable' PROVE \E k \in Addressed(c, Handed(t))' : k \notin Range(got'[c])
  <2>1. DelivOf(t, c)
    BY <1>1, <1>3, <1>4, <1>5, UsableSame DEF DelivInv
  <2>2. PICK g, f : g = got[c] /\ f = toPeer[c] /\ f \in Seq(Int) /\ g \in Seq(Int)
    BY <1>1, SentFacts
  <2>3. 1 \in DOMAIN f /\ f[1] \in Int
    BY <2>2
  <2>4. f[1] \in Addressed(c, Handed(t))
    BY <2>1, <2>2, <2>3 DEF DelivOf, Deliv, Sent, Range
  <2>5. \A i \in DOMAIN g : g[i] < f[1] /\ g[i] \in Int
    BY <2>1, <2>2, <2>3 DEF DelivOf, Rising
  <2>6. f[1] \notin Range(g)
    BY <2>3, <2>5 DEF Range
  <2>7. Addressed(c, Handed(t))' = Addressed(c, Handed(t))
    BY <1>1, <1>2, <1>3, <1>4, AddressedSame
  <2> QED BY <1>2, <2>2, <2>4, <2>6, <2>7
<1>6. SocksOf(t)' = SocksOf(t)
  BY <1>2 DEF SocksOf
<1> QED BY <1>2, <1>3, <1>4, <1>5, <1>6

\* so does one to whom the sender writes after it has left.
LEMMA EarlyWrite ==
  ASSUME CastInv, FailInv, [Next]_vars, NEW t \in Thr, WriteSock(t), NEW c \in Conn, c = socks[t][widx[t] + 1],
         c \in opened, peer[c] \in {"gone", "failed"}
  PROVE  /\ running /\ running' /\ peer'[c] = "gone"
         /\ IdsUsable' => c \in SocksOf(t)' /\ \E k \in Addressed(c, Handed(t))' : k \notin Range(got'[c])
<1>1. TypeInv /\ PlaceInv /\ NamesInv /\ IdleInv /\ QueueInv /\ DelivInv
  BY DEF CastInv, PoolInv
<1>2. Running /\ wpc[t] = "write" /\ peer' = peer /\ got' = got /\ results' = results /\ loop' = loop /\ socks' = socks
  BY DEF WriteSock, mainRest, mainVars, poolVars, peerVars
<1>3. peer[c] = "gone"
  BY <1>2 DEF FailInv
<1>4. running /\ running'
  BY <1>1, <1>2, RunningStep DEF IdleInv, Quiet
<1>5. c \in SocksOf(t)
  <2>1. widx[t] \in Nat /\ Len(socks[t]) \in Nat /\ DOMAIN socks[t] = 1 .. Len(socks[t]) /\ widx[t] < Len(socks[t])
    BY <1>1, SenderFacts, SockFacts DEF WriteSock
  <2>2. widx[t] + 1 \in DOMAIN socks[t]
    BY <2>1
  <2> QED BY <2>2 DEF SocksOf
<1>6. ASSUME IdsUsable' PROVE \E k \in Addressed(c, Handed(t))' : k \notin Range(got'[c])
  <2>1. IdsUsable /\ DelivOf(t, c)
    BY <1>1, <1>4, <1>5, <1>6, UsableSame DEF DelivInv
  <2>2. Writing(t, c)
    BY <1>1, <1>5, PendingWrite DEF QueueInv
  <2>3. PICK k : k = wmsg[t].data
    OBVIOUS
  <2>4. k \in Addressed(c, Handed(t)) /\ k \in Pending(t, c)
    BY <1>1, <1>4, <1>5, <2>1, <2>2, <2>3, PendingIn DEF Pending
  <2>5. k \in Int
    BY <1>1, <2>4, AddressedFacts
  <2>6. \A d \in Range(got[c]) : d < k
    BY <2>1, <2>4 DEF DelivOf, Deliv, Sent
  <2>7. k \notin Range(got[c])
    BY <2>5, <2>6
  <2>8. Addressed(c, Handed(t))' = Addressed(c, Handed(t))
    BY <1>1, <1>2, <1>4, <1>5, AddressedSame
  <2> QED BY <1>2, <2>4, <2>7, <2>8
<1>7. SocksOf(t)' = SocksOf(t)
  BY <1>2 DEF SocksOf
<1> QED BY <1>2, <1>3, <1>4, <1>5, <1>6, <1>7

\* Who leaves early: kept by every step.
LEMMA EarlyStep == CastInv /\ FailInv /\ EarlyInv /\ [Next]_vars => EarlyInv'
<1> SUFFICES ASSUME CastInv, FailInv, EarlyInv, [Next]_vars, NEW c \in reset'
             PROVE  /\ running' /\ peer'[c] = "gone"
                    /\ IdsUsable' => \E t \in Thr : c \in SocksOf(t)' /\ \E k \in Addressed(c, Handed(t))' : k \notin Range(got'[c])
  BY DEF EarlyInv
<1>1. TypeInv /\ PlaceInv
  BY DEF CastInv, PoolInv
<1>2. TypeInv' /\ Conn' = Conn
  BY <1>1, TypeStep, ProgStep, ProgSame
<1>3. c \in Conn
  BY <1>2 DEF TypeInv, PeerInv
<1>4. CASE c \in reset
  <2>1. running /\ peer[c] = "gone"
    BY <1>4 DEF EarlyInv
  <2>2. running' /\ peer'[c] = "gone" /\ got'[c] = got[c]
    BY <1>1, <1>3, <2>1, RunningStep, GoneStays
  <2>3. ASSUME IdsUsable'
        PROVE  \E t \in Thr : c \in SocksOf(t)' /\ \E k \in Addressed(c, Handed(t))' : k \notin Range(got'[c])
    <3>1. PICK t \in Thr : c \in SocksOf(t) /\ \E k \in Addressed(c, Handed(t)) : k \notin Range(got[c])
      BY <1>1, <1>4, <2>1, <2>3, UsableSame DEF EarlyInv
    <3>2. Addressed(c, Handed(t)) \subseteq Addressed(c, Handed(t))'
      BY <1>1, <2>1, <3>1, AddressedGrows
    <3>3. SocksOf(t)' = SocksOf(t)
      BY <2>1, SocksChange DEF SocksOf, add_conn
    <3> QED BY <2>2, <3>1, <3>2, <3>3
  <2> QED BY <2>2, <2>3
<1>5. CASE c \notin reset
  <2>1. CASE PeerWrites(c) /\ rounds[c] + 1 = Rounds /\ toPeer[c] # <<>> /\ toPeer' = toPeer
    BY <1>3, <2>1, EarlyLeave
  <2>2. ASSUME NEW t \in Thr, WriteSock(t), c = socks[t][widx[t] + 1], c \in opened, peer[c] \in {"gone", "failed"}
        PROVE  /\ running' /\ peer'[c] = "gone"
               /\ IdsUsable' => c \in SocksOf(t)' /\ \E k \in Addressed(c, Handed(t))' : k \notin Range(got'[c])
    BY <1>3, <2>2, EarlyWrite
  <2> QED BY <1>1, <1>5, <2>1, <2>2, ResetSteps
<1> QED BY <1>4, <1>5

\* The readers and the senders end the program at a dead connection: kept by every step.
LEMMA DeadStep == TypeInv /\ ClosedInv /\ CutInv /\ DeadInv /\ [Next]_vars => DeadInv'
<1> SUFFICES ASSUME TypeInv, ClosedInv, CutInv, DeadInv, [Next]_vars, killed' \in {"start_read", "sigpipe"}
             PROVE  reset' # {}
  BY DEF DeadInv
<1>1. reset \subseteq reset'
  BY ResetSteps
<1>2. SUFFICES ASSUME killed' # killed PROVE reset # {}
  BY <1>1 DEF DeadInv
<1>3. CASE Main
  BY <1>2, <1>3 DEF Main, Refused, AddRefused, add_conn, start_all, send, thr_broadcast, broadcast, StopSignals, StopJoins,
              StopReturns, Wait
<1>4. ASSUME NEW t \in Thr, WriteSock(t) PROVE reset # {}
  BY <1>2, <1>4 DEF WriteSock
<1>5. ASSUME NEW t \in Thr, ReadSock(t) PROVE reset # {}
  <2>1. PICK c : c = Next1(t)
    OBVIOUS
  <2>2. rset[t] \ {Pipe} # {} /\ cut[c] = "header" /\ rpc[t] = "read"
    BY <1>2, <1>5, <2>1 DEF ReadSock
  <2>3. c \in SocksOf(t) /\ c \in Conn
    BY <2>1, <2>2, ReadsOwn
  <2>4. c \in opened
    BY <2>2, <2>3 DEF ClosedInv
  <2> QED BY <2>2, <2>3, <2>4 DEF CutInv
<1>6. ASSUME NEW t \in Thr, Pop(t) \/ WriteNowhere(t) \/ Select(t) \/ ReadRound(t) \/ ReaderExits(t) PROVE killed' = killed
  BY <1>6 DEF Pop, WriteNowhere, Select, ReadRound, ReaderExits
<1>7. ASSUME NEW c \in Conn, Worker(c) PROVE killed' = killed
  BY <1>7 DEF Worker, PeerReads, PeerReadsEnd, PeerWrites, peerRest
<1>8. CASE UNCHANGED vars
  BY <1>2, <1>8 DEF vars
<1> QED BY <1>2, <1>3, <1>4, <1>5, <1>6, <1>7, <1>8 DEF Next, Sender, Reader

EndInv == ServeInv /\ ClosedInv /\ CutInv /\ EarlyInv /\ DeadInv

\* The invariant holds initially and always,
LEMMA EndInvHolds == Spec => []EndInv
<1>1. Init => ClosedInv /\ CutInv /\ EarlyInv /\ DeadInv
  <2> SUFFICES ASSUME Init PROVE ClosedInv /\ CutInv /\ EarlyInv /\ DeadInv
    OBVIOUS
  <2>1. ClosedInv
    BY DEF Init, ClosedInv, SocksOf
  <2>2. CutInv /\ EarlyInv /\ DeadInv
    BY DEF Init, CutInv, EarlyInv, DeadInv
  <2> QED BY <2>1, <2>2
<1>2. EndInv /\ [Next]_vars /\ ServeInv' => EndInv'
  <2>1. ServeInv => TypeInv /\ PlaceInv /\ IdleInv /\ StrayInv /\ CastInv /\ FailInv
    BY DEF ServeInv, CastInv, PoolInv
  <2> QED BY <2>1, ClosedStep, CutStep, EarlyStep, DeadStep DEF EndInv
<1> QED BY <1>1, <1>2, ServeInit, ServeInvHolds, PTL DEF Spec, EndInv

\* and implies that the program ends only in the ways AssertsHold names.
LEMMA EndAsserts == EndInv => AssertsHold
<1> SUFFICES ASSUME EndInv PROVE AssertsHold
  OBVIOUS
<1>1. TypeInv /\ CallsEnd /\ EarlyInv /\ DeadInv
  BY DEF EndInv, ServeInv, CastInv, PoolInv
<1>2. ASSUME NEW c \in reset PROVE LeftEarly(c)
  <2>1. peer[c] = "gone"
    BY <1>1 DEF EarlyInv
  <2>2. ASSUME IdsUsable PROVE \E k \in Addressed(c, Least(Index, Len(Program))) : k \notin Range(got[c])
    <3>1. PICK t \in Thr : \E k \in Addressed(c, Handed(t)) : k \notin Range(got[c])
      BY <1>1, <2>2 DEF EarlyInv
    <3>2. PICK h \in Nat, n \in Nat, L \in Nat : h = Handed(t) /\ n = Len(results) /\ L = Len(Program) /\ Index = n + 1
      BY <1>1, HandedFacts DEF Index
    <3>3. h <= L /\ (h = n \/ h = n + 1)
      BY <1>1, <3>2, HandedFacts
    <3>4. PICK m \in Nat : m = Least(Index, L) /\ h <= m
      BY <3>2, <3>3 DEF Least
    <3>5. Addressed(c, h) \subseteq Addressed(c, m)
      BY <3>4 DEF Addressed
    <3> QED BY <3>1, <3>2, <3>4, <3>5
  <2> QED BY <2>1, <2>2 DEF LeftEarly
<1>3. killed \in {"start_read", "sigpipe"} => \E c \in reset : LeftEarly(c)
  BY <1>1, <1>2 DEF DeadInv
<1> QED BY <1>1, <1>3 DEF CallsEnd, Stopped, AssertsHold

\* Whatever threads and workers do, for every pool and program: the assertion of add_conn fails
\* only if num_conns did not start at 0; add_conn writes behind sockaddrs only if it started above
\* max_conns; the assertion of stop_all fails only after an earlier stop_all has returned 0; and the
\* readers' assert(rsize > 0) fails, or SIGPIPE comes, only after a worker has closed a connection
\* without having read a message that was addressed to it.
THEOREM AssertionsHold == Spec => []AssertsHold
<1> QED BY EndInvHolds, EndAsserts, PTL
================================================================================
