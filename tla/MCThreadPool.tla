---------------------------- MODULE MCThreadPool ----------------------------
(***************************************************************************)
(* Programs for module ThreadPool: two threads, at most three connections. *)
(***************************************************************************)
EXTENDS ThreadPool

Call(op, arg) == [op |-> op, arg |-> arg]
Add == Call("add", 0)

\* Every call, also where it is refused; each worker is written to twice and
\* its answers are waited for before the pool is stopped.
Echo ==
  <<Call("broadcast", 0), Add, Add, Add, Add, Call("stop", 0), Call("start", 0), Call("start", 0),
    Call("send", 1), Call("broadcast", 0), Call("thr_broadcast", 0),
    Call("send", 3), Call("thr_broadcast", 2),
    Call("wait", 0), Call("wait", 0), Call("wait", 0), Call("wait", 0), Call("wait", 0), Call("wait", 0),
    Call("stop", 0)>>

\* Workers that leave after one answer while messages for them are queued, on
\* the way or still to come, and a second stop_all; with the larger starts of
\* num_conns, add_conn finds the pool full, a thread full, or sockaddrs too short.
Leaving ==
  <<Add, Add, Add, Call("start", 0), Call("thr_broadcast", 0), Call("thr_broadcast", 0),
    Call("wait", 0), Call("thr_broadcast", 0), Call("stop", 0), Call("stop", 0)>>

\* scheduler.cpp with its default options.
Scheduler ==
  <<Add, Add, Call("start", 0), Call("broadcast", 0), Call("wait", 0), Call("stop", 0)>>

\* A message to each of three connections by its id.
ById ==
  <<Add, Add, Add, Call("start", 0), Call("send", 1), Call("send", 2), Call("broadcast", 0)>>

FourPrograms ==
  [echo      |-> [calls |-> Echo,      start |-> {0},       rounds |-> 2],
   leaving   |-> [calls |-> Leaving,   start |-> {0, 2, 5}, rounds |-> 1],
   scheduler |-> [calls |-> Scheduler, start |-> {0, 1},    rounds |-> 1],
   by_id     |-> [calls |-> ById,      start |-> {0, 1},    rounds |-> 2]]
=============================================================================
