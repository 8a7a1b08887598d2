---------------------------- MODULE MCCommHandler ----------------------------
(***************************************************************************)
(* Small systems of comm_handlers, after the programs in comm_zmq/test.    *)
(* A node is named by one letter, its application threads by that letter   *)
(* and a number.                                                           *)
(***************************************************************************)
EXTENDS CommHandler

call(o, p) == [op |-> o, peer |-> p]

\* test/chain: a root server r, a server m that is also a client of r, and a
\* client c of m, which may not accept connections itself.
ChainNode     == {"r", "m", "c"}
ChainAcceptor == {"r", "m"}
ChainThread   == {"r1", "m1", "c1"}
ChainNodeOf   == [r1 |-> "r", m1 |-> "m", c1 |-> "c"]
ChainProgram  ==
  [r1 |-> <<call("accept", "r"), call("send", "m"), call("send", "m"), call("recv", "r"),
            call("shutdown", "r")>>,
   m1 |-> <<call("accept", "m"), call("connect", "r"), call("recv", "m"), call("recv", "m"),
            call("send", "c"), call("recv", "m"), call("send", "r")>>,
   c1 |-> <<call("connect", "m"), call("recv", "c"), call("send", "m"), call("accept", "c")>>]

\* Two threads of one client connect to the same server at the same time, one
\* of them sends; the server takes the message, or the second greeting, which
\* is none for it any more.
PairNode     == {"a", "b"}
PairAcceptor == {"b"}
PairThread   == {"a1", "a2", "b1"}
PairNodeOf   == [a1 |-> "a", a2 |-> "a", b1 |-> "b"]
PairProgram  ==
  [a1 |-> <<call("connect", "b"), call("send", "b")>>,
   a2 |-> <<call("connect", "b")>>,
   b1 |-> <<call("accept", "b"), call("recv_async", "b"), call("recv", "b")>>]

\* A server that first waits for both its clients and then receives, as the
\* servers of test/basic and test/benchmark do; one client sends at once.
TwoNode     == {"s", "a", "b"}
TwoAcceptor == {"s"}
TwoThread   == {"s1", "a1", "b1"}
TwoNodeOf   == [s1 |-> "s", a1 |-> "a", b1 |-> "b"]
TwoProgram  ==
  [s1 |-> <<call("accept", "s"), call("accept", "s"), call("recv", "s")>>,
   a1 |-> <<call("connect", "s"), call("send", "s")>>,
   b1 |-> <<call("connect", "s")>>]

NoFaults  == {}
AllFaults == {"setup", "monitor", "poll", "recv", "connect", "push"}
=============================================================================
