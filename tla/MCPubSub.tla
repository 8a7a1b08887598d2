------------------------------ MODULE MCPubSub ------------------------------
(***************************************************************************)
(* Publishers and subscribers small enough for TLC.  A node is named by    *)
(* one letter, its application threads by that letter and a number.        *)
(***************************************************************************)
EXTENDS PubSub

NoPeer == "none"
call(o, p, gs, k) == [op |-> o, peer |-> p, groups |-> gs, num |-> k]

Accept         == call("accept", NoPeer, {}, 0)
Connect(p)     == call("connect", p, {}, 0)
Subscribe(p, G) == call("subscribe", p, G, 0)
InitPub(p, g, k) == call("init_pub", p, {g}, k)
Pub(g)         == call("publish", NoPeer, {g}, 0)
Recv           == call("recv", NoPeer, {}, 0)

NoFaults  == {}
AllFaults == {"poll", "recv", "connect", "pubsub"}
TwoGroups == {"g", "h"}

\* A publisher p and two subscribers a and b.
CastNode   == {"p", "a", "b"}
CastThread == {"p1", "p2", "a1", "b1"}
CastNodeOf == [p1 |-> "p", p2 |-> "p", a1 |-> "a", b1 |-> "b"]

\* Both subscribe to the one group and init_pub waits for both.
Cast ==
  [p1 |-> <<InitPub("p", "g", 2)>>,
   p2 |-> <<>>,
   a1 |-> <<Connect("p"), Subscribe("p", {"g"})>>,
   b1 |-> <<Connect("p"), Subscribe("p", {"g"})>>]

\* Two groups with a subscriber each; pub_sock is bound by the first init_pub
\* only.
Groups ==
  [p1 |-> <<InitPub("p", "g", 1), InitPub(NoPeer, "h", 1)>>,
   p2 |-> <<>>,
   a1 |-> <<Connect("p"), Subscribe("p", {"g"})>>,
   b1 |-> <<Connect("p"), Subscribe("p", {"h"})>>]

\* More subscribers of the first group than init_pub waits for.
More ==
  [p1 |-> <<InitPub("p", "g", 1), InitPub(NoPeer, "h", 1)>>,
   p2 |-> <<>>,
   a1 |-> <<Connect("p"), Subscribe("p", {"g"})>>,
   b1 |-> <<Connect("p"), Subscribe("p", {"g"})>>]

\* A second thread of the publisher connects to b while the first one waits
\* for subscribers.
Stray ==
  [p1 |-> <<InitPub("p", "g", 1)>>,
   p2 |-> <<Connect("b")>>,
   a1 |-> <<Connect("p"), Subscribe("p", {"g"})>>,
   b1 |-> <<>>]

CastPrograms == [cast |-> Cast, groups |-> Groups, more |-> More, stray |-> Stray]

\* One publisher with two threads and one subscriber.
DuoNode   == {"p", "a"}
DuoThread == {"p1", "p2", "a1"}
DuoNodeOf == [p1 |-> "p", p2 |-> "p", a1 |-> "a"]

\* The subscriber receives what is published.
Duo ==
  [p1 |-> <<InitPub("p", "g", 1), Pub("g"), Pub("g")>>,
   p2 |-> <<>>,
   a1 |-> <<Connect("p"), Subscribe("p", {"g"}), Recv, Recv>>]

\* A subscriber that connects twice: the second greeting is a task for p2.
Twice ==
  [p1 |-> <<InitPub("p", "g", 1)>>,
   p2 |-> <<Accept, Recv>>,
   a1 |-> <<Connect("p"), Connect("p"), Subscribe("p", {"g"})>>]

\* A subscriber that subscribes a second time, with an empty list of groups: it
\* may be to another group, which is published meanwhile.
Again ==
  [p1 |-> <<InitPub("p", "g", 1), Pub("h"), Pub("h")>>,
   p2 |-> <<>>,
   a1 |-> <<Connect("p"), Subscribe("p", {"g"}), Subscribe(NoPeer, {}), Recv>>]

\* A publisher that waits for the subscriber of a second group.
Second ==
  [p1 |-> <<InitPub("p", "g", 1), InitPub(NoPeer, "h", 1)>>,
   p2 |-> <<>>,
   a1 |-> <<Connect("p"), Subscribe("p", {"g", "h"})>>]

\* A publisher that waits for nobody at first: the subscriber of both groups is
\* still to be found.
Later ==
  [p1 |-> <<InitPub("p", "g", 0), InitPub(NoPeer, "h", 1)>>,
   p2 |-> <<>>,
   a1 |-> <<Connect("p"), Subscribe("p", {"g", "h"})>>]

DuoPrograms == [duo |-> Duo, twice |-> Twice, again |-> Again, second |-> Second, later |-> Later]
=============================================================================
