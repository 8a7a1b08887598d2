------------------------------ MODULE IdCodec ------------------------------
(***************************************************************************)
(* How comm_handler turns an application's ids into 0MQ identities and     *)
(* back (IDE2I, IDI2E).  0MQ reserves identities that begin with a zero    *)
(* byte; the id, a 32-bit int, is shifted left by four bits and the lowest *)
(* bit of its first byte in memory is set.  A client sets IDE2I of its id  *)
(* on its socket; the server keys clientmap by the identity, shows         *)
(* IDI2E of it to the application, and turns what the application passes   *)
(* to send into an identity again.  Messages of clients and published ones *)
(* (under IDE2I of their group) reach recv and recv_async, which decode    *)
(* differently.                                                            *)
(*                                                                         *)
(* K stands for 2^27, a sixteenth of the range of the non-negative ints.   *)
(* Definitions named X_<Bug> are X with a plausible programming error.     *)
(***************************************************************************)
EXTENDS Integers, Sequences, Functions

CONSTANTS K,        \* 2^27 in the code
          Clients,  \* clients of one server
          Ids,      \* the ids they may be given
          MaxSent   \* messages of one client, its greeting included

Int32 == -(16 * K) .. (16 * K) - 1

ASSUME KAssumption == K \in Nat \ {0}
ASSUME IdsAssumption == Ids \subseteq Int32
ASSUME MaxSentAssumption == MaxSent \in Nat

\* The lowest 28 bits of x as a signed number: what a shift by four keeps.
Low28(x) == ((x + K) % (2 * K)) - K

IDE2I_NoShift(x) == IF x % 2 = 0 THEN x + 1 ELSE x

IDE2I_Shift3(x) == 8 * Low28(x) + 1

\* x << 4 | 0x1: the highest four bits are lost, the lowest four are free.
IDE2I(x) == 16 * Low28(x) + 1

IDI2E_Logical(x) == (x % (32 * K)) \div 16

\* x >> 4, arithmetic.
IDI2E(x) == x \div 16

VARIABLES
  idOf,        \* config_param_t::id of a client
  sent,        \* messages of a client that have arrived
  clientmap,   \* identities the server knows
  clientq,     \* ids of new clients, for get_one_connection
  taskq,       \* identities under which messages wait for recv
  shown        \* [client, by, as]: the ids the calls have returned

vars == <<idOf, sent, clientmap, clientq, taskq, shown>>

Init ==
  /\ idOf \in [Clients -> Ids]
  /\ sent = [c \in Clients |-> 0]
  /\ clientmap = {}
  /\ clientq = <<>>
  /\ taskq = <<>>
  /\ shown = {}

Identity(c) == IDE2I(idOf[c])

Register(c) ==
  /\ clientmap' = clientmap \union {Identity(c)}
  /\ clientq' = Append(clientq, [client |-> c, as |-> IDI2E(Identity(c))])

\* A message of c at the server's router socket: a new client, or a task.
Arrives(c) ==
  /\ sent[c] < MaxSent
  /\ sent' = [sent EXCEPT ![c] = @ + 1]
  /\ \/ /\ Identity(c) \notin clientmap
        /\ Register(c)
        /\ UNCHANGED taskq
     \/ /\ Identity(c) \in clientmap
        /\ taskq' = Append(taskq, [client |-> c, identity |-> Identity(c)])
        /\ UNCHANGED <<clientmap, clientq>>
  /\ UNCHANGED <<idOf, shown>>

get_one_connection ==
  /\ clientq # <<>>
  /\ clientq' = Tail(clientq)
  /\ shown' = shown \union {[client |-> Head(clientq).client, by |-> "accept", as |-> Head(clientq).as]}
  /\ UNCHANGED <<idOf, sent, clientmap, taskq>>

Takes(by, as) ==
  /\ taskq # <<>>
  /\ taskq' = Tail(taskq)
  /\ shown' = shown \union {[client |-> Head(taskq).client, by |-> by, as |-> as]}
  /\ UNCHANGED <<idOf, sent, clientmap, clientq>>

\* recv leaves a negative identity as it is.
Decoded(i) == IF i >= 0 THEN IDI2E(i) ELSE i

recv == taskq # <<>> /\ Takes("recv", Decoded(Head(taskq).identity))

recv_async == taskq # <<>> /\ Takes("recv_async", IDI2E(Head(taskq).identity))

Next == (\E c \in Clients : Arrives(c)) \/ get_one_connection \/ recv \/ recv_async

Spec == Init /\ [][Next]_vars

-----------------------------------------------------------------------------
(* Correctness *)

\* The ids that fit beside the four bits, and those of them that are not
\* negative, the only ones for which all calls of comm_handler agree.
Fitting == -K .. K - 1
Proper  == 0 .. K - 1

\* What the variables hold; an identity is a 32-bit int with its last bit set.
TypeOK ==
  /\ idOf \in [Clients -> Ids]
  /\ sent \in [Clients -> 0 .. MaxSent]
  /\ clientmap \subseteq {i \in Int32 : i % 2 = 1}
  /\ clientq \in Seq([client : Clients, as : Fitting])
  /\ taskq \in Seq([client : Clients, identity : {i \in Int32 : i % 2 = 1}])
  /\ shown \subseteq [client : Clients, by : {"accept", "recv", "recv_async"}, as : Int32]

\* A proper id is shown to the application as it was given, by every call; a
\* negative one that fits by every call but recv.
RoundTrip ==
  \A s \in shown :
    /\ idOf[s.client] \in Proper => s.as = idOf[s.client]
    /\ idOf[s.client] \in Fitting /\ s.by # "recv" => s.as = idOf[s.client]

Registered == {c \in Clients : \/ \E e \in Range(clientq) : e.client = c
                               \/ \E s \in shown : s.client = c /\ s.by = "accept"}

\* When the ids fit and differ, no client is taken for another one in
\* clientmap: each becomes a client of its own as soon as a message of it has
\* arrived, in whatever order they greet.
OwnClient ==
  /\ \A c \in Clients : idOf[c] \in Fitting
  /\ \A c, d \in Clients : c # d => idOf[c] # idOf[d]
  => \A c \in Clients : sent[c] > 0 => c \in Registered

\* Whatever the id was, what get_one_connection and recv_async return, and recv
\* for a proper id, can be passed to send and names the client's identity
\* again: an answer goes where the message came from.
AnswersRouteBack ==
  \A s \in shown :
    s.by # "recv" \/ idOf[s.client] \in Proper => IDE2I(s.as) = Identity(s.client)
=============================================================================
