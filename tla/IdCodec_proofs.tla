--------------------------- MODULE IdCodec_proofs ---------------------------
(***************************************************************************)
(* Proofs about the ids and identities of comm_handler, for every width of *)
(* the registers (every K), any set of clients and any ids.                *)
(***************************************************************************)
EXTENDS IdCodec, SequenceTheorems, TLAPS

-----------------------------------------------------------------------------
(* Queues: what Head, Tail and Append do to the set of the elements *)

\* Taking the head leaves a queue with no new element.
LEMMA PopFacts ==
  ASSUME NEW S, NEW q \in Seq(S), q # <<>>
  PROVE  /\ Head(q) \in S
         /\ Tail(q) \in Seq(S)
         /\ Head(q) \in Range(q)
         /\ Range(Tail(q)) \subseteq Range(q)
<1>1. /\ Head(q) \in S
      /\ Tail(q) \in Seq(S)
      /\ Len(Tail(q)) = Len(q) - 1
      /\ \A i \in 1 .. Len(Tail(q)) : Tail(q)[i] = q[i + 1]
  BY HeadTailProperties
<1>2. Len(q) \in Nat \ {0} /\ DOMAIN q = 1 .. Len(q) /\ DOMAIN Tail(q) = 1 .. Len(Tail(q))
  BY <1>1, EmptySeq, LenProperties
<1>3. Head(q) = q[1]
  OBVIOUS
<1>4. Head(q) \in Range(q)
  BY <1>2, <1>3 DEF Range
<1>5. Range(Tail(q)) \subseteq Range(q)
  <2> SUFFICES ASSUME NEW k \in DOMAIN Tail(q)
               PROVE  \E j \in DOMAIN q : Tail(q)[k] = q[j]
    BY DEF Range
  <2>1. k + 1 \in DOMAIN q /\ Tail(q)[k] = q[k + 1]
    BY <1>1, <1>2
  <2> QED BY <2>1
<1> QED BY <1>1, <1>4, <1>5

\* Only the head leaves.
LEMMA PopKeeps ==
  ASSUME NEW S, NEW q \in Seq(S), q # <<>>
  PROVE  Range(q) = {Head(q)} \union Range(Tail(q))
<1>1. /\ Tail(q) \in Seq(S)
      /\ Len(Tail(q)) = Len(q) - 1
      /\ \A i \in 1 .. Len(Tail(q)) : Tail(q)[i] = q[i + 1]
  BY HeadTailProperties
<1>2. Len(q) \in Nat \ {0} /\ DOMAIN q = 1 .. Len(q) /\ DOMAIN Tail(q) = 1 .. Len(Tail(q))
  BY <1>1, EmptySeq, LenProperties
<1>3. Range(q) \subseteq {Head(q)} \union Range(Tail(q))
  <2> SUFFICES ASSUME NEW k \in DOMAIN q, q[k] # Head(q)
               PROVE  \E j \in DOMAIN Tail(q) : q[k] = Tail(q)[j]
    BY DEF Range
  <2>1. Head(q) = q[1]
    OBVIOUS
  <2>2. k # 1
    BY <2>1
  <2>3. k - 1 \in DOMAIN Tail(q) /\ Tail(q)[k - 1] = q[k]
    BY <1>1, <1>2, <2>2
  <2> QED BY <2>3
<1> QED BY <1>3, PopFacts

\* Appending adds exactly the one element.
LEMMA PushFacts ==
  ASSUME NEW S, NEW q \in Seq(S), NEW x \in S
  PROVE  /\ Append(q, x) \in Seq(S)
         /\ Append(q, x) # <<>>
         /\ Range(Append(q, x)) = Range(q) \union {x}
<1>1. /\ Append(q, x) \in Seq(S)
      /\ Append(q, x) # <<>>
      /\ Len(Append(q, x)) = Len(q) + 1
      /\ \A i \in 1 .. Len(q) : Append(q, x)[i] = q[i]
      /\ Append(q, x)[Len(q) + 1] = x
  BY AppendProperties
<1>2. /\ Len(q) \in Nat
      /\ DOMAIN q = 1 .. Len(q)
      /\ DOMAIN Append(q, x) = 1 .. Len(q) + 1
  BY <1>1, LenProperties
<1>3. ASSUME NEW e PROVE e \in Range(Append(q, x)) <=> e \in Range(q) \union {x}
  BY <1>1, <1>2 DEF Range
<1> QED BY <1>1, <1>3

\* The empty queue has no element.
LEMMA NothingQueued == \A S : <<>> \in Seq(S) /\ Range(<<>>) = {}
  BY DEF Range


(* The codec *)

\* The bits a shift keeps make a fitting id, and the same id if it fits.
LEMMA Low28Range ==
  ASSUME NEW x \in Int
  PROVE  Low28(x) \in Fitting
<1>1. (x + K) % (2 * K) \in 0 .. (2 * K) - 1
  BY KAssumption
<1> QED BY <1>1, KAssumption DEF Low28, Fitting

\* An id that fits is kept.
LEMMA Low28Keeps ==
  ASSUME NEW x \in Fitting
  PROVE  Low28(x) = x
<1>1. (x + K) % (2 * K) = x + K
  BY KAssumption DEF Fitting
<1> QED BY <1>1, KAssumption DEF Low28, Fitting

\* Decoding an identity yields the bits that were kept.
LEMMA DecodeEncode ==
  ASSUME NEW x \in Int
  PROVE  IDI2E(IDE2I(x)) = Low28(x)
<1>1. Low28(x) \in Int
  BY Low28Range, KAssumption DEF Fitting
<1> QED BY <1>1 DEF IDI2E, IDE2I

\* An identity is a 32-bit int with its last bit set; it is negative exactly
\* when the kept bits are.
LEMMA IdentityRange ==
  ASSUME NEW x \in Int
  PROVE  /\ IDE2I(x) \in {i \in Int32 : i % 2 = 1}
         /\ IDE2I(x) >= 0 <=> Low28(x) >= 0
<1>1. Low28(x) \in Int /\ -K <= Low28(x) /\ Low28(x) <= K - 1
  BY Low28Range, KAssumption DEF Fitting
<1>2. IDE2I(x) \in Int32
  BY <1>1, KAssumption DEF IDE2I, Int32
<1>3. IDE2I(x) % 2 = 1
  BY <1>1 DEF IDE2I
<1> QED BY <1>1, <1>2, <1>3 DEF IDE2I

\* Encoding what was decoded yields the identity again, for every id.
LEMMA EncodeDecodeEncode ==
  ASSUME NEW x \in Int
  PROVE  IDE2I(IDI2E(IDE2I(x))) = IDE2I(x)
<1>1. IDI2E(IDE2I(x)) = Low28(x)
  BY DecodeEncode
<1>2. Low28(Low28(x)) = Low28(x)
  BY Low28Range, Low28Keeps
<1> QED BY <1>1, <1>2 DEF IDE2I

\* Different ids that fit have different identities.
LEMMA Injective ==
  ASSUME NEW x \in Fitting, NEW y \in Fitting, IDE2I(x) = IDE2I(y)
  PROVE  x = y
<1>1. x \in Int /\ y \in Int
  BY KAssumption DEF Fitting
<1> QED BY <1>1, Low28Keeps DEF IDE2I

-----------------------------------------------------------------------------
(* The server *)

NewClient == [client : Clients, as : Fitting]
Task      == [client : Clients, identity : {i \in Int32 : i % 2 = 1}]
Shown     == [client : Clients, by : {"accept", "recv", "recv_async"}, as : Int32]

\* What waits and what was shown is the identity of the client or its decoding.
Decodings ==
  /\ \A e \in Range(clientq) : e.as = IDI2E(Identity(e.client))
  /\ \A e \in Range(taskq) : e.identity = Identity(e.client)
  /\ \A s \in shown : s.as = IF s.by = "recv" THEN Decoded(Identity(s.client))
                             ELSE IDI2E(Identity(s.client))

\* clientmap holds the identities of registered clients, and of every client
\* that has been heard.
MapMatches ==
  /\ \A i \in clientmap : \E c \in Registered : i = Identity(c)
  /\ \A c \in Clients : sent[c] > 0 => Identity(c) \in clientmap

IInv == TypeOK /\ Decodings /\ MapMatches

\* The ranges of ids.
LEMMA Ranges == Fitting \subseteq Int32 /\ Int32 \subseteq Int
BY KAssumption DEF Fitting, Int32

\* What is known of a client's id and identity.
LEMMA IdIsInt ==
  ASSUME TypeOK, NEW c \in Clients
  PROVE  /\ idOf[c] \in Int
         /\ Identity(c) \in {i \in Int32 : i % 2 = 1}
         /\ IDI2E(Identity(c)) \in Fitting
<1>1. idOf[c] \in Ids
  BY DEF TypeOK
<1>2. idOf[c] \in Int
  BY <1>1, IdsAssumption, Ranges
<1>3. Identity(c) \in {i \in Int32 : i % 2 = 1}
  BY <1>2, IdentityRange DEF Identity
<1>4. IDI2E(Identity(c)) \in Fitting
  BY <1>2, DecodeEncode, Low28Range DEF Identity
<1> QED BY <1>2, <1>3, <1>4

\* The inductive invariant holds initially,
LEMMA InitIInv == Init => IInv
<1> SUFFICES ASSUME Init PROVE IInv
  OBVIOUS
<1>1. Range(clientq) = {} /\ Range(taskq) = {}
  BY NothingQueued DEF Init
<1> QED BY <1>1, MaxSentAssumption DEF Init, IInv, TypeOK, Decodings, MapMatches

\* A step that leaves the ids alone leaves the identities alone.
LEMMA IdentityStays == idOf' = idOf => \A d : Identity(d)' = Identity(d)
BY DEF Identity

\* when a client arrives,
LEMMA StepArrives ==
  ASSUME IInv, NEW c \in Clients, Arrives(c)
  PROVE  IInv'
<1> USE DEF IInv
<1>1. Identity(c) \in {i \in Int32 : i % 2 = 1} /\ IDI2E(Identity(c)) \in Fitting
  BY IdIsInt
<1>2. \A d : Identity(d)' = Identity(d)
  BY IdentityStays DEF Arrives
<1>3. /\ sent \in [Clients -> 0 .. MaxSent] /\ sent[c] < MaxSent
      /\ sent' = [sent EXCEPT ![c] = @ + 1] /\ UNCHANGED <<idOf, shown>>
  BY DEF TypeOK, Arrives
<1>4. sent' \in [Clients -> 0 .. MaxSent]
  BY <1>3, MaxSentAssumption
<1>5. \A d \in Clients : sent'[d] > 0 => d = c \/ sent[d] > 0
  BY <1>3
<1>6. CASE Identity(c) \notin clientmap
  <2> DEFINE e == [client |-> c, as |-> IDI2E(Identity(c))]
  <2>1. /\ clientmap' = clientmap \union {Identity(c)}
        /\ clientq' = Append(clientq, e) /\ taskq' = taskq
    BY <1>6 DEF Arrives, Register
  <2>2. clientq \in Seq(NewClient) /\ e \in NewClient
    BY <1>1 DEF TypeOK, NewClient
  <2>3. clientq' \in Seq(NewClient) /\ Range(clientq') = Range(clientq) \union {e}
    BY <2>1, <2>2, PushFacts
  <2>4. TypeOK'
    BY <1>1, <1>3, <1>4, <2>1, <2>3 DEF TypeOK, NewClient
  <2>5. Decodings'
    BY <1>2, <1>3, <2>1, <2>3 DEF Decodings, Decoded, IDI2E
  <2>6. Registered' = Registered \union {c}
    <3>1. e.client = c
      OBVIOUS
    <3>2. \A d \in Clients : (\E x \in Range(clientq') : x.client = d)
                               <=> d = c \/ \E x \in Range(clientq) : x.client = d
      BY <2>3, <3>1
    <3> HIDE DEF e
    <3> QED BY <1>3, <3>2 DEF Registered
  <2>7. MapMatches'
    BY <1>2, <1>5, <2>1, <2>6 DEF MapMatches
  <2> QED BY <2>4, <2>5, <2>7
<1>7. CASE Identity(c) \in clientmap
  <2> DEFINE e == [client |-> c, identity |-> Identity(c)]
  <2>1. taskq' = Append(taskq, e) /\ UNCHANGED <<clientmap, clientq>>
    BY <1>7 DEF Arrives
  <2>2. taskq \in Seq(Task) /\ e \in Task
    BY <1>1 DEF TypeOK, Task
  <2>3. taskq' \in Seq(Task) /\ Range(taskq') = Range(taskq) \union {e}
    BY <2>1, <2>2, PushFacts
  <2>4. TypeOK'
    BY <1>3, <1>4, <2>1, <2>3 DEF TypeOK, Task
  <2>5. Decodings'
    BY <1>2, <1>3, <2>1, <2>3 DEF Decodings, Decoded, IDI2E
  <2>6. Registered' = Registered
    BY <1>3, <2>1 DEF Registered
  <2>7. MapMatches'
    BY <1>2, <1>5, <1>7, <2>1, <2>6 DEF MapMatches
  <2> QED BY <2>4, <2>5, <2>7
<1> QED BY <1>6, <1>7

\* when get_one_connection returns one,
LEMMA StepAccept ==
  ASSUME IInv, get_one_connection
  PROVE  IInv'
<1> USE DEF IInv
<1> DEFINE h == Head(clientq)
           new == [client |-> h.client, by |-> "accept", as |-> h.as]
<1>1. /\ clientq \in Seq(NewClient) /\ clientq # <<>>
      /\ clientq' = Tail(clientq) /\ shown' = shown \union {new}
      /\ UNCHANGED <<idOf, sent, clientmap, taskq>>
  BY DEF TypeOK, NewClient, get_one_connection
<1>2. /\ h \in NewClient /\ clientq' \in Seq(NewClient)
      /\ Range(clientq) = {h} \union Range(clientq')
  BY <1>1, PopFacts, PopKeeps
<1>3. new \in Shown
  BY <1>2, Ranges DEF NewClient, Shown
<1>4. \A d : Identity(d)' = Identity(d)
  BY <1>1, IdentityStays
<1>5. TypeOK'
  BY <1>1, <1>2, <1>3 DEF TypeOK, NewClient, Shown
<1>6. Decodings'
  BY <1>1, <1>2, <1>4 DEF Decodings, Decoded, IDI2E
<1>7. Registered' = Registered
  <2>1. new.client = h.client /\ new.by = "accept"
    OBVIOUS
  <2>2. \A d : (\E x \in Range(clientq) : x.client = d)
                 <=> h.client = d \/ \E x \in Range(clientq') : x.client = d
    BY <1>2
  <2>3. \A d : (\E s \in shown' : s.client = d /\ s.by = "accept")
                 <=> h.client = d \/ \E s \in shown : s.client = d /\ s.by = "accept"
    BY <1>1, <2>1
  <2> QED BY <2>2, <2>3 DEF Registered
<1>8. MapMatches'
  BY <1>1, <1>4, <1>7 DEF MapMatches
<1> QED BY <1>5, <1>6, <1>8

\* recv and recv_async differ only in how they decode.
LEMMA StepTakes ==
  ASSUME IInv, NEW by \in {"recv", "recv_async"}, NEW as, Takes(by, as),
         as = IF by = "recv" THEN Decoded(Head(taskq).identity) ELSE IDI2E(Head(taskq).identity)
  PROVE  IInv'
<1> USE DEF IInv
<1> DEFINE h == Head(taskq)
           new == [client |-> h.client, by |-> by, as |-> as]
<1>1. /\ taskq \in Seq(Task) /\ taskq # <<>>
      /\ taskq' = Tail(taskq) /\ shown' = shown \union {new}
      /\ UNCHANGED <<idOf, sent, clientmap, clientq>>
  BY DEF TypeOK, Task, Takes
<1>2. /\ h \in Task /\ taskq' \in Seq(Task) /\ h \in Range(taskq)
      /\ Range(taskq') \subseteq Range(taskq)
  BY <1>1, PopFacts
<1>3. h.identity = Identity(h.client) /\ h.client \in Clients
  BY <1>2 DEF Decodings, Task
<1>4. as \in Int32
  BY <1>3, IdIsInt, Ranges DEF Decoded
<1>5. new \in Shown
  BY <1>3, <1>4 DEF Shown
<1>6. \A d : Identity(d)' = Identity(d)
  BY <1>1, IdentityStays
<1>7. TypeOK'
  BY <1>1, <1>2, <1>5 DEF TypeOK, Task, Shown
<1>8. Decodings'
  BY <1>1, <1>2, <1>3, <1>6 DEF Decodings, Decoded, IDI2E
<1>9. Registered' = Registered
  <2>1. new.by # "accept"
    OBVIOUS
  <2> QED BY <1>1, <2>1 DEF Registered
<1>10. MapMatches'
  BY <1>1, <1>6, <1>9 DEF MapMatches
<1> QED BY <1>7, <1>8, <1>10

\* and after every step.
LEMMA StepIInv == IInv /\ [Next]_vars => IInv'
<1> SUFFICES ASSUME IInv, [Next]_vars PROVE IInv'
  OBVIOUS
<1>1. CASE \E c \in Clients : Arrives(c)
  BY <1>1, StepArrives
<1>2. CASE get_one_connection
  BY <1>2, StepAccept
<1>3. CASE recv
  BY <1>3, StepTakes DEF recv
<1>4. CASE recv_async
  BY <1>4, StepTakes DEF recv_async
<1>5. CASE UNCHANGED vars
  BY <1>5 DEF vars, IInv, TypeOK, Decodings, MapMatches, Registered, Identity, Decoded
<1> QED BY <1>1, <1>2, <1>3, <1>4, <1>5 DEF Next

\* The inductive invariant holds in every run of the server.
THEOREM Inductive == Spec => []IInv
<1>1. Init => IInv
  BY InitIInv
<1>2. IInv /\ [Next]_vars => IInv'
  BY StepIInv
<1> QED BY <1>1, <1>2, PTL DEF Spec

\* Every identity set by the constructor is a 32-bit int with its last bit set,
\* and every id shown is a 32-bit int.
THEOREM TypeCorrect == Spec => []TypeOK
<1>1. IInv => TypeOK
  BY DEF IInv
<1> QED BY <1>1, Inductive, PTL

\* get_one_connection, recv_async and, for ids that are not negative, recv
\* return the id the client was configured with if it fits into 28 bits.
THEOREM IdsRoundTrip == Spec => []RoundTrip
<1>1. IInv => RoundTrip
  <2> SUFFICES ASSUME IInv, NEW s \in shown
               PROVE  /\ idOf[s.client] \in Proper => s.as = idOf[s.client]
                      /\ idOf[s.client] \in Fitting /\ s.by # "recv" => s.as = idOf[s.client]
    BY DEF RoundTrip
  <2> DEFINE x == idOf[s.client]
  <2>1. s.client \in Clients /\ x \in Int
    BY IdIsInt DEF IInv, TypeOK
  <2>2. s.as = IF s.by = "recv" THEN Decoded(IDE2I(x)) ELSE IDI2E(IDE2I(x))
    BY DEF IInv, Decodings, Identity
  <2>3. x \in Fitting => IDI2E(IDE2I(x)) = x
    BY <2>1, DecodeEncode, Low28Keeps
  <2>4. x \in Proper => x \in Fitting /\ IDE2I(x) >= 0
    <3>1. x \in Proper => x \in Fitting /\ x >= 0
      BY KAssumption DEF Proper, Fitting
    <3> QED BY <2>1, <3>1, IdentityRange, Low28Keeps
  <2> QED BY <2>2, <2>3, <2>4 DEF Decoded
<1> QED BY <1>1, Inductive, PTL

\* No client whose id fits is taken for another one in clientmap.
THEOREM EachItsOwnClient == Spec => []OwnClient
<1>1. IInv => OwnClient
  <2> SUFFICES ASSUME IInv, \A c \in Clients : idOf[c] \in Fitting,
                      \A c, d \in Clients : c # d => idOf[c] # idOf[d],
                      NEW c \in Clients, sent[c] > 0
               PROVE  c \in Registered
    BY DEF OwnClient
  <2>1. PICK d \in Registered : Identity(c) = Identity(d)
    BY DEF IInv, MapMatches
  <2>2. d \in Clients
    BY DEF Registered
  <2>3. idOf[c] = idOf[d]
    BY <2>1, <2>2, Injective DEF Identity
  <2> QED BY <2>1, <2>2, <2>3
<1> QED BY <1>1, Inductive, PTL

\* What get_one_connection and recv_async return names, when it is passed to
\* send, the identity the message came from, for every id.
THEOREM AnswersAlwaysRouteBack == Spec => []AnswersRouteBack
<1>1. IInv /\ RoundTrip => AnswersRouteBack
  <2> SUFFICES ASSUME IInv, RoundTrip, NEW s \in shown,
                      s.by # "recv" \/ idOf[s.client] \in Proper
               PROVE  IDE2I(s.as) = Identity(s.client)
    BY DEF AnswersRouteBack
  <2>1. s.client \in Clients /\ idOf[s.client] \in Int
    BY IdIsInt DEF IInv, TypeOK
  <2>2. CASE s.by # "recv"
    BY <2>1, <2>2, EncodeDecodeEncode DEF IInv, Decodings, Identity
  <2>3. CASE idOf[s.client] \in Proper
    BY <2>3 DEF RoundTrip, Identity
  <2> QED BY <2>2, <2>3
<1> QED BY <1>1, Inductive, IdsRoundTrip, PTL
=============================================================================
