--------------------------- MODULE PcQueue_proofs ---------------------------
(***************************************************************************)
(* Proofs about PcQueue for any producers, consumers and batches: queue    *)
(* and semaphore agree, no pop finds the queue empty, no wake-up is lost,  *)
(* and the queue implements the FIFO queue of BlockingQueue.               *)
(***************************************************************************)
EXTENDS PcQueue, SequenceTheorems, FiniteSetTheorems, TLAPS

-----------------------------------------------------------------------------
(* Counting *)

\* n tokens marked with p.
Tokens(p, n) == {p} \X (1 .. n)

\* There are n of them.
LEMMA TokenCount ==
  ASSUME NEW p, NEW n \in Nat
  PROVE  IsFiniteSet(Tokens(p, n)) /\ Cardinality(Tokens(p, n)) = n
<1>1. IsFiniteSet(1 .. n) /\ Cardinality(1 .. n) = n
  BY FS_Interval
<1>2. IsFiniteSet({p}) /\ Cardinality({p}) = 1
  BY FS_Singleton
<1>3. /\ IsFiniteSet({p} \X (1 .. n))
      /\ Cardinality({p} \X (1 .. n)) = Cardinality({p}) * Cardinality(1 .. n)
  BY <1>1, <1>2, FS_Product
<1> QED BY <1>1, <1>2, <1>3 DEF Tokens

\* Tokens that are new to a set add up.
LEMMA AddTokens ==
  ASSUME NEW U, IsFiniteSet(U), NEW p, NEW n \in Nat, U \cap Tokens(p, n) = {}
  PROVE  /\ IsFiniteSet(U \cup Tokens(p, n))
         /\ Cardinality(U \cup Tokens(p, n)) = Cardinality(U) + n
<1>1. IsFiniteSet(Tokens(p, n)) /\ Cardinality(Tokens(p, n)) = n
  BY TokenCount
<1>2. /\ IsFiniteSet(U \cup Tokens(p, n))
      /\ Cardinality(U \cup Tokens(p, n))
           = Cardinality(U) + Cardinality(Tokens(p, n)) - Cardinality(U \cap Tokens(p, n))
  BY <1>1, FS_Union
<1>3. Cardinality(U \cap Tokens(p, n)) = 0
  BY FS_EmptySet
<1>4. Cardinality(U) \in Nat
  BY FS_CardinalityType
<1> QED BY <1>1, <1>2, <1>3, <1>4

\* The consumers in any of their states are finitely many.
LEMMA ConsumersCount ==
  ASSUME NEW S \in SUBSET Consumer
  PROVE  IsFiniteSet(S) /\ Cardinality(S) \in Nat
  BY QueueAssumption, FS_Subset, FS_CardinalityType

-----------------------------------------------------------------------------
(* Types *)

\* A push in progress is one of the batch, so its size is a number; a producer
\* that is not posting has no post left over.
PushInv == \A p \in Producer : /\ pushed[p] <= Len(Batch[p])
                               /\ ppc[p] # "idle" => pushed[p] >= 1
                               /\ ppc[p] # "post" => posts[p] = 0

TypeInv == TypeOK /\ PushInv

\* The k-th push of a producer has a size, and its elements are a sequence of
\* that length.
LEMMA BatchFacts ==
  ASSUME NEW p \in Producer, NEW k \in Nat, 1 <= k, k <= Len(Batch[p])
  PROVE  /\ Size(p, k) \in Nat
         /\ Elements(p, k) \in Seq(Producer \X Nat \X Nat)
         /\ Len(Elements(p, k)) = Size(p, k)
<1>1. Batch[p] \in Seq(Nat)
  BY QueueAssumption
<1>2. Size(p, k) \in Nat
  BY <1>1 DEF Size
<1>3. DOMAIN Elements(p, k) = 1 .. Size(p, k)
  BY DEF Elements
<1>4. \A i \in 1 .. Size(p, k) : Elements(p, k)[i] \in Producer \X Nat \X Nat
  BY <1>2 DEF Elements
<1>5. Elements(p, k) \in Seq(Producer \X Nat \X Nat)
  BY <1>2, <1>4 DEF Elements
<1> QED BY <1>2, <1>3, <1>5, LenProperties

\* Initially every variable has its type.
LEMMA InitType == Init => TypeInv
  BY QueueAssumption DEF Init, TypeInv, TypeOK, PushInv

\* Every step keeps the types: signal and push on the sizes of the batches,
\* wait on the test that keeps the counter from wrapping.
LEMMA NextType == TypeInv /\ [Next]_vars => TypeInv'
<1> SUFFICES ASSUME TypeInv, [Next]_vars PROVE TypeInv'
  OBVIOUS
<1> USE DEF TypeInv, TypeOK, PushInv
<1>1. ASSUME NEW p \in Producer, push(p) PROVE TypeInv'
  <2>1. /\ pushed[p] + 1 \in Nat /\ 1 <= pushed[p] + 1
        /\ pushed[p] + 1 <= Len(Batch[p])
    BY <1>1, QueueAssumption DEF push
  <2>2. Elements(p, pushed[p] + 1) \in Seq(Producer \X Nat \X Nat)
    BY <2>1, BatchFacts
  <2>3. q' \in Seq(Producer \X Nat \X Nat)
    BY <1>1, <2>2, ConcatProperties DEF push
  <2> QED BY <1>1, <2>1, <2>3 DEF push
<1>2. ASSUME NEW p \in Producer, signal(p) PROVE TypeInv'
  <2>1. Size(p, pushed[p]) \in Nat
    BY <1>2, BatchFacts DEF signal
  <2> QED BY <1>2, <2>1 DEF signal, Credits, Posts
<1>3. ASSUME NEW p \in Producer, Post(p) PROVE TypeInv'
  <2>1. cpc' \in [Consumer -> {"idle", "wait", "asleep", "woken", "take"}]
    BY <1>3 DEF Post, Asleep
  <2>2. posts[p] - 1 \in Nat /\ ppc[p] = "post"
    BY <1>3 DEF Post
  <2> QED BY <1>3, <2>1, <2>2 DEF Post
<1>4. ASSUME NEW p \in Producer, PushReturns(p) PROVE TypeInv'
  BY <1>4 DEF PushReturns
<1>5. ASSUME NEW c \in Consumer, pop(c) PROVE TypeInv'
  BY <1>5 DEF pop
<1>6. ASSUME NEW c \in Consumer, wait(c) PROVE TypeInv'
  <2>1. counter' \in Nat
    BY <1>6 DEF wait, MayEnter
  <2>2. cpc' \in [Consumer -> {"idle", "wait", "asleep", "woken", "take"}]
    BY <1>6 DEF wait
  <2> QED BY <1>6, <2>1, <2>2 DEF wait
<1>7. ASSUME NEW c \in Consumer, SpuriousWakeup(c) PROVE TypeInv'
  BY <1>7 DEF SpuriousWakeup
<1>8. ASSUME NEW c \in Consumer, PopReturns(c) PROVE TypeInv'
  <2>1. Head(q) \in Producer \X Nat \X Nat /\ Tail(q) \in Seq(Producer \X Nat \X Nat)
    BY <1>8, HeadTailProperties DEF PopReturns
  <2>2. Append(got[c], Head(q)) \in Seq(Producer \X Nat \X Nat)
    BY <2>1, AppendProperties
  <2> QED BY <1>8, <2>1, <2>2 DEF PopReturns
<1>9. CASE UNCHANGED vars
  BY <1>9 DEF vars
<1> QED BY <1>1, <1>2, <1>3, <1>4, <1>5, <1>6, <1>7, <1>8, <1>9
        DEF Next, ProducerNext, ConsumerNext

\* The counter of the semaphore never goes below zero and every variable keeps
\* its type.
THEOREM TypeCorrect == Spec => []TypeOK
<1>1. TypeInv => TypeOK
  BY DEF TypeInv
<1> QED BY <1>1, InitType, NextType, PTL DEF Spec

-----------------------------------------------------------------------------
(* Queue and semaphore agree *)

CountInv == IsFiniteSet(Uncounted) /\ CreditsMatchItems

\* Steps that leave queue, counter, takers and producers' progress alone keep
\* the count.
LEMMA SameCount ==
  ASSUME CountInv, q' = q, counter' = counter, Takers' = Takers, Uncounted' = Uncounted
  PROVE  CountInv'
  BY DEF CountInv, CreditsMatchItems

\* Every step keeps the count: push leaves its elements uncounted until signal
\* counts them, wait turns a credit into a taker, and the taker takes one.
LEMMA NextCount == TypeInv /\ CountInv /\ [Next]_vars => CountInv'
<1> SUFFICES ASSUME TypeInv, CountInv, [Next]_vars PROVE CountInv'
  OBVIOUS
<1>t. TypeOK /\ PushInv
  BY DEF TypeInv
<1>n. /\ Takers \in SUBSET Consumer
      /\ IsFiniteSet(Takers) /\ Cardinality(Takers) \in Nat
      /\ IsFiniteSet(Uncounted) /\ Cardinality(Uncounted) \in Nat
      /\ Len(q) \in Nat /\ counter \in Nat
  BY <1>t, ConsumersCount, FS_CardinalityType, LenProperties DEF Takers, CountInv, TypeOK
<1>1. ASSUME NEW p \in Producer, push(p) PROVE CountInv'
  <2> DEFINE n == Size(p, pushed[p] + 1)
  <2>1. /\ pushed[p] + 1 \in Nat /\ 1 <= pushed[p] + 1
        /\ pushed[p] + 1 <= Len(Batch[p])
    BY <1>1, <1>t, QueueAssumption DEF push, TypeOK
  <2>2. n \in Nat /\ Len(q') = Len(q) + n
    <3>1. /\ n \in Nat
          /\ Elements(p, pushed[p] + 1) \in Seq(Producer \X Nat \X Nat)
          /\ Len(Elements(p, pushed[p] + 1)) = n
      BY <2>1, BatchFacts
    <3>2. q \in Seq(Producer \X Nat \X Nat) /\ q' = q \o Elements(p, pushed[p] + 1)
      BY <1>1, <1>t DEF push, TypeOK
    <3> QED BY <3>1, <3>2, ConcatProperties
  <2>3. Uncounted' = Uncounted \cup Tokens(p, n)
    BY <1>1, <1>t DEF push, TypeOK, Uncounted, Tokens
  <2>4. Uncounted \cap Tokens(p, n) = {}
    BY <1>1 DEF push, Uncounted, Tokens
  <2>5. /\ IsFiniteSet(Uncounted')
        /\ Cardinality(Uncounted') = Cardinality(Uncounted) + n
    BY <1>n, <2>2, <2>3, <2>4, AddTokens
  <2>6. Takers' = Takers /\ counter' = counter
    BY <1>1 DEF push, Takers
  <2> HIDE DEF n
  <2> QED BY <1>n, <2>2, <2>5, <2>6 DEF CountInv, CreditsMatchItems
<1>2. ASSUME NEW p \in Producer, signal(p) PROVE CountInv'
  <2> DEFINE n == Size(p, pushed[p])
  <2>1. n \in Nat /\ counter' = counter + n
    BY <1>2, <1>t, BatchFacts DEF signal, TypeOK, PushInv, Credits
  <2>2. Uncounted = Uncounted' \cup Tokens(p, n)
    BY <1>2, <1>t DEF signal, TypeOK, Uncounted, Tokens
  <2>3. Uncounted' \cap Tokens(p, n) = {}
    BY <1>2, <1>t DEF signal, TypeOK, Uncounted, Tokens
  <2> HIDE DEF n
  <2>4. IsFiniteSet(Uncounted')
    BY <1>n, <2>2, FS_Subset
  <2>5. Cardinality(Uncounted) = Cardinality(Uncounted') + n
    BY <2>1, <2>2, <2>3, <2>4, AddTokens
  <2>6. Takers' = Takers /\ q' = q /\ Cardinality(Uncounted') \in Nat
    BY <1>2, <2>4, FS_CardinalityType DEF signal, Takers
  <2> QED BY <1>n, <2>1, <2>4, <2>5, <2>6 DEF CountInv, CreditsMatchItems
<1>3. ASSUME NEW p \in Producer, Post(p) PROVE CountInv'
  <2>1. Takers' = Takers
    BY <1>3, <1>t DEF Post, Takers, Asleep, TypeOK
  <2>2. q' = q /\ counter' = counter /\ Uncounted' = Uncounted
    BY <1>3 DEF Post, Uncounted
  <2> QED BY <2>1, <2>2, SameCount
<1>4. ASSUME NEW p \in Producer, PushReturns(p) PROVE CountInv'
  <2>1. Uncounted' = Uncounted
    BY <1>4, <1>t DEF PushReturns, Uncounted, TypeOK
  <2>2. q' = q /\ counter' = counter /\ Takers' = Takers
    BY <1>4 DEF PushReturns, Takers
  <2> QED BY <2>1, <2>2, SameCount
<1>5. ASSUME NEW c \in Consumer, pop(c) PROVE CountInv'
  <2>1. Takers' = Takers
    BY <1>5, <1>t DEF pop, Takers, TypeOK
  <2>2. q' = q /\ counter' = counter /\ Uncounted' = Uncounted
    BY <1>5 DEF pop, Uncounted
  <2> QED BY <2>1, <2>2, SameCount
<1>6. ASSUME NEW c \in Consumer, wait(c) PROVE CountInv'
  <2>1. q' = q /\ Uncounted' = Uncounted
    BY <1>6 DEF wait, Uncounted
  <2>2. CASE counter' = counter - 1 /\ cpc' = [cpc EXCEPT ![c] = "take"]
    <3>1. Takers' = Takers \cup {c} /\ c \notin Takers
      BY <1>6, <1>t, <2>2 DEF wait, Takers, TypeOK
    <3>2. Cardinality(Takers') = Cardinality(Takers) + 1
      BY <1>n, <3>1, FS_AddElement
    <3> QED BY <1>n, <2>1, <2>2, <3>2 DEF CountInv, CreditsMatchItems
  <2>3. CASE counter' = counter /\ cpc' = [cpc EXCEPT ![c] = "asleep"]
    <3>1. Takers' = Takers
      BY <1>6, <1>t, <2>3 DEF wait, Takers, TypeOK
    <3> QED BY <2>1, <2>3, <3>1, SameCount
  <2> QED BY <1>6, <2>2, <2>3 DEF wait
<1>7. ASSUME NEW c \in Consumer, SpuriousWakeup(c) PROVE CountInv'
  <2>1. Takers' = Takers
    BY <1>7, <1>t DEF SpuriousWakeup, Takers, TypeOK
  <2>2. q' = q /\ counter' = counter /\ Uncounted' = Uncounted
    BY <1>7 DEF SpuriousWakeup, Uncounted
  <2> QED BY <2>1, <2>2, SameCount
<1>8. ASSUME NEW c \in Consumer, PopReturns(c) PROVE CountInv'
  <2>1. Len(q') = Len(q) - 1
    BY <1>8, <1>t, HeadTailProperties DEF PopReturns, TypeOK
  <2>2. Takers' = Takers \ {c} /\ c \in Takers
    BY <1>8, <1>t DEF PopReturns, Takers, TypeOK
  <2>3. Cardinality(Takers') = Cardinality(Takers) - 1
    BY <1>n, <2>2, FS_RemoveElement
  <2>4. counter' = counter /\ Uncounted' = Uncounted
    BY <1>8 DEF PopReturns, Uncounted
  <2> QED BY <1>n, <2>1, <2>3, <2>4 DEF CountInv, CreditsMatchItems
<1>9. CASE UNCHANGED vars
  BY <1>9, SameCount DEF vars, Takers, Uncounted
<1> QED BY <1>1, <1>2, <1>3, <1>4, <1>5, <1>6, <1>7, <1>8, <1>9
        DEF Next, ProducerNext, ConsumerNext

\* Initially there is nothing to count.
LEMMA InitCount == Init => CountInv
<1> SUFFICES ASSUME Init PROVE CountInv
  OBVIOUS
<1>1. Takers = {} /\ Uncounted = {} /\ counter = 0 /\ Len(q) = 0
  BY DEF Init, Takers, Uncounted
<1> QED BY <1>1, FS_EmptySet DEF CountInv, CreditsMatchItems

\* In every state of pcqueue the queued elements are exactly those that are
\* counted, promised to a consumer or about to be signalled.
THEOREM QueueMatchesSemaphore == Spec => []CreditsMatchItems
<1>1. CountInv => CreditsMatchItems
  BY DEF CountInv
<1> QED BY <1>1, InitType, NextType, InitCount, NextCount, PTL DEF Spec

\* A consumer the semaphore has let in always finds an element: q.front() is
\* never called on an empty queue.
THEOREM PopFindsElement == Spec => []NeverPopsEmpty
<1>1. TypeInv /\ CountInv => NeverPopsEmpty
  <2> SUFFICES ASSUME TypeInv, CountInv PROVE Cardinality(Takers) <= Len(q)
    BY DEF NeverPopsEmpty
  <2>1. Cardinality(Takers) \in Nat
    BY ConsumersCount DEF Takers
  <2>2. Cardinality(Uncounted) \in Nat /\ counter \in Nat
    BY FS_CardinalityType DEF CountInv, TypeInv, TypeOK
  <2> QED BY <2>1, <2>2 DEF CountInv, CreditsMatchItems
<1> QED BY <1>1, InitType, NextType, InitCount, NextCount, PTL DEF Spec
-----------------------------------------------------------------------------
(* No wake-up is lost *)

WakeInv == IsFiniteSet(Pending) /\ NoLostWakeup

\* Steps of which nobody falls asleep and that leave counter, posts and the
\* consumers that are awake alone.
LEMMA SameWake ==
  ASSUME WakeInv, counter' = counter, Pending' = Pending, Awake' = Awake,
         Asleep' = Asleep
  PROVE  WakeInv'
  BY DEF WakeInv, NoLostWakeup

\* Every step keeps the balance of credits, wake-ups to come and consumers that
\* are awake: signal announces as many posts as it adds credits, a post that
\* finds a sleeper wakes it, and a consumer goes to sleep only on counter 0.
LEMMA NextWake == TypeInv /\ WakeInv /\ [Next]_vars => WakeInv'
<1> SUFFICES ASSUME TypeInv, WakeInv, [Next]_vars PROVE WakeInv'
  OBVIOUS
<1>t. TypeOK /\ PushInv
  BY DEF TypeInv
<1>n. /\ IsFiniteSet(Awake) /\ Cardinality(Awake) \in Nat
      /\ IsFiniteSet(Pending) /\ Cardinality(Pending) \in Nat
      /\ counter \in Nat
  BY <1>t, ConsumersCount, FS_CardinalityType DEF Awake, WakeInv, TypeOK
<1>1. ASSUME NEW p \in Producer, push(p) PROVE WakeInv'
  BY <1>1, SameWake DEF push, Pending, Awake, Asleep
<1>2. ASSUME NEW p \in Producer, signal(p) PROVE WakeInv'
  <2> DEFINE n == Size(p, pushed[p])
  <2>1. n \in Nat /\ counter' = counter + n
    BY <1>2, <1>t, BatchFacts DEF signal, TypeOK, PushInv, Credits
  <2>2. posts[p] = 0 /\ posts' = [posts EXCEPT ![p] = n]
    BY <1>2, <1>t DEF signal, PushInv, Posts
  <2> HIDE DEF n
  <2>3. Pending' = Pending \cup Tokens(p, n)
    BY <1>t, <2>2 DEF TypeOK, Pending, Tokens
  <2>4. Pending \cap Tokens(p, n) = {}
    BY <2>2 DEF Pending, Tokens
  <2>5. /\ IsFiniteSet(Pending')
        /\ Cardinality(Pending') = Cardinality(Pending) + n
    BY <1>n, <2>1, <2>3, <2>4, AddTokens
  <2>6. Awake' = Awake /\ Asleep' = Asleep
    BY <1>2 DEF signal, Awake, Asleep
  <2> QED BY <1>n, <2>1, <2>5, <2>6 DEF WakeInv, NoLostWakeup
<1>3. ASSUME NEW p \in Producer, Post(p) PROVE WakeInv'
  <2>1. posts[p] \in Nat \ {0} /\ posts' = [posts EXCEPT ![p] = @ - 1] /\ counter' = counter
    BY <1>3, <1>t DEF Post, TypeOK
  <2>2. Pending' = Pending \ {<<p, posts[p]>>} /\ <<p, posts[p]>> \in Pending
    BY <1>t, <2>1 DEF TypeOK, Pending
  <2>3. IsFiniteSet(Pending') /\ Cardinality(Pending') = Cardinality(Pending) - 1
    BY <1>n, <2>2, FS_RemoveElement
  <2>4. CASE Asleep = {} /\ UNCHANGED cpc
    BY <2>3, <2>4 DEF WakeInv, NoLostWakeup, Asleep
  <2>5. ASSUME NEW c \in Asleep, cpc' = [cpc EXCEPT ![c] = "woken"]
        PROVE  WakeInv'
    <3>1. Awake' = Awake \cup {c} /\ c \notin Awake
      BY <1>t, <2>5 DEF TypeOK, Awake, Asleep
    <3>2. Cardinality(Awake') = Cardinality(Awake) + 1
      BY <1>n, <3>1, FS_AddElement
    <3>3. Asleep # {}
      BY <2>5
    <3> QED BY <1>n, <2>1, <2>3, <3>2, <3>3 DEF WakeInv, NoLostWakeup
  <2> QED BY <1>3, <2>4, <2>5 DEF Post
<1>4. ASSUME NEW p \in Producer, PushReturns(p) PROVE WakeInv'
  BY <1>4, SameWake DEF PushReturns, Pending, Awake, Asleep
\* pop and a spurious wake-up make one more consumer awake and none asleep.
<1>a. ASSUME NEW c \in Consumer, Awake' = Awake \cup {c}, c \notin Awake,
             Asleep' \subseteq Asleep, counter' = counter, Pending' = Pending
      PROVE  WakeInv'
  <2>1. Cardinality(Awake') = Cardinality(Awake) + 1
    BY <1>n, <1>a, FS_AddElement
  <2>2. Asleep' # {} => Asleep # {}
    BY <1>a
  <2> QED BY <1>n, <1>a, <2>1, <2>2 DEF WakeInv, NoLostWakeup
<1>5. ASSUME NEW c \in Consumer, pop(c) PROVE WakeInv'
  <2>1. Awake' = Awake \cup {c} /\ c \notin Awake /\ Asleep' \subseteq Asleep
    BY <1>5, <1>t DEF pop, TypeOK, Awake, Asleep
  <2>2. counter' = counter /\ Pending' = Pending
    BY <1>5 DEF pop, Pending
  <2> QED BY <1>a, <2>1, <2>2
<1>6. ASSUME NEW c \in Consumer, wait(c) PROVE WakeInv'
  <2>1. Pending' = Pending
    BY <1>6 DEF wait, Pending
  <2>2. Awake' = Awake \ {c} /\ c \in Awake
    BY <1>6, <1>t DEF wait, TypeOK, Awake
  <2>3. Cardinality(Awake') = Cardinality(Awake) - 1 /\ Cardinality(Awake') \in Nat
    BY <1>n, <2>2, FS_RemoveElement, FS_CardinalityType
  <2>4. CASE counter' = counter - 1 /\ cpc' = [cpc EXCEPT ![c] = "take"]
    <3>1. Asleep' \subseteq Asleep
      BY <1>6, <1>t, <2>4 DEF TypeOK, Asleep
    <3>2. Asleep' # {} => Asleep # {}
      BY <3>1
    <3> QED BY <1>n, <2>1, <2>3, <2>4, <3>2 DEF WakeInv, NoLostWakeup
  <2>5. CASE ~MayEnter(c) /\ counter' = counter
    <3>1. counter' = 0
      BY <1>n, <2>5 DEF MayEnter
    <3> QED BY <1>n, <2>1, <2>3, <3>1 DEF WakeInv, NoLostWakeup
  <2> QED BY <1>6, <2>4, <2>5 DEF wait
<1>7. ASSUME NEW c \in Consumer, SpuriousWakeup(c) PROVE WakeInv'
  <2>1. Awake' = Awake \cup {c} /\ c \notin Awake /\ Asleep' \subseteq Asleep
    BY <1>7, <1>t DEF SpuriousWakeup, TypeOK, Awake, Asleep
  <2>2. counter' = counter /\ Pending' = Pending
    BY <1>7 DEF SpuriousWakeup, Pending
  <2> QED BY <1>a, <2>1, <2>2
<1>8. ASSUME NEW c \in Consumer, PopReturns(c) PROVE WakeInv'
  <2>1. Awake' = Awake /\ Asleep' = Asleep
    BY <1>8, <1>t DEF PopReturns, TypeOK, Awake, Asleep
  <2>2. counter' = counter /\ Pending' = Pending
    BY <1>8 DEF PopReturns, Pending
  <2> QED BY <2>1, <2>2, SameWake
<1>9. CASE UNCHANGED vars
  BY <1>9, SameWake DEF vars, Pending, Awake, Asleep
<1> QED BY <1>1, <1>2, <1>3, <1>4, <1>5, <1>6, <1>7, <1>8, <1>9
        DEF Next, ProducerNext, ConsumerNext

\* Initially nobody sleeps and nothing is posted.
LEMMA InitWake == Init => WakeInv
<1> SUFFICES ASSUME Init PROVE WakeInv
  OBVIOUS
<1>1. Pending = {} /\ Asleep = {}
  BY DEF Init, Pending, Asleep
<1> QED BY <1>1, FS_EmptySet DEF WakeInv, NoLostWakeup

\* Posting after the mutex was released loses no wake-up: while a consumer
\* sleeps, every credit is known to one that is awake or is still to be posted.
THEOREM WakeupsAreKept == Spec => []NoLostWakeup
<1>1. WakeInv => NoLostWakeup
  BY DEF WakeInv
<1> QED BY <1>1, InitType, NextType, InitWake, NextWake, PTL DEF Spec

-----------------------------------------------------------------------------
(* Refinement *)

\* Every step of pcqueue is a step of the abstract queue or changes nothing of
\* it: the section of push is its push, the call of pop its wish, and taking
\* the front its take.
LEMMA StepRefines == TypeInv /\ [Next]_vars => [Abstract!Next]_(Abstract!vars)
<1> SUFFICES ASSUME TypeInv, [Next]_vars PROVE Abstract!Next \/ UNCHANGED Abstract!vars
  OBVIOUS
<1>t. TypeOK
  BY DEF TypeInv
<1> DEFINE inside == {c \in Consumer : cpc[c] # "idle"}
<1>1. ASSUME NEW p \in Producer, push(p) PROVE Abstract!Push(p)
  BY <1>1 DEF push, Abstract!Push, Elements, Abstract!Elements, Size
<1>2. ASSUME NEW p \in Producer, signal(p) \/ Post(p) \/ PushReturns(p)
      PROVE  UNCHANGED Abstract!vars
  <2>1. inside' = inside
    BY <1>2, <1>t DEF signal, Post, PushReturns, Asleep, TypeOK
  <2> QED BY <1>2, <2>1 DEF signal, Post, PushReturns, Abstract!vars
<1>3. ASSUME NEW c \in Consumer, pop(c) PROVE Abstract!Want(c)
  <2>1. inside' = inside \cup {c} /\ c \notin inside
    BY <1>3, <1>t DEF pop, TypeOK
  <2> QED BY <1>3, <2>1 DEF pop, Abstract!Want
<1>4. ASSUME NEW c \in Consumer, wait(c) \/ SpuriousWakeup(c)
      PROVE  UNCHANGED Abstract!vars
  <2>1. inside' = inside
    BY <1>4, <1>t DEF wait, SpuriousWakeup, TypeOK
  <2> QED BY <1>4, <2>1 DEF wait, SpuriousWakeup, Abstract!vars
<1>5. ASSUME NEW c \in Consumer, PopReturns(c) PROVE Abstract!Take(c)
  <2>1. inside' = inside \ {c} /\ c \in inside
    BY <1>5, <1>t DEF PopReturns, TypeOK
  <2> QED BY <1>5, <2>1 DEF PopReturns, Abstract!Take
<1>6. CASE UNCHANGED vars
  BY <1>6 DEF vars, Abstract!vars
<1> QED BY <1>1, <1>2, <1>3, <1>4, <1>5, <1>6
        DEF Next, ProducerNext, ConsumerNext, Abstract!Next, Abstract!SomeTake

\* pcqueue implements the FIFO queue: for any producers, consumers and batches,
\* elements come out at most once and in the order they were pushed.
THEOREM QueueIsFifo == Spec => ImplementsFifo
<1>1. Init => Abstract!Init
  BY DEF Init, Abstract!Init
<1> QED BY <1>1, InitType, NextType, StepRefines, PTL
        DEF Spec, ImplementsFifo, Abstract!Safety
=============================================================================
