------------------------------- MODULE PcQueue -------------------------------
(***************************************************************************)
(* pcqueue and semaphore of src/socket/src/util.hpp: a queue under a mutex *)
(* and a counting semaphore made of a second mutex, a condition variable   *)
(* and a counter.  push fills the queue first and signals afterwards; pop  *)
(* waits for the semaphore first and takes the front afterwards.           *)
(*                                                                         *)
(* A section between pthread_mutex_lock and pthread_mutex_unlock is one    *)
(* step: nothing blocks inside it but pthread_cond_wait, which gives the   *)
(* mutex up.  pthread_cond_signal is called after the unlock and is a step *)
(* of its own; it wakes one sleeper if there is one, and sleepers may wake *)
(* up without it.  The 32-bit counter is not modelled as wrapping: it      *)
(* never exceeds the number of queued elements.                            *)
(*                                                                         *)
(* Definitions named X_<Bug> are X with a plausible programming error;     *)
(* nothing uses them, they document which error a property would catch.    *)
(***************************************************************************)
EXTENDS Integers, Sequences, FiniteSets

CONSTANTS Producer, Consumer,
          Batch,       \* Batch[p][k]: how many elements the k-th push of p adds
          Pops         \* Pops[c]: how often c calls pop

ASSUME QueueAssumption ==
  /\ IsFiniteSet(Producer) /\ IsFiniteSet(Consumer)
  /\ Batch \in [Producer -> Seq(Nat)]
  /\ Pops \in [Consumer -> Nat]

VARIABLES
  q, counter,
  ppc,        \* producer: "idle", "count" or "post"
  pushed,     \* pushed[p]: pushes of p that have filled the queue
  posts,      \* posts[p]: pthread_cond_signal calls p still makes
  cpc,        \* consumer: "idle", "wait", "asleep", "woken" or "take"
  got         \* got[c]: what the pops of c returned

vars == <<q, counter, ppc, pushed, posts, cpc, got>>

Init ==
  /\ q = <<>>
  /\ counter = 0
  /\ ppc = [p \in Producer |-> "idle"]
  /\ pushed = [p \in Producer |-> 0]
  /\ posts = [p \in Producer |-> 0]
  /\ cpc = [c \in Consumer |-> "idle"]
  /\ got = [c \in Consumer |-> <<>>]

-----------------------------------------------------------------------------
(* push *)

\* How many elements the push p is in adds, and which.
Size(p, k)     == Batch[p][k]
Elements(p, k) == [i \in 1 .. Size(p, k) |-> <<p, k, i>>]

\* The section under the queue's mutex.
push(p) ==
  /\ ppc[p] = "idle"
  /\ pushed[p] < Len(Batch[p])
  /\ q' = q \o Elements(p, pushed[p] + 1)
  /\ pushed' = [pushed EXCEPT ![p] = @ + 1]
  /\ ppc' = [ppc EXCEPT ![p] = "count"]
  /\ UNCHANGED <<counter, posts, cpc, got>>

Credits_One(n) == 1

\* What signal(n) adds to the counter.
Credits(n) == n

Posts_One(n) == IF n = 0 THEN 0 ELSE 1

\* How often signal(n) posts the condition variable.
Posts(n) == n

\* The section of signal under the semaphore's mutex.
signal(p) ==
  LET n == Size(p, pushed[p])
  IN  /\ ppc[p] = "count"
      /\ counter' = counter + Credits(n)
      /\ posts' = [posts EXCEPT ![p] = Posts(n)]
      /\ ppc' = [ppc EXCEPT ![p] = "post"]
      /\ UNCHANGED <<q, pushed, cpc, got>>

Asleep == {c \in Consumer : cpc[c] = "asleep"}

\* One pthread_cond_signal.
Post(p) ==
  /\ ppc[p] = "post"
  /\ posts[p] > 0
  /\ posts' = [posts EXCEPT ![p] = @ - 1]
  /\ \/ Asleep = {} /\ UNCHANGED cpc
     \/ \E c \in Asleep : cpc' = [cpc EXCEPT ![c] = "woken"]
  /\ UNCHANGED <<q, counter, ppc, pushed, got>>

PushReturns(p) ==
  /\ ppc[p] = "post"
  /\ posts[p] = 0
  /\ ppc' = [ppc EXCEPT ![p] = "idle"]
  /\ UNCHANGED <<q, counter, pushed, posts, cpc, got>>

-----------------------------------------------------------------------------
(* pop *)

pop(c) ==
  /\ cpc[c] = "idle"
  /\ Len(got[c]) < Pops[c]
  /\ cpc' = [cpc EXCEPT ![c] = "wait"]
  /\ UNCHANGED <<q, counter, ppc, pushed, posts, got>>

\* The condition of the while loop in wait is over.
MayEnter(c) == counter > 0

\* wait, from its lock or from its return from pthread_cond_wait.
wait(c) ==
  /\ cpc[c] \in {"wait", "woken"}
  /\ \/ /\ MayEnter(c)
        /\ counter' = counter - 1
        /\ cpc' = [cpc EXCEPT ![c] = "take"]
     \/ /\ ~MayEnter(c)
        /\ cpc' = [cpc EXCEPT ![c] = "asleep"]
        /\ UNCHANGED counter
  /\ UNCHANGED <<q, ppc, pushed, posts, got>>

SpuriousWakeup(c) ==
  /\ cpc[c] = "asleep"
  /\ cpc' = [cpc EXCEPT ![c] = "woken"]
  /\ UNCHANGED <<q, counter, ppc, pushed, posts, got>>

\* q.front() and q.pop(); on an empty queue they would be undefined, which
\* NeverPopsEmpty excludes.
PopReturns(c) ==
  /\ cpc[c] = "take"
  /\ q # <<>>
  /\ got' = [got EXCEPT ![c] = Append(@, Head(q))]
  /\ q' = Tail(q)
  /\ cpc' = [cpc EXCEPT ![c] = "idle"]
  /\ UNCHANGED <<counter, ppc, pushed, posts>>

-----------------------------------------------------------------------------
ProducerNext(p) == push(p) \/ signal(p) \/ Post(p) \/ PushReturns(p)

ConsumerNext(c) == pop(c) \/ wait(c) \/ PopReturns(c)

Next == \/ \E p \in Producer : ProducerNext(p)
        \/ \E c \in Consumer : ConsumerNext(c) \/ SpuriousWakeup(c)

Spec == Init /\ [][Next]_vars

\* Every thread that can run runs.  Spurious wake-ups are not relied upon.
Fairness == /\ \A p \in Producer : WF_vars(ProducerNext(p))
            /\ \A c \in Consumer : WF_vars(ConsumerNext(c))

FairSpec == Spec /\ Fairness

-----------------------------------------------------------------------------
(* Correctness *)

\* The counter of the semaphore never goes below zero, where a C unsigned
\* would wrap, and the queue holds what was pushed.
TypeOK ==
  /\ q \in Seq(Producer \X Nat \X Nat)
  /\ counter \in Nat
  /\ ppc \in [Producer -> {"idle", "count", "post"}]
  /\ pushed \in [Producer -> Nat]
  /\ posts \in [Producer -> Nat]
  /\ cpc \in [Consumer -> {"idle", "wait", "asleep", "woken", "take"}]
  /\ got \in [Consumer -> Seq(Producer \X Nat \X Nat)]

\* Consumers the semaphore has let in.
Takers == {c \in Consumer : cpc[c] = "take"}

\* Queued elements the semaphore has not been told of yet.
Uncounted ==
  UNION {{p} \X (1 .. Size(p, pushed[p])) : p \in {r \in Producer : ppc[r] = "count"}}

\* Queue and semaphore are changed under different mutexes and still agree:
\* every queued element is counted, promised to a consumer, or about to be
\* signalled by its producer.
CreditsMatchItems == Len(q) = counter + Cardinality(Takers) + Cardinality(Uncounted)

\* "semaphore lets no more threads in than queue size": whoever is let in
\* finds an element, also the last of several.
NeverPopsEmpty == Cardinality(Takers) <= Len(q)

\* Consumers that test the counter before they can fall asleep (again), and the
\* calls of pthread_cond_signal that are still to come.
Awake   == {c \in Consumer : cpc[c] \in {"wait", "woken"}}
Pending == UNION {{p} \X (1 .. posts[p]) : p \in Producer}

\* No wake-up is lost although signal posts after it has given up the mutex:
\* while somebody sleeps, every credit is known to a consumer that is awake or
\* is still going to be posted.
NoLostWakeup == Asleep # {} => counter <= Cardinality(Awake) + Cardinality(Pending)

\* pcqueue is a blocking FIFO queue: elements come out once and in order, and
\* none is left lying while a consumer wants one.
Abstract == INSTANCE BlockingQueue
              WITH queue  <- q,
                   pushes <- pushed,
                   wants  <- {c \in Consumer : cpc[c] # "idle"},
                   taken  <- got

ImplementsQueue == Abstract!Spec

\* The part of it that says what may happen: every element comes out at most
\* once and in the order of the pushes.
ImplementsFifo == Abstract!Safety
=============================================================================
