---------------------------- MODULE BlockingQueue ----------------------------
(***************************************************************************)
(* What pcqueue promises: one FIFO queue; a push appends a whole batch at  *)
(* once; a pop takes the front, and as long as somebody wants an element   *)
(* and there is one, elements keep being taken.                            *)
(***************************************************************************)
EXTENDS Integers, Sequences

CONSTANTS Producer, Consumer,
          Batch        \* Batch[p][k]: how many elements the k-th push of p adds

VARIABLES queue,
          pushes,      \* pushes[p]: pushes of p that have taken place
          wants,       \* consumers inside pop
          taken        \* taken[c]: what the pops of c returned

vars == <<queue, pushes, wants, taken>>

\* The k-th push of p puts its elements <<p, k, 1>>, <<p, k, 2>>, ...
Elements(p, k) == [i \in 1 .. Batch[p][k] |-> <<p, k, i>>]

Init == /\ queue = <<>>
        /\ pushes = [p \in Producer |-> 0]
        /\ wants = {}
        /\ taken = [c \in Consumer |-> <<>>]

Push(p) == /\ pushes[p] < Len(Batch[p])
           /\ pushes' = [pushes EXCEPT ![p] = @ + 1]
           /\ queue' = queue \o Elements(p, pushes[p] + 1)
           /\ UNCHANGED <<wants, taken>>

Want(c) == /\ c \notin wants
           /\ wants' = wants \union {c}
           /\ UNCHANGED <<queue, pushes, taken>>

Take(c) == /\ c \in wants
           /\ queue # <<>>
           /\ queue' = Tail(queue)
           /\ taken' = [taken EXCEPT ![c] = Append(@, Head(queue))]
           /\ wants' = wants \ {c}
           /\ UNCHANGED pushes

SomeTake == \E c \in Consumer : Take(c)

Next == \/ \E p \in Producer : Push(p)
        \/ \E c \in Consumer : Want(c)
        \/ SomeTake

\* What may happen; and that no element is left in the queue while a consumer
\* wants one.
Safety == Init /\ [][Next]_vars
Spec   == Safety /\ WF_vars(SomeTake)
=============================================================================
