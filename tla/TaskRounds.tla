----------------------------- MODULE TaskRounds -----------------------------
(***************************************************************************)
(* What the MPI scheduler promises, without machines, threads or packets:  *)
(* tasks are handed out in rounds of Size tasks under fresh sequence       *)
(* numbers, each task of the round is acknowledged exactly once, no        *)
(* acknowledgement is taken before the whole round is out, and the next    *)
(* round starts only when nothing of this one is outstanding.              *)
(***************************************************************************)
EXTENDS Integers, FiniteSets

CONSTANTS Size,     \* tasks in one round
          Seqno     \* the sequence numbers

VARIABLES phase,    \* "dispatch" or "collect"
          open,     \* handed out and not yet acknowledged
          acked     \* acknowledged in this round

vars == <<phase, open, acked>>

Init == /\ phase = "dispatch"
        /\ open = {}
        /\ acked = {}

Dispatch(s) ==
  /\ phase = "dispatch"
  /\ s \notin open \union acked
  /\ open' = open \union {s}
  /\ phase' = IF Cardinality(open \union acked) + 1 = Size
              THEN "collect" ELSE "dispatch"
  /\ UNCHANGED acked

Acknowledge(s) ==
  /\ phase = "collect"
  /\ s \in open
  /\ open' = open \ {s}
  /\ acked' = acked \union {s}
  /\ UNCHANGED phase

NewRound ==
  /\ phase = "collect"
  /\ open = {}
  /\ phase' = "dispatch"
  /\ acked' = {}
  /\ UNCHANGED open

Next == \/ \E s \in Seqno : Dispatch(s) \/ Acknowledge(s)
        \/ NewRound

Safety == Init /\ [][Next]_vars

\* Rounds keep completing: the scheduler never stops half way through one.
Spec == Safety /\ WF_vars(Next)
=============================================================================
