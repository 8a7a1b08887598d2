------------------------------ MODULE MCPcQueue ------------------------------
(***************************************************************************)
(* Two producers, one of which pushes a batch and then an empty one (both  *)
(* forms of push), and three consumers that take everything.               *)
(***************************************************************************)
EXTENDS PcQueue

TwoProducers   == {"p1", "p2"}
ThreeConsumers == {"c1", "c2", "c3"}
MixedBatches   == [p1 |-> <<2, 0, 1>>, p2 |-> <<1, 1>>]
FivePops       == [c1 |-> 2, c2 |-> 2, c3 |-> 1]
=============================================================================
