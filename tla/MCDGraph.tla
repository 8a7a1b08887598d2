------------------------------ MODULE MCDGraph ------------------------------
(***************************************************************************)
(* Instances of module DGraph.                                             *)
(***************************************************************************)
EXTENDS DGraph

TwoWeights == {1, 2}
MixedSizes == {0, 2, 3, 4, 6}
=============================================================================
