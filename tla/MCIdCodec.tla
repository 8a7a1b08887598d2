------------------------------ MODULE MCIdCodec ------------------------------
(***************************************************************************)
(* Registers of 32 * K = 64 values; every id.                              *)
(***************************************************************************)
EXTENDS IdCodec

TwoK == 2
EveryId == -32 .. 31
TwoClients == {"c", "d"}
=============================================================================
