----------------------------- MODULE MCTcpFrame -----------------------------
(***************************************************************************)
(* Bytes of two values and lengths of three bytes, so that lengths are     *)
(* numbers below 8 and an int ends at 3, and messages at the sizes that    *)
(* matter: empty, equal to the buffer, larger, too long for an int, and    *)
(* the largest of all, for which the sizes of both buffers wrap; then one  *)
(* more, to show what a frame that was cut short does to the next.         *)
(***************************************************************************)
EXTENDS TcpFrame

Sizes   == <<<<1, 0>>, <<>>, <<0, 1, 1>>, <<1, 1, 0, 1>>, <<1, 0, 0, 1, 0, 1, 1>>, <<1>>>>
Lengths == {0, 1, 3, 7}
Both    == {TRUE, FALSE}
=============================================================================
