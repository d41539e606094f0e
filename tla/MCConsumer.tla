----------------------------- MODULE MCConsumer -----------------------------
(* Messages without a body, with one frame and with two.                   *)
EXTENDS Consumer

MCPieces == [d \in Tags |-> CASE d = 1 -> 2 [] d = 2 -> 0 [] OTHER -> 1]
=============================================================================
