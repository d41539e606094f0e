---------------------------- MODULE MCPublisher ----------------------------
(* Messages without a body, with one frame and with two.                   *)
EXTENDS Publisher

CONSTANTS m1, m2, m3, m4, m5

MCPieces == [m \in Messages |-> CASE m \in {m1, m4} -> 0 [] m = m2 -> 2 [] OTHER -> 1]
=============================================================================
