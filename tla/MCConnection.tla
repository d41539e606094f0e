---------------------------- MODULE MCConnection ----------------------------
(* Channel objects are told apart only by what may happen to them.         *)
EXTENDS Connection, TLC

Symmetry == Permutations(Channels)
=============================================================================
