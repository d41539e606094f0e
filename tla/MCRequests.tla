----------------------------- MODULE MCRequests -----------------------------
(* Two calls that share a response, as those of basic.return and basic.ack *)
(* do, and the calls of close() and destroy.                               *)
EXTENDS Requests

CONSTANTS r1, r2, k1, d1, return, ack, closeOk

MCResponses ==
    [c \in Requests \cup Closers \cup Destroyers |->
        IF c = r1 THEN {ack} ELSE IF c = r2 THEN {return, ack} ELSE {closeOk}]
=============================================================================
