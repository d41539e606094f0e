----------------------------- MODULE EventLoop -----------------------------
(***************************************************************************)
(* Node runs one job at a time.  A turn of its event loop starts with what *)
(* the socket or a timer brings; the callbacks of process.nextTick that    *)
(* this scheduled then run in order, the continuations of awaits after     *)
(* them, and again ticks, until neither is left.                           *)
(*                                                                         *)
(* What waits to be continued is part of the state of the program:         *)
(* `pending' says whether anything does.  The order in which continuations *)
(* are taken is left open.                                                 *)
(***************************************************************************)
EXTENDS Sequences

VARIABLES
    ticks,      \* the callbacks of process.nextTick
    draining    \* the turn is at its continuations

LoopInit == ticks = <<>> /\ draining = FALSE

Quiet(pending) == ticks = <<>> /\ ~pending

\* The first job of a turn.
BeginTurn(pending) == Quiet(pending) /\ draining' = FALSE

\* A continuation: the ticks of the turn have run.
RunContinuation == (ticks = <<>> \/ draining) /\ draining' = TRUE

\* The first tick: the continuations of the turn have run.
RunTick(job, pending) ==
    /\ ticks # <<>> /\ job = Head(ticks)
    /\ draining => ~pending
    /\ draining' = FALSE
=============================================================================
