----------------------------- MODULE MCSession -----------------------------
(* A second is four units, the margin one; limits and intervals in every order. *)
EXTENDS Session

User(channel_max, frame_max, heartbeat, timeout) ==
    [channel_max |-> channel_max, frame_max |-> frame_max, heartbeat |-> heartbeat, timeout |-> timeout]
Tune(channel_max, frame_max, heartbeat) ==
    [channel_max |-> channel_max, frame_max |-> frame_max, heartbeat |-> heartbeat]

MCOptions == { User(0, 0, 0, 0), User(1, 3, 0, 6), User(2, 2, 1, 0), User(3, 1, 1, 6), User(1, 0, 2, 10) }
MCTunes == { Tune(0, 2, 0), Tune(2, 2, 0), Tune(2, 0, 1), Tune(1, 2, 2), Tune(3, 2, 3) }
=============================================================================
