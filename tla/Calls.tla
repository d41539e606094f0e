------------------------------- MODULE Calls -------------------------------
(***************************************************************************)
(* What ChannelAbstract.call_api promises to its callers: a call that was  *)
(* made is settled at most once, and when it is resolved, it is with the   *)
(* peer's reply to that very call.  A close may reject any of the calls    *)
(* that wait, several at once.  Whether a call is settled at all is not    *)
(* promised here (see Requests).                                           *)
(***************************************************************************)
CONSTANT Calls

VARIABLES
    outcome,    \* what the caller of each call sees
    replied     \* the calls the peer has replied to

vars == <<outcome, replied>>

Init ==
    /\ outcome = [c \in Calls |-> "unused"]
    /\ replied = {}

Make(c) ==
    /\ outcome[c] = "unused"
    /\ outcome' = [outcome EXCEPT ![c] = "waiting"]
    /\ UNCHANGED replied

Reply(c) ==
    /\ outcome[c] # "unused"
    /\ replied' = replied \cup {c}
    /\ UNCHANGED outcome

Resolve(c) ==
    /\ outcome[c] = "waiting"
    /\ c \in replied
    /\ outcome' = [outcome EXCEPT ![c] = "resolved"]
    /\ UNCHANGED replied

\* The calls of `rejected' are rejected, and those of `made' are made.
Close(rejected, made) ==
    /\ \A c \in rejected : outcome[c] = "waiting"
    /\ \A c \in made : outcome[c] = "unused"
    /\ outcome' = [c \in Calls |-> IF c \in rejected THEN "rejected"
                                   ELSE IF c \in made THEN "waiting"
                                   ELSE outcome[c]]
    /\ UNCHANGED replied

Next ==
    \/ \E c \in Calls : Make(c) \/ Reply(c) \/ Resolve(c)
    \/ \E rejected, made \in SUBSET Calls : Close(rejected, made)

Spec == Init /\ [][Next]_vars
=============================================================================
