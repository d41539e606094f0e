------------------------------ MODULE Requests ------------------------------
(***************************************************************************)
(* The request bookkeeping of one channel object: ChannelAbstract.call_api,*)
(* handle_method, destroy and close (src/lib/channel.ts).                  *)
(*                                                                         *)
(* call_api only schedules a nextTick callback; that callback registers    *)
(* the call under every method that may answer it and then sends the       *)
(* request.  A method of the peer is handled in a tick of its own, which   *)
(* settles the oldest call registered under it.  destroy rejects every     *)
(* registered call.                                                        *)
(*                                                                         *)
(* A request may fail before it is in the stream: the encoder of its method*)
(* refuses the arguments (a name or a reply text that is empty or longer   *)
(* than 255 bytes).  send() is rejected then as by a write that fails.     *)
(*                                                                         *)
(* The stream is FIFO both ways: the peer answers requests in the order    *)
(* they were sent and its answers are handled in that order.  The order is *)
(* the order of the stamps, because a request is sent in the tick that     *)
(* stamps it.  The ticks of calls not registered yet may run in any order, *)
(* which is more than nextTick allows.                                     *)
(***************************************************************************)
EXTENDS Naturals, FiniteSets

CONSTANTS
    Requests,      \* calls made by the users of the channel
    Closers,       \* calls made by call_close on behalf of close()
    Destroyers,    \* calls made by call_close on behalf of destroy()
    Methods,       \* methods of the peer that answer some call
    Responses,     \* Responses[c]: the methods that may answer call c
    Refusable,     \* calls whose arguments the encoder refuses
    MaxDestroys    \* bound on the number of calls of destroy

None == "none"    \* no method, no call

Calls == Requests \cup Closers \cup Destroyers

ASSUME RequestsAssumption ==
    /\ Requests \cap Closers = {}
    /\ Requests \cap Destroyers = {}
    /\ Closers \cap Destroyers = {}
    /\ Responses \in [Calls -> SUBSET Methods]
    /\ \A c \in Calls : Responses[c] # {}
    /\ None \notin Methods /\ None \notin Calls
    \* close() always sends the text `buy!'.
    /\ Refusable \subseteq Requests \cup Destroyers
    /\ MaxDestroys \in Nat

VARIABLES
    phase,        \* idle, scheduled, pending, resolved or rejected
    callbacks,    \* request_callbacks: the calls registered under a method
    stamp,        \* order of registration (the UniqueId keys of the maps)
    clock,        \* last stamp given
    net,          \* where a request or its answer is
    answer,       \* the method the peer answers a request with
    got,          \* history: the request whose answer resolved a call
    resumed,      \* closers whose close() went on after the await
    destroyed, closed,    \* flags of the channel object
    socketOpen,
    destroys,     \* how often destroy was called
    crashed       \* fatal() was called: process.exit

vars == <<phase, callbacks, stamp, clock, net, answer, got, resumed, destroyed,
          closed, socketOpen, destroys, crashed>>

Init ==
    /\ phase = [c \in Calls |-> "idle"]
    /\ callbacks = [m \in Methods |-> {}]
    /\ stamp = [c \in Calls |-> 0]
    /\ clock = 0
    /\ net = [c \in Calls |-> "none"]
    /\ answer = [c \in Calls |-> None]
    /\ got = [c \in Calls |-> None]
    /\ resumed = {}
    /\ destroyed = FALSE /\ closed = FALSE
    /\ socketOpen = TRUE
    /\ destroys = 0
    /\ crashed = FALSE

-----------------------------------------------------------------------------
(* call_api *)

Pending == {c \in Calls : phase[c] = "pending"}

\* The synchronous part: the promise is made, its body waits for a tick.
Schedule(c) ==
    /\ ~crashed
    /\ phase[c] = "idle"
    /\ phase' = [phase EXCEPT ![c] = "scheduled"]
    /\ UNCHANGED <<callbacks, stamp, clock, net, answer, got, resumed, destroyed,
                   closed, socketOpen, destroys, crashed>>

CallApi(c) == c \in Requests /\ Schedule(c)

\* close() awaits call_close, which does nothing on a closed channel.
CallClose(c) == c \in Closers /\ ~destroyed /\ ~closed /\ Schedule(c)

\* Where a request is after send(): refused by its encoder, whatever the state
\* of the socket; in the stream; or nowhere, because writeSocket returns as if
\* it had written when the socket is not open.
SentTo(c) ==
    IF c \in Refusable THEN "refused" ELSE IF socketOpen THEN "sent" ELSE "none"

\* The tick: register under every response, then send.
Register(c) ==
    /\ ~crashed
    /\ phase[c] = "scheduled"
    /\ phase' = [phase EXCEPT ![c] = "pending"]
    /\ callbacks' = [m \in Methods |->
                        IF m \in Responses[c] THEN callbacks[m] \cup {c}
                        ELSE callbacks[m]]
    /\ clock' = clock + 1
    /\ stamp' = [stamp EXCEPT ![c] = clock + 1]
    /\ net' = [net EXCEPT ![c] = SentTo(c)]
    /\ UNCHANGED <<answer, got, resumed, destroyed, closed, socketOpen, destroys,
                   crashed>>

\* `clear': a settled call is taken off every list.
Without(S) ==
    [m \in Methods |-> callbacks[m] \ {c \in S : m \in Responses[c]}]

\* Mutant: a rejected call_close of close() is fatal as well.
FatalIfRejectedAny == Closers \cup Destroyers

\* The calls whose rejection goes to fatal: `.catch(e => this.fatal(...))'.
FatalIfRejected == Destroyers

\* send().catch calls the callback.  The rejected call_close of a destroy goes
\* to fatal.
SendFails(c) ==
    /\ ~crashed
    /\ phase[c] = "pending"
    /\ phase' = [phase EXCEPT ![c] = "rejected"]
    /\ callbacks' = Without({c})
    /\ crashed' = (c \in FatalIfRejected)
    /\ UNCHANGED <<stamp, clock, net, answer, got, resumed, destroyed, closed,
                   socketOpen, destroys>>

\* The write of the request fails.
WriteFails(c) == net[c] = "lost" /\ SendFails(c)

\* The encoder has thrown in the tick; the rejection arrives in a microtask.
EncoderThrows(c) == net[c] = "refused" /\ SendFails(c)

\* Calls that the encoder has refused and that are still registered.
Refused == {c \in Pending : net[c] = "refused"}

-----------------------------------------------------------------------------
(* handle_method *)

\* The first of the calls S in the order of the stream.
FirstOf(c, S) == c \in S /\ \A d \in S : stamp[c] <= stamp[d]

InNet(where) == {c \in Calls : net[c] = where}

\* The answer to c is handed to handle_method, which schedules a tick.  It
\* comes in a later turn of the event loop than the one c was sent in, so the
\* microtasks of calls refused before c have run.
Decode(c) ==
    /\ ~crashed
    /\ FirstOf(c, InNet("answered"))
    /\ \A d \in Refused : stamp[c] < stamp[d]
    /\ net' = [net EXCEPT ![c] = "ticking"]
    /\ UNCHANGED <<phase, callbacks, stamp, clock, answer, got, resumed,
                   destroyed, closed, socketOpen, destroys, crashed>>

\* The tick on a destroyed channel: the method is dropped.
HandleDropped(c) ==
    /\ ~crashed
    /\ FirstOf(c, InNet("ticking"))
    /\ destroyed
    /\ net' = [net EXCEPT ![c] = "done"]
    /\ UNCHANGED <<phase, callbacks, stamp, clock, answer, got, resumed,
                   destroyed, closed, socketOpen, destroys, crashed>>

\* Mutant: the newest of the callbacks is called.
Newest(m) == {d \in callbacks[m] : \A e \in callbacks[m] : stamp[e] <= stamp[d]}

\* Mutant: every callback registered under the method is called.
All(m) == callbacks[m]

\* Mutant: only a lone callback is called.
Lone(m) == IF Cardinality(callbacks[m]) = 1 THEN callbacks[m] ELSE {}

\* The first of the callbacks of m: one call, or none.
Oldest(m) == {d \in callbacks[m] : FirstOf(d, callbacks[m])}

\* The callback is called with the answer.  If there is none, and none of
\* these methods has a handler, the call of fatal ends the process.
Settle(c) ==
    LET first == Oldest(answer[c])
    IN  /\ ~crashed
        /\ FirstOf(c, InNet("ticking"))
        /\ net' = [net EXCEPT ![c] = "done"]
        /\ phase' = [d \in Calls |-> IF d \in first THEN "resolved" ELSE phase[d]]
        /\ got' = [d \in Calls |-> IF d \in first THEN c ELSE got[d]]
        /\ callbacks' = Without(first)
        /\ crashed' = (first = {})
        /\ UNCHANGED <<stamp, clock, answer, resumed, destroyed, closed,
                       socketOpen, destroys>>

\* The tick on a channel that lives.
HandleAnswer(c) == ~destroyed /\ Settle(c)

-----------------------------------------------------------------------------
(* destroy and close *)

\* destroy calls call_close when the channel is not destroyed and the socket
\* is not; call_close makes a call unless the channel is closed already.
NeedsClose == socketOpen /\ ~destroyed /\ ~closed

\* Mutant: the map of the callback maps is cleared itself.
NoMaps == [m \in {} |-> {}]

\* All callbacks are called: every one of them takes itself off the lists.
NoCallbacks == [m \in Methods |-> {}]

\* The body of destroy, whose call_close makes the calls of `made'.  It
\* rejects everything registered, an earlier destroy's call_close included:
\* that rejection is fatal.
DestroyWith(made) ==
    /\ destroys < MaxDestroys
    /\ destroys' = destroys + 1
    /\ phase' = [c \in Calls |-> IF c \in Pending THEN "rejected"
                                 ELSE IF c \in made THEN "scheduled"
                                 ELSE phase[c]]
    /\ callbacks' = NoCallbacks
    /\ destroyed' = TRUE
    /\ crashed' = (Pending \cap FatalIfRejected # {})
    /\ UNCHANGED <<stamp, clock, net, answer, got, socketOpen>>

Destroy ==
    /\ ~crashed
    /\ \/ ~NeedsClose /\ DestroyWith({})
       \/ NeedsClose /\ \E c \in Destroyers : phase[c] = "idle" /\ DestroyWith({c})
    /\ UNCHANGED <<closed, resumed>>

\* close() after its call_close resolved: closed is set, so destroy makes no
\* further call.
CloseReturns(c) ==
    /\ ~crashed
    /\ c \in Closers \ resumed
    /\ phase[c] = "resolved"
    /\ resumed' = resumed \cup {c}
    /\ closed' = TRUE
    /\ DestroyWith({})

-----------------------------------------------------------------------------
(* The peer and the socket *)

\* The peer answers the requests one after the other.
Answer(c) ==
    /\ ~crashed
    /\ socketOpen
    /\ FirstOf(c, InNet("sent"))
    /\ \E m \in Responses[c] : answer' = [answer EXCEPT ![c] = m]
    /\ net' = [net EXCEPT ![c] = "answered"]
    /\ UNCHANGED <<phase, callbacks, stamp, clock, got, resumed, destroyed,
                   closed, socketOpen, destroys, crashed>>

\* What is still in the stream is lost.  The socket closes in a turn of the
\* event loop of its own, when no tick and no microtask is left.
SocketFails ==
    /\ ~crashed
    /\ socketOpen
    /\ InNet("ticking") = {} /\ Refused = {}
    /\ socketOpen' = FALSE
    /\ net' = [c \in Calls |-> IF net[c] \in {"sent", "answered"} THEN "lost"
                               ELSE net[c]]
    /\ UNCHANGED <<phase, callbacks, stamp, clock, answer, got, resumed,
                   destroyed, closed, destroys, crashed>>

-----------------------------------------------------------------------------
Next ==
    \/ \E c \in Calls : \/ CallApi(c) \/ CallClose(c)
                        \/ Register(c) \/ WriteFails(c) \/ EncoderThrows(c)
                        \/ Decode(c) \/ HandleDropped(c) \/ HandleAnswer(c)
                        \/ CloseReturns(c)
                        \/ Answer(c)
    \/ Destroy
    \/ SocketFails

Spec == Init /\ [][Next]_vars

\* The event loop runs what it has scheduled, the socket delivers, and the
\* peer answers.  Nobody is obliged to make calls, to close or to destroy.
Handle(c) == HandleDropped(c) \/ HandleAnswer(c)

Fairness ==
    \A c \in Calls :
        /\ WF_vars(Register(c))
        /\ WF_vars(EncoderThrows(c))
        /\ WF_vars(Answer(c))
        /\ WF_vars(Decode(c))
        /\ WF_vars(Handle(c))

FairSpec == Spec /\ Fairness

-----------------------------------------------------------------------------
TypeOK ==
    /\ phase \in [Calls -> {"idle", "scheduled", "pending", "resolved", "rejected"}]
    /\ callbacks \in [Methods -> SUBSET Calls]
    /\ stamp \in [Calls -> Nat]
    /\ clock \in Nat
    /\ net \in [Calls -> {"none", "refused", "sent", "answered", "ticking", "done", "lost"}]
    /\ answer \in [Calls -> Methods \cup {None}]
    /\ got \in [Calls -> Calls \cup {None}]
    /\ resumed \subseteq Closers
    /\ destroyed \in BOOLEAN /\ closed \in BOOLEAN /\ socketOpen \in BOOLEAN
    /\ destroys \in Nat
    /\ crashed \in BOOLEAN

(* A call is registered under exactly its responses while it is pending    *)
(* and under nothing else: `clear' and destroy leave no callback behind,   *)
(* so no reply is swallowed by a call that is already settled.             *)
CallbacksExact ==
    \A m \in Methods : callbacks[m] = {c \in Pending : m \in Responses[c]}

(* A resolved call was resolved by the answer to its own request, although *)
(* handle_method matches answers to calls by method and age only.          *)
OwnReply == \A c \in Calls : phase[c] = "resolved" => got[c] = c

(* While the channel lives every answer finds its caller: `Handler not     *)
(* found', which ends the process, is never reached by an answer.          *)
AnswerIsAwaited ==
    \A c \in Calls : (net[c] = "ticking" /\ ~destroyed) => phase[c] = "pending"

(* Only the close of a destroy ends the process: it was rejected by a      *)
(* later destroy, because its write failed, or because its encoder refuses *)
(* the text of the error.  No call of a user and no close() does, and no   *)
(* answer comes without a call that waits for it.                          *)
CrashByDestroy ==
    crashed => \E d \in Destroyers :
        phase[d] = "rejected" /\ (destroys > 1 \/ net[d] \in {"refused", "lost"})

(* Every call that was made is settled, unless the channel is destroyed or *)
(* its socket fails meanwhile: no answer is lost between the stream, the   *)
(* ticks and the callbacks, and no call starves behind another.            *)
CallsSettle ==
    \A c \in Calls :
        phase[c] = "scheduled"
            ~> phase[c] \in {"resolved", "rejected"} \/ destroyed \/ ~socketOpen

-----------------------------------------------------------------------------
(* What the callers see is what Calls promises. *)
Seen == [c \in Calls |-> IF phase[c] = "idle" THEN "unused"
                         ELSE IF phase[c] \in {"scheduled", "pending"} THEN "waiting"
                         ELSE phase[c]]

Replied == {c \in Calls : answer[c] # None}

Promise == INSTANCE Calls WITH outcome <- Seen, replied <- Replied

ImplementsCalls == Promise!Spec
=============================================================================
