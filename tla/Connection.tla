----------------------------- MODULE Connection -----------------------------
(***************************************************************************)
(* The close handshakes of a connection and its channels: Connection and   *)
(* ChannelChildAbstract (src/lib/channel.ts), from the moment the          *)
(* connection is open, against the broker at the other end of the socket.  *)
(*                                                                         *)
(* The texts of the errors are such as the encoder of a close takes; see   *)
(* Requests and Publisher for those that it refuses.                       *)
(*                                                                         *)
(* A frame carries the channel object it belongs to (`for').  The program  *)
(* does not see it: it goes by the number alone.                           *)
(***************************************************************************)
EXTENDS EventLoop, Integers, SequencesExt

CONSTANTS
    Channels,      \* channel objects; each is opened at most once
    ChannelMax,    \* options.channel_max
    Closers,       \* channels on which close is called
    CloseAgain,    \* objects on which close may be called once more, while they
                   \* are being closed or when they are destroyed
    Destroyers,    \* channels on which destroy is called while they live
    PeerCloses,    \* channels the broker may close
    Closing,       \* who may close the connection: "user", "peer", "failure"
    MaxContent     \* bound on the deliveries and flows of the broker

Conn == "connection"
None == "none"
Objects == Channels \cup {Conn}
Numbers == 1..ChannelMax

ASSUME ConnectionAssumption ==
    /\ ChannelMax \in Nat \ {0}
    /\ Closers \subseteq Channels /\ Destroyers \subseteq Channels
    /\ PeerCloses \subseteq Channels
    /\ CloseAgain \subseteq Objects
    /\ Closing \subseteq {"user", "peer", "failure"}
    /\ MaxContent \in Nat
    /\ Conn \notin Channels /\ None \notin Channels

\* The calls an object can make: channel.open, the close of close(), that of
\* another close(), and the close of destroy().
Kinds == {"open", "close", "again", "drop"}

VARIABLES
    stage,      \* where channel_open stands: idle, asked, made, open, failed
    number,     \* the number of a channel; 0: none yet
    channels,   \* Connection.channels
    call,       \* none, scheduled, pending, resolved or rejected
    destroyed,  \* the objects with `destroyed' set
    closed,     \* the objects with `closed' set
    replying,   \* objects whose close handler has written its close_ok
    decoding,   \* idle; reading: in a piece of the stream; failed
    toPeer, toClient,
    session,    \* the broker's channels: closed, open, closing, and for whom
    peer,       \* the broker's connection: open, closing, closed
    contents,   \* deliveries and flows sent
    socketOpen,
    offence,    \* the method that the broker had to answer with an exception
    crashed     \* fatal: process.exit

objects == <<stage, number, channels, call, destroyed, closed, replying>>
broker == <<session, peer, contents, offence>>
vars == <<objects, ticks, draining, decoding, toPeer, toClient, broker,
          socketOpen, crashed>>

NoSession == [state |-> "closed", for |-> None]

Init ==
    /\ stage = [c \in Channels |-> "idle"]
    /\ number = [c \in Channels |-> 0]
    /\ channels = [n \in Numbers |-> None]
    /\ call = [o \in Objects |-> [k \in Kinds |-> "none"]]
    /\ destroyed = {} /\ closed = {} /\ replying = {}
    /\ LoopInit /\ decoding = "idle"
    /\ toPeer = <<>> /\ toClient = <<>>
    /\ session = [n \in Numbers |-> NoSession]
    /\ peer = "open" /\ contents = 0 /\ offence = None
    /\ socketOpen = TRUE
    /\ crashed = FALSE

-----------------------------------------------------------------------------
(* Jobs *)

\* What an await has been answered with and has not continued from.
Resolved(o, k) == call[o][k] = "resolved"

Continuations ==
    \/ \E c \in Channels : stage[c] = "made" /\ call[c]["open"] \in {"none", "resolved", "rejected"}
    \/ \E o \in Objects \ closed : Resolved(o, "close")
    \/ Conn \in replying

Idle == ~crashed /\ Quiet(Continuations)

\* The piece of the stream that was being decoded has been decoded.
PieceEnds == decoding' = IF decoding = "reading" THEN "idle" ELSE decoding

Turn == ~crashed /\ BeginTurn(Continuations)

\* The code of the user runs as a continuation, or begins a turn.
Continue == ~crashed /\ RunContinuation /\ PieceEnds

Tick(job) == ~crashed /\ RunTick(job, Continuations) /\ PieceEnds

NumberOf(o) == IF o = Conn THEN 0 ELSE number[o]

\* writeSocket: on a socket that is not open it returns as if it had written.
Write(o, m) ==
    toPeer' = IF socketOpen
              THEN Append(toPeer, [n |-> NumberOf(o), m |-> m, for |-> o])
              ELSE toPeer

\* The callback of the pipeline from the socket to the decoder.
Ended == [type |-> "ended"]

CallJob(o, k) == [type |-> "call", o |-> o, k |-> k]

-----------------------------------------------------------------------------
(* destroy *)

\* Mutant: destroy leaves the numbers of the channels in the map.
MapKept(D) == channels

\* Mutant: the map is made anew, of the numbers that are left.
MapCut(D) == [n \in { m \in Numbers : channels[m] \notin D } |-> channels[n]]

\* The map without the numbers of D.
MapWithout(D) ==
    [n \in Numbers |-> IF \E c \in D \ {Conn} : number[c] = n THEN None ELSE channels[n]]

\* Mutant: call_close does not look at `closed'.
DropsAlways(D, closes) == {o \in D : socketOpen /\ o \notin destroyed}

\* The objects of D for which destroy calls call_close, which makes a call.
Drops(D, closes) == {o \in D : socketOpen /\ o \notin destroyed /\ o \notin closes}

\* destroy of the objects D, on which `closes' are closed: the calls that are
\* registered are rejected; that of an earlier destroy goes to fatal.
DestroyAll(D, closes, rest) ==
    LET drops == Drops(D, closes)
    IN  /\ call' = [o \in Objects |-> [k \in Kinds |->
                       IF o \in D /\ call[o][k] = "pending" THEN "rejected"
                       ELSE IF o \in drops /\ k = "drop" THEN "scheduled"
                       ELSE call[o][k]]]
        /\ ticks' = rest \o SetToSeq({CallJob(o, "drop") : o \in drops})
                         \o (IF Conn \in D /\ socketOpen THEN <<Ended>> ELSE <<>>)
        /\ destroyed' = destroyed \cup D
        /\ closed' = closes
        /\ channels' = MapWithout(D)
        /\ crashed' = (\E o \in D : call[o]["drop"] = "pending")

\* A channel by itself.
DestroyChannel(c, closes, rest) ==
    DestroyAll({c}, closes, rest) /\ UNCHANGED <<socketOpen, toClient>>

\* The connection, after the channels in the map; the socket is destroyed
\* before any of the calls can write.
DestroyConnection(closes, rest) ==
    /\ DestroyAll(({channels[n] : n \in Numbers} \ {None}) \cup {Conn}, closes, rest)
    /\ socketOpen' = FALSE
    /\ toClient' = <<>>

-----------------------------------------------------------------------------
(* channel_open *)

\* The promise of channel_open waits for a tick.
ChannelOpen(c) ==
    /\ Continue
    /\ stage[c] = "idle"
    /\ stage' = [stage EXCEPT ![c] = "asked"]
    /\ ticks' = Append(ticks, [type |-> "channel_open", o |-> c])
    /\ UNCHANGED <<number, channels, call, destroyed, closed, replying, toPeer,
                   toClient, broker, socketOpen, crashed>>

\* Mutant: any number.
FreeAll == Numbers

Free == {n \in Numbers : channels[n] = None}

\* Mutant: at the limit the promise is neither resolved nor rejected.
ChannelOpenSilent(c) ==
    /\ Tick([type |-> "channel_open", o |-> c])
    /\ Free = {}
    /\ ticks' = Tail(ticks)
    /\ UNCHANGED <<objects, toPeer, toClient, broker, socketOpen, crashed>>

\* In the tick a number is chosen; which one is the business of ChannelIds.
ChannelOpenTick(c) ==
    /\ Tick([type |-> "channel_open", o |-> c])
    /\ ticks' = Tail(ticks)
    /\ \/ /\ Conn \in destroyed \/ Free = {}
          /\ stage' = [stage EXCEPT ![c] = "failed"]
          /\ UNCHANGED <<number, channels>>
       \/ /\ Conn \notin destroyed
          /\ \E n \in Free : /\ number' = [number EXCEPT ![c] = n]
                             /\ channels' = [channels EXCEPT ![n] = c]
          /\ stage' = [stage EXCEPT ![c] = "made"]
    /\ UNCHANGED <<call, destroyed, closed, replying, toPeer, toClient, broker,
                   socketOpen, crashed>>

\* channel_open goes on: it makes the call, and returns when that is settled.
ChannelOpenContinues(c) ==
    /\ Continue
    /\ stage[c] = "made"
    /\ \/ /\ call[c]["open"] = "none"
          /\ call' = [call EXCEPT ![c]["open"] = "scheduled"]
          /\ ticks' = Append(ticks, CallJob(c, "open"))
          /\ stage' = stage
       \/ /\ call[c]["open"] \in {"resolved", "rejected"}
          /\ stage' = [stage EXCEPT ![c] = IF Resolved(c, "open") THEN "open" ELSE "failed"]
          /\ UNCHANGED <<call, ticks>>
    /\ UNCHANGED <<number, channels, destroyed, closed, replying, toPeer, toClient,
                   broker, socketOpen, crashed>>

\* The tick of call_api: the call is registered and its request written.
CallTick(o, k) ==
    /\ Tick(CallJob(o, k))
    /\ ticks' = Tail(ticks)
    /\ call' = [call EXCEPT ![o][k] = "pending"]
    /\ Write(o, IF k = "open" THEN "open" ELSE "close")
    /\ UNCHANGED <<stage, number, channels, destroyed, closed, replying, toClient,
                   broker, socketOpen, crashed>>

-----------------------------------------------------------------------------
(* The stream of the broker *)

\* The object a frame is handed to: None if its number is not in the map.
Target(f) == IF f.n = 0 THEN Conn ELSE channels[f.n]

\* _decode takes the next frame of a piece.  An unknown number fails the
\* stream; the error reaches the connection in a later tick.
Decode ==
    /\ ~crashed
    /\ \/ decoding = "reading" /\ UNCHANGED draining
       \/ decoding = "idle" /\ Turn
    /\ toClient # <<>>
    /\ LET f == Head(toClient)
           o == Target(f)
       IN  IF o = None
           THEN /\ decoding' = "failed"
                /\ ticks' = Append(ticks, Ended)
           ELSE /\ decoding' = "reading"
                /\ ticks' = Append(ticks, [type |-> "method", o |-> o, m |-> f.m, for |-> f.for])
    /\ toClient' = Tail(toClient)
    /\ UNCHANGED <<objects, toPeer, broker, socketOpen, crashed>>

\* The ticks of handle_method.  On a destroyed object the method is dropped.
HandleDropped(job) ==
    /\ Tick(job)
    /\ job.o \in destroyed
    /\ ticks' = Tail(ticks)
    /\ UNCHANGED <<objects, toPeer, toClient, broker, socketOpen, crashed>>

\* The calls an answer may settle: of two close() the one that is older.
Answers(job) ==
    {k \in Kinds : /\ call[job.o][k] = "pending"
                   /\ job.m = IF k = "open" THEN "open_ok" ELSE "close_ok"
                   /\ k = "again" => call[job.o]["close"] # "pending"}

\* An answer settles the call that waits for it; without one there is no
\* handler for the method, which is fatal.
HandleAnswer(job) ==
    /\ Tick(job)
    /\ job.o \notin destroyed
    /\ job.m \in {"open_ok", "close_ok"}
    /\ \/ Answers(job) = {} /\ crashed' = TRUE /\ UNCHANGED call
       \/ /\ \E k \in Answers(job) : call' = [call EXCEPT ![job.o][k] = "resolved"]
          /\ UNCHANGED crashed
    /\ ticks' = Tail(ticks)
    /\ UNCHANGED <<stage, number, channels, destroyed, closed, replying, toPeer,
                   toClient, broker, socketOpen>>

\* The close handlers write close_ok first.
HandleClose(job) ==
    /\ Tick(job)
    /\ job.o \notin destroyed
    /\ job.m = "close"
    /\ Write(job.o, "close_ok")
    /\ replying' = replying \cup {job.o}
    /\ ticks' = Tail(ticks)
    /\ UNCHANGED <<stage, number, channels, call, destroyed, closed, toClient,
                   broker, socketOpen, crashed>>

\* The handler of channel.flow answers in the same tick, also after channel.close.
\* Nothing reads the flag that it sets.
HandleFlow(job) ==
    /\ Tick(job)
    /\ job.o \notin destroyed
    /\ job.m = "flow"
    /\ Write(job.o, "flow_ok")
    /\ ticks' = Tail(ticks)
    /\ UNCHANGED <<stage, number, channels, call, destroyed, closed, replying, toClient,
                   broker, socketOpen, crashed>>

\* Any other method.  Its handler may destroy the channel at once: a delivery
\* with an unknown consumer tag, content on a channel that takes none.
HandleContent(job) ==
    /\ Tick(job)
    /\ job.o \notin destroyed
    /\ job.m = "content"
    /\ \/ /\ ticks' = Tail(ticks)
          /\ UNCHANGED <<call, destroyed, closed, channels, socketOpen, toClient, crashed>>
       \/ job.o \in Destroyers /\ DestroyChannel(job.o, closed, Tail(ticks))
    /\ UNCHANGED <<stage, number, replying, toPeer, broker>>

\* The handler of a channel has awaited the write of close_ok: destroy.
\* A write that was under way when the socket was destroyed may report an
\* error, which the handler hands to fatal.
CloseOkWritten(c) ==
    /\ Turn /\ PieceEnds
    /\ c \in replying
    /\ replying' = replying \ {c}
    /\ \/ DestroyChannel(c, closed, ticks)
       \/ /\ ~socketOpen /\ crashed' = TRUE
          /\ UNCHANGED <<call, ticks, destroyed, closed, channels, socketOpen, toClient>>
    /\ UNCHANGED <<stage, number, toPeer, broker>>

\* That of the connection has not: it goes on in the same turn.
ConnectionCloseContinues ==
    /\ Continue
    /\ Conn \in replying
    /\ replying' = replying \ {Conn}
    /\ DestroyConnection(closed, ticks)
    /\ UNCHANGED <<stage, number, toPeer, broker>>

\* The stream has failed or ended: the connection is destroyed, if it is not.
StreamEnds ==
    /\ Tick(Ended)
    /\ \/ /\ Conn \in destroyed
          /\ ticks' = Tail(ticks)
          /\ UNCHANGED <<call, destroyed, closed, channels, crashed, socketOpen, toClient>>
       \/ Conn \notin destroyed /\ DestroyConnection(closed, Tail(ticks))
    /\ UNCHANGED <<stage, number, replying, toPeer, broker>>

-----------------------------------------------------------------------------
(* close *)

\* close() of a channel that was opened, or of the connection.
Close(o) ==
    /\ Continue
    /\ o \notin destroyed
    /\ IF o = Conn THEN "user" \in Closing ELSE o \in Closers /\ stage[o] = "open"
    /\ call[o]["close"] = "none"
    /\ call' = [call EXCEPT ![o]["close"] = "scheduled"]
    /\ ticks' = Append(ticks, CallJob(o, "close"))
    /\ UNCHANGED <<stage, number, channels, destroyed, closed, replying, toPeer,
                   toClient, broker, socketOpen, crashed>>

\* close() after its call: closed is set, then destroy.
CloseReturns(o) ==
    /\ Continue
    /\ o \notin closed /\ Resolved(o, "close")
    /\ IF o = Conn THEN DestroyConnection(closed \cup {o}, ticks)
                   ELSE DestroyChannel(o, closed \cup {o}, ticks)
    /\ UNCHANGED <<stage, number, replying, toPeer, broker>>

\* Another close() before the first has come to its end: it makes a call of
\* its own.  destroy rejects that call when the first is answered.
CloseTwice(o) ==
    /\ Continue
    /\ o \in CloseAgain \ destroyed
    /\ call[o]["close"] # "none" /\ call[o]["again"] = "none"
    /\ call' = [call EXCEPT ![o]["again"] = "scheduled"]
    /\ ticks' = Append(ticks, CallJob(o, "again"))
    /\ UNCHANGED <<stage, number, channels, destroyed, closed, replying, toPeer,
                   toClient, broker, socketOpen, crashed>>

\* close() of a destroyed object, or the rest of the second of two whose calls
\* were answered together: there is no call to make, and destroy rejects what
\* is registered once more and deletes the number, whoever has it by now.
\* Without either it does nothing.
CloseDestroyed(o) ==
    /\ Continue
    /\ o \in CloseAgain \cap destroyed
    /\ o \in Channels => stage[o] = "open"
    /\ MapWithout({o}) # channels \/ \E k \in Kinds : call[o][k] = "pending"
    /\ call' = [call EXCEPT ![o] = [k \in Kinds |->
                   IF call[o][k] = "pending" THEN "rejected"
                   ELSE IF k = "again" /\ call[o][k] = "none" THEN "resolved"
                   ELSE call[o][k]]]
    /\ channels' = MapWithout({o})
    /\ crashed' = (call[o]["drop"] = "pending")
    /\ UNCHANGED <<stage, number, ticks, destroyed, closed, replying, toPeer,
                   toClient, broker, socketOpen>>

\* destroy of a channel in use, by its user.
Destroy(c) ==
    /\ Continue
    /\ c \in Destroyers \ destroyed /\ stage[c] = "open"
    /\ DestroyChannel(c, closed, ticks)
    /\ UNCHANGED <<stage, number, replying, toPeer, broker>>

-----------------------------------------------------------------------------
(* The socket and the broker *)

\* The socket ends or fails; what is on its way is lost.
SocketFails ==
    /\ Turn /\ PieceEnds
    /\ socketOpen
    /\ "failure" \in Closing \/ peer = "closed"
    /\ socketOpen' = FALSE
    /\ toPeer' = <<>> /\ toClient' = <<>>
    /\ ticks' = Append(ticks, Ended)
    /\ UNCHANGED <<objects, broker, crashed>>

Send(frames) == toClient' = IF socketOpen THEN toClient \o frames ELSE toClient

Reply(f, m) == Send(<<[n |-> f.n, m |-> m, for |-> f.for]>>)

\* A frame the state of the channel does not allow: a connection exception.
Exception(m) ==
    /\ offence' = m
    /\ peer' = "closing"
    /\ Send(<<[n |-> 0, m |-> "close", for |-> Conn]>>)
    /\ UNCHANGED session

PeerChannel(f) ==
    LET state == session[f.n].state
        Opens == f.m = "open" /\ state = "closed"
        Closes == f.m = "close" /\ state # "closed"
        Ends == f.m = "close_ok" /\ state = "closing"
        Flows == f.m = "flow_ok" /\ state # "closed"
    IN  \/ /\ Opens
           /\ session' = [session EXCEPT ![f.n] = [state |-> "open", for |-> f.for]]
           /\ Reply(f, "open_ok")
           /\ UNCHANGED <<peer, offence>>
        \/ /\ Closes
           /\ session' = [session EXCEPT ![f.n] = IF state = "open" THEN NoSession ELSE @]
           /\ Reply(f, "close_ok")
           /\ UNCHANGED <<peer, offence>>
        \/ /\ Ends
           /\ session' = [session EXCEPT ![f.n] = NoSession]
           /\ UNCHANGED <<peer, offence, toClient>>
        \/ Flows /\ UNCHANGED <<session, peer, offence, toClient>>
        \/ ~(Opens \/ Closes \/ Ends \/ Flows) /\ Exception(f.m)

PeerConnection(f) ==
    /\ peer' = "closed"
    /\ IF f.m = "close" THEN Reply(f, "close_ok") ELSE UNCHANGED toClient
    /\ UNCHANGED <<session, offence>>

\* The broker takes the next frame; once it is closing, only for the close.
PeerReads ==
    /\ toPeer # <<>>
    /\ toPeer' = Tail(toPeer)
    /\ LET f == Head(toPeer)
       IN  \/ f.n # 0 /\ peer = "open" /\ PeerChannel(f)
           \/ f.n = 0 /\ peer # "closed" /\ PeerConnection(f)
           \/ /\ peer = "closed" \/ (f.n # 0 /\ peer # "open")
              /\ UNCHANGED <<session, peer, offence, toClient>>
    /\ UNCHANGED <<objects, ticks, draining, decoding, contents, socketOpen, crashed>>

PeerSends ==
    /\ peer = "open" /\ socketOpen
    /\ \/ \E n \in Numbers :
             /\ session[n].state = "open"
             /\ \/ /\ contents < MaxContent
                   /\ contents' = contents + 1
                   /\ \E m \in {"content", "flow"} : Send(<<[n |-> n, m |-> m, for |-> session[n].for]>>)
                   /\ UNCHANGED <<session, peer>>
                \/ /\ session[n].for \in PeerCloses
                   /\ session' = [session EXCEPT ![n].state = "closing"]
                   /\ Send(<<[n |-> n, m |-> "close", for |-> session[n].for]>>)
                   /\ UNCHANGED <<contents, peer>>
       \/ /\ "peer" \in Closing
          /\ peer' = "closing"
          /\ Send(<<[n |-> 0, m |-> "close", for |-> Conn]>>)
          /\ UNCHANGED <<session, contents>>
    /\ UNCHANGED <<objects, ticks, draining, decoding, toPeer, offence, socketOpen, crashed>>

-----------------------------------------------------------------------------
Ticks ==
    \/ \E c \in Channels : ChannelOpenTick(c)
    \/ \E o \in Objects, k \in Kinds : CallTick(o, k)
    \/ /\ ticks # <<>> /\ Head(ticks).type = "method"
       /\ LET job == Head(ticks)
          IN  HandleDropped(job) \/ HandleAnswer(job) \/ HandleClose(job) \/ HandleFlow(job)
              \/ HandleContent(job)
    \/ StreamEnds

Continues ==
    \/ \E c \in Channels : ChannelOpenContinues(c)
    \/ \E o \in Objects : CloseReturns(o)
    \/ ConnectionCloseContinues

User ==
    \/ \E c \in Channels : ChannelOpen(c) \/ Destroy(c)
    \/ \E o \in Objects : Close(o) \/ CloseTwice(o) \/ CloseDestroyed(o)

Next ==
    \/ Ticks \/ Continues \/ User
    \/ Decode
    \/ \E c \in Channels : CloseOkWritten(c)
    \/ SocketFails
    \/ PeerReads \/ PeerSends

Spec == Init /\ [][Next]_vars

\* The event loop runs, the socket delivers, the broker answers.  Nobody has
\* to open, to close or to send, and the socket does not have to fail.
FairSpec ==
    /\ Spec
    /\ WF_vars(Ticks) /\ WF_vars(Continues)
    /\ WF_vars(Decode) /\ WF_vars(\E c \in Channels : CloseOkWritten(c))
    /\ WF_vars(PeerReads)

-----------------------------------------------------------------------------
TypeOK ==
    /\ stage \in [Channels -> {"idle", "asked", "made", "open", "failed"}]
    /\ number \in [Channels -> Numbers \cup {0}]
    /\ channels \in [Numbers -> Channels \cup {None}]
    /\ call \in [Objects -> [Kinds -> {"none", "scheduled", "pending", "resolved", "rejected"}]]
    /\ destroyed \subseteq Objects /\ closed \subseteq Objects
    /\ replying \subseteq Objects
    /\ draining \in BOOLEAN
    /\ decoding \in {"idle", "reading", "failed"}
    /\ session \in [Numbers -> [state : {"closed", "open", "closing"}, for : Channels \cup {None}]]
    /\ peer \in {"open", "closing", "closed"}
    /\ contents \in 0..MaxContent
    /\ offence \in {None, "open", "close", "close_ok", "flow_ok"} /\ socketOpen \in BOOLEAN /\ crashed \in BOOLEAN

(* A method is handled by the channel object it was meant for, although    *)
(* frames are told apart by number and numbers are used again: no answer   *)
(* or delivery of an earlier channel reaches a later one.                  *)
SameSession ==
    \A i \in DOMAIN ticks : ticks[i].type = "method" => ticks[i].o = ticks[i].for

\* Nothing is under way, on a connection that lives.
Settled ==
    /\ Idle /\ toPeer = <<>> /\ toClient = <<>> /\ peer = "open"
    /\ Conn \notin destroyed /\ replying = {}

(* A channel that lives and is not in the map: no frame reaches it, and     *)
(* the connection is destroyed without it.                                 *)
Unregistered(c) == number[c] # 0 /\ c \notin destroyed /\ channels[number[c]] # c

\* close() was called on an object that was being closed, or on a destroyed
\* one that had a call registered or whose number was in use again.
Repeated == \E o \in Objects : call[o]["again"] # "none"

\* A channel has ended otherwise than by one close() of its own.
Unclean ==
    \/ Destroyers \cap destroyed # {}
    \/ PeerCloses \cap (destroyed \cup replying) # {}
    \/ Repeated

(* When nothing is under way, client and broker have the same channels     *)
(* open, under the same numbers, as long as every channel that has ended   *)
(* did so by one close().                                                  *)
Agreement ==
    Settled /\ ~Unclean => \A n \in Numbers : session[n].for = channels[n]

(* A flow of the broker crossed the close() of its channel and was         *)
(* answered after it.                                                      *)
Crossed ==
    offence = "flow_ok" /\ \E c \in Closers : call[c]["close"] \in {"pending", "resolved", "rejected"}

(* Only a channel that ends otherwise than by one close() of its own can   *)
(* hurt others: before the first one that was destroyed in use, closed by  *)
(* the broker or closed again, no frame offends the broker, meets an       *)
(* unknown number or another channel's object, none drops out of the map,  *)
(* and the process lives; but for the answer to a flow that crosses a      *)
(* close().  The same goes for the connection: only a close() of one that  *)
(* is closed or lost already ends the process.                             *)
OnlyUncleanEndsHurt ==
    ~SameSession \/ offence # None \/ decoding = "failed" \/ crashed \/ (\E c \in Channels : Unregistered(c))
        => Unclean \/ Crossed

(* A channel that is asked for is opened or refused, unless the connection *)
(* goes away meanwhile.                                                    *)
OpensSettle ==
    \A c \in Channels :
        stage[c] = "asked" ~> stage[c] \in {"open", "failed"} \/ Conn \in destroyed \/ crashed

(* close() of a channel or of the connection ends in its being destroyed,  *)
(* even when the broker closes it or close() is called again at the same   *)
(* time; only a channel that has dropped out of the map may wait forever.  *)
ClosesSettle ==
    \A o \in Objects :
        call[o]["close"] # "none"
            ~> o \in destroyed \/ crashed \/ (o \in Channels /\ Unregistered(o))

(* When the broker closes a channel, its object is destroyed in the end,   *)
(* with the calls that were registered on it rejected, unless the user     *)
(* destroys it as well.                                                    *)
PeerCloseTaken ==
    \A c \in Channels \ Destroyers :
        (\E n \in Numbers : session[n] = [state |-> "closing", for |-> c])
            ~> \/ c \in destroyed /\ \A k \in {"open", "close"} : call[c][k] # "pending"
               \/ crashed \/ Unregistered(c)

(* What is begun between the two ends comes to its end. *)
EndsSettle == OpensSettle /\ ClosesSettle /\ PeerCloseTaken
=============================================================================
