------------------------------ MODULE Consumer ------------------------------
(***************************************************************************)
(* Consuming: ChannelConsume and ConsumeStream (src/lib/consumer.ts), once *)
(* subscribe has returned.                                                 *)
(*                                                                         *)
(* The frames of a delivery become chunks of an input stream, each in a    *)
(* tick.  ConsumeStream takes the chunks one by one, puts messages         *)
(* together from them and hands a message out when its header has come;    *)
(* its body follows as a stream of its own.  The user reads messages and   *)
(* acknowledges them when he likes.                                        *)
(***************************************************************************)
EXTENDS EventLoop, Naturals, FiniteSets, SequencesExt

CONSTANTS
    Deliveries,    \* number of messages in the queue
    Pieces,        \* Pieces[d]: number of body frames of delivery d
    Prefetch,      \* prefetch_count
    MayUnsubscribe, MayCancel, MayFail    \* the user, the broker, the socket

Tags == 1..Deliveries    \* delivery tags

ASSUME ConsumerAssumption ==
    /\ Deliveries \in Nat
    /\ Pieces \in [Tags -> Nat]
    /\ Prefetch \in Nat \ {0}
    /\ MayUnsubscribe \in BOOLEAN /\ MayCancel \in BOOLEAN /\ MayFail \in BOOLEAN

NoMessage == 0

VARIABLES
    input,      \* chunks of _input
    inputEnd,   \* _input: open, ended (null was pushed), destroyed
    current,    \* _current: a tag, or NoMessage
    header,     \* current.properties are set
    waitSize,   \* _wait_size
    output,     \* messages handed out and not read yet
    stream,     \* ConsumeStream: running, finished, errored
    body,       \* body frames in the body stream of a message
    ended,      \* messages whose body stream has ended
    given,      \* messages the user has read, in order
    called,     \* messages that were acknowledged
    cancelled, destroyed,   \* flags of the channel
    cancelling, \* the cancel handler awaits the write of cancel_ok
    socketOpen,
    toClient, toPeer,
    next,       \* the next delivery of the broker
    unacked,    \* deliveries the broker waits for
    offence     \* the broker got a frame it did not expect

assembly == <<current, header, waitSize, output, body, ended>>
channel == <<cancelled, destroyed, cancelling, socketOpen>>
broker == <<next, unacked, offence>>
vars == <<input, inputEnd, assembly, stream, given, called, channel, ticks, draining,
          toClient, toPeer, broker>>

Init ==
    /\ input = <<>> /\ inputEnd = "open"
    /\ current = NoMessage /\ header = FALSE /\ waitSize = 0
    /\ output = <<>> /\ stream = "running"
    /\ body = [d \in Tags |-> 0] /\ ended = {}
    /\ given = <<>> /\ called = {}
    /\ cancelled = FALSE /\ destroyed = FALSE /\ cancelling = FALSE
    /\ socketOpen = TRUE
    /\ LoopInit /\ toClient = <<>> /\ toPeer = <<>>
    /\ next = 1 /\ unacked = {} /\ offence = FALSE

-----------------------------------------------------------------------------
(* Jobs.  A write of ConsumeStream waits while its output is full. *)

Writes == stream = "running" /\ input # <<>> /\ Len(output) < Prefetch
Ends == stream = "running" /\ input = <<>> /\ inputEnd = "ended" /\ Len(output) < Prefetch
Breaks == stream = "running" /\ inputEnd = "destroyed"
Continuations == Writes \/ Ends \/ Breaks

Turn == BeginTurn(Continuations)
Continue == RunContinuation
Tick(job) == RunTick(job, Continuations)

-----------------------------------------------------------------------------
(* The channel *)

\* A chunk is pushed to the input: after the end that is an error of the
\* stream.
Push(chunk) ==
    \/ /\ inputEnd = "open"
       /\ input' = Append(input, chunk)
       /\ UNCHANGED inputEnd
    \/ /\ inputEnd = "ended"
       /\ inputEnd' = "destroyed"
       /\ UNCHANGED input
    \/ inputEnd = "destroyed" /\ UNCHANGED <<input, inputEnd>>

\* destroy: the input ends, if it has not; channel.close is written when the
\* socket is open.
DestroyChannel ==
    /\ inputEnd' = IF inputEnd = "open" /\ ~cancelled THEN "ended" ELSE inputEnd
    /\ cancelled' = TRUE /\ destroyed' = TRUE
    /\ toPeer' = IF socketOpen /\ ~destroyed THEN Append(toPeer, [f |-> "close", d |-> NoMessage])
                 ELSE toPeer

\* The connection is destroyed: its channel, and the socket before the close
\* can be written.
DestroyConnection ==
    /\ inputEnd' = IF inputEnd = "open" /\ ~cancelled THEN "ended" ELSE inputEnd
    /\ cancelled' = TRUE /\ destroyed' = TRUE
    /\ socketOpen' = FALSE
    /\ toClient' = <<>>
    /\ UNCHANGED <<toPeer, cancelling>>

\* Mutant: headers and bodies are pushed at once, not in ticks.
DecodeAtOnce ==
    /\ Turn /\ ~destroyed
    /\ \E k \in 1..Len(toClient) :
          LET piece == SubSeq(toClient, 1, k)
          IN  /\ ticks' = ticks \o SelectSeq(piece, LAMBDA f : f.f \in {"deliver", "cancel"})
              /\ input' = input \o IF inputEnd = "open"
                                   THEN SelectSeq(piece, LAMBDA f : f.f \in {"header", "body"})
                                   ELSE <<>>
              /\ toClient' = SubSeq(toClient, k + 1, Len(toClient))
    /\ UNCHANGED <<inputEnd, assembly, stream, given, called, channel, toPeer, broker>>

\* A piece of the stream is decoded: each of its frames gets a tick.
Decode ==
    /\ Turn /\ ~destroyed
    /\ \E k \in 1..Len(toClient) :
          /\ ticks' = ticks \o SubSeq(toClient, 1, k)
          /\ toClient' = SubSeq(toClient, k + 1, Len(toClient))
    /\ UNCHANGED <<input, inputEnd, assembly, stream, given, called, channel, toPeer, broker>>

\* A frame for a channel that is not in the map: an error of the connection.
DecodeUnknown ==
    /\ Turn /\ destroyed
    /\ toClient # <<>>
    /\ DestroyConnection
    /\ UNCHANGED <<input, assembly, stream, given, called, ticks, broker>>

\* The tick of a frame of a delivery.  That of basic.deliver goes through
\* handle_method, which drops it on a destroyed channel; header and body do
\* not look.
PushFrame(job) ==
    /\ Tick(job)
    /\ job.f \in {"deliver", "header", "body"}
    /\ ticks' = Tail(ticks)
    /\ IF job.f = "deliver" /\ destroyed THEN UNCHANGED <<input, inputEnd>> ELSE Push(job)
    /\ UNCHANGED <<assembly, stream, given, called, channel, toClient, toPeer, broker>>

\* basic.cancel of the broker: cancel_ok first, unless already cancelled.
HandleCancel(job) ==
    /\ Tick(job)
    /\ job.f = "cancel"
    /\ ticks' = Tail(ticks)
    /\ cancelling' = (~cancelled /\ ~destroyed)
    /\ UNCHANGED <<input, inputEnd, assembly, stream, given, called, cancelled, destroyed,
                   socketOpen, toClient, toPeer, broker>>

CancelOkWritten ==
    /\ Turn
    /\ cancelling
    /\ cancelling' = FALSE
    /\ DestroyChannel
    /\ UNCHANGED <<input, assembly, stream, given, called, socketOpen, ticks, toClient, broker>>

\* unsubscribe() only ends the input; the broker is not told.
Unsubscribe ==
    /\ Continue
    /\ MayUnsubscribe /\ ~cancelled
    /\ cancelled' = TRUE
    /\ inputEnd' = IF inputEnd = "open" THEN "ended" ELSE "destroyed"
    /\ UNCHANGED <<input, assembly, stream, given, called, destroyed, cancelling, socketOpen,
                   ticks, toClient, toPeer, broker>>

ConnectionFails ==
    /\ Turn
    /\ MayFail /\ socketOpen
    /\ DestroyConnection
    /\ UNCHANGED <<input, assembly, stream, given, called, ticks, broker>>

-----------------------------------------------------------------------------
(* ConsumeStream *)

\* Which chunk a message in the making can take.
Fits(chunk) ==
    \/ chunk.f = "deliver" /\ current = NoMessage
    \/ chunk.f = "header" /\ current # NoMessage /\ ~header
    \/ chunk.f = "body" /\ current # NoMessage /\ header /\ waitSize > 0

TakeDeliver(chunk) ==
    /\ chunk.f = "deliver"
    /\ current' = chunk.d /\ header' = FALSE
    /\ UNCHANGED <<waitSize, output, body, ended>>

\* The message is handed out; without a body it is complete.
TakeHeader(chunk) ==
    /\ chunk.f = "header"
    /\ output' = Append(output, current)
    /\ IF Pieces[chunk.d] = 0
       THEN current' = NoMessage /\ header' = FALSE /\ waitSize' = 0 /\ ended' = ended \cup {current}
       ELSE header' = TRUE /\ waitSize' = Pieces[chunk.d] /\ UNCHANGED <<current, ended>>
    /\ UNCHANGED body

\* wait_size === 0
LastPiece(size) == size = 1

\* Mutant: flush_message(true), the message is handed out once more.
TakeBodyTwice(chunk) ==
    /\ chunk.f = "body"
    /\ body' = [body EXCEPT ![current] = @ + 1]
    /\ IF LastPiece(waitSize)
       THEN /\ current' = NoMessage /\ header' = FALSE /\ waitSize' = 0
            /\ ended' = ended \cup {current} /\ output' = Append(output, current)
       ELSE waitSize' = waitSize - 1 /\ UNCHANGED <<current, header, ended, output>>

\* Mutant: flush_message does not reset _wait_size.
TakeBodyKeep(chunk) ==
    /\ chunk.f = "body"
    /\ body' = [body EXCEPT ![current] = @ + 1]
    /\ IF LastPiece(waitSize)
       THEN current' = NoMessage /\ header' = FALSE /\ ended' = ended \cup {current} /\ UNCHANGED waitSize
       ELSE waitSize' = waitSize - 1 /\ UNCHANGED <<current, header, ended>>
    /\ UNCHANGED output

TakeBody(chunk) ==
    /\ chunk.f = "body"
    /\ body' = [body EXCEPT ![current] = @ + 1]
    /\ IF LastPiece(waitSize)
       THEN current' = NoMessage /\ header' = FALSE /\ waitSize' = 0 /\ ended' = ended \cup {current}
       ELSE waitSize' = waitSize - 1 /\ UNCHANGED <<current, header, ended>>
    /\ UNCHANGED output

\* _writeAsync of the next chunk.
Write ==
    /\ Continue
    /\ Writes
    /\ input' = Tail(input)
    /\ LET chunk == Head(input)
       IN  IF Fits(chunk)
           THEN /\ TakeDeliver(chunk) \/ TakeHeader(chunk) \/ TakeBody(chunk)
                /\ UNCHANGED <<stream, inputEnd, channel, toClient, toPeer>>
           ELSE /\ stream' = "errored"
                /\ IF destroyed THEN UNCHANGED <<inputEnd, channel, toClient, toPeer>>
                   ELSE DestroyConnection
                /\ UNCHANGED assembly
    /\ UNCHANGED <<given, called, ticks, broker>>

\* The pipeline from the input to the stream has ended: the connection is
\* destroyed, unless the channel is.
PipelineEnds(outcome) ==
    /\ Continue
    /\ stream' = outcome
    /\ IF destroyed THEN UNCHANGED <<inputEnd, channel, toClient, toPeer>>
       ELSE DestroyConnection
    /\ UNCHANGED <<input, assembly, given, called, ticks, broker>>

InputEnds == Ends /\ PipelineEnds("finished")
InputBreaks == Breaks /\ PipelineEnds("errored")

-----------------------------------------------------------------------------
(* The user *)

Read ==
    /\ Continue
    /\ output # <<>> /\ stream # "errored"
    /\ given' = Append(given, Head(output)) /\ output' = Tail(output)
    /\ UNCHANGED <<input, inputEnd, current, header, waitSize, body, ended, stream, called,
                   channel, ticks, toClient, toPeer, broker>>

\* Mutant: the acknowledgement is not written.
AckUnwritten(d) ==
    /\ Continue
    /\ d \in ToSet(given) \ called
    /\ called' = called \cup {d}
    /\ UNCHANGED <<input, inputEnd, assembly, stream, given, channel, ticks, toClient, toPeer,
                   broker>>

\* ack() or nack() of a message; the second call does nothing.
Ack(d) ==
    /\ Continue
    /\ d \in ToSet(given)
    /\ d \notin called
    /\ called' = called \cup {d}
    /\ toPeer' = IF socketOpen THEN Append(toPeer, [f |-> "ack", d |-> d]) ELSE toPeer
    /\ UNCHANGED <<input, inputEnd, assembly, stream, given, channel, ticks, toClient, broker>>

-----------------------------------------------------------------------------
(* The broker *)

Deliver ==
    /\ next \in Tags /\ Cardinality(unacked) < Prefetch
    /\ socketOpen /\ ~offence
    /\ next' = next + 1
    /\ unacked' = unacked \cup {next}
    /\ toClient' = toClient \o <<[f |-> "deliver", d |-> next], [f |-> "header", d |-> next]>>
                            \o [i \in 1..Pieces[next] |-> [f |-> "body", d |-> next]]
    /\ UNCHANGED <<input, inputEnd, assembly, stream, given, called, channel, ticks, draining,
                   toPeer, offence>>

\* Nothing is delivered after a cancel.
Cancel ==
    /\ MayCancel /\ next \in Tags /\ socketOpen
    /\ next' = Deliveries + 1
    /\ toClient' = Append(toClient, [f |-> "cancel", d |-> NoMessage])
    /\ UNCHANGED <<input, inputEnd, assembly, stream, given, called, channel, ticks, draining,
                   toPeer, unacked, offence>>

\* A close is answered with close_ok.  After it, or for another tag, an ack is
\* an error.
BrokerReads ==
    /\ toPeer # <<>>
    /\ toPeer' = Tail(toPeer)
    /\ LET f == Head(toPeer)
       IN  IF f.f = "close"
           THEN /\ unacked' = {} /\ next' = Deliveries + 1
                /\ toClient' = IF socketOpen
                               THEN Append(toClient, [f |-> "close_ok", d |-> NoMessage])
                               ELSE toClient
                /\ UNCHANGED offence
           ELSE /\ unacked' = unacked \ {f.d}
                /\ offence' = (offence \/ f.d \notin unacked)
                /\ UNCHANGED <<next, toClient>>
    /\ UNCHANGED <<input, inputEnd, assembly, stream, given, called, channel, ticks, draining>>

-----------------------------------------------------------------------------
Ticks == ticks # <<>> /\ LET job == Head(ticks) IN PushFrame(job) \/ HandleCancel(job)

Continues == Write \/ InputEnds \/ InputBreaks

Next ==
    \/ Ticks \/ Continues
    \/ Decode \/ DecodeUnknown \/ CancelOkWritten \/ ConnectionFails
    \/ Unsubscribe \/ Read \/ \E d \in Tags : Ack(d)
    \/ Deliver \/ Cancel \/ BrokerReads

Spec == Init /\ [][Next]_vars

\* The event loop runs, the broker delivers and the user reads and
\* acknowledges what he reads.
FairSpec ==
    /\ Spec
    /\ WF_vars(Ticks) /\ WF_vars(Continues) /\ WF_vars(Decode) /\ WF_vars(DecodeUnknown)
    /\ WF_vars(CancelOkWritten)
    /\ WF_vars(Read) /\ \A d \in Tags : WF_vars(Ack(d))
    /\ WF_vars(Deliver) /\ WF_vars(BrokerReads)

-----------------------------------------------------------------------------
TypeOK ==
    /\ inputEnd \in {"open", "ended", "destroyed"}
    /\ current \in Tags \cup {NoMessage} /\ header \in BOOLEAN
    /\ waitSize \in 0..(IF current = NoMessage THEN 0 ELSE Pieces[current])
    /\ ToSet(output) \subseteq Tags /\ Len(output) <= Prefetch
    /\ stream \in {"running", "finished", "errored"}
    /\ \A d \in Tags : body[d] \in 0..Pieces[d]
    /\ ended \subseteq Tags /\ called \subseteq ToSet(given)
    /\ unacked \subseteq Tags /\ next \in 1..(Deliveries + 1)

(* Messages come out in the order of the queue and none is skipped or      *)
(* repeated, whatever pieces they arrive in and however slowly the user    *)
(* reads, up to the end of the stream; the end of a body means that all of *)
(* it was received: a cut connection, an unsubscribe or a cancel is never  *)
(* taken for the end of a message; and no delivery is acknowledged twice,  *)
(* or for another, but on a channel that is closed.                        *)
HandedWhole ==
    /\ given \o output = [i \in 1..Len(given \o output) |-> i]
    /\ \A d \in ended : body[d] = Pieces[d]
    /\ offence => destroyed

(* The next chunk always fits the message in the making: none of the       *)
(* `Unexpected ...' errors is reached, in whatever pieces the frames       *)
(* arrive, and also when the stream ends in the middle of a message.       *)
ChunksFit == stream = "running" /\ input # <<>> => Fits(Head(input))

(* Every message of the queue is given to the user in the end, and its     *)
(* body ends: no chunk is stuck behind a full output or a prefetch that is *)
(* used up.  Only the end of the consumer keeps messages from the user.    *)
AllConsumed == \A d \in Tags : <>(cancelled \/ (d \in ToSet(given) /\ d \in ended))

(* unsubscribe(), as every other end of the consumer, ends the stream, and *)
(* with it the connection.                                                 *)
UnsubscribeEnds == cancelled ~> destroyed /\ stream # "running"

(* What is begun comes to its end. *)
ConsumerSettles == AllConsumed /\ UnsubscribeEnds
=============================================================================
