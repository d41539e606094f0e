------------------------------ MODULE Publisher ------------------------------
(***************************************************************************)
(* Publishing with confirms: PublishStream (src/lib/publisher.ts) and the  *)
(* helper of Client.create_publisher (src/lib/client.ts).                  *)
(*                                                                         *)
(* publish() queues a message and waits.  The stream takes the messages    *)
(* one at a time: it makes a call that basic.return and basic.ack answer   *)
(* and whose request is the whole content, written frame by frame.  The    *)
(* broker confirms what it takes, and returns what it cannot route before  *)
(* it confirms it.  The client does not look at delivery tags.             *)
(*                                                                         *)
(* Opening the channel and select.confirm are one step; see Connection.    *)
(***************************************************************************)
EXTENDS EventLoop, Naturals

CONSTANTS
    Messages,      \* messages; each is published at most once
    Pieces,        \* Pieces[m]: number of body frames of m
    Bare,          \* messages without properties
    Broken,        \* messages whose body stream fails
    Unspeakable,   \* those that fail with a text no close can carry: the
                   \* encoder refuses one that is empty or over 255 bytes
    Unroutable,    \* messages the broker cannot route
    Nacked,        \* messages the broker refuses with basic.nack
    MayFail        \* the connection may fail

None == "none"

ASSUME PublisherAssumption ==
    /\ Pieces \in [Messages -> Nat]
    /\ Bare \subseteq Messages /\ Broken \subseteq Messages
    /\ Unspeakable \subseteq Broken
    /\ Unroutable \subseteq Messages /\ Nacked \subseteq Messages
    /\ MayFail \in BOOLEAN
    /\ None \notin Messages

VARIABLES
    status,     \* new, waiting, resolved, failed or refused: publish()
    held,       \* current_promise: that of the last publish()
    error, closed,      \* flags of the helper
    ending,     \* close(): no, asked, finished
    queue,      \* messages in the two streams
    current,    \* the message being written
    channel,    \* none, opening, open
    call,       \* none, scheduled, pending, acked, returned or rejected
    sent,       \* frames of a message written
    sending,    \* messages that are being sent
    down,       \* the connection is destroyed
    toPeer, toClient,
    incoming,   \* the content the broker is receiving
    taken,      \* the messages the broker has taken and routed
    offence,    \* the broker got a frame it did not expect
    parted,     \* history: a piece of the stream ended between a return and its ack
    doomed,     \* a close of destroy was refused by its encoder: fatal will follow
    crashed     \* fatal: process.exit

helper == <<status, held, error, closed, ending>>
stream == <<queue, current, channel, call, sent, sending>>
broker == <<incoming, taken, offence>>
vars == <<helper, stream, ticks, draining, down, toPeer, toClient, broker, parted, doomed, crashed>>

NoContent == [m |-> None, left |-> <<>>]

Init ==
    /\ status = [m \in Messages |-> "new"] /\ held = None
    /\ error = FALSE /\ closed = FALSE /\ ending = "no"
    /\ queue = <<>> /\ current = None /\ channel = "none"
    /\ call = [m \in Messages |-> "none"]
    /\ sent = [m \in Messages |-> 0] /\ sending = {}
    /\ LoopInit /\ down = FALSE
    /\ toPeer = <<>> /\ toClient = <<>>
    /\ incoming = NoContent /\ taken = {} /\ offence = FALSE /\ parted = FALSE
    /\ doomed = FALSE /\ crashed = FALSE

-----------------------------------------------------------------------------
Answered(m) == call[m] \in {"acked", "returned", "rejected"}

\* Mutant: the stream does not wait for the answer to the last message.
ReadyEarly ==
    queue # <<>> /\ ~down /\ IF current = None THEN TRUE ELSE call[current] = "pending"

\* The stream may begin its next write.
Ready == queue # <<>> /\ current = None /\ ~down

\* The second stream finishes when everything is written.
Finished == ending = "asked" /\ queue = <<>> /\ current = None /\ ~down
Continuations == (current # None /\ Answered(current)) \/ Ready \/ Finished

Turn == ~crashed /\ ~doomed /\ BeginTurn(Continuations)
Continue == ~crashed /\ RunContinuation
Tick(job) == ~crashed /\ RunTick(job, Continuations)

Body(m) == [i \in 1..Pieces[m] |-> "body"]
\* The frames of a message.  publish_header returns before it writes when
\* there are no properties.
Frames(m) == <<"publish">> \o (IF m \in Bare THEN <<>> ELSE <<"header">>) \o Body(m)

Write(m) ==
    toPeer' = IF down THEN toPeer ELSE Append(toPeer, [m |-> m, f |-> Frames(m)[sent[m] + 1]])

\* The next frame of m; afterwards, whether m is still being sent.
WriteNext(m) ==
    /\ Write(m)
    /\ sent' = [sent EXCEPT ![m] = @ + 1]
    /\ sending' = IF sent[m] + 1 = Len(Frames(m)) THEN sending \ {m} ELSE sending \cup {m}

\* The connection is destroyed: the call that is registered is rejected, and
\* the streams are destroyed, which calls back the pipeline.
GoDown(rest) ==
    /\ down' = TRUE
    /\ toClient' = <<>>
    /\ call' = [m \in Messages |-> IF call[m] = "pending" THEN "rejected" ELSE call[m]]
    /\ ticks' = IF down THEN rest ELSE Append(rest, [type |-> "pipeline"])

-----------------------------------------------------------------------------
(* create_publisher *)

\* publish() refuses after an error or the end; otherwise it replaces
\* current_promise.
Publish(m) ==
    /\ Continue
    /\ status[m] = "new" /\ ending = "no"
    /\ IF error \/ closed
       THEN /\ status' = [status EXCEPT ![m] = "refused"]
            /\ UNCHANGED <<held, queue>>
       ELSE /\ status' = [status EXCEPT ![m] = "waiting"]
            /\ held' = m
            /\ queue' = Append(queue, m)
    /\ UNCHANGED <<error, closed, ending, current, channel, call, sent, sending, ticks,
                   down, toPeer, toClient, broker, parted, doomed, crashed>>

\* close() ends the first stream and waits for the second to finish.
Close ==
    /\ Continue
    /\ ending = "no" /\ ~closed
    /\ ending' = "asked"
    /\ UNCHANGED <<status, held, error, closed, stream, ticks, down, toPeer, toClient,
                   broker, parted, doomed, crashed>>

\* The stream has finished: it is destroyed, and the connection with it.
Finish ==
    /\ Continue
    /\ Finished
    /\ ending' = "finished"
    /\ GoDown(ticks)
    /\ UNCHANGED <<status, held, error, closed, queue, current, channel, sent, sending,
                   toPeer, broker, parted, doomed, crashed>>

\* Mutant: the promise of the last publish() is left alone.
PipelineEndsQuietly ==
    /\ Tick([type |-> "pipeline"])
    /\ ticks' = Tail(ticks)
    /\ closed' = TRUE
    /\ error' = (error \/ ending # "finished")
    /\ UNCHANGED <<status, held, ending, stream, down, toPeer, toClient, broker, parted,
                   doomed, crashed>>

\* The callback of the pipeline rejects current_promise, if there is one.
PipelineEnds ==
    /\ Tick([type |-> "pipeline"])
    /\ ticks' = Tail(ticks)
    /\ closed' = TRUE
    /\ error' = (ending # "finished")
    /\ status' = [m \in Messages |-> IF m = held /\ status[m] = "waiting" THEN "failed"
                                     ELSE status[m]]
    /\ UNCHANGED <<held, ending, stream, down, toPeer, toClient, broker, parted, doomed,
                   crashed>>

-----------------------------------------------------------------------------
(* PublishStream *)

Job(type, m) == [type |-> type, m |-> m]

\* The next write of the stream; the first one opens the channel.
Take ==
    /\ Continue
    /\ Ready
    /\ current' = Head(queue) /\ queue' = Tail(queue)
    /\ channel' = IF channel = "none" THEN "opening" ELSE channel
    /\ IF channel = "open"
       THEN /\ call' = [call EXCEPT ![Head(queue)] = "scheduled"]
            /\ ticks' = Append(ticks, Job("register", Head(queue)))
       ELSE UNCHANGED <<call, ticks>>
    /\ UNCHANGED <<helper, sent, sending, down, toPeer, toClient, broker, parted, doomed,
                   crashed>>

ChannelOpened ==
    /\ Turn
    /\ channel = "opening" /\ ~down
    /\ channel' = "open"
    /\ call' = [call EXCEPT ![current] = "scheduled"]
    /\ ticks' = Append(ticks, Job("register", current))
    /\ UNCHANGED <<helper, queue, current, sent, sending, down, toPeer, toClient, broker,
                   parted, doomed, crashed>>

\* The tick of call_api, which writes basic.publish.
Register(m) ==
    /\ Tick(Job("register", m))
    /\ ticks' = Tail(ticks)
    /\ call' = [call EXCEPT ![m] = "pending"]
    /\ WriteNext(m)
    /\ UNCHANGED <<helper, queue, current, channel, down, toClient, broker, parted, doomed,
                   crashed>>

\* The last write has completed: header and body follow.
SendFrame(m) ==
    /\ Turn
    /\ m \in sending
    /\ WriteNext(m)
    /\ UNCHANGED <<helper, queue, current, channel, call, ticks, down, toClient, broker,
                   parted, doomed, crashed>>

\* The body fails as a stream: the rejected send rejects the call, unless the
\* call is settled.
BodyFails(m) ==
    /\ Turn
    /\ m \in sending \cap Broken
    /\ sending' = sending \ {m}
    /\ call' = [call EXCEPT ![m] = IF @ = "pending" THEN "rejected" ELSE @]
    /\ UNCHANGED <<helper, queue, current, channel, sent, ticks, down, toPeer, toClient,
                   broker, parted, doomed, crashed>>

-----------------------------------------------------------------------------
(* The answers *)

\* A piece of the stream is decoded: each of its frames gets a tick.  None of
\* these finds the channel destroyed: only a close destroys it, and nothing
\* follows a close.
Decode ==
    /\ Turn
    /\ \E k \in 1..Len(toClient) :
          /\ parted' = (parted \/ toClient[k].f = "return")
          /\ ticks' = ticks \o [i \in 1..k |-> [type |-> "method", f |-> toClient[i].f, m |-> toClient[i].m]]
          /\ toClient' = SubSeq(toClient, k + 1, Len(toClient))
    /\ UNCHANGED <<helper, stream, down, toPeer, broker, doomed, crashed>>

Pending == {m \in Messages : call[m] = "pending"}

\* Mutant: the test for a return is negated.
OutcomeSwapped(f) == IF f = "return" THEN "acked" ELSE "returned"

\* What the method says of the message: _check_publish_response.
Outcome(f) == IF f = "return" THEN "returned" ELSE "acked"

\* basic.return and basic.ack settle the call that is pending.
HandleAnswer(job) ==
    /\ Tick(job)
    /\ ~down /\ job.f \in {"return", "ack"} /\ Pending # {}
    /\ call' = [m \in Messages |-> IF m \in Pending THEN Outcome(job.f) ELSE call[m]]
    /\ ticks' = Tail(ticks)
    /\ UNCHANGED <<helper, queue, current, channel, sent, sending, down, toPeer, toClient,
                   broker, parted, doomed, crashed>>

\* The methods without a handler.
Unhandled == {"return", "nack"}

\* No call waits: the ack after a return is ignored; the rest is fatal.
HandleStray(job) ==
    /\ Tick(job)
    /\ ~down /\ job.f \in {"return", "ack", "nack"}
    /\ Pending = {} \/ job.f = "nack"
    /\ crashed' = (job.f \in Unhandled)
    /\ ticks' = Tail(ticks)
    /\ UNCHANGED <<helper, stream, down, toPeer, toClient, broker, parted, doomed>>

\* The broker closes the connection.
HandleClose(job) ==
    /\ Tick(job)
    /\ ~down /\ job.f = "close"
    /\ GoDown(Tail(ticks))
    /\ UNCHANGED <<helper, queue, current, channel, sent, sending, toPeer, broker,
                   parted, doomed, crashed>>

\* The callback of the message settles publish() and the stream goes on.
Settle ==
    /\ Continue
    /\ current # None /\ call[current] \in {"acked", "returned"}
    /\ status' = [status EXCEPT ![current] =
                     IF status[current] # "waiting" THEN @
                     ELSE IF call[current] = "acked" THEN "resolved" ELSE "failed"]
    /\ held' = None
    /\ error' = (error \/ call[current] = "returned")
    /\ current' = None
    /\ UNCHANGED <<closed, ending, queue, channel, call, sent, sending, ticks, down,
                   toPeer, toClient, broker, parted, doomed, crashed>>

\* A rejected call fails the write without a callback: the stream is
\* destroyed, and the connection, if it is not, with the same error.  Its text
\* is what destroy writes in the close of the channel and of the connection.
WriteRejected ==
    /\ Continue
    /\ current # None /\ call[current] = "rejected"
    /\ current' = None
    /\ GoDown(ticks)
    /\ doomed' = (doomed \/ (~down /\ current \in Unspeakable))
    /\ UNCHANGED <<helper, queue, channel, sent, sending, toPeer, broker, parted, crashed>>

\* The close that the encoder refused is rejected, and destroy calls fatal:
\* in the same turn of the event loop, before or after the pipeline calls back.
CloseRefused ==
    /\ ~crashed
    /\ doomed
    /\ crashed' = TRUE
    /\ UNCHANGED <<helper, stream, ticks, draining, down, toPeer, toClient, broker,
                   parted, doomed>>

ConnectionFails ==
    /\ Turn
    /\ MayFail /\ ~down
    /\ GoDown(ticks)
    /\ UNCHANGED <<helper, queue, current, channel, sent, sending, toPeer, broker,
                   parted, doomed, crashed>>

-----------------------------------------------------------------------------
(* The broker *)

Send(frames) == toClient' = IF down THEN toClient ELSE toClient \o frames

\* The whole content has come.
Answer(m) ==
    IF m \in Nacked THEN <<[f |-> "nack", m |-> m]>>
    ELSE IF m \in Unroutable THEN <<[f |-> "return", m |-> m], [f |-> "ack", m |-> m]>>
    ELSE <<[f |-> "ack", m |-> m]>>

Expected(f) ==
    IF incoming = NoContent THEN f.f = "publish"
    ELSE f.m = incoming.m /\ f.f = Head(incoming.left)

BrokerReads ==
    /\ toPeer # <<>> /\ ~offence
    /\ toPeer' = Tail(toPeer)
    /\ LET f == Head(toPeer)
           left == IF incoming = NoContent THEN <<"header">> \o Body(f.m) ELSE Tail(incoming.left)
       IN  \/ /\ Expected(f) /\ left # <<>>
              /\ incoming' = [m |-> f.m, left |-> left]
              /\ UNCHANGED <<taken, offence, toClient>>
           \/ /\ Expected(f) /\ left = <<>>
              /\ incoming' = NoContent
              /\ taken' = IF f.m \in Unroutable \cup Nacked THEN taken ELSE taken \cup {f.m}
              /\ Send(Answer(f.m))
              /\ UNCHANGED offence
           \/ /\ ~Expected(f)
              /\ offence' = TRUE
              /\ Send(<<[f |-> "close", m |-> None]>>)
              /\ UNCHANGED <<incoming, taken>>
    /\ UNCHANGED <<helper, stream, ticks, draining, down, parted, doomed, crashed>>

-----------------------------------------------------------------------------
Ticks ==
    \/ \E m \in Messages : Register(m)
    \/ PipelineEnds
    \/ /\ ticks # <<>> /\ Head(ticks).type = "method"
       /\ LET job == Head(ticks)
          IN  HandleAnswer(job) \/ HandleStray(job) \/ HandleClose(job)

Continues == Take \/ Settle \/ WriteRejected \/ Finish \/ CloseRefused

Next ==
    \/ Ticks \/ Continues
    \/ \E m \in Messages : Publish(m) \/ SendFrame(m) \/ BodyFails(m)
    \/ Close
    \/ ChannelOpened \/ Decode \/ ConnectionFails
    \/ BrokerReads

Spec == Init /\ [][Next]_vars

\* The event loop runs, the socket delivers, bodies come to an end and the
\* broker answers what it gets whole.  Nobody has to publish or to close.
FairSpec ==
    /\ Spec
    /\ WF_vars(Ticks) /\ WF_vars(Continues)
    /\ WF_vars(ChannelOpened) /\ WF_vars(Decode)
    /\ \A m \in Messages : WF_vars(SendFrame(m) \/ BodyFails(m))
    /\ WF_vars(BrokerReads)

-----------------------------------------------------------------------------
TypeOK ==
    /\ status \in [Messages -> {"new", "waiting", "resolved", "failed", "refused"}]
    /\ held \in Messages \cup {None} /\ current \in Messages \cup {None}
    /\ error \in BOOLEAN /\ closed \in BOOLEAN /\ down \in BOOLEAN
    /\ ending \in {"no", "asked", "finished"}
    /\ queue \in Seq(Messages)
    /\ channel \in {"none", "opening", "open"}
    /\ call \in [Messages -> {"none", "scheduled", "pending", "acked", "returned", "rejected"}]
    /\ \A m \in Messages : sent[m] \in 0..Len(Frames(m))
    /\ sending \subseteq Messages /\ taken \subseteq Messages
    /\ offence \in BOOLEAN /\ parted \in BOOLEAN
    /\ doomed \in BOOLEAN /\ crashed \in BOOLEAN
    /\ Pending = {} \/ \E m \in Messages : Pending = {m}

Begun(some) == \E m \in some : sent[m] # 0

(* Until a return and its ack are parted, what publish() reports is so,    *)
(* whatever is published at the same time and whatever fails, although     *)
(* confirms are told apart by their order alone: one that resolves has its *)
(* message with the broker, whole and routed ("callback which is called    *)
(* after current message will published", README.md:159); one that fails   *)
(* while the connection lives was for a message that the broker did not    *)
(* take, so publishing it again does not double it; and what ends the      *)
(* process is a basic.nack, which has no handler, or a body that failed    *)
(* with a text that the close of the connection cannot carry.              *)
OutcomesTrue ==
    \/ parted
    \/ /\ \A m \in Messages : status[m] = "resolved" => m \in taken
       /\ \A m \in Messages : status[m] = "failed" /\ ~down => m \notin taken
       /\ crashed => Begun(Nacked) \/ (down /\ Begun(Unspeakable))

(* The frames of two messages are never mixed, and no content is cut short *)
(* by the next: the broker gets the frames it expects, also after a body   *)
(* failed, unless a message had no properties or the ack of another came   *)
(* while a content was being written.                                      *)
ContentsWhole == ~offence \/ Begun(Bare) \/ parted

\* What current_promise is not, when it is not that of m: a later publish()
\* has replaced it, or the callback of an earlier message has cleared it.
Replaced(m) == held \notin {m, None}
Cleared == held = None

(* What keeps a publish() from being settled: the loss of the connection,  *)
(* for all but the last publish(), and for that one too when an earlier    *)
(* message was confirmed or returned after it was published, because the   *)
(* callback of any message clears current_promise (client.ts:243); or a    *)
(* message without properties in the way.                                  *)
PublishSettles ==
    \A m \in Messages :
        status[m] = "waiting"
            ~> \/ status[m] \in {"resolved", "failed"}
               \/ down /\ (Replaced(m) \/ Cleared)
               \/ Begun(Bare) \/ crashed

(* close() is answered by the end of the stream, after every message that  *)
(* was published before it is settled, on a connection that lives.         *)
CloseSettles ==
    ending = "asked"
        ~> \/ ending = "finished" /\ \A m \in Messages : status[m] # "waiting"
           \/ down /\ ending # "finished"
           \/ Begun(Bare) \/ crashed

(* Every publish() and every close() settles, but for what the two except. *)
CallsSettle == PublishSettles /\ CloseSettles
=============================================================================
