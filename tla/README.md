# A TLA+ model of amqp-client

`amqp-client` is an AMQP 0-9-1 client in TypeScript: a connection over one
socket, channels multiplexed on it, a publisher with confirms, a consumer and
one-shot commands. This directory holds its formal model: TLA+ modules, TLC
configurations that check them on small instances, and theorems that TLAPS
proves for every value of the constants. Line numbers below are those of the
files under `src/lib`, `src/proto` and `src/bin`.

## 1. The system

Everything runs on one Node event loop. A *turn* starts with a socket event or
a timer; then the callbacks of `process.nextTick` run, then promise
continuations, and so on until none is left. The client makes heavy use of
both: `call_api` registers a call in a tick, `handle_method` handles a method in
another, and every `await` is a continuation. Most of what is hard here is in
the order of these and in what happens when a channel is destroyed between two
of them.

| Component | State | Operations | What makes it correct |
|---|---|---|---|
| **Requests of a channel** (`ChannelAbstract`, channel.ts 48-154) | `request_callbacks`, `destroyed`, `closed` | `call_api`, `handle_method`, `destroy`, `close` | every call is settled once, and by the answer to its own request; no answer is lost and none ends the process |
| **Channel numbers** (channel.ts 572-613, 660-664) | `Connection.channels` | `channel_open`, `destroy` of a channel and of the connection | two live channels never share a number; the map holds exactly the live channels |
| **Frame decoder** (`DecodeStream`, 156-283) | `cache`, `decode` | `_writevAsync`, `_init`, `_decode` | every complete frame is handed over once, in order, however the stream is cut |
| **Connection and channels** (317-664) | flags, the map, both ends of the socket | `channel_open`, `close`, `destroy`, the close handlers, the pipeline callback | client and broker agree on which channels are open; frames reach the channel they are for; closes end |
| **Opening handshake** (`Connection.open`, 391-482; client.ts 150-190) | `options`, `opened` | start, secure/tune, tune_ok, open; `_connect` | both ends use the limits that were agreed; `open()` ends |
| **Heartbeats** (484-540; client.ts 150-170) | a timeout, an interval, the time of the last input | send loop, check, socket timeout | a live peer is not given up, a dead one is, and no timer outlives its connection |
| **Publisher** (publisher.ts; client.ts 196-262) | streams of messages, the call of the current one, `current_promise`, `error`, `closed` | `publish`, `close`, `_writeAsync`, `_destroyAsync` | a resolved `publish()` is a message the broker took; every `publish()` settles |
| **Consumer** (consumer.ts) | an input of chunks, the message in the making, an output | deliver/header/body, `ack`, `nack`, `unsubscribe`, cancel, `destroy` | messages come out whole, in order, once; every end is an end for the user |
| **Commands** (commands.ts) | none of their own: a connection per command | `execute`, exists/declare/delete/bind/unbind/purge of queues and exchanges | what a call reports was so; what was opened is closed |
| **Wire codec** (codec.ts) | a buffer and an offset | read and write numbers, strings, tables; `writeSocket` | what is written is read back; what the protocol cannot carry is refused |
| **Encoders and decoders** (api.ts), **protocol** (basic.ts ... tx.ts, domain.ts), **generator** (parse_xml.ts) | none | a table each; from the second to the first | the generated code is what the generator makes of the protocol, and its sizes are exact |
| SASL, errors, utilities, sockets, tests | | | see section 7 |

**Interaction.** The socket is piped into `DecodeStream`, which looks a frame's
channel up in `Connection.channels` and calls `handle_method`, `handle_header`,
`handle_body` or `handle_heartbeat` of the object it finds; number 0 is the
connection. A method settles the oldest call that is registered under it, or
else goes to a handler, or else to `fatal`, which is `process.exit(1)`.
Requests go out through an encoder of api.ts and `writeSocket`, which returns
as if it had written when the socket is not open. `destroy` of the connection
destroys every channel in the map; `destroy` of a channel takes its number off
the map at once. `Client.create_publisher`, `create_consumer` and each command
of a `Queue` or an `Exchange` open a connection with a single channel; several
channels on one connection are the contract of the `Connection` class, which is
what `channel_open`, the map and `channel_max` are for.

**What is hard**, in short (the list with lines is under "hazards" in
`PROJECT.json`): ticks and continuations of several actors interleave; frames
of one channel are under way while it is destroyed; numbers are used again; both
ends close at once; `destroy` may run twice, also between two steps of `open()`;
three timers with different intervals watch one socket; the stream is cut
anywhere; an ack comes in a later piece than its return; a body fails or a
connection is lost in the middle of a message; a reader is slow, and a prefetch
limited; what one command looks up is gone when the next changes it; sizes are
counted in bytes and in characters.

## 2. Modules and how they correspond to the code

`PROJECT.json` maps each definition to its lines. Definitions keep the names of
the code; a definition that models the broker, the socket, Node or the user is
marked external. Every module also holds a few operators marked "Mutant": wrong
variants of a definition, each a plausible slip, used to confirm that the
properties tell it apart. The specifications do not use them.

* **Calls**: the abstract promise of a call. A call is made, the peer replies
  to it, it is resolved after its reply or rejected, once.
* **Requests** implements `Calls` (`ImplementsCalls`). One channel object:
  `phase` follows a call through scheduled (the promise exists, its tick is
  due), pending (registered in `callbacks`, the request written), resolved and
  rejected. `net` says where the request or its answer is; `stamp` is the order
  of registration, which is the insertion order of the maps (the `sort()` over
  `UniqueId` objects compares equal strings and keeps it). `Destroyers` are the
  calls that `destroy` itself makes, whose rejection is fatal (line 105).
  `Refusable` are calls whose encoder throws, on an open socket as well: a name
  or a text of an error that is empty or longer than 255 bytes (`EncoderThrows`).
* **ChannelIds**: the choice of a number in `channel_open`, with the string sort
  of line 584, against what `destroy` deletes. `robbed` records that a second
  destroy of an old object took the number of a live one off the map.
* **DecodeStream**: a stream is the sequence of the offsets at which frames
  start; a piece of it ends at any offset of `Splits`.
* **EventLoop**: turns, ticks and continuations, used by the next four.
  `draining` says whether the turn is at its continuations.
* **Connection**: several channel objects and the connection object, each with
  the calls open, close, again (of a second `close()` that overtakes the first)
  and drop (the close that `destroy` sends), against a
  broker that keeps a session per number. Frames carry, for the properties only,
  the object they belong to. `PeerReads` gives the broker's reaction to each
  frame: an answer, or an exception (`offence`) when AMQP forbids the frame.
  Of the connection's other handlers, blocked and unblocked are in `ChannelIds` and
  update_secret is in `Session`.
* **Session**: one connection from its header to its end. `place` is the await
  at which `open()` stands, `awaiting` the responses registered for it, `answer`
  what the await was answered with but has not continued on yet: between the two
  a `destroy` may come. `send` and `check` count down the two heartbeat timers;
  `idle`, `age` and `silence` count up from the last traffic, the last input and
  the last that the server heard. The server answers, refuses, closes, asks for
  a new secret, beats a margin early or late, or stops.
* **Publisher**: `create_publisher` and `PublishStream`. `call` is the one call
  that stands for a message; `sending` holds the messages whose frames are still
  being written by the chain of awaits in `_publish_api_common`. `doomed` says
  that the close which `destroy` sends after the failure of a body was refused
  by its encoder (`Unspeakable`), so that `fatal` follows. The broker
  assembles contents frame by frame and answers ack, return and ack, or nack.
* **Consumer**: the input, the message in the making (`current`, `header`,
  `waitSize`), the output, the body streams and the user who reads and
  acknowledges.
* **Commands**: calls of `Queue` and `Exchange`, each a sequence of commands
  (`Commands`), each command a connection, a channel, the request, and the two
  closes of `execute`. The server holds exchanges, queues and bindings;
  `Refusal` is why it closes a channel. `ever` and `gone` record what existed,
  and what did not, at some moment of a call. `Sent` is what line 519 makes of
  the name of an option.
* **Ops**, **Encoders**, **Decoders**: the tables `API`, `DECODERS` and
  `METHODS` of api.ts, row by row: the calls each row makes on a buffer, with
  their asserts, and the size its buffer is made with.
* **Protocol**: the classes, methods, fields and domains of `src/proto`;
  **Generator**: what parse_xml.ts makes of one of them.
* **Wire** runs a row of `Encoders` on a `BufferWriter` and the row of
  `Decoders` with the same id on a `BufferReader`, one call of a buffer method
  per step. The buffer is a function from offsets to what was put there, with
  its size, so that a reader out of step finds nothing.
* The modules **MC...** give the constants that a configuration file cannot
  express; **ChannelIdsProofs, RequestsProofs, DecodeStreamProofs,
  ConnectionProofs, SessionProofs, PublisherProofs, ConsumerProofs,
  CommandsProofs** hold the theorems.

Use that the models assume: a message is published and a channel opened at most
once, `publish()` is not called after `close()` of the publisher, and the
broker keeps to AMQP. `Requests` is the model of any number of calls, closes
and destroys in any order; `ChannelIds` allows second destroys. In `Connection`
`close()` may be called once on every object and once more on those of
`CloseAgain`, while it is being closed or after it was destroyed. The texts of
errors are such that the encoder of a close takes them, but for `Refusable` in
`Requests` and `Unspeakable` in `Publisher`; in `Publisher` a message whose own
arguments the encoder of basic.publish refuses does not occur. `Consumer` starts
when `subscribe` has returned, `Connection` when `open` has; the opening of the
publisher's channel is one step, and so are the opening and closing of a
connection in `Commands`.

Abstractions: a frame is a record of its number, its method and what the
properties need; the reasons and texts of errors, logging and the contents of
messages are left out. Payload sizes appear in `DecodeStream`, as lengths, in
`Publisher` and `Consumer` as numbers of body frames, and in `Wire` to the byte,
where a text is its length in bytes and in characters and whether it passes the
two patterns of names and keys.

## 3. Runs

| Run | What it asks | Bounds, and why they are enough |
|---|---|---|
| `channel_ids` | Are numbers of live channels distinct, and the map exact? | `ChannelMax` 5, two objects per number: gaps below and above the last id, a full map, a second destroy of each number. Above 9 the answer changes, see the next run; below it, the proof covers every value. |
| `channel_ids_ten` | The same without a second destroy, `ChannelMax` 12 | *violated*: finding 1 |
| `requests` | Who is settled, by what, and is everyone? | Two calls that share a response as return and ack do, one `close()`, two destroys, one call and one destroy with arguments that the encoder refuses: enough for two callbacks under one method, a close that waits while destroy rejects it, and a destroy after a destroy. |
| `decode_stream` | Are frames handed over, at every cut that the decoder supports? | Four frames of the least sizes; cuts up to seven bytes past every start, one by one. Longer frames add offsets of the same kinds. |
| `decode_stream_lost` | The same at every cut | *violated*: finding 2 |
| `connection` | Do client and broker agree, whatever is opened and closed by `close()`? | Three channels on two numbers: numbers are used again while others are open; user, broker and socket may end the connection, and the user may call `close()` of it twice; one delivery or flow. |
| `connection_ends` | What can the other ends of a channel do, and does everything settle? | Two channels on one number, so that the second gets the number of the first; both may be closed from both ends, the first by two `close()`, the second destroyed in use, all at any time, so that a `close()` of the one may come when its number is the other's. |
| `session` | Do both ends hold the same limits, do the living stay and the dead go, does `open()` end? | Five users and five servers: limits and intervals unset, equal, smaller and larger on either side, with and without a timeout. A second is four units and the margin one, so that late, just late and too late differ. The clocks stop at `Longest`, past every limit they are compared with. The server may send one message out of turn (`extra`): after a close it may send nothing more, and after update_secret the client hears nothing more. |
| `publisher` | Does `publish()` tell the truth, and does it settle? | Five messages, each with another fate: returned, failing body, no properties, nacked, failing with a text that no close can carry; none to two body frames; a failing connection; published one by one or all at once. |
| `consumer` | Are messages whole, in order, once, and does every end come through? | Three deliveries of 2, 0 and 1 body frames, prefetch 2: the prefetch is used up, a message without a body comes between two others; unsubscribe, cancel and failure at any moment. |
| `commands` | Is what a call reports true, and what does it leave behind? | Two calls of every pair of operations on a queue and two exchanges, in four worlds (empty; in use; auto-deleted; private to another), with one lost connection and room for one connection or two: the least for a call to meet the other's open connection. Three options, of one, two and three words. |
| `wire` | Is every frame whole, read back as it was given, refused only with cause, and are the tables those the generator makes? | Every method, and the properties; one unusual value per frame, at each boundary of its type, of its checks and of the buffer; fifteen tables, among them every threshold of `tableitem` and texts that fill the buffer to the last bytes. The methods of a buffer do not depend on each other but through the offset, so unusual values need not be combined. |

Deadlock is not checked where the system may really stop: all calls made, the
stream at its end, or the process ended.

### What the passing runs show

* **Numbers.** `Exclusive` and `LiveIsReachable` hold until a channel object is
  destroyed a second time while its number belongs to another (`close()` twice
  does it). `RegisteredIsLive` holds even then.
* **Calls.** Matching answers by method and age is sound (`OwnReply`)
  because requests are written in the tick that registers them, and the stream
  keeps the order. `CrashByDestroy`: the `fatal` of line 106 is reached only
  by the close of a destroy, which a later destroy rejects, whose write fails or
  whose text the encoder refuses; never by a call of the user, a `close()` or
  an answer. `CallsSettle`: the calls of a channel
  that lives are all settled.
* **Stream.** As long as nothing was dropped every complete frame was handed
  over and the rest is cached (`FramesHandedOver`); pieces that end soon after
  a frame start drop nothing (`StaysAligned`).
* **Connection.** As long as every channel that ends does so by one `close()`,
  numbers can be reused safely: `close()` waits for close_ok before it frees the
  number (`Agreement`). `OnlyUncleanEndsHurt`: every trouble (a frame the broker
  forbids, a frame for an unknown number or another's object, a channel that
  has dropped out of the map, the end of the process) begins with a channel
  that was destroyed in use or closed by the broker, with a second `close()` of
  what is closing or destroyed (`Repeated`), or with a flow that crosses a
  `close()`. `EndsSettle`: opens and closes settle, also of two `close()` of one
  object, and a close of the broker is taken; its exceptions are real: a channel
  that has dropped out of the map hears nothing any more.
* **Session.** `LimitsAgree` holds for what is told in tune_ok.
  `LivingStay` names the exceptions of a well-behaved pair: tune_ok tells the
  server the client's own heartbeat while the client sends at the interval of
  the server's tune (`Mismatched`), and the connection timeout stays set on the
  socket, so an idle connection ends when heartbeats are rarer (`Quieter`).
  `SilenceFound` bounds the time in which a dead server is noticed.
  `EndIsQuiet` and `OpenSettles` except two interleavings with `open()`, below.
* **Publisher.** `OutcomesTrue`: confirms without delivery tags are sound
  until a return and its ack come in different pieces of the stream; a failure
  on a live connection means the message was not taken; and what ends the
  process is a nack, or a body that failed with a text no close can carry.
  `ContentsWhole`: only
  a message without properties spoils a content, or a late ack that lets the
  next content begin in the middle of one; a body that fails does not, since
  nothing follows it on its channel.
  `CallsSettle` names what keeps a `publish()` waiting: a connection that is
  lost when `current_promise` is not its own, because a later `publish()`
  replaced it (`Replaced`) or the callback of an earlier message cleared it
  (`Cleared`); or a message without properties ahead of it.
* **Consumer.** `ChunksFit`: none of the "Unexpected ..." errors of
  `_writeAsync` can be reached by a correct broker. `HandedWhole`: messages
  come in order, the end of a body is never a cut, and no ack goes astray on an
  open channel. `ConsumerSettles`: nothing is stuck behind a full output or a
  used-up prefetch, and `unsubscribe()` ends the stream.
* **Commands.** `AnswersTrue` is what is left of atomicity when every command
  has its own connection: what a call reports was so at some moment of it.
  `NothingElseLeft`: a refused command leaves its connection open, and nothing
  else does. `KeysKnown`: options of one or two words reach the server under
  their documented key, options of more words do not.
* **Wire.** `FrameWhole`: the computed sizes of api.ts are exact and a growing
  buffer grows enough. `RoundTrip`, `RefusedForCause` and `GeneratedTables`
  tie codec, generated code, generator and protocol together.

### Findings

1. **Number 10** (channel.ts:584). `sort()` compares the ids as strings; with
   1..10 in use the last is 9, and the next channel is given 10 again, while
   src/proto/channel.ts:38 forbids channel.open on an open channel.
2. **Lost bytes** (channel.ts:265). The start of an incomplete frame is kept
   only when it is shorter than eight bytes; otherwise it is dropped and the
   rest of the stream is read from the middle of the frame.

### Behaviours the properties except

The properties of the passing runs name what the code does not keep, so that the
rest can be stated. No run of its own is kept for these:

* *Channels.* After answering the broker's channel.close, `destroy` sends a
  channel.close of its own on a number that is closed (channel.ts:637;
  src/proto/channel.ts:13-14 gives one or the other). A flow of the broker that
  crosses a `close()` is answered after channel.close, on a channel the broker
  has closed (628, `Crossed`; src/proto/channel.ts:166 wants it discarded). A
  channel that is destroyed in use lets a close_ok for a number that is not in
  the map fail the whole stream, and hands an old close_ok to the next channel of
  its number. A second `close()` before the first has ended sends a second
  channel.close, perhaps on a number that is another channel's by then, and is
  itself rejected; one of a destroyed channel sends nothing, but `destroy` takes
  whatever channel has its number off the map (150-153, 663).
* *End of the process.* `destroy` sends a close whose rejection is `fatal`
  (105-106). One destroy suffices when the encoder refuses the text of the error,
  which is the user's or that of a body's stream, because it is empty or longer than
  255 bytes (98); otherwise it takes another destroy, which a `close()` of a
  connection that was lost is as well, or a write that fails.
* *Opening.* A server that gives no limit of channels (`channel_max` 0) fails
  the assert of tune_ok, so `open()` always fails; a server that gives no
  `frame_max` drops the user's (channel.ts 444-466). When the answer to
  connection.open and an update_secret arrive in one piece, `opened` and the timers
  are set on a destroyed connection (474, 481): they run on (`late`), and a
  second destroy ends the process. When the answer to a request and a close
  arrive in one piece, the next request is not registered in time and `open()`
  waits forever (`Stranded`); without a connection timeout it waits for a silent
  server as well.
* *Heartbeats.* `Mismatched` and `Quieter`, above.
* *Publisher.* A return settles the call, and its ack, in a later piece,
  confirms the next message (publisher.ts:115), and the one after that is then
  written into a content that is still under way. `publish_header` writes nothing
  for a message without properties, which README.md:124 declares optional
  (api.ts:2385): the broker waits for the header and `publish()` for an answer.
  The callback of every message clears `current_promise` (client.ts:243), also when
  it holds the promise of a later `publish()`: when the connection is lost then,
  even the last `publish()`, which no other has replaced, waits forever.
* *Consumer.* The body stream of a message that is cut off by the end of a
  channel neither ends nor fails (consumer.ts:123).
* *Commands.* `exists()` answers false for every failure of its command. A
  private queue is gone when `declare()` returns, with the connection it belongs
  to. A command that failed because the connection was lost may have been done.
  `key.replace("_","-")` (commands.ts:519) changes the first underscore only, so
  that options of three words get another key than the comments from line 287 give.
* *Codec.* Dates can be written and not be read (codec.ts:135), null is read
  back as undefined, and a message with an empty nested table is refused when
  the length of that table falls past the end of the buffer (529).

## 4. Fairness

Safety needs none. The liveness properties are checked under weak fairness of

* the ticks, continuations and timers of the client: the event loop always goes
  on to the next (`Ticks`, `Continues`, `Client`);
* the socket: what has arrived is handed over (`Decode`, `Deliver` of Session),
  and a write ends, with or without an error (`CloseOkWritten`, `SendFrame`);
* the broker: it reads what it was sent and answers (`PeerReads`, `BrokerReads`,
  `Serve`, `Deliver` of Consumer), unless it has stopped;
* time, in Session (`Pass`).

Each is weak: the action stays enabled until it is taken, because only its own
component disables it or the connection ends, which the properties allow. Nothing
obliges the user to publish, open, close, destroy or unsubscribe, the broker to
close, or a socket to fail. The consumer alone assumes a user who goes on
reading and acknowledges what he reads: README.md says that he must, and
`ConsumerSettles` cannot hold without. `Commands` and `Wire` are checked for
safety only: their steps are sequential, and what may keep a command waiting is
in `Session` and `Connection`.

## 5. Theorems

TLAPS checks every one without further assumptions than those named in the
modules (`ASSUME` of the constants; TLC evaluates them in each run).

* **RequestsProofs**: `CallbacksAlwaysExact`, `RepliesMatchRequests`,
  `AnswersAreAwaited`, `CrashOnlyOfDestroy`, `RequestsImplementCalls`, for any
  number of calls, any responses, any number of destroys, and whatever calls the
  encoder refuses. `OwnReply` is not
  inductive. The invariant adds that stamps are distinct and grow (`Stamped`),
  that what is further along in the stream has the smaller stamp (`InOrder`),
  that an answer is one of the request's responses (`Answered`), that
  whatever is in the stream of a live channel is pending (`StreamPending`), and that
  a refused call is off the lists before the answer to a later one (`Prompt`).
  Then the oldest callback under the method of the answer being handled is the
  one of its own request. The refinement maps `phase` to the outcome a caller
  sees; a step of `Requests` is a step of `Calls` or a stutter, a destroy being
  a step that rejects several calls.
  `NobodyWaitsInVain` is what `CallsSettle` needs besides fairness: while the
  channel and its socket live, the request or the answer of a pending call is on
  its way, and as long as somebody waits some call can be taken further. The
  second half takes that a nonempty set of stamps has a least one (`LeastNat`).
* **ChannelIdsProofs**: `ChannelIdsTypeOK`, `ChannelNumbersExclusive`,
  `MapHoldsLiveChannels`, `MapHoldsNoDead`, for every `ChannelMax` up to 9. The
  invariant: the types, no dead number in the map and, until the map is robbed,
  `live` is the characteristic function of the map. The lemmas say that on
  one-digit numbers the last of the sorted ids is the greatest (`LastIdIsMax`)
  and that the number found is then free and within the limit (`NextIdIsFree`),
  which is a counting argument: if the greatest id exceeds the size of the map,
  there is a gap below it, and otherwise the map is 1..n and n is less than
  `ChannelMax`. The hypothesis cannot be dropped (`channel_ids_ten`).
  `NumbersGivenAreFree` says it of every state, also of a map that was robbed.
* **DecodeStreamProofs**: `DecodeStreamTypeOK` and `CompleteFramesHandedOver` for
  every stream and every way to cut it; `KindPiecesStayAligned` when every piece
  ends less than eight bytes past a frame start (`KindPieces`). `Aligned` is the
  strengthening: until the first decoding nothing was handed over, and a stream
  that is a protocol header is never decoded. The hypothesis cannot be dropped
  (`decode_stream_lost`).
* **ConnectionProofs**: `ConnectionTypeOK`, `HurtOnlyByUnclean`,
  `AgreementWhileClean`, for any set of channels, any `channel_max` and whoever
  may close, close again or destroy what. The invariant is `Types`, `Names` and,
  until a channel has ended otherwise than by one `close()` of its own
  (`Spoilt`), `Clean`. `Names` says which tick makes which call, in
  what order a channel makes its calls, and that numbers are those of the map.
  `Clean` says for each channel what is on its way to and from the broker and
  how that fits the two ends: a request finds the broker as it needs it, without a
  session for an open and with its own for a close, and its call pending
  (`Broker`, `Asking`), a session is that of the channel in the map, whose open is
  answered or its answer on its way (`Serving`), a channel in the map has a
  session or a request on its way (`Served`), and what comes for it is the answer
  it waits for, once, and nothing after close_ok (`Coming`). That is why a
  number can be given again as soon as `close()` has returned: close_ok was the
  last frame for it. `Known`, that each frame reaches the channel it is for, is
  not inductive without all of these. `Spoilt` is a little less than what
  `OnlyUncleanEndsHurt` excepts: a channel that answers a close of the broker
  counts only while the number is its own, which is what makes it permanent.
  `AgreementWhileClean` has no hypothesis on who closes what: the two ends agree
  until a channel is destroyed in use, closed by the broker or closed again.
  `NumbersAndAnswers` is what callers and later channels rely on: a number that
  is free in the map is free at the broker and on the way, each open and close
  that waits has exactly one of its request and its answer under way, and what
  they returned is so.
* **SessionProofs**: `SessionLimitsAgree`, `SilentServerFound`,
  `TimersEndWithConnection`, `ConnectionEndsQuietly`, `LivingEndsStay`,
  `SessionTypeOK`, for any users, servers, intervals and margins. The
  limits are agreed between two awaits of `open()`, so the invariant first says
  which answer can come at which place (`Handshake`) and then what `options` and
  the server hold at each (`Limits`). For the silence, the time since the last
  input and the time until the next check never add up to more than allowed
  (`Silence`). `TimersEnd` says that a timer set on a destroyed connection was
  set by an `open()` that continued after the destroy. The end is quiet because
  the server interrupts with one message only (`Interrupted`), the end of a
  socket is handled alone (`EndedAlone`), and the close that destroy sends is
  registered after the handler of the server's close has gone on (`Drops`). Two
  living ends stay connected because what has passed since the last frame and
  what is left on the sender's timer never exceed the interval (`Clocks`); the
  assumption of the module, that the smallest margin fits a second (utils.ts:
  50 ms), keeps the timer from being set to a negative time.
  `OpenNeverForgotten` is what `OpenSettles` needs besides time and fairness:
  until `open()` has ended, what takes it further is under way. It may be its next
  call, an answer, a close of the server or the end of the socket, and the proof
  is that none of these is lost when another is handled before it. Where nothing
  is, the server is silent, which the timeout ends, or `open()` was left behind by
  a destroy (`Stranded`).
* **CommandsProofs**: `CommandsLeaveNothingElse`, `CommandsTypeOK`,
  `CommandsAnswersTrue`, `CommandsKeysKnown`, for any number of calls, any
  operations and worlds. The invariant: an open connection is that of the command
  a call is at, or of one that was refused (`Held`), and a private queue belongs
  to an open connection or was there before (`Owned`). What a call reports rests
  on what it knows (`Knows`): each command that was obeyed left its effect to be
  seen at some moment (`Effects`), only the last command changes anything
  (`Changes`), and a failure was seen by the call itself (`Reports`). For
  `KeysKnown` the calls that give options give the same ones (`OneSetOfOptions`),
  as otherwise a queue may have what another call declared it with; the lemma
  `KeysAsSent` says of any name, for any words, whether its key is the documented
  one.
* **ConsumerProofs**: `ConsumerTypeOK`, `ConsumerChunksFit`,
  `ConsumerHandedWhole`, for any number and size of messages and any prefetch. What
  is on the way to the user is spread over the input of the stream, the ticks
  and the socket. The invariant reads these as one line (`Line`) which starts in
  the middle of the message in the making and ends where the broker is (`Ahead`,
  `Coming`); `Making` and `Whole` then say how far the message in the making and
  those before it are, and the last part that every message the user has or
  will have is still owed by the broker or acknowledged (`Acks`).
  `ConsumerNothingStuck` is what `ConsumerSettles` needs besides fairness: when
  loop, broker and user have nothing left to do, everything was given and has
  ended, or the cancelled consumer's stream has ended and its channel is
  destroyed. For this `Coming` also says how the line ends (`Meets`): after
  the last message the broker has delivered, so that an empty line means that the
  message in the making is complete, unless the user has cancelled.
* **PublisherProofs**: `PublisherTypeOK`, `OutcomesAreTrue`, `ContentsStayWhole`,
  for any messages, bodies, refusals and failures. No answer says which message
  it is about, so the invariant follows the one message that is being written:
  unsent, on its way, complete and answered, returned, or settled (`Phase`). In
  each of these stages it is known what the broker has sent that the client has
  not handled, and until a return is parted from its ack that is nothing but
  the answer to this message. The wire holds the frames of this message alone
  and in order, from the one the broker reads next (`Wire`, `Carries`), so the
  broker expects each of them unless the header is missing. `Outcomes` is then
  inductive: a call is settled only in the stage in which its own answer comes.
  The process ends by a nack, or by the refused close of an `Unspeakable` body,
  which has taken the connection down before.
  `PublishersWaitInLine` is what `CallsSettle` needs besides fairness. A
  `publish()` that waits is in the queue of the stream or being written
  (`WaitsInLine`), and while somebody waits something moves (`LineMoves`), because
  a content that is not written to its end is still being sent (`SentOn`), one
  whose tick is due has it (`Made`) and one that the broker has whole is answered.
  Two exceptions are stated in it: a return that came without its ack, and an
  empty body without properties, of which no header is ever written. When the
  connection is lost only the callback of the pipeline is left, and it rejects
  the promise that `current_promise` holds (`Told`). That is the one of the last
  `publish()` (`HeldIsLast`) or none: after the callback of an earlier message
  has cleared it nobody is told.

Only model-checked:

* liveness: fairness and `ENABLED` are beyond the prover. What was said above of
  each module (`NobodyWaitsInVain`, `OpenNeverForgotten`, `ConsumerNothingStuck`,
  `PublishersWaitInLine`) is proved: no state is dead while somebody waits. That
  the steps are taken, and that there are only so many before the wait ends, is
  what the runs show;
* `Wire`: that what is written is read back. `Put` and the readers are folds over
  the calls of an encoder, the items of tables that may hold tables, and sixty
  methods that are given as data, and the prover can instantiate no theorem of
  induction with an operator parameter, which the facts about folds are. The run
  goes through every method.

## 6. Plan

What is left, in this order:

1. `Consumer`: `subscribe` with basic.qos and basic.consume, and the consumer tag.
2. `Generator`: domains and constants as the XML files give them.

## 7. Not modelled, and why

* Connecting a TCP or TLS socket (client.ts) is the library's. In the models a
  socket is two streams and the moment at which it ends.
* `sasl.ts` encodes credentials, `errors.ts` and `utils.ts` hold error classes
  and option merging: no state.
* The TypeScript types of `src/proto/api.ts`, and the documentation, rules and
  constants in the tables of `src/proto`: they have no behaviour.
* The reading of XML files and the text that `src/bin` writes: file I/O.
* The fraction of a decimal (codec.ts:402): no field of the protocol is a
  decimal and `tableitem` never chooses one, so the methods are not reached.
* A body that is given as a buffer is written as one frame whatever `frame_max`
  is (publisher.ts:147): the code has no behaviour that depends on it.
* `src/test/test.ts` needs a running broker.
